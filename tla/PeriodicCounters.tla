--------------------------- MODULE PeriodicCounters ---------------------------
(***************************************************************************)
(* Low-priority counters: how often a thread was visited, how often an     *)
(* attachment was fetched and the latest page of a thread a user has seen. *)
(* Requests change them in memory under a shared lock only, the            *)
(* EventObserver collects the changes in its caches, and a timer thread    *)
(* turns the caches into events.  A start of the application adds up the   *)
(* events.                                                                 *)
(*                                                                         *)
(* One thread, one attachment and one (not anonymous) user: the caches of  *)
(* different ids are independent.  An event that was recorded counts as    *)
(* written; what can happen to it on the way is in EventPersistence.       *)
(***************************************************************************)
EXTENDS Naturals, FiniteSets

CONSTANTS
    Request,      \* the threads that serve requests
    MaxPage,      \* bound of the model: largest page number asked for
    MaxRequests,  \* bound of the model: requests over all runs
    Increment     \* updatePeriodicUpdatesIncrement

ASSUME RequestAssumption == IsFiniteSet(Request)
ASSUME MaxPageAssumption == MaxPage \in Nat
ASSUME MaxRequestsAssumption == MaxRequests \in Nat
ASSUME IncrementAssumption == Increment \in Nat \ {0}

Page == 0 .. MaxPage        \* 0: no page number was given, or none is known

VARIABLES
    running,      \* the process runs and its timer thread with it
    requests,     \* requests so far
    pc,           \* pc[r]: where the request served by thread r is
    page,         \* page[r]: page number asked for, then the one to persist
    visited,      \* DiscussionThread::visited_
    gets,         \* Attachment::nrOfGetRequests_
    latestPage,   \* User::latestThreadPageVisited_ for the thread
    ticks,        \* timerPeriodicUpdates
    cachedVisits, \* cachedNrOfThreadVisits for the thread
    cachedPage,   \* cachedLatestVisitedPage for user and thread
    cachedGets,   \* cachedNrOfAttachmentGets for the attachment
    visitsInLog,  \* sum of the recorded INCREMENT_..._NUMBER_OF_VISITS events
    pageInLog,    \* the last recorded INCREMENT_USER_LATEST_VISITED_PAGE
    getsInLog,    \* sum of the recorded INCREMENT_ATTACHMENT_NUMBER_OF_GETS
    unrecorded    \* history: visits of this run answered with "not updated"

liveVars == <<visited, gets, latestPage>>
cacheVars == <<cachedVisits, cachedPage, cachedGets>>
logVars == <<visitsInLog, pageInLog, getsInLog>>
requestVars == <<requests, pc, page>>
vars == <<running, ticks, requestVars, liveVars, cacheVars, logVars, unrecorded>>

Counter == 0 .. MaxRequests
RequestState == {"idle", "page", "check", "got"}

TypeOK ==
    /\ running \in BOOLEAN
    /\ requests \in Counter
    /\ pc \in [Request -> RequestState]
    /\ page \in [Request -> Page]
    /\ visited \in Counter /\ gets \in Counter /\ latestPage \in Page
    /\ ticks \in 0 .. Increment
    /\ cachedVisits \in Counter /\ cachedPage \in Page /\ cachedGets \in Counter
    /\ visitsInLog \in Counter /\ pageInLog \in Page /\ getsInLog \in Counter
    /\ unrecorded \in Counter

Init ==
    /\ running = TRUE
    /\ requests = 0
    /\ pc = [r \in Request |-> "idle"]
    /\ page = [r \in Request |-> 0]
    /\ visited = 0 /\ gets = 0 /\ latestPage = 0
    /\ ticks = 0
    /\ cachedVisits = 0 /\ cachedPage = 0 /\ cachedGets = 0
    /\ visitsInLog = 0 /\ pageInLog = 0 /\ getsInLog = 0
    /\ unrecorded = 0
-----------------------------------------------------------------------------
(* getDiscussionThreadById, under the shared lock of the collection.       *)

\* visited().fetch_add(1)
Visit(r, p) ==
    /\ running
    /\ pc[r] = "idle"
    /\ requests < MaxRequests
    /\ requests' = requests + 1
    /\ visited' = visited + 1
    /\ page' = [page EXCEPT ![r] = p]
    /\ pc' = [pc EXCEPT ![r] = "page"]
    /\ UNCHANGED <<running, ticks, gets, latestPage, cacheVars, logVars,
                   unrecorded>>

MutantLatestPageLowered(r) ==
    /\ pc[r] = "page"
    /\ latestPage' = IF page[r] > 0 THEN page[r] ELSE latestPage
    /\ pc' = [pc EXCEPT ![r] = "check"]
    /\ UNCHANGED <<running, requests, page, ticks, visited, gets, cacheVars,
                   logVars, unrecorded>>

\* User::updateLatestPageVisited under its own lock: only a larger page is
\* stored and will be persisted.
updateLatestPageVisited(r) ==
    /\ pc[r] = "page"
    /\ \/ /\ page[r] > latestPage
          /\ latestPage' = page[r]
          /\ UNCHANGED page
       \/ /\ page[r] <= latestPage
          /\ page' = [page EXCEPT ![r] = 0]
          /\ UNCHANGED latestPage
    /\ pc' = [pc EXCEPT ![r] = "check"]
    /\ UNCHANGED <<running, requests, ticks, visited, gets, cacheVars, logVars,
                   unrecorded>>

\* checkNotChangedSince: the early return comes before the read event.
NotUpdatedSinceLastCheck(r) ==
    /\ pc[r] = "check"
    /\ pc' = [pc EXCEPT ![r] = "idle"]
    /\ unrecorded' = unrecorded + 1
    /\ UNCHANGED <<running, requests, page, ticks, liveVars, cacheVars, logVars>>

\* EventObserver::onGetDiscussionThreadById under periodicUpdatesMutex.
onGetDiscussionThreadById(r) ==
    /\ pc[r] = "check"
    /\ cachedVisits' = cachedVisits + 1
    /\ cachedPage' = IF page[r] > 0 THEN page[r] ELSE cachedPage
    /\ pc' = [pc EXCEPT ![r] = "idle"]
    /\ UNCHANGED <<running, requests, page, ticks, liveVars, cachedGets, logVars,
                   unrecorded>>
-----------------------------------------------------------------------------
(* canGetAttachment and its observer.                                      *)

canGetAttachment(r) ==
    /\ running
    /\ pc[r] = "idle"
    /\ requests < MaxRequests
    /\ requests' = requests + 1
    /\ gets' = gets + 1
    /\ pc' = [pc EXCEPT ![r] = "got"]
    /\ UNCHANGED <<running, page, ticks, visited, latestPage, cacheVars, logVars,
                   unrecorded>>

onGetAttachment(r) ==
    /\ pc[r] = "got"
    /\ cachedGets' = cachedGets + 1
    /\ pc' = [pc EXCEPT ![r] = "idle"]
    /\ UNCHANGED <<running, requests, page, ticks, liveVars, cachedVisits,
                   cachedPage, logVars, unrecorded>>
-----------------------------------------------------------------------------
(* The timer thread.                                                       *)

\* One second passes.
timerLoop ==
    /\ running
    /\ ticks < Increment
    /\ ticks' = ticks + 1
    /\ UNCHANGED <<running, requestVars, liveVars, cacheVars, logVars, unrecorded>>

MutantVisitsNotCleared ==
    /\ running
    /\ ticks >= Increment
    /\ visitsInLog' = visitsInLog + cachedVisits
    /\ pageInLog' = IF cachedPage > 0 THEN cachedPage ELSE pageInLog
    /\ getsInLog' = getsInLog + cachedGets
    /\ cachedPage' = 0 /\ cachedGets' = 0
    /\ ticks' = 0
    /\ UNCHANGED <<running, requestVars, liveVars, cachedVisits, unrecorded>>

MutantGetsForgotten ==
    /\ running
    /\ ticks >= Increment
    /\ visitsInLog' = visitsInLog + cachedVisits
    /\ pageInLog' = IF cachedPage > 0 THEN cachedPage ELSE pageInLog
    /\ cachedVisits' = 0 /\ cachedPage' = 0
    /\ ticks' = 0
    /\ UNCHANGED <<running, requestVars, liveVars, cachedGets, getsInLog,
                   unrecorded>>

\* updatePeriodicWrites holds periodicUpdatesMutex from the first event to
\* the last clear().
updatePeriodicWrites ==
    /\ running
    /\ ticks >= Increment
    /\ visitsInLog' = visitsInLog + cachedVisits
    /\ pageInLog' = IF cachedPage > 0 THEN cachedPage ELSE pageInLog
    /\ getsInLog' = getsInLog + cachedGets
    /\ cachedVisits' = 0 /\ cachedPage' = 0 /\ cachedGets' = 0
    /\ ticks' = 0
    /\ UNCHANGED <<running, requestVars, liveVars, unrecorded>>
-----------------------------------------------------------------------------
\* ~EventObserverImpl joins the timer thread; the caches are not written.
stop ==
    /\ running
    /\ \A r \in Request : pc[r] = "idle"
    /\ running' = FALSE
    /\ cachedVisits' = 0 /\ cachedPage' = 0 /\ cachedGets' = 0
    /\ ticks' = 0
    /\ UNCHANGED <<requestVars, liveVars, logVars, unrecorded>>

\* import(): updateDiscussionThreadVisitCount and
\* updateDiscussionThreadLatestVisitedPage fill the new entities;
\* updateAttachmentGetCount is never called.
import ==
    /\ ~running
    /\ running' = TRUE
    /\ visited' = visitsInLog
    /\ latestPage' = pageInLog
    /\ gets' = 0
    /\ unrecorded' = 0
    /\ UNCHANGED <<ticks, requestVars, cacheVars, logVars>>
-----------------------------------------------------------------------------
Serve(r) ==
    \/ \E p \in Page : Visit(r, p)
    \/ updateLatestPageVisited(r) \/ NotUpdatedSinceLastCheck(r)
    \/ onGetDiscussionThreadById(r) \/ canGetAttachment(r) \/ onGetAttachment(r)

Timer == timerLoop \/ updatePeriodicWrites

Next == (\E r \in Request : Serve(r)) \/ Timer \/ stop \/ import

Spec == Init /\ [][Next]_vars

\* The timer thread keeps running while the process does.
FairSpec == Spec /\ WF_vars(Timer)
-----------------------------------------------------------------------------
(* Properties.                                                             *)

\* Number of requests that are at one of the given places.
Pending(places) == Cardinality({r \in Request : pc[r] \in places})

\* No visit is counted twice or dropped between a request and the log: the
\* clear() of updatePeriodicWrites never swallows one that came meanwhile.
\* Only the "not updated since" answer counts a visit it does not record.
VisitsAccountedFor ==
    running =>
        visited = visitsInLog + cachedVisits + Pending({"page", "check"}) + unrecorded

\* The log never claims a page that the user has not opened, so a restart
\* never shows a later page than the user has seen.
PageNeverAhead ==
    running =>
        /\ pageInLog <= latestPage
        /\ cachedPage <= latestPage
        /\ \A r \in Request : pc[r] = "check" => page[r] <= latestPage

\* Everything the caches hold is written in the end, or the process stops.
CachesAreFlushed ==
    (cachedVisits > 0 \/ cachedPage > 0 \/ cachedGets > 0)
        ~> (cachedVisits = 0 /\ cachedPage = 0 /\ cachedGets = 0)
=============================================================================
