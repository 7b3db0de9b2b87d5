------------------------ MODULE PeriodicCountersProofs ------------------------
(***************************************************************************)
(* Proofs about PeriodicCounters, for any number of request threads, pages *)
(* and requests.                                                           *)
(***************************************************************************)
EXTENDS PeriodicCounters, FiniteSetTheorems, TLAPS

-----------------------------------------------------------------------------
(* Counting the requests at a place.                                       *)

\* The number of requests at the given places when they are where f says.
At(f, places) == Cardinality({r \in Request : f[r] \in places})

LEMMA AtType ==
    ASSUME NEW f, NEW places
    PROVE  At(f, places) \in Nat
<1>1. IsFiniteSet({r \in Request : f[r] \in places})
    BY RequestAssumption, FS_Subset
<1> QED BY <1>1, FS_CardinalityType DEF At

LEMMA AtNone ==
    ASSUME NEW f, NEW places, \A r \in Request : f[r] \notin places
    PROVE  At(f, places) = 0
<1>1. {r \in Request : f[r] \in places} = {}
    OBVIOUS
<1> QED BY <1>1, FS_EmptySet DEF At

-----------------------------------------------------------------------------
(* The inductive invariant.                                                *)

Visiting == At(pc, {"page", "check"})
Getting == At(pc, {"got"})

\* The types without the bounds of the model.
Typed ==
    /\ running \in BOOLEAN
    /\ requests \in Counter
    /\ pc \in [Request -> RequestState]
    /\ page \in [Request -> Page]
    /\ visited \in Nat /\ gets \in Nat /\ latestPage \in Page
    /\ ticks \in 0 .. Increment
    /\ cachedVisits \in Nat /\ cachedPage \in Page /\ cachedGets \in Nat
    /\ visitsInLog \in Nat /\ pageInLog \in Page /\ getsInLog \in Nat
    /\ unrecorded \in Nat

\* A stopped process has no caches and serves no request.
StoppedInv ==
    ~running => /\ cachedVisits = 0 /\ cachedPage = 0 /\ cachedGets = 0
                /\ \A r \in Request : pc[r] = "idle"

\* Where the visits of this run are.
VisitsInv ==
    running => visited = visitsInLog + cachedVisits + Visiting + unrecorded

\* A request adds to one of the counters once.
BoundInv ==
    /\ visitsInLog + cachedVisits + Visiting + unrecorded
         + getsInLog + cachedGets + Getting <= requests
    /\ visited <= requests /\ gets <= requests

Inv == Typed /\ StoppedInv /\ VisitsInv /\ BoundInv /\ PageNeverAhead

\* A request that moves changes the number at any set of places by at most
\* one.
LEMMA PcMoves ==
    ASSUME NEW r \in Request, NEW to,
           pc'[r] = to, \A x \in Request : x # r => pc'[x] = pc[x]
    PROVE  \A places :
          /\ pc[r] \in places /\ to \in places => At(pc', places) = At(pc, places)
          /\ pc[r] \notin places /\ to \notin places => At(pc', places) = At(pc, places)
          /\ pc[r] \in places /\ to \notin places => At(pc', places) = At(pc, places) - 1
          /\ pc[r] \notin places /\ to \in places => At(pc', places) = At(pc, places) + 1
<1> TAKE places
<1> DEFINE S == {x \in Request : pc[x] \in places}
           T == {x \in Request : pc'[x] \in places}
<1>1. IsFiniteSet(S)
    BY RequestAssumption, FS_Subset
<1>2. T = IF to \in places THEN S \cup {r} ELSE S \ {r}
    OBVIOUS
<1>3. r \in S <=> pc[r] \in places
    OBVIOUS
<1>4. Cardinality(S) \in Nat
    BY <1>1, FS_CardinalityType
<1> HIDE DEF S, T
<1>5. Cardinality(S \cup {r}) = IF r \in S THEN Cardinality(S) ELSE Cardinality(S) + 1
    BY <1>1, FS_AddElement
<1>6. Cardinality(S \ {r}) = IF r \in S THEN Cardinality(S) - 1 ELSE Cardinality(S)
    BY <1>1, FS_RemoveElement
<1>7. At(pc, places) = Cardinality(S) /\ At(pc', places) = Cardinality(T)
    BY DEF At, S, T
<1> QED BY <1>2, <1>3, <1>4, <1>5, <1>6, <1>7

\* What a step of one request does to the two numbers.
LEMMA Moves ==
    ASSUME pc \in [Request -> RequestState],
           NEW r \in Request, NEW to, pc' = [pc EXCEPT ![r] = to]
    PROVE  /\ pc[r] = "idle" /\ to = "page" =>
                 Visiting' = Visiting + 1 /\ Getting' = Getting
           /\ pc[r] = "page" /\ to = "check" =>
                 Visiting' = Visiting /\ Getting' = Getting
           /\ pc[r] = "check" /\ to = "idle" =>
                 Visiting' = Visiting - 1 /\ Getting' = Getting
           /\ pc[r] = "idle" /\ to = "got" =>
                 Visiting' = Visiting /\ Getting' = Getting + 1
           /\ pc[r] = "got" /\ to = "idle" =>
                 Visiting' = Visiting /\ Getting' = Getting - 1
<1>1. pc'[r] = to /\ \A x \in Request : x # r => pc'[x] = pc[x]
    OBVIOUS
<1>2. \A places :
          /\ pc[r] \in places /\ to \in places => At(pc', places) = At(pc, places)
          /\ pc[r] \notin places /\ to \notin places => At(pc', places) = At(pc, places)
          /\ pc[r] \in places /\ to \notin places => At(pc', places) = At(pc, places) - 1
          /\ pc[r] \notin places /\ to \in places => At(pc', places) = At(pc, places) + 1
    BY <1>1, PcMoves
<1>3. /\ Visiting = At(pc, {"page", "check"}) /\ Visiting' = At(pc', {"page", "check"})
      /\ Getting = At(pc, {"got"}) /\ Getting' = At(pc', {"got"})
    BY DEF Visiting, Getting
<1> QED BY <1>2, <1>3

LEMMA InvInit == Init => Inv
<1> SUFFICES ASSUME Init PROVE Inv
    OBVIOUS
<1>1. Visiting = 0 /\ Getting = 0
    BY AtNone DEF Init, Visiting, Getting
<1>2. Typed
    BY RequestAssumption, MaxPageAssumption, MaxRequestsAssumption,
       IncrementAssumption DEF Init, Typed, Counter, RequestState, Page
<1> QED BY <1>1, <1>2 DEF Init, Inv, StoppedInv, VisitsInv, BoundInv, PageNeverAhead,
                          Typed, Counter

\* Every step keeps the invariant: a request moves one visit from where it
\* waits to where it is counted, a flush from the cache to the log.
LEMMA InvNext == Inv /\ [Next]_vars => Inv'
<1> SUFFICES ASSUME Inv, [Next]_vars PROVE Inv'
    OBVIOUS
<1> USE RequestAssumption, MaxPageAssumption, MaxRequestsAssumption,
        IncrementAssumption
<1> USE DEF liveVars, cacheVars, logVars, requestVars
<1>t. Visiting \in Nat /\ Getting \in Nat
    BY AtType DEF Visiting, Getting
<1>u. UNCHANGED pc => Visiting' = Visiting /\ Getting' = Getting
    BY DEF Visiting, Getting, At
<1>1. ASSUME NEW r \in Request, NEW p \in Page, Visit(r, p)
      PROVE  Inv'
    <2>1. Visiting' = Visiting + 1 /\ Getting' = Getting
        BY <1>1, Moves DEF Visit, Inv, Typed
    <2>2. Typed' /\ StoppedInv'
        BY <1>1 DEF Visit, Inv, Typed, StoppedInv, Counter, RequestState, Page
    <2>3. VisitsInv' /\ BoundInv'
        BY <1>1, <1>t, <2>1 DEF Visit, Inv, Typed, VisitsInv, BoundInv, Counter
    <2>4. PageNeverAhead'
        BY <1>1 DEF Visit, Inv, Typed, PageNeverAhead
    <2> QED BY <2>2, <2>3, <2>4 DEF Inv
<1>2. ASSUME NEW r \in Request, updateLatestPageVisited(r)
      PROVE  Inv'
    <2>1. Visiting' = Visiting /\ Getting' = Getting
        BY <1>2, Moves DEF updateLatestPageVisited, Inv, Typed
    <2>2. Typed' /\ StoppedInv'
        BY <1>2 DEF updateLatestPageVisited, Inv, Typed, StoppedInv, RequestState, Page
    <2>3. VisitsInv' /\ BoundInv'
        BY <1>2, <2>1 DEF updateLatestPageVisited, Inv, VisitsInv, BoundInv
    <2>4. PageNeverAhead'
        BY <1>2 DEF updateLatestPageVisited, Inv, Typed, PageNeverAhead, Page
    <2> QED BY <2>2, <2>3, <2>4 DEF Inv
<1>3. ASSUME NEW r \in Request, NotUpdatedSinceLastCheck(r)
      PROVE  Inv'
    <2>1. Visiting' = Visiting - 1 /\ Getting' = Getting
        BY <1>3, Moves DEF NotUpdatedSinceLastCheck, Inv, Typed
    <2>2. Typed' /\ StoppedInv'
        BY <1>3 DEF NotUpdatedSinceLastCheck, Inv, Typed, StoppedInv, RequestState
    <2>3. VisitsInv' /\ BoundInv'
        BY <1>3, <1>t, <2>1
        DEF NotUpdatedSinceLastCheck, Inv, Typed, VisitsInv, BoundInv, Counter
    <2>4. PageNeverAhead'
        BY <1>3 DEF NotUpdatedSinceLastCheck, Inv, Typed, PageNeverAhead
    <2> QED BY <2>2, <2>3, <2>4 DEF Inv
<1>4. ASSUME NEW r \in Request, onGetDiscussionThreadById(r)
      PROVE  Inv'
    <2>1. Visiting' = Visiting - 1 /\ Getting' = Getting
        BY <1>4, Moves DEF onGetDiscussionThreadById, Inv, Typed
    <2>2. Typed' /\ StoppedInv'
        BY <1>4 DEF onGetDiscussionThreadById, Inv, Typed, StoppedInv, RequestState, Page
    <2>3. VisitsInv' /\ BoundInv'
        BY <1>4, <1>t, <2>1
        DEF onGetDiscussionThreadById, Inv, Typed, VisitsInv, BoundInv, Counter
    <2>4. PageNeverAhead'
        BY <1>4 DEF onGetDiscussionThreadById, Inv, Typed, PageNeverAhead, Page
    <2> QED BY <2>2, <2>3, <2>4 DEF Inv
<1>5. ASSUME NEW r \in Request, canGetAttachment(r)
      PROVE  Inv'
    <2>1. Visiting' = Visiting /\ Getting' = Getting + 1
        BY <1>5, Moves DEF canGetAttachment, Inv, Typed
    <2>2. Typed' /\ StoppedInv'
        BY <1>5 DEF canGetAttachment, Inv, Typed, StoppedInv, RequestState, Counter
    <2>3. VisitsInv' /\ BoundInv'
        BY <1>5, <1>t, <2>1 DEF canGetAttachment, Inv, Typed, VisitsInv, BoundInv, Counter
    <2>4. PageNeverAhead'
        BY <1>5 DEF canGetAttachment, Inv, Typed, PageNeverAhead
    <2> QED BY <2>2, <2>3, <2>4 DEF Inv
<1>6. ASSUME NEW r \in Request, onGetAttachment(r)
      PROVE  Inv'
    <2>1. Visiting' = Visiting /\ Getting' = Getting - 1
        BY <1>6, Moves DEF onGetAttachment, Inv, Typed
    <2>2. Typed' /\ StoppedInv'
        BY <1>6 DEF onGetAttachment, Inv, Typed, StoppedInv, RequestState
    <2>3. VisitsInv' /\ BoundInv'
        BY <1>6, <1>t, <2>1 DEF onGetAttachment, Inv, Typed, VisitsInv, BoundInv, Counter
    <2>4. PageNeverAhead'
        BY <1>6 DEF onGetAttachment, Inv, Typed, PageNeverAhead
    <2> QED BY <2>2, <2>3, <2>4 DEF Inv
<1>7. CASE timerLoop
    BY <1>7, <1>u DEF timerLoop, Inv, Typed, StoppedInv, VisitsInv, BoundInv, PageNeverAhead
<1>8. CASE updatePeriodicWrites
    <2>1. Typed' /\ StoppedInv'
        BY <1>8 DEF updatePeriodicWrites, Inv, Typed, StoppedInv, Page
    <2>2. VisitsInv' /\ BoundInv'
        BY <1>8, <1>t, <1>u DEF updatePeriodicWrites, Inv, Typed, VisitsInv, BoundInv, Counter
    <2>3. PageNeverAhead'
        BY <1>8 DEF updatePeriodicWrites, Inv, Typed, PageNeverAhead, Page
    <2> QED BY <2>1, <2>2, <2>3 DEF Inv
<1>9. CASE stop
    <2> 0 \in Page /\ 0 \in 0 .. Increment
        BY DEF Page
    <2>1. Typed' /\ StoppedInv'
        BY <1>9 DEF stop, Inv, Typed, StoppedInv
    <2>2. VisitsInv' /\ BoundInv' /\ PageNeverAhead'
        BY <1>9, <1>t, <1>u DEF stop, Inv, Typed, VisitsInv, BoundInv, PageNeverAhead, Counter
    <2> QED BY <2>1, <2>2 DEF Inv
<1>10. CASE import
    <2>1. Visiting = 0 /\ Getting = 0
        BY <1>10, AtNone DEF import, Inv, StoppedInv, Visiting, Getting
    <2>2. Typed' /\ StoppedInv'
        BY <1>10 DEF import, Inv, Typed, StoppedInv
    <2>3. VisitsInv' /\ BoundInv'
        BY <1>10, <1>u, <2>1 DEF import, Inv, Typed, StoppedInv, VisitsInv, BoundInv, Counter
    <2>4. PageNeverAhead'
        BY <1>10 DEF import, Inv, Typed, StoppedInv, PageNeverAhead, Page
    <2> QED BY <2>2, <2>3, <2>4 DEF Inv
<1>11. CASE UNCHANGED vars
    BY <1>11, <1>u DEF vars, Inv, Typed, StoppedInv, VisitsInv, BoundInv, PageNeverAhead
<1> QED BY <1>1, <1>2, <1>3, <1>4, <1>5, <1>6, <1>7, <1>8, <1>9, <1>10, <1>11
        DEF Next, Serve, Timer

LEMMA InvAlways == Spec => []Inv
BY InvInit, InvNext, PTL DEF Spec

-----------------------------------------------------------------------------
(* Theorems.                                                               *)

\* The counters, caches and sums in the log never exceed the number of
\* requests, and pages stay in range.
THEOREM TypeCorrect == Spec => []TypeOK
<1>1. Inv => TypeOK
    <2> SUFFICES ASSUME Inv PROVE TypeOK
        OBVIOUS
    <2>1. Visiting \in Nat /\ Getting \in Nat
        BY AtType DEF Visiting, Getting
    <2> QED BY <2>1, MaxRequestsAssumption DEF Inv, Typed, BoundInv, TypeOK, Counter
<1> QED BY <1>1, InvAlways, PTL

\* Between fetch_add in getDiscussionThreadById and the log no visit is lost
\* or counted twice, however many readers run while updatePeriodicWrites
\* empties the caches.
THEOREM VisitsTheorem == Spec => []VisitsAccountedFor
<1>1. Inv => VisitsAccountedFor
    BY DEF Inv, VisitsInv, VisitsAccountedFor, Pending, Visiting, At
<1> QED BY <1>1, InvAlways, PTL

\* Neither the cache of latest pages nor the log is ever ahead of the page
\* that User::updateLatestPageVisited has stored.
THEOREM PageTheorem == Spec => []PageNeverAhead
<1>1. Inv => PageNeverAhead
    BY DEF Inv
<1> QED BY <1>1, InvAlways, PTL
=============================================================================
