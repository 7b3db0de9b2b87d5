------------------------------ MODULE Requests ------------------------------
(* A request on its way through a worker thread: the thread-local context   *)
(* and parameters of ServiceEndpoints, the sessions of AuthStore, the       *)
(* CommandHandler, the lock of the collection with the delayed update of    *)
(* the time a user was last seen, and throttling.                           *)
(*                                                                          *)
(* A section under the write lock is one step; a view holds the read lock   *)
(* from BeginView to EndView.  The privileges that a command needs are the  *)
(* subject of module Privileges: here a command may be refused at will.     *)
(* Whatever commands do to threads, messages, tags and so on is left to the *)
(* other modules.                                                           *)
EXTENDS Endpoints

CONSTANTS
    Worker,         \* threads that serve requests
    User,           \* identifiers of accounts
    NoUser,         \* no account: a default constructed identifier
    Auth,           \* identities that the login service vouches for
    NoAuth,         \* an empty authentication string
    Token,          \* values of the auth cookie
    NoToken,        \* the request has no such cookie
    Ip,             \* the address that all requests come from
    MaxAllowed,     \* throttling: that many actions ...
    Period,         \* ... in that much time
    Precision,      \* lastSeenUpdatePrecision
    CleanupEvery,   \* time between two cleanups of the sessions
    Scenes          \* configurations and bounds, see scene

ASSUME ThrottlingAssumption ==
    MaxAllowed \in Nat \ {0} /\ Period \in Nat \ {0} /\ Precision \in Nat

\* The accounts that a run starts with have different identities.
ASSUME ScenesAssumption ==
    \A s \in Scenes :
        /\ s.authOf \in [User -> Auth \cup {NoAuth}]
        /\ \A u, v \in User :
               s.authOf[u] = s.authOf[v] => u = v \/ s.authOf[u] = NoAuth
        /\ s.announced \subseteq [token : Token, auth : Auth, until : Nat]
        /\ s.workers \subseteq Worker /\ s.tokens \subseteq Token \cup {NoToken}
        /\ s.durations \subseteq Nat
        /\ s.endpoints \subseteq Endpoint

VARIABLES
    scene,          \* the configuration and the bounds; never changes
    now,            \* Context::getCurrentTime()
    sessions,       \* AuthStore: token -> identity and time of expiry
    lastCleanup,
    logins,         \* history: all logins
    authOf,         \* account -> its identity, NoAuth if never created
    live,           \* accounts that exist
    lastSeen,       \* account -> time
    entries,        \* throttling: the circular arrays, oldest entry first
    passed,         \* history: the times of the attempts that were let through
    readers,        \* workers that hold the read lock of the collection
    worker,         \* the state of each worker
    served          \* number of requests received so far

vars == <<scene, now, sessions, lastCleanup, logins, authOf, live, lastSeen,
          entries, passed, readers, worker, served>>

Store == <<sessions, lastCleanup, logins>>
Accounts == <<authOf, live>>
Throttle == <<entries, passed>>

Action == {"NEW_CONTENT", "EDIT_CONTENT", "EDIT_PRIVILEGES", "VOTE", "SUBSCRIBE"}
Nothing == [endpoint |-> "none"]
NoUpdate == [user |-> NoUser, at |-> 0]

TypeOK ==
    /\ scene \in Scenes
    /\ now \in Nat
    /\ \A k \in DOMAIN sessions : k \in Token /\ sessions[k].auth \in Auth
    /\ authOf \in [User -> Auth \cup {NoAuth}]
    /\ live \subseteq {u \in User : authOf[u] # NoAuth}
    /\ lastSeen \in [User -> Nat]
    /\ \A who \in User \cup {Ip}, a \in Action : Len(entries[who][a]) = MaxAllowed
    /\ readers \subseteq Worker
    /\ \A w \in Worker :
           /\ worker[w].pc \in {"idle", "handle", "command", "view", "reading",
                                "update", "answer"}
           /\ worker[w].user \in User \cup {NoUser}
           /\ worker[w].auth \in Auth \cup {NoAuth}

\* A worker moves on to pc.
To(w, pc) == worker' = [worker EXCEPT ![w].pc = pc]

\* A worker is done, with a status.
Answer(w, status) ==
    worker' = [worker EXCEPT ![w].pc = "answer", ![w].status = status]
----------------------------------------------------------------------------
(* AuthStore.                                                               *)

\* A token that is stored already keeps its identity and its time of expiry.
add(k, a, expiresIn) ==
    LET due == now - lastCleanup >= CleanupEvery
        kept == IF due THEN {x \in DOMAIN sessions : sessions[x].expires >= now}
                ELSE DOMAIN sessions
    IN /\ lastCleanup' = IF due THEN now ELSE lastCleanup
       /\ sessions' = [x \in kept \cup {k} |->
                          IF x \in kept THEN sessions[x]
                          ELSE [auth |-> a, expires |-> now + expiresIn]]

MutantFind(k) == IF k \in DOMAIN sessions THEN sessions[k].auth ELSE NoAuth

find(k) ==
    IF k \in DOMAIN sessions /\ sessions[k].expires >= now THEN sessions[k].auth
    ELSE NoAuth

\* The login service, which listens to its own port, announces a token.  It
\* never announces one token for two identities.
loginUser(k, a, expiresIn) ==
    /\ Cardinality(logins) < scene.logins
    /\ \A l \in logins : l.token = k => l.auth = a
    /\ add(k, a, expiresIn)
    /\ logins' = logins \cup {[token |-> k, auth |-> a, until |-> now + expiresIn]}
    /\ UNCHANGED <<scene, now, authOf, live, lastSeen, entries, passed, readers,
                   worker, served>>
----------------------------------------------------------------------------
(* ServiceEndpoints.                                                        *)

\* The path of a request: parts that follow the last one in use are missing.
PathOf(r) ==
    LET used == {i \in 1 .. 4 : r.values[i] # ""}
        n == IF used = {} THEN 0 ELSE CHOOSE i \in used : \A j \in used : j <= i
    IN Routes[r.endpoint] \o [i \in 1 .. n |-> r.values[i]]

MutantContext(w, r, allowAuth) ==
    [worker[w] EXCEPT !.auth = IF allowAuth /\ r.token # NoToken THEN find(r.token)
                               ELSE NoAuth]

\* The context of a request, which replaces that of the worker's last one.
updateContextForRequest(w, r, allowAuth) ==
    [worker[w] EXCEPT !.user = NoUser,
                      !.auth = IF allowAuth /\ r.token # NoToken THEN find(r.token)
                               ELSE NoAuth]

MutantHandleInternal(w, r) ==
    LET e == forward(PathOf(r))
        parts == extractExtraPathParts(e, PathOf(r))
        own == [i \in 1 .. Len(Gives[e]) |->
                   IF Gives[e][i] = Body THEN r.values[Body]
                   ELSE parts[Gives[e][i]]]
    IN worker' = [worker EXCEPT ![w] =
           [updateContextForRequest(w, r, r.csrf) EXCEPT
               !.pc = "handle", !.request = r, !.since = now, !.endpoint = e,
               !.params = @ \o own]]

\* The parameters are cleared, the endpoint pushes its own.  A request that
\* fails the double submit check is served as that of a visitor.
handleInternal(w, r) ==
    LET e == forward(PathOf(r))
        parts == extractExtraPathParts(e, PathOf(r))
        own == [i \in 1 .. Len(Gives[e]) |->
                   IF Gives[e][i] = Body THEN r.values[Body]
                   ELSE parts[Gives[e][i]]]
    IN worker' = [worker EXCEPT ![w] =
           [updateContextForRequest(w, r, r.csrf) EXCEPT
               !.pc = "handle", !.request = r, !.since = now, !.endpoint = e,
               !.params = own]]

\* An unexpected Origin or Referer is answered at once, the context of the
\* worker stays as it was.
Receive(w, r) ==
    /\ worker[w].pc = "idle"
    /\ served < scene.requests
    /\ served' = served + 1
    /\ IF r.origin THEN handleInternal(w, r)
       ELSE worker' = [worker EXCEPT ![w].pc = "answer", ![w].status = "BAD_REQUEST",
                                     ![w].request = r, ![w].since = now]
    /\ UNCHANGED <<scene, now, sessions, lastCleanup, logins, authOf, live,
                   lastSeen, entries, passed, readers>>

Reply(w) ==
    /\ worker[w].pc = "answer"
    /\ worker' = [worker EXCEPT ![w].pc = "idle", ![w].request = Nothing,
                                ![w].endpoint = "none", ![w].status = "", ![w].since = 0,
                                ![w].update = NoUpdate]
    /\ UNCHANGED <<scene, now, sessions, lastCleanup, logins, authOf, live,
                   lastSeen, entries, passed, readers, served>>
----------------------------------------------------------------------------
(* CommandHandler.                                                          *)

\* A visitor stays one; so does an identity without an account.
updateCurrentUserId(w) ==
    LET known == {u \in live : authOf[u] = worker[w].auth}
    IN IF worker[w].auth = NoAuth \/ known = {} THEN worker[w].user
       ELSE CHOOSE u \in known : TRUE

\* No worker writes while another takes the read lock for the lookup; a write
\* section is one step, so there is nothing to wait for.  CAN_ADD_ATTACHMENT is
\* registered as a view, but the repository serves it under the write lock.
handle(w) ==
    LET self == worker[w]
        user == updateCurrentUserId(w)
        view == IsView(self.endpoint)
        status == IF ~view /\ scene.disableCommands THEN "NOT_ALLOWED"
                  ELSE IF ~view /\ scene.disableAnonymous /\ user = NoUser
                       THEN "NOT_ALLOWED"
                  ELSE IF ~Accepts(Handlers[self.endpoint], self.params)
                       THEN "INVALID_PARAMETERS"
                  ELSE ""
    IN /\ self.pc = "handle"
       /\ worker' = [worker EXCEPT
              ![w].user = user,
              ![w].status = status,
              ![w].pc = IF status # "" THEN "answer"
                        ELSE IF view /\ self.endpoint # "CAN_ADD_ATTACHMENT"
                             THEN "view" ELSE "command"]
       /\ UNCHANGED <<scene, now, sessions, lastCleanup, logins, authOf, live,
                      lastSeen, entries, passed, readers, served>>
----------------------------------------------------------------------------
(* Throttling.                                                              *)

Who(u) == IF u = NoUser THEN Ip ELSE u

MutantIsAllowed(who, a) ==
    /\ entries' = [entries EXCEPT ![who][a] = Tail(@) \o <<now>>]
    /\ passed' = IF Head(entries[who][a]) + Period > now + 1 THEN passed
                 ELSE [passed EXCEPT ![who][a] = Append(@, now)]

\* The oldest entry becomes the newest one, whether or not the attempt is let
\* through.
ThrottlingCheck_isAllowed(who, a) ==
    /\ entries' = [entries EXCEPT ![who][a] = Tail(@) \o <<now>>]
    /\ passed' = IF Head(entries[who][a]) + Period > now THEN passed
                 ELSE [passed EXCEPT ![who][a] = Append(@, now)]

\* Whether an attempt counts; the others are let through.
Counted(u, e, empty) ==
    /\ e \in DOMAIN Throttling
    /\ u \notin scene.exempt
    /\ ~(empty /\ e \in FreeOnEmptyThread)

isThrottled(u, e, empty) ==
    /\ Counted(u, e, empty)
    /\ Head(entries[Who(u)][Throttling[e]]) + Period > now

Attempt(u, e, empty) ==
    IF Counted(u, e, empty) THEN ThrottlingCheck_isAllowed(Who(u), Throttling[e])
    ELSE UNCHANGED Throttle
----------------------------------------------------------------------------
(* Commands, each under the write lock.                                     *)

\* getCurrentUser: the account may be gone since the request was received.
Actor(w) == IF worker[w].user \in live THEN worker[w].user ELSE NoUser

\* getAndUpdate.
SeenNow(u) ==
    IF u # NoUser /\ lastSeen[u] + Precision < now
    THEN [lastSeen EXCEPT ![u] = now] ELSE lastSeen

Writes(w) == worker[w].pc = "command" /\ readers = {}

MutantAddNewUser(w, new, allowed) ==
    LET auth == worker[w].auth
        known == \E u \in live : authOf[u] = auth
        ok == allowed /\ ~isThrottled(NoUser, "ADD_USER", FALSE)
    IN /\ Writes(w)
       /\ worker[w].endpoint = "ADD_USER"
       /\ authOf[new] = NoAuth
       /\ auth # NoAuth
       /\ Attempt(NoUser, "ADD_USER", FALSE)
       /\ authOf' = IF ok THEN [authOf EXCEPT ![new] = auth] ELSE authOf
       /\ live' = IF ok THEN live \cup {new} ELSE live
       /\ lastSeen' = SeenNow(Actor(w))
       /\ Answer(w, "DONE")
       /\ UNCHANGED <<scene, now, sessions, lastCleanup, logins, readers, served>>

\* Only an identity without an account may register.
addNewUser(w, new, allowed) ==
    LET auth == worker[w].auth
        visitor == Actor(w) = NoUser
        known == \E u \in live : authOf[u] = auth
        ok == visitor /\ allowed /\ ~known /\ ~isThrottled(NoUser, "ADD_USER", FALSE)
    IN /\ Writes(w)
       /\ worker[w].endpoint = "ADD_USER"
       /\ authOf[new] = NoAuth
       /\ auth # NoAuth
       /\ IF visitor THEN Attempt(NoUser, "ADD_USER", FALSE) ELSE UNCHANGED Throttle
       /\ authOf' = IF ok THEN [authOf EXCEPT ![new] = auth] ELSE authOf
       /\ live' = IF ok THEN live \cup {new} ELSE live
       /\ lastSeen' = SeenNow(Actor(w))
       /\ Answer(w, "DONE")
       /\ UNCHANGED <<scene, now, sessions, lastCleanup, logins, readers, served>>

\* Nobody is granted more than himself, so nobody deletes himself.
deleteUser(w, target, allowed) ==
    LET u == Actor(w)
        found == target \in live
        ok == /\ found /\ allowed /\ u # target
              /\ ~isThrottled(u, "DELETE_USER", FALSE)
    IN /\ Writes(w)
       /\ worker[w].endpoint = "DELETE_USER"
       /\ IF found THEN Attempt(u, "DELETE_USER", FALSE) ELSE UNCHANGED Throttle
       /\ live' = IF ok THEN live \ {target} ELSE live
       /\ lastSeen' = SeenNow(u)
       /\ Answer(w, "DONE")
       /\ UNCHANGED <<scene, now, sessions, lastCleanup, logins, authOf, readers,
                      served>>

\* Any other command.  It gets as far as the authorization if what it is about
\* exists and is not the user's own; empty tells whether its thread is.
OtherCommand(w, reached, empty) ==
    LET u == Actor(w)
        e == worker[w].endpoint
        refused == \/ e \in RefusedToVisitors /\ worker[w].user = NoUser
                   \/ e \in RefusedToAnonymous /\ u = NoUser
    IN /\ Writes(w)
       /\ e # "DELETE_USER"
       /\ e = "ADD_USER" => worker[w].auth = NoAuth
       /\ empty => e \in FreeOnEmptyThread
       /\ IF reached /\ ~refused /\ e # "ADD_USER"
          THEN Attempt(u, e, empty) ELSE UNCHANGED Throttle
       /\ lastSeen' = IF e = "ADD_USER" THEN lastSeen ELSE SeenNow(u)
       /\ Answer(w, "DONE")
       /\ UNCHANGED <<scene, now, sessions, lastCleanup, logins, authOf, live,
                      readers, served>>
----------------------------------------------------------------------------
(* Views, under the read lock, and the update that follows them.            *)

\* PerformedByWithLastSeenUpdateGuard::get.
BeginView(w) ==
    LET u == Actor(w)
    IN /\ worker[w].pc = "view"
       /\ readers' = readers \cup {w}
       /\ worker' = [worker EXCEPT
              ![w].pc = "reading",
              ![w].update = IF u # NoUser /\ lastSeen[u] + Precision < now
                            THEN [user |-> u, at |-> now] ELSE NoUpdate]
       /\ UNCHANGED <<scene, now, sessions, lastCleanup, logins, authOf, live,
                      lastSeen, entries, passed, served>>

MutantEndView(w) ==
    /\ worker[w].pc = "reading"
    /\ readers' = IF worker[w].update = NoUpdate THEN readers \ {w} ELSE readers
    /\ IF worker[w].update = NoUpdate THEN Answer(w, "DONE") ELSE To(w, "update")
    /\ UNCHANGED <<scene, now, sessions, lastCleanup, logins, authOf, live,
                   lastSeen, entries, passed, served>>

\* The guard is destroyed after the lock is released.
EndView(w) ==
    /\ worker[w].pc = "reading"
    /\ readers' = readers \ {w}
    /\ IF worker[w].update = NoUpdate THEN Answer(w, "DONE") ELSE To(w, "update")
    /\ UNCHANGED <<scene, now, sessions, lastCleanup, logins, authOf, live,
                   lastSeen, entries, passed, served>>

\* lastSeenUpdate_ looks the account up again, by a reference to the
\* identifier inside the account.  If the account was deleted in between, the
\* memory may hold anything: no identifier in use, or that of another account.
lastSeenUpdate(w) ==
    LET update == worker[w].update
        found == IF update.user \in live THEN {update.user} ELSE live \cup {NoUser}
    IN /\ worker[w].pc = "update"
       /\ readers = {}
       /\ \E u \in found :
             lastSeen' = IF u = NoUser THEN lastSeen
                         ELSE [lastSeen EXCEPT ![u] = update.at]
       /\ Answer(w, "DONE")
       /\ UNCHANGED <<scene, now, sessions, lastCleanup, logins, authOf, live,
                      entries, passed, readers, served>>
----------------------------------------------------------------------------
Tick ==
    /\ now < scene.maxClock
    /\ now' = now + 1
    /\ UNCHANGED <<scene, sessions, lastCleanup, logins, authOf, live, lastSeen,
                   entries, passed, readers, worker, served>>

\* The accounts and the sessions of the scene.  A worker's parameters are those
\* of a request it served before.
Init ==
    /\ scene \in Scenes
    /\ now = Period
    /\ logins = scene.announced
    /\ sessions = [k \in {l.token : l \in logins} |->
                      LET l == CHOOSE x \in logins : x.token = k
                      IN [auth |-> l.auth, expires |-> l.until]]
    /\ lastCleanup = 0
    /\ authOf = scene.authOf
    /\ live = {u \in User : authOf[u] # NoAuth}
    /\ lastSeen = [u \in User |-> 0]
    /\ entries = [who \in User \cup {Ip} |-> [a \in Action |->
                     [i \in 1 .. MaxAllowed |-> 0]]]
    /\ passed = [who \in User \cup {Ip} |-> [a \in Action |-> << >>]]
    /\ readers = {}
    /\ worker = [w \in Worker |->
                    [pc |-> "idle", request |-> Nothing, endpoint |-> "none",
                     status |-> "", since |-> 0, user |-> NoUser, auth |-> NoAuth,
                     params |-> scene.params, update |-> NoUpdate]]
    /\ served = 0

\* What a client may ask of an endpoint: it fills in what the endpoint uses.
ValuesFor(e) ==
    LET used == {Gives[e][i] : i \in DOMAIN Gives[e]}
    IN {[i \in 0 .. 4 |-> IF i \in used THEN v[i] ELSE ""] :
           v \in [used -> scene.words]}

RequestsFor(e) ==
    [endpoint : {e}, token : scene.tokens, csrf : scene.csrf, origin : scene.origins,
     values : ValuesFor(e)]

CommandStep(w) ==
    \/ \E new \in User, allowed \in BOOLEAN : addNewUser(w, new, allowed)
    \/ \E target \in User, allowed \in BOOLEAN : deleteUser(w, target, allowed)
    \/ \E reached, empty \in BOOLEAN : OtherCommand(w, reached, empty)

Step(w) ==
    \/ handle(w)
    \/ CommandStep(w)
    \/ BeginView(w)
    \/ EndView(w)
    \/ lastSeenUpdate(w)
    \/ Reply(w)

Next ==
    \/ \E w \in scene.workers, e \in scene.endpoints :
          \E r \in RequestsFor(e) : Receive(w, r)
    \/ \E w \in Worker : Step(w)
    \/ \E k \in scene.tokens \ {NoToken}, a \in Auth, d \in scene.durations :
          loginUser(k, a, d)
    \/ Tick

\* A worker thread keeps running, and the lock lets it in once it is free.
Fairness == \A w \in Worker : WF_vars(Step(w))

Spec == Init /\ [][Next]_vars /\ Fairness
----------------------------------------------------------------------------
(* Properties.                                                              *)

\* For every endpoint and every combination of missing and malformed values
\* that are clear of longer routes (HttpRouter::forward compares characters):
\* the path leads to the endpoint that was meant, the method of the command
\* handler reads no parameter that was not pushed (CommandHandler.cpp indexes
\* the vector after counting the parameters that are not empty) and gets the
\* values of this request and of no earlier one on the same thread, none of
\* them empty where it asked for a number of them; and a request that lacks
\* nothing is not refused for its parameters.
ServedAsAsked ==
    \A w \in Worker :
        LET self == worker[w]
            r == self.request
            h == Handlers[r.endpoint]
            gives == Gives[r.endpoint]
            clear == ClearOfRoutes(r.endpoint, r.values)
        IN /\ self.pc \in {"command", "view"} /\ clear =>
                 /\ self.endpoint = r.endpoint
                 /\ \A i \in 1 .. h.reads :
                        /\ i \in DOMAIN self.params
                        /\ self.params[i] = r.values[gives[i]]
                        /\ h.exact => self.params[i] # ""
                 /\ \A i \in h.optional \cap DOMAIN self.params :
                        self.params[i] = r.values[gives[i]]
           /\ self.pc = "answer" /\ self.status = "INVALID_PARAMETERS" /\ clear =>
                 \E i \in DOMAIN gives : ~Parses(r.values[gives[i]])


\* A request acts for an account only if it passed the double submit check,
\* its cookie was announced by the login service for the identity of that
\* account and had not expired when the request came in: neither an earlier
\* request on the same thread (the context is thread-local) nor an expired
\* session (AuthStore) lends its identity.
IdentityVouchedFor ==
    \A w \in Worker :
        LET self == worker[w]
        IN self.pc \notin {"idle", "answer"} /\ self.user # NoUser =>
              /\ self.request.csrf
              /\ \E l \in logins : /\ l.token = self.request.token
                                   /\ l.auth = authOf[self.user]
                                   /\ l.until >= self.since

\* Two accounts never share an identity, although the identity is looked up
\* under one lock (updateCurrentUserId) and the account created under another
\* (addNewUser), with requests of the same session in between.
OneAccountPerIdentity ==
    \A u, v \in live : authOf[u] = authOf[v] => u = v

\* "max 10 new content actions every 10 minutes": of one user's actions of a
\* kind that were let through, any MaxAllowed + 1 take at least Period.
ThrottlingRespected ==
    \A who \in User \cup {Ip}, a \in Action :
        \A i \in 1 .. Len(passed[who][a]) - MaxAllowed :
            passed[who][a][i + MaxAllowed] - passed[who][a][i] >= Period

\* Every request is answered: no view waits for a lock that it holds itself
\* (the update of the time last seen needs the write lock), no two workers
\* wait for each other.
EveryRequestAnswered ==
    \A w \in Worker : worker[w].pc # "idle" ~> worker[w].pc = "idle"

\* The time at which a user was last seen changes only because of a request
\* with a session of that user, although a view delays the update beyond its
\* lock (PerformedByWithLastSeenUpdateGuard).  The one exception: the account
\* the update is meant for was deleted in between, and the reference that the
\* update keeps to its identifier dangles.
LastSeenByOwnRequests ==
    [][\A u \in User : lastSeen'[u] # lastSeen[u] =>
          \E w \in Worker :
              /\ worker'[w].pc # worker[w].pc
              /\ \/ \E l \in logins : /\ l.token = worker[w].request.token
                                     /\ l.auth = authOf[u]
                 \/ worker[w].pc = "update" /\ worker[w].update.user \notin live]_vars
=============================================================================
