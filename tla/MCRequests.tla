---------------------------- MODULE MCRequests ----------------------------
(* Requests on small instances.                                            *)
EXTENDS Requests

CONSTANTS w1, w2, u1, u2, a1, a2, k1, k2

Base ==
    [workers |-> {w1}, endpoints |-> Endpoint, words |-> {"good"},
     tokens |-> {NoToken}, csrf |-> {TRUE}, origins |-> {TRUE},
     requests |-> 1, announced |-> {}, logins |-> 0, durations |-> {1},
     maxClock |-> Period,
     authOf |-> [u \in User |-> NoAuth], exempt |-> {}, params |-> << >>,
     disableCommands |-> FALSE, disableAnonymous |-> FALSE]

Login(k, a) == [token |-> k, auth |-> a, until |-> Period + 2]
OneAccount == [u \in User |-> IF u = u1 THEN a1 ELSE NoAuth]
TwoAccounts == [u \in User |-> IF u = u1 THEN a1 ELSE a2]

\* Every endpoint with every combination of values, on a thread that has
\* served a request before.
Everything ==
    [Base EXCEPT !.words = {"", "bad", "good"}, !.params = <<"old">>,
                 !.origins = {TRUE, FALSE}]

\* Values that begin with the last word of a longer route, for the endpoints whose
\* route a longer one continues.
Continued ==
    {e \in Endpoint : \E o \in Endpoint :
        /\ Len(Routes[o]) > Len(Routes[e])
        /\ SubSeq(Routes[o], 1, Len(Routes[e])) = Routes[e]}

Misrouted ==
    [Base EXCEPT !.endpoints = Continued,
                 !.words = {"good", "tags", "logo", "move", "upvote", "comments", "user",
                            "message", "can_add"}]

\* The same with commands switched off.
SwitchedOff ==
    [Base EXCEPT !.disableCommands = TRUE]

\* One user and a visitor reach the limits of one kind of action.
Busy ==
    [Base EXCEPT !.endpoints = {"ADD_DISCUSSION_TAG", "CAN_ADD_ATTACHMENT",
                                "ADD_DISCUSSION_THREAD_MESSAGE"},
                 !.tokens = {k1}, !.requests = 4,
                 !.announced = {Login(k1, a1)}, !.maxClock = Period + 3,
                 !.authOf = OneAccount]

Visitors ==
    [Base EXCEPT !.endpoints = {"ADD_DISCUSSION_TAG", "SUBSCRIBE_TO_THREAD"},
                 !.requests = 4, !.maxClock = Period + 3]

\* Sessions that expire and are announced again, on one thread.
Sessions ==
    [Base EXCEPT !.endpoints = {"ADD_USER", "GET_CURRENT_USER"},
                 !.tokens = {k1, NoToken}, !.csrf = {TRUE, FALSE}, !.requests = 2,
                 !.logins = 2, !.durations = {0, 1}, !.maxClock = Period + 2]

\* One session on two threads registers an account.
Registrations ==
    [Base EXCEPT !.workers = {w1, w2},
                 !.endpoints = {"ADD_USER", "GET_CURRENT_USER"},
                 !.tokens = {k1, NoToken}, !.requests = 3,
                 !.logins = 1, !.durations = {1}, !.maxClock = Period + 1]

\* Two users on two threads, one of which may delete the other.
Deletions ==
    [Base EXCEPT !.workers = {w1, w2},
                 !.endpoints = {"DELETE_USER", "GET_CURRENT_USER"},
                 !.tokens = {k1, k2}, !.requests = 3,
                 !.announced = {Login(k1, a1), Login(k2, a2)},
                 !.maxClock = Period + 1, !.authOf = TwoAccounts,
                 !.disableAnonymous = TRUE, !.exempt = {u1}]

MCScenes == {Everything, Misrouted, SwitchedOff, Busy, Visitors, Sessions,
             Registrations, Deletions}
=============================================================================
