--------------------------- MODULE RequestsProofs ---------------------------
(***************************************************************************)
(* Proofs about Requests, for any number of workers, accounts, identities, *)
(* tokens and requests, and for every limit and period of throttling.      *)
(***************************************************************************)
EXTENDS Requests, SequenceTheorems, FiniteSetTheorems, TLAPS

Client == User \cup {Ip}

-----------------------------------------------------------------------------
(* Throttling.                                                             *)

\* One client's attempts en, of which p were let through, at time t: the
\* entries are in order, and the j-th last attempt that was let through is no
\* later than the j-th last attempt.
Window(en, p, t) ==
    /\ en \in Seq(Nat) /\ Len(en) = MaxAllowed /\ p \in Seq(Nat)
    /\ \A i \in 1 .. MaxAllowed : en[i] <= t
    /\ \A i, j \in 1 .. MaxAllowed : i <= j => en[i] <= en[j]
    /\ \A j \in 1 .. MaxAllowed :
          j <= Len(p) => p[Len(p) + 1 - j] <= en[MaxAllowed + 1 - j]
    /\ \A i \in 1 .. Len(p) - MaxAllowed : p[i + MaxAllowed] - p[i] >= Period

ThrottleInv ==
    /\ DOMAIN entries = Client /\ DOMAIN passed = Client
    /\ \A who \in Client : DOMAIN entries[who] = Action /\ DOMAIN passed[who] = Action
    /\ \A who \in Client, a \in Action : Window(entries[who][a], passed[who][a], now)

\* The entries after an attempt at time t.
LEMMA SlideProperties ==
    ASSUME NEW en \in Seq(Nat), Len(en) = MaxAllowed, NEW t \in Nat
    PROVE  /\ Tail(en) \o <<t>> \in Seq(Nat)
           /\ Len(Tail(en) \o <<t>>) = MaxAllowed
           /\ \A i \in 1 .. MaxAllowed - 1 : (Tail(en) \o <<t>>)[i] = en[i + 1]
           /\ (Tail(en) \o <<t>>)[MaxAllowed] = t
           /\ Head(en) = en[1]
<1>1. en # <<>> /\ MaxAllowed \in Nat \ {0}
    BY ThrottlingAssumption
<1>2. /\ Tail(en) \in Seq(Nat) /\ Len(Tail(en)) = MaxAllowed - 1
      /\ \A i \in 1 .. MaxAllowed - 1 : Tail(en)[i] = en[i + 1]
    BY <1>1, HeadTailProperties
<1>3. <<t>> \in Seq(Nat) /\ Len(<<t>>) = 1 /\ <<t>>[1] = t
    OBVIOUS
<1>4. /\ Tail(en) \o <<t>> \in Seq(Nat)
      /\ Len(Tail(en) \o <<t>>) = Len(Tail(en)) + Len(<<t>>)
      /\ \A i \in 1 .. Len(Tail(en)) + Len(<<t>>) :
            (Tail(en) \o <<t>>)[i] = IF i <= Len(Tail(en)) THEN Tail(en)[i]
                                     ELSE <<t>>[i - Len(Tail(en))]
    BY <1>2, <1>3, ConcatProperties
<1>5. Len(Tail(en) \o <<t>>) = MaxAllowed
    BY <1>1, <1>2, <1>3, <1>4
<1>6. \A i \in 1 .. MaxAllowed - 1 : (Tail(en) \o <<t>>)[i] = en[i + 1]
    BY <1>1, <1>2, <1>3, <1>4
<1>7. (Tail(en) \o <<t>>)[MaxAllowed] = t
    BY <1>1, <1>2, <1>3, <1>4
<1> QED BY <1>1, <1>4, <1>5, <1>6, <1>7

\* An attempt that is not let through.
LEMMA WindowRefused ==
    ASSUME NEW en, NEW p, NEW t \in Nat, Window(en, p, t)
    PROVE  Window(Tail(en) \o <<t>>, p, t)
<1> DEFINE new == Tail(en) \o <<t>>
<1>a. en \in Seq(Nat) /\ Len(en) = MaxAllowed /\ p \in Seq(Nat)
    BY DEF Window
<1>b. /\ \A i \in 1 .. MaxAllowed : en[i] <= t
      /\ \A i, j \in 1 .. MaxAllowed : i <= j => en[i] <= en[j]
    BY DEF Window
<1>c. \A j \in 1 .. MaxAllowed :
          j <= Len(p) => p[Len(p) + 1 - j] <= en[MaxAllowed + 1 - j]
    BY DEF Window
<1>d. \A i \in 1 .. Len(p) - MaxAllowed : p[i + MaxAllowed] - p[i] >= Period
    BY DEF Window
<1>m. MaxAllowed \in Nat \ {0} /\ Period \in Nat \ {0} /\ Len(p) \in Nat
    BY <1>a, ThrottlingAssumption, LenProperties
<1>t. /\ \A i \in 1 .. MaxAllowed : en[i] \in Nat
      /\ \A i \in 1 .. Len(p) : p[i] \in Nat
    BY <1>a, <1>m, ElementOfSeq
<1>1. /\ new \in Seq(Nat) /\ Len(new) = MaxAllowed
      /\ \A i \in 1 .. MaxAllowed - 1 : new[i] = en[i + 1]
      /\ new[MaxAllowed] = t
    BY <1>a, SlideProperties
<1> HIDE DEF new
<1>2. \A i \in 1 .. MaxAllowed : en[i] <= new[i] /\ new[i] <= t /\ new[i] \in Nat
    <2> TAKE i \in 1 .. MaxAllowed
    <2>1. CASE i = MaxAllowed
        BY <1>1, <1>b, <1>m, <1>t, <2>1
    <2>2. CASE i # MaxAllowed
        <3>1. i \in 1 .. MaxAllowed - 1 /\ i + 1 \in 1 .. MaxAllowed /\ i <= i + 1
            BY <1>m, <2>2
        <3> QED BY <1>1, <1>b, <1>t, <3>1
    <2> QED BY <2>1, <2>2
<1>3. \A i, j \in 1 .. MaxAllowed : i <= j => new[i] <= new[j]
    <2> SUFFICES ASSUME NEW i \in 1 .. MaxAllowed, NEW j \in 1 .. MaxAllowed, i <= j
                 PROVE  new[i] <= new[j]
        OBVIOUS
    <2>1. CASE j = MaxAllowed
        BY <1>1, <1>2, <2>1
    <2>2. CASE j # MaxAllowed
        <3>1. /\ i \in 1 .. MaxAllowed - 1 /\ i + 1 \in 1 .. MaxAllowed
              /\ j \in 1 .. MaxAllowed - 1 /\ j + 1 \in 1 .. MaxAllowed
              /\ i + 1 <= j + 1
            BY <1>m, <2>2
        <3> QED BY <1>1, <1>b, <3>1
    <2> QED BY <2>1, <2>2
<1>4. ASSUME NEW j \in 1 .. MaxAllowed, j <= Len(p)
      PROVE  p[Len(p) + 1 - j] <= new[MaxAllowed + 1 - j]
    <2>1. MaxAllowed + 1 - j \in 1 .. MaxAllowed
        BY <1>m
    <2>2. p[Len(p) + 1 - j] \in Nat
        <3>1. Len(p) + 1 - j \in 1 .. Len(p)
            BY <1>4, <1>m
        <3> QED BY <1>t, <3>1
    <2>3. p[Len(p) + 1 - j] <= en[MaxAllowed + 1 - j]
        BY <1>4, <1>c
    <2>4. /\ en[MaxAllowed + 1 - j] <= new[MaxAllowed + 1 - j]
          /\ en[MaxAllowed + 1 - j] \in Nat /\ new[MaxAllowed + 1 - j] \in Nat
        BY <1>2, <1>t, <2>1
    <2> QED BY <2>2, <2>3, <2>4
<1>5. Window(new, p, t)
    BY <1>a, <1>d, <1>1, <1>2, <1>3, <1>4 DEF Window
<1> QED BY <1>5 DEF new

\* An attempt that is let through: the oldest entry is a period ago.
LEMMA WindowAllowed ==
    ASSUME NEW en, NEW p, NEW t \in Nat, Window(en, p, t),
           ~(Head(en) + Period > t)
    PROVE  Window(Tail(en) \o <<t>>, Append(p, t), t)
<1> DEFINE new == Tail(en) \o <<t>>
           q == Append(p, t)
<1>w. Window(new, p, t)
    BY WindowRefused
<1>h. ~(en[1] + Period > t)
    BY SlideProperties DEF Window
<1>a. en \in Seq(Nat) /\ Len(en) = MaxAllowed /\ p \in Seq(Nat)
    BY DEF Window
<1>b. /\ \A i \in 1 .. MaxAllowed : en[i] <= t
      /\ \A i, j \in 1 .. MaxAllowed : i <= j => en[i] <= en[j]
    BY DEF Window
<1>c. \A j \in 1 .. MaxAllowed :
          j <= Len(p) => p[Len(p) + 1 - j] <= en[MaxAllowed + 1 - j]
    BY DEF Window
<1>d. \A i \in 1 .. Len(p) - MaxAllowed : p[i + MaxAllowed] - p[i] >= Period
    BY DEF Window
<1>m. MaxAllowed \in Nat \ {0} /\ Period \in Nat \ {0} /\ Len(p) \in Nat
    BY <1>a, ThrottlingAssumption, LenProperties
<1>t. /\ \A i \in 1 .. MaxAllowed : en[i] \in Nat
      /\ \A i \in 1 .. Len(p) : p[i] \in Nat
    BY <1>a, <1>m, ElementOfSeq
<1>1. /\ new \in Seq(Nat) /\ Len(new) = MaxAllowed
      /\ \A i \in 1 .. MaxAllowed - 1 : new[i] = en[i + 1]
      /\ new[MaxAllowed] = t /\ Head(en) = en[1]
    BY <1>a, SlideProperties
<1>2. /\ q \in Seq(Nat) /\ Len(q) = Len(p) + 1 /\ q[Len(p) + 1] = t
      /\ \A i \in 1 .. Len(p) : q[i] = p[i]
    BY <1>a, AppendProperties
<1> HIDE DEF new, q
<1>3. ASSUME NEW j \in 1 .. MaxAllowed, j <= Len(q)
      PROVE  q[Len(q) + 1 - j] <= new[MaxAllowed + 1 - j]
    <2>1. CASE j = 1
        <3>1. Len(q) + 1 - j = Len(p) + 1 /\ MaxAllowed + 1 - j = MaxAllowed
            BY <1>m, <1>2, <2>1
        <3> QED BY <1>1, <1>2, <3>1
    <2>2. CASE j # 1
        <3>1. /\ j - 1 \in 1 .. MaxAllowed /\ j - 1 <= Len(p)
              /\ Len(q) + 1 - j = Len(p) + 1 - (j - 1)
              /\ Len(p) + 1 - (j - 1) \in 1 .. Len(p)
              /\ MaxAllowed + 1 - j \in 1 .. MaxAllowed - 1
              /\ MaxAllowed + 1 - j + 1 = MaxAllowed + 1 - (j - 1)
            BY <1>m, <1>2, <1>3, <2>2
        <3>2. p[Len(p) + 1 - (j - 1)] <= en[MaxAllowed + 1 - (j - 1)]
            BY <1>c, <3>1
        <3>3. new[MaxAllowed + 1 - j] = en[MaxAllowed + 1 - (j - 1)]
            BY <1>1, <3>1
        <3>4. q[Len(q) + 1 - j] = p[Len(p) + 1 - (j - 1)]
            BY <1>2, <3>1
        <3> QED BY <3>2, <3>3, <3>4
    <2> QED BY <2>1, <2>2
<1>4. ASSUME NEW i \in 1 .. Len(q) - MaxAllowed
      PROVE  q[i + MaxAllowed] - q[i] >= Period
    <2>1. CASE i = Len(q) - MaxAllowed
        <3>1. /\ i = Len(p) + 1 - MaxAllowed /\ i \in 1 .. Len(p)
              /\ i + MaxAllowed = Len(p) + 1
              /\ MaxAllowed \in 1 .. MaxAllowed /\ MaxAllowed <= Len(p)
              /\ MaxAllowed + 1 - MaxAllowed = 1 /\ 1 \in 1 .. MaxAllowed
            BY <1>m, <1>2, <2>1
        <3>2. p[Len(p) + 1 - MaxAllowed] <= en[MaxAllowed + 1 - MaxAllowed]
            BY <1>c, <3>1
        <3>3. q[i] = p[i] /\ p[i] \in Nat /\ p[i] <= en[1] /\ en[1] \in Nat
            BY <1>2, <1>t, <3>1, <3>2
        <3>4. q[i + MaxAllowed] = t
            BY <1>2, <3>1
        <3>5. en[1] + Period <= t
            BY <1>h, <1>m, <3>3
        <3> QED BY <1>m, <3>3, <3>4, <3>5
    <2>2. CASE i # Len(q) - MaxAllowed
        <3>0. i \in Int /\ 1 <= i /\ i < Len(p) + 1 - MaxAllowed
            BY <1>m, <1>2, <2>2
        <3>1. /\ i \in 1 .. Len(p) - MaxAllowed
              /\ i \in 1 .. Len(p) /\ i + MaxAllowed \in 1 .. Len(p)
            BY <1>m, <3>0
        <3>2. q[i] = p[i] /\ q[i + MaxAllowed] = p[i + MaxAllowed]
            BY <1>2, <3>1
        <3> QED BY <1>d, <3>1, <3>2
    <2> QED BY <2>1, <2>2
<1>5. Window(new, q, t)
    BY <1>w, <1>1, <1>2, <1>3, <1>4 DEF Window
<1> QED BY <1>5 DEF new, q

LEMMA WindowLater ==
    ASSUME NEW en, NEW p, NEW t \in Nat, NEW u \in Nat, t <= u, Window(en, p, t)
    PROVE  Window(en, p, u)
<1>1. \A i \in 1 .. MaxAllowed : en[i] \in Nat /\ en[i] <= t
    BY ElementOfSeq, ThrottlingAssumption DEF Window
<1>2. \A i \in 1 .. MaxAllowed : en[i] <= u
    BY <1>1
<1> QED BY <1>2 DEF Window

LEMMA CheckKeepsThrottleInv ==
    ASSUME ThrottleInv, now \in Nat, now' = now, NEW who, NEW a,
           ThrottlingCheck_isAllowed(who, a)
    PROVE  ThrottleInv'
<1> DEFINE en == entries[who][a]
           in == who \in Client /\ a \in Action
<1>1. entries' = [entries EXCEPT ![who][a] = Tail(en) \o <<now>>]
    BY DEF ThrottlingCheck_isAllowed
<1>2. \/ passed' = passed /\ Head(en) + Period > now
      \/ passed' = [passed EXCEPT ![who][a] = Append(passed[who][a], now)]
         /\ ~(Head(en) + Period > now)
    BY DEF ThrottlingCheck_isAllowed
<1>3. DOMAIN entries = Client /\ \A x \in Client : DOMAIN entries[x] = Action
    BY DEF ThrottleInv
<1>4. DOMAIN passed = Client /\ \A x \in Client : DOMAIN passed[x] = Action
    BY DEF ThrottleInv
<1>5. DOMAIN entries' = Client /\ \A x \in Client : DOMAIN entries'[x] = Action
    BY <1>1, <1>3
<1>6. DOMAIN passed' = Client /\ \A x \in Client : DOMAIN passed'[x] = Action
    BY <1>2, <1>4
<1>7. ASSUME NEW x \in Client, NEW b \in Action
      PROVE  Window(entries'[x][b], passed'[x][b], now)
    <2>1. Window(entries[x][b], passed[x][b], now)
        BY DEF ThrottleInv
    <2>2. CASE x = who /\ b = a
        <3>1. entries'[x][b] = Tail(entries[x][b]) \o <<now>>
            BY <1>1, <1>3, <2>2
        <3>2. CASE passed' = passed
            BY <2>1, <3>1, <3>2, WindowRefused
        <3>3. CASE /\ passed' = [passed EXCEPT ![who][a] = Append(passed[who][a], now)]
                   /\ ~(Head(en) + Period > now)
            <4>1. passed'[x][b] = Append(passed[x][b], now)
                BY <1>4, <2>2, <3>3
            <4> QED BY <2>1, <2>2, <3>1, <3>3, <4>1, WindowAllowed
        <3> QED BY <1>2, <3>2, <3>3
    <2>3. CASE ~(x = who /\ b = a)
        <3>1. entries'[x][b] = entries[x][b]
            BY <1>1, <1>3, <2>3
        <3>2. passed'[x][b] = passed[x][b]
            BY <1>2, <1>4, <2>3
        <3> QED BY <2>1, <3>1, <3>2
    <2> QED BY <2>2, <2>3
<1> QED BY <1>5, <1>6, <1>7 DEF ThrottleInv

LEMMA AttemptKeepsThrottleInv ==
    ASSUME ThrottleInv, now \in Nat, now' = now, NEW u, NEW e, NEW empty,
           Attempt(u, e, empty)
    PROVE  ThrottleInv'
<1>1. CASE Counted(u, e, empty)
    BY <1>1, CheckKeepsThrottleInv DEF Attempt
<1>2. CASE ~Counted(u, e, empty)
    BY <1>2 DEF Attempt, Throttle, ThrottleInv
<1> QED BY <1>1, <1>2

-----------------------------------------------------------------------------
(* The inductive invariant.                                                *)

\* The types of everything but the workers.
Typed ==
    /\ scene \in Scenes
    /\ now \in Nat
    /\ logins \subseteq [token : Token, auth : Auth, until : Nat]
    /\ \A k \in DOMAIN sessions : /\ k \in Token /\ sessions[k].auth \in Auth
                                  /\ sessions[k].expires \in Nat
    /\ authOf \in [User -> Auth \cup {NoAuth}]
    /\ live \subseteq {u \in User : authOf[u] # NoAuth}
    /\ lastSeen \in [User -> Nat]
    /\ readers \subseteq Worker

\* A session lives no longer than the login service said.
SessionsInv ==
    \A k \in DOMAIN sessions :
        \E l \in logins : /\ l.token = k /\ l.auth = sessions[k].auth
                          /\ l.until >= sessions[k].expires

Field == {"pc", "request", "endpoint", "status", "since", "user", "auth", "params",
          "update"}

Busy(w) == worker[w].pc \notin {"idle", "answer"}

WorkerTyped(w) ==
    /\ worker[w] = [f \in Field |-> worker[w][f]]
    /\ worker[w].pc \in {"idle", "handle", "command", "view", "reading", "update",
                         "answer"}
    /\ worker[w].user \in User \cup {NoUser}
    /\ worker[w].auth \in Auth \cup {NoAuth}

\* The identity of the context is that of a session which had not expired.
AuthInv(w) ==
    Busy(w) /\ worker[w].auth # NoAuth =>
        /\ worker[w].request.csrf
        /\ \E l \in logins : /\ l.token = worker[w].request.token
                             /\ l.auth = worker[w].auth
                             /\ l.until >= worker[w].since

\* The user of the context is empty until the handler has looked it up, and
\* then an account with the identity of the context.
UserInv(w) ==
    /\ worker[w].pc = "handle" => worker[w].user = NoUser
    /\ Busy(w) /\ worker[w].user # NoUser =>
          worker[w].auth # NoAuth /\ authOf[worker[w].user] = worker[w].auth

\* A pending update is for the user of the context.
UpdateInv(w) ==
    /\ worker[w].pc \in {"reading", "update"} =>
          \/ worker[w].update = NoUpdate
          \/ /\ worker[w].update.user # NoUser
             /\ worker[w].update.user = worker[w].user
             /\ worker[w].update.at \in Nat
    /\ worker[w].pc = "update" => worker[w].update # NoUpdate

WorkerInv(w) == WorkerTyped(w) /\ AuthInv(w) /\ UserInv(w) /\ UpdateInv(w)

WorkersInv ==
    /\ worker = [w \in Worker |-> worker[w]]
    /\ \A w \in Worker : WorkerInv(w)

Inv ==
    /\ Typed /\ SessionsInv /\ WorkersInv /\ ThrottleInv
    /\ OneAccountPerIdentity

LEMMA InvInit == Init => Inv
<1> SUFFICES ASSUME Init PROVE Inv
    OBVIOUS
<1>s. scene \in Scenes
    BY DEF Init
<1>1. logins \subseteq [token : Token, auth : Auth, until : Nat]
    BY <1>s, ScenesAssumption DEF Init
<1>2. ASSUME NEW k \in DOMAIN sessions
      PROVE  /\ k \in Token /\ sessions[k].auth \in Auth /\ sessions[k].expires \in Nat
             /\ \E l \in logins : /\ l.token = k /\ l.auth = sessions[k].auth
                                  /\ l.until >= sessions[k].expires
    <2>1. k \in {l.token : l \in logins}
        BY DEF Init
    <2> DEFINE l == CHOOSE x \in logins : x.token = k
    <2>2. l \in logins /\ l.token = k
        BY <2>1
    <2>3. sessions[k] = [auth |-> l.auth, expires |-> l.until]
        BY <2>1 DEF Init
    <2> HIDE DEF l
    <2>4. l.token \in Token /\ l.auth \in Auth /\ l.until \in Nat
        BY <1>1, <2>2
    <2> QED BY <2>2, <2>3, <2>4
<1>3. /\ authOf \in [User -> Auth \cup {NoAuth}]
      /\ live = {u \in User : authOf[u] # NoAuth}
    BY <1>s, ScenesAssumption DEF Init
<1>4. Typed
    BY <1>s, <1>1, <1>2, <1>3, ThrottlingAssumption DEF Init, Typed
<1>5. SessionsInv
    BY <1>2 DEF SessionsInv
<1>6. OneAccountPerIdentity
    BY <1>s, <1>3, ScenesAssumption DEF Init, OneAccountPerIdentity
<1>7. WorkersInv
    BY DEF Init, WorkersInv, WorkerInv, WorkerTyped, AuthInv, UserInv, UpdateInv, Busy, Field
<1>8. ThrottleInv
    <2>1. ASSUME NEW who \in Client, NEW a \in Action
          PROVE  Window(entries[who][a], passed[who][a], now)
        <3> DEFINE en == entries[who][a]
                   p == passed[who][a]
        <3>1. en = [i \in 1 .. MaxAllowed |-> 0] /\ p = << >>
            BY DEF Init, Client
        <3>2. en \in Seq(Nat) /\ Len(en) = MaxAllowed
            BY <3>1, ThrottlingAssumption
        <3>3. p \in Seq(Nat) /\ Len(p) = 0
            BY <3>1
        <3>4. \A i \in 1 .. MaxAllowed : en[i] = 0
            BY <3>1
        <3>5. now \in Nat /\ MaxAllowed \in Nat \ {0}
            BY <1>4, ThrottlingAssumption DEF Typed
        <3> HIDE DEF en, p
        <3>6. \A j \in 1 .. MaxAllowed : ~(j <= Len(p))
            BY <3>3, <3>5
        <3>7. \A i \in 1 .. Len(p) - MaxAllowed : FALSE
            BY <3>3, <3>5
        <3>8. \A i, j \in 1 .. MaxAllowed : en[i] <= en[j] /\ en[i] <= now
            BY <3>4, <3>5
        <3>9. Window(en, p, now)
            BY <3>2, <3>3, <3>6, <3>7, <3>8 DEF Window
        <3> QED BY <3>9 DEF en, p
    <2> QED BY <2>1 DEF Init, ThrottleInv, Client
<1> QED BY <1>4, <1>5, <1>6, <1>7, <1>8 DEF Inv

-----------------------------------------------------------------------------
(* Every action keeps the invariant.                                       *)

USE DEF Store, Accounts, Throttle

\* The logins and the identities of accounts only grow.
Growing ==
    /\ logins \subseteq logins'
    /\ \A u \in User : authOf[u] # NoAuth => authOf'[u] = authOf[u]

\* A step of one worker leaves what is known of the others.
LEMMA OthersKeep ==
    ASSUME NEW v \in Worker, WorkerInv(v), worker'[v] = worker[v], Growing
    PROVE  WorkerInv(v)'
<1>1. WorkerTyped(v)' /\ UpdateInv(v)'
    BY DEF WorkerInv, WorkerTyped, UpdateInv
<1>2. AuthInv(v)'
    BY DEF WorkerInv, AuthInv, Busy, Growing
<1>3. UserInv(v)'
    BY DEF WorkerInv, WorkerTyped, UserInv, Busy, Growing
<1> QED BY <1>1, <1>2, <1>3 DEF WorkerInv

LEMMA WorkersKeep ==
    ASSUME WorkersInv, NEW w \in Worker, worker' = [v \in Worker |-> worker'[v]],
           \A v \in Worker : v # w => worker'[v] = worker[v],
           WorkerInv(w)', Growing
    PROVE  WorkersInv'
<1>1. ASSUME NEW v \in Worker PROVE WorkerInv(v)'
    <2>1. CASE v = w
        BY <2>1
    <2>2. CASE v # w
        BY <2>2, OthersKeep DEF WorkersInv
    <2> QED BY <2>1, <2>2
<1> QED BY <1>1 DEF WorkersInv

\* A worker that is done.
LEMMA AnswerKeeps ==
    ASSUME WorkersInv, NEW w \in Worker, NEW status, Answer(w, status), Growing
    PROVE  WorkersInv' /\ worker'[w].pc = "answer"
<1>0. WorkerInv(w) /\ worker = [v \in Worker |-> worker[v]]
    BY DEF WorkersInv
<1>f. worker[w] = [f \in Field |-> worker[w][f]]
    BY <1>0 DEF WorkerInv, WorkerTyped
<1>1. worker' = [v \in Worker |-> worker'[v]]
    BY <1>0 DEF Answer
<1>2. \A v \in Worker : v # w => worker'[v] = worker[v]
    BY <1>0 DEF Answer
<1>3. /\ worker'[w] = [f \in Field |-> worker'[w][f]]
      /\ worker'[w].pc = "answer"
      /\ worker'[w].user = worker[w].user /\ worker'[w].auth = worker[w].auth
    BY <1>0, <1>f DEF Answer, Field
<1>4. WorkerInv(w)'
    BY <1>0, <1>3 DEF WorkerInv, WorkerTyped, AuthInv, UserInv, UpdateInv, Busy
<1> QED BY <1>1, <1>2, <1>3, <1>4, WorkersKeep

LEMMA ReceiveKeepsInv ==
    ASSUME Inv, NEW w \in Worker, NEW r, Receive(w, r)
    PROVE  Inv'
<1> USE DEF Receive
<1>1. Typed' /\ SessionsInv' /\ ThrottleInv' /\ OneAccountPerIdentity'
    BY DEF Inv, Typed, SessionsInv, ThrottleInv, OneAccountPerIdentity
<1>g. Growing
    BY DEF Growing
<1>0. WorkerInv(w) /\ worker = [v \in Worker |-> worker[v]]
    BY DEF Inv, WorkersInv
<1>f. worker[w] = [f \in Field |-> worker[w][f]]
    BY <1>0 DEF WorkerInv, WorkerTyped
<1>2. worker' = [v \in Worker |-> worker'[v]]
      /\ \A v \in Worker : v # w => worker'[v] = worker[v]
    BY <1>0 DEF handleInternal
<1>3. CASE r.origin
    <2> DEFINE context == updateContextForRequest(w, r, r.csrf)
    <2>a. \E e, own :
              worker' = [worker EXCEPT ![w] =
                  [context EXCEPT !.pc = "handle", !.request = r, !.since = now,
                                  !.endpoint = e, !.params = own]]
        BY <1>3 DEF handleInternal
    <2>b. PICK e, own :
              worker' = [worker EXCEPT ![w] =
                  [context EXCEPT !.pc = "handle", !.request = r, !.since = now,
                                  !.endpoint = e, !.params = own]]
        BY <2>a
    <2>c. /\ context = [f \in Field |-> context[f]] /\ context.user = NoUser
          /\ context.auth = IF r.csrf /\ r.token # NoToken THEN find(r.token)
                            ELSE NoAuth
        BY <1>f DEF updateContextForRequest, Field
    <2> HIDE DEF context
    <2>d. worker'[w] = [context EXCEPT !.pc = "handle", !.request = r, !.since = now,
                                       !.endpoint = e, !.params = own]
        BY <1>0, <2>b
    <2>1. /\ worker'[w] = [f \in Field |-> worker'[w][f]]
          /\ worker'[w].pc = "handle" /\ worker'[w].request = r
          /\ worker'[w].since = now /\ worker'[w].user = NoUser
          /\ worker'[w].auth = IF r.csrf /\ r.token # NoToken THEN find(r.token)
                               ELSE NoAuth
        BY <2>c, <2>d DEF Field
    <2>2. \/ find(r.token) = NoAuth
          \/ /\ find(r.token) \in Auth
             /\ \E l \in logins : /\ l.token = r.token /\ l.auth = find(r.token)
                                  /\ l.until >= now
        <3>1. CASE r.token \in DOMAIN sessions /\ sessions[r.token].expires >= now
            <4>1. PICK l \in logins : /\ l.token = r.token
                                      /\ l.auth = sessions[r.token].auth
                                      /\ l.until >= sessions[r.token].expires
                BY <3>1 DEF Inv, SessionsInv
            <4>2. l.until >= now
                BY <3>1, <4>1 DEF Inv, Typed
            <4> QED BY <3>1, <4>1, <4>2 DEF find, Inv, Typed
        <3> QED BY <3>1 DEF find
    <2>3. WorkerInv(w)'
        BY <2>1, <2>2 DEF WorkerInv, WorkerTyped, AuthInv, UserInv, UpdateInv, Busy
    <2> QED BY <1>1, <1>g, <1>2, <2>3, WorkersKeep DEF Inv
<1>4. CASE ~r.origin
    <2>0. worker' = [worker EXCEPT ![w].pc = "answer", ![w].status = "BAD_REQUEST",
                                   ![w].request = r, ![w].since = now]
        BY <1>4
    <2>1. /\ worker'[w] = [f \in Field |-> worker'[w][f]]
          /\ worker'[w].pc = "answer"
          /\ worker'[w].user = worker[w].user /\ worker'[w].auth = worker[w].auth
        BY <1>0, <1>f, <2>0 DEF Field
    <2>2. WorkerInv(w)'
        BY <1>0, <2>1 DEF WorkerInv, WorkerTyped, AuthInv, UserInv, UpdateInv, Busy
    <2> QED BY <1>1, <1>g, <1>2, <2>2, WorkersKeep DEF Inv
<1> QED BY <1>3, <1>4

LEMMA ReplyKeepsInv ==
    ASSUME Inv, NEW w \in Worker, Reply(w)
    PROVE  Inv'
<1> USE DEF Reply
<1>1. Typed' /\ SessionsInv' /\ ThrottleInv' /\ OneAccountPerIdentity'
    BY DEF Inv, Typed, SessionsInv, ThrottleInv, OneAccountPerIdentity
<1>g. Growing
    BY DEF Growing
<1>0. WorkerInv(w) /\ worker = [v \in Worker |-> worker[v]]
    BY DEF Inv, WorkersInv
<1>f. worker[w] = [f \in Field |-> worker[w][f]]
    BY <1>0 DEF WorkerInv, WorkerTyped
<1>2. worker' = [v \in Worker |-> worker'[v]]
      /\ \A v \in Worker : v # w => worker'[v] = worker[v]
    BY <1>0
<1>3. /\ worker'[w] = [f \in Field |-> worker'[w][f]]
      /\ worker'[w].pc = "idle"
      /\ worker'[w].user = worker[w].user /\ worker'[w].auth = worker[w].auth
    BY <1>0, <1>f DEF Field
<1>4. WorkerInv(w)'
    BY <1>0, <1>3 DEF WorkerInv, WorkerTyped, AuthInv, UserInv, UpdateInv, Busy
<1> QED BY <1>1, <1>g, <1>2, <1>4, WorkersKeep DEF Inv

LEMMA HandleKeepsInv ==
    ASSUME Inv, NEW w \in Worker, handle(w)
    PROVE  Inv'
<1> USE DEF handle
<1>1. Typed' /\ SessionsInv' /\ ThrottleInv' /\ OneAccountPerIdentity'
    BY DEF Inv, Typed, SessionsInv, ThrottleInv, OneAccountPerIdentity
<1>g. Growing
    BY DEF Growing
<1>0. WorkerInv(w) /\ worker = [v \in Worker |-> worker[v]]
    BY DEF Inv, WorkersInv
<1>f. worker[w] = [f \in Field |-> worker[w][f]]
    BY <1>0 DEF WorkerInv, WorkerTyped
<1>2. worker' = [v \in Worker |-> worker'[v]]
      /\ \A v \in Worker : v # w => worker'[v] = worker[v]
    BY <1>0
<1>3. /\ worker'[w] = [f \in Field |-> worker'[w][f]]
      /\ worker'[w].pc \in {"answer", "view", "command"}
      /\ worker'[w].user = updateCurrentUserId(w)
      /\ worker'[w].auth = worker[w].auth /\ worker'[w].request = worker[w].request
      /\ worker'[w].since = worker[w].since
    BY <1>0, <1>f DEF Field
<1>4. \/ updateCurrentUserId(w) = NoUser
      \/ /\ updateCurrentUserId(w) \in User
         /\ authOf[updateCurrentUserId(w)] = worker[w].auth /\ worker[w].auth # NoAuth
    <2>1. worker[w].user = NoUser
        BY <1>0 DEF WorkerInv, UserInv
    <2> DEFINE known == {u \in live : authOf[u] = worker[w].auth}
    <2>2. CASE worker[w].auth = NoAuth \/ known = {}
        BY <2>1, <2>2 DEF updateCurrentUserId
    <2>3. CASE worker[w].auth # NoAuth /\ known # {}
        <3>1. updateCurrentUserId(w) \in known
            BY <2>3 DEF updateCurrentUserId
        <3> QED BY <2>3, <3>1 DEF Inv, Typed
    <2> QED BY <2>2, <2>3
<1>5. WorkerInv(w)'
    <2>1. WorkerTyped(w)' /\ UserInv(w)' /\ UpdateInv(w)'
        BY <1>0, <1>3, <1>4 DEF WorkerInv, WorkerTyped, UserInv, UpdateInv
    <2>2. AuthInv(w)'
        BY <1>0, <1>3 DEF WorkerInv, AuthInv, Busy
    <2> QED BY <2>1, <2>2 DEF WorkerInv
<1> QED BY <1>1, <1>g, <1>2, <1>5, WorkersKeep DEF Inv

LEMMA SeenNowType ==
    ASSUME Typed, NEW u
    PROVE  SeenNow(u) \in [User -> Nat]
    BY DEF Typed, SeenNow

LEMMA AddNewUserKeepsInv ==
    ASSUME Inv, NEW w \in Worker, NEW new \in User, NEW allowed \in BOOLEAN,
           addNewUser(w, new, allowed)
    PROVE  Inv'
<1> DEFINE auth == worker[w].auth
           known == \E u \in live : authOf[u] = auth
<1>1. /\ authOf[new] = NoAuth /\ auth # NoAuth /\ Answer(w, "DONE")
      /\ UNCHANGED <<scene, now, sessions, lastCleanup, logins, readers, served>>
    BY DEF addNewUser
<1>2. \/ /\ ~known
         /\ authOf' = [authOf EXCEPT ![new] = auth] /\ live' = live \cup {new}
      \/ authOf' = authOf /\ live' = live
    BY DEF addNewUser
<1>3. \/ UNCHANGED Throttle
      \/ Attempt(NoUser, "ADD_USER", FALSE)
    BY DEF addNewUser
<1>4. lastSeen' \in [User -> Nat]
    BY SeenNowType DEF addNewUser, Inv
<1>5. auth \in Auth
    BY <1>1 DEF Inv, WorkersInv, WorkerInv, WorkerTyped
<1>6. Typed'
    <2>1. /\ authOf \in [User -> Auth \cup {NoAuth}]
          /\ live \subseteq {u \in User : authOf[u] # NoAuth}
        BY DEF Inv, Typed
    <2>2. /\ authOf' \in [User -> Auth \cup {NoAuth}]
          /\ live' \subseteq {u \in User : authOf'[u] # NoAuth}
        <3>1. CASE authOf' = [authOf EXCEPT ![new] = auth] /\ live' = live \cup {new}
            BY <1>1, <1>5, <2>1, <3>1
        <3> QED BY <1>2, <2>1, <3>1
    <2> QED BY <1>1, <1>4, <2>2 DEF Inv, Typed
<1>7. SessionsInv'
    BY <1>1 DEF Inv, SessionsInv
<1>8. Growing
    <2>1. authOf \in [User -> Auth \cup {NoAuth}]
        BY DEF Inv, Typed
    <2> QED BY <1>1, <1>2, <2>1 DEF Growing
<1>9. WorkersInv'
    BY <1>1, <1>8, AnswerKeeps DEF Inv
<1>10. ThrottleInv'
    <2>1. CASE UNCHANGED Throttle
        BY <1>1, <2>1 DEF Inv, ThrottleInv
    <2>2. CASE Attempt(NoUser, "ADD_USER", FALSE)
        BY <1>1, <2>2, AttemptKeepsThrottleInv DEF Inv, Typed
    <2> QED BY <1>3, <2>1, <2>2
<1>11. OneAccountPerIdentity'
    <2>1. /\ authOf \in [User -> Auth \cup {NoAuth}]
          /\ \A u \in live : u \in User /\ u # new
          /\ OneAccountPerIdentity
        BY <1>1 DEF Inv, Typed
    <2>2. CASE /\ ~known
               /\ authOf' = [authOf EXCEPT ![new] = auth] /\ live' = live \cup {new}
        <3>1. authOf'[new] = auth /\ \A u \in live : authOf'[u] = authOf[u] /\ authOf[u] # auth
            BY <2>1, <2>2
        <3> QED BY <2>1, <2>2, <3>1 DEF OneAccountPerIdentity
    <2> QED BY <1>2, <2>1, <2>2 DEF OneAccountPerIdentity
<1> QED BY <1>6, <1>7, <1>9, <1>10, <1>11 DEF Inv

LEMMA DeleteUserKeepsInv ==
    ASSUME Inv, NEW w \in Worker, NEW target \in User, NEW allowed \in BOOLEAN,
           deleteUser(w, target, allowed)
    PROVE  Inv'
<1>1. /\ Answer(w, "DONE") /\ live' \subseteq live
      /\ UNCHANGED <<scene, now, sessions, lastCleanup, logins, authOf, readers, served>>
    BY DEF deleteUser
<1>2. \/ UNCHANGED Throttle
      \/ Attempt(Actor(w), "DELETE_USER", FALSE)
    BY DEF deleteUser
<1>3. lastSeen' \in [User -> Nat]
    BY SeenNowType DEF deleteUser, Inv
<1>4. Typed' /\ SessionsInv' /\ OneAccountPerIdentity'
    BY <1>1, <1>3 DEF Inv, Typed, SessionsInv, OneAccountPerIdentity
<1>5. WorkersInv'
    <2>1. Growing
        BY <1>1 DEF Growing
    <2> QED BY <1>1, <2>1, AnswerKeeps DEF Inv
<1>6. ThrottleInv'
    <2>1. CASE UNCHANGED Throttle
        BY <1>1, <2>1 DEF Inv, ThrottleInv
    <2>2. CASE Attempt(Actor(w), "DELETE_USER", FALSE)
        BY <1>1, <2>2, AttemptKeepsThrottleInv DEF Inv, Typed
    <2> QED BY <1>2, <2>1, <2>2
<1> QED BY <1>4, <1>5, <1>6 DEF Inv

LEMMA OtherCommandKeepsInv ==
    ASSUME Inv, NEW w \in Worker, NEW reached \in BOOLEAN, NEW empty \in BOOLEAN,
           OtherCommand(w, reached, empty)
    PROVE  Inv'
<1>1. /\ Answer(w, "DONE")
      /\ UNCHANGED <<scene, now, sessions, lastCleanup, logins, authOf, live, readers,
                     served>>
    BY DEF OtherCommand
<1>2. \/ UNCHANGED Throttle
      \/ Attempt(Actor(w), worker[w].endpoint, empty)
    BY DEF OtherCommand
<1>3. lastSeen' \in [User -> Nat]
    BY SeenNowType DEF OtherCommand, Inv, Typed
<1>4. Typed' /\ SessionsInv' /\ OneAccountPerIdentity'
    BY <1>1, <1>3 DEF Inv, Typed, SessionsInv, OneAccountPerIdentity
<1>5. WorkersInv'
    <2>1. Growing
        BY <1>1 DEF Growing
    <2> QED BY <1>1, <2>1, AnswerKeeps DEF Inv
<1>6. ThrottleInv'
    <2>1. CASE UNCHANGED Throttle
        BY <1>1, <2>1 DEF Inv, ThrottleInv
    <2>2. CASE Attempt(Actor(w), worker[w].endpoint, empty)
        BY <1>1, <2>2, AttemptKeepsThrottleInv DEF Inv, Typed
    <2> QED BY <1>2, <2>1, <2>2
<1> QED BY <1>4, <1>5, <1>6 DEF Inv

LEMMA BeginViewKeepsInv ==
    ASSUME Inv, NEW w \in Worker, BeginView(w)
    PROVE  Inv'
<1> USE DEF BeginView
<1>1. Typed' /\ SessionsInv' /\ ThrottleInv' /\ OneAccountPerIdentity'
    BY DEF Inv, Typed, SessionsInv, ThrottleInv, OneAccountPerIdentity
<1>g. Growing
    BY DEF Growing
<1>0. WorkerInv(w) /\ worker = [v \in Worker |-> worker[v]]
    BY DEF Inv, WorkersInv
<1>f. worker[w] = [f \in Field |-> worker[w][f]]
    BY <1>0 DEF WorkerInv, WorkerTyped
<1>2. worker' = [v \in Worker |-> worker'[v]]
      /\ \A v \in Worker : v # w => worker'[v] = worker[v]
    BY <1>0
<1> DEFINE u == Actor(w)
<1>3. /\ worker'[w] = [f \in Field |-> worker'[w][f]]
      /\ worker'[w].pc = "reading"
      /\ worker'[w].user = worker[w].user
      /\ worker'[w].auth = worker[w].auth /\ worker'[w].request = worker[w].request
      /\ worker'[w].since = worker[w].since
      /\ \/ worker'[w].update = NoUpdate
         \/ u # NoUser /\ worker'[w].update = [user |-> u, at |-> now]
    BY <1>0, <1>f DEF Field
<1>4. WorkerInv(w)'
    <2>1. WorkerTyped(w)' /\ UserInv(w)'
        BY <1>0, <1>3 DEF WorkerInv, WorkerTyped, UserInv, Busy
    <2>2. AuthInv(w)'
        BY <1>0, <1>3 DEF WorkerInv, AuthInv, Busy
    <2>3. UpdateInv(w)'
        <3>1. u # NoUser => u = worker[w].user
            BY DEF Actor
        <3> QED BY <1>3, <3>1 DEF UpdateInv, Inv, Typed
    <2> QED BY <2>1, <2>2, <2>3 DEF WorkerInv
<1> QED BY <1>1, <1>g, <1>2, <1>4, WorkersKeep DEF Inv

LEMMA EndViewKeepsInv ==
    ASSUME Inv, NEW w \in Worker, EndView(w)
    PROVE  Inv'
<1> USE DEF EndView
<1>1. Typed' /\ SessionsInv' /\ ThrottleInv' /\ OneAccountPerIdentity'
    BY DEF Inv, Typed, SessionsInv, ThrottleInv, OneAccountPerIdentity
<1>g. Growing
    BY DEF Growing
<1>2. CASE worker[w].update = NoUpdate
    <2>1. Answer(w, "DONE")
        BY <1>2
    <2>2. WorkersInv'
        BY <1>g, <2>1, AnswerKeeps DEF Inv
    <2> QED BY <1>1, <2>2 DEF Inv
<1>3. CASE worker[w].update # NoUpdate
    <2>0. WorkerInv(w) /\ worker = [v \in Worker |-> worker[v]]
        BY DEF Inv, WorkersInv
    <2>f. worker[w] = [f \in Field |-> worker[w][f]]
        BY <2>0 DEF WorkerInv, WorkerTyped
    <2>t. worker' = [worker EXCEPT ![w].pc = "update"]
        BY <1>3 DEF To
    <2>1. worker' = [v \in Worker |-> worker'[v]]
          /\ \A v \in Worker : v # w => worker'[v] = worker[v]
        BY <2>0, <2>t
    <2>2. /\ worker'[w] = [f \in Field |-> worker'[w][f]]
          /\ worker'[w].pc = "update"
          /\ worker'[w].user = worker[w].user
          /\ worker'[w].auth = worker[w].auth /\ worker'[w].request = worker[w].request
          /\ worker'[w].since = worker[w].since /\ worker'[w].update = worker[w].update
        BY <2>0, <2>f, <2>t DEF Field
    <2>3. WorkerInv(w)'
        <3>1. WorkerTyped(w)' /\ UserInv(w)'
            BY <2>0, <2>2 DEF WorkerInv, WorkerTyped, UserInv, Busy
        <3>2. AuthInv(w)'
            BY <2>0, <2>2 DEF WorkerInv, AuthInv, Busy
        <3>3. UpdateInv(w)'
            BY <1>3, <2>0, <2>2 DEF WorkerInv, UpdateInv
        <3> QED BY <3>1, <3>2, <3>3 DEF WorkerInv
    <2> QED BY <1>1, <1>g, <2>1, <2>3, WorkersKeep DEF Inv
<1> QED BY <1>2, <1>3

LEMMA LastSeenUpdateKeepsInv ==
    ASSUME Inv, NEW w \in Worker, lastSeenUpdate(w)
    PROVE  Inv'
<1>1. /\ worker[w].pc = "update" /\ Answer(w, "DONE")
      /\ UNCHANGED <<scene, now, sessions, lastCleanup, logins, authOf, live, entries,
                     passed, readers, served>>
    BY DEF lastSeenUpdate
<1>2. \E u : lastSeen' = lastSeen \/ lastSeen' = [lastSeen EXCEPT ![u] = worker[w].update.at]
    BY DEF lastSeenUpdate
<1>3. worker[w].update.at \in Nat
    BY <1>1 DEF Inv, WorkersInv, WorkerInv, UpdateInv
<1>4. lastSeen' \in [User -> Nat]
    BY <1>2, <1>3 DEF Inv, Typed
<1>5. Typed' /\ SessionsInv' /\ ThrottleInv' /\ OneAccountPerIdentity'
    BY <1>1, <1>4 DEF Inv, Typed, SessionsInv, ThrottleInv, OneAccountPerIdentity
<1>6. WorkersInv'
    <2>1. Growing
        BY <1>1 DEF Growing
    <2> QED BY <1>1, <2>1, AnswerKeeps DEF Inv
<1> QED BY <1>5, <1>6 DEF Inv

LEMMA LoginKeepsInv ==
    ASSUME Inv, NEW k \in Token, NEW a \in Auth, NEW d \in Nat, loginUser(k, a, d)
    PROVE  Inv'
<1> DEFINE l == [token |-> k, auth |-> a, until |-> now + d]
<1>1. /\ logins' = logins \cup {l}
      /\ UNCHANGED <<scene, now, authOf, live, lastSeen, entries, passed, readers,
                     worker, served>>
    BY DEF loginUser
<1>2. l \in [token : Token, auth : Auth, until : Nat]
    BY DEF Inv, Typed
<1>3. ASSUME NEW x \in DOMAIN sessions'
      PROVE  \/ x \in DOMAIN sessions /\ sessions'[x] = sessions[x]
             \/ x = k /\ sessions'[x] = [auth |-> a, expires |-> now + d]
    BY DEF loginUser, add
<1>4. Typed'
    <2>1. ASSUME NEW x \in DOMAIN sessions'
          PROVE  /\ x \in Token /\ sessions'[x].auth \in Auth
                 /\ sessions'[x].expires \in Nat
        <3>1. now + d \in Nat
            BY DEF Inv, Typed
        <3> QED BY <1>3, <3>1 DEF Inv, Typed
    <2>2. logins' \subseteq [token : Token, auth : Auth, until : Nat]
        BY <1>1, <1>2 DEF Inv, Typed
    <2> QED BY <1>1, <2>1, <2>2 DEF Inv, Typed
<1>5. SessionsInv'
    <2> SUFFICES ASSUME NEW x \in DOMAIN sessions'
                 PROVE  \E y \in logins' : /\ y.token = x /\ y.auth = sessions'[x].auth
                                           /\ y.until >= sessions'[x].expires
        BY DEF SessionsInv
    <2>1. CASE x \in DOMAIN sessions /\ sessions'[x] = sessions[x]
        BY <1>1, <2>1 DEF Inv, SessionsInv
    <2>2. CASE x = k /\ sessions'[x] = [auth |-> a, expires |-> now + d]
        <3>1. l \in logins' /\ l.token = x /\ l.auth = sessions'[x].auth
            BY <1>1, <2>2
        <3>2. l.until >= sessions'[x].expires
            BY <2>2 DEF Inv, Typed
        <3> QED BY <3>1, <3>2
    <2> QED BY <1>3, <2>1, <2>2
<1>6. WorkersInv'
    <2>1. Growing
        BY <1>1 DEF Growing
    <2>2. \A v \in Worker : WorkerInv(v)'
        BY <1>1, <2>1, OthersKeep DEF Inv, WorkersInv
    <2> QED BY <1>1, <2>2 DEF Inv, WorkersInv
<1>7. ThrottleInv' /\ OneAccountPerIdentity'
    BY <1>1 DEF Inv, ThrottleInv, OneAccountPerIdentity
<1> QED BY <1>4, <1>5, <1>6, <1>7 DEF Inv

LEMMA TickKeepsInv == Inv /\ Tick => Inv'
<1> SUFFICES ASSUME Inv, Tick PROVE Inv'
    OBVIOUS
<1>1. now \in Nat /\ now' = now + 1
    BY DEF Inv, Typed, Tick
<1>2. Typed' /\ SessionsInv' /\ OneAccountPerIdentity'
    BY <1>1 DEF Tick, Inv, Typed, SessionsInv, OneAccountPerIdentity
<1>3. WorkersInv'
    <2>1. Growing
        BY DEF Growing, Tick
    <2>2. \A v \in Worker : WorkerInv(v)'
        BY <2>1, OthersKeep DEF Inv, WorkersInv, Tick
    <2> QED BY <2>2 DEF Inv, WorkersInv, Tick
<1>4. ThrottleInv'
    <2>1. \A who \in Client, a \in Action : Window(entries[who][a], passed[who][a], now')
        BY <1>1, WindowLater DEF Inv, ThrottleInv
    <2> QED BY <2>1 DEF Inv, ThrottleInv, Tick
<1> QED BY <1>2, <1>3, <1>4 DEF Inv

LEMMA InvNext == Inv /\ [Next]_vars => Inv'
<1> SUFFICES ASSUME Inv, [Next]_vars PROVE Inv'
    OBVIOUS
<1>s. /\ scene.workers \subseteq Worker /\ scene.tokens \subseteq Token \cup {NoToken}
      /\ scene.durations \subseteq Nat
    BY ScenesAssumption DEF Inv, Typed
<1>1. ASSUME NEW w \in scene.workers, NEW e \in scene.endpoints,
             NEW r \in RequestsFor(e), Receive(w, r)
      PROVE  Inv'
    BY <1>s, <1>1, ReceiveKeepsInv
<1>2. ASSUME NEW w \in Worker, Step(w) PROVE Inv'
    <2>1. CASE CommandStep(w)
        BY <2>1, AddNewUserKeepsInv, DeleteUserKeepsInv, OtherCommandKeepsInv
        DEF CommandStep
    <2> QED BY <1>2, <2>1, HandleKeepsInv, BeginViewKeepsInv, EndViewKeepsInv,
               LastSeenUpdateKeepsInv, ReplyKeepsInv DEF Step
<1>3. ASSUME NEW k \in scene.tokens \ {NoToken}, NEW a \in Auth,
             NEW d \in scene.durations, loginUser(k, a, d)
      PROVE  Inv'
    <2>1. k \in Token /\ d \in Nat
        BY <1>s
    <2> QED BY <1>3, <2>1, LoginKeepsInv
<1>4. CASE UNCHANGED vars
    <2>1. Typed' /\ SessionsInv' /\ ThrottleInv' /\ OneAccountPerIdentity'
        BY <1>4 DEF vars, Inv, Typed, SessionsInv, ThrottleInv, OneAccountPerIdentity
    <2>2. Growing
        BY <1>4 DEF vars, Growing
    <2>3. \A v \in Worker : WorkerInv(v)'
        BY <1>4, <2>2, OthersKeep DEF Inv, WorkersInv, vars
    <2>4. WorkersInv'
        BY <1>4, <2>3 DEF Inv, WorkersInv, vars
    <2> QED BY <2>1, <2>4 DEF Inv
<1> QED BY <1>1, <1>2, <1>3, <1>4, TickKeepsInv DEF Next

LEMMA InvAlways == Spec => []Inv
    BY InvInit, InvNext, PTL DEF Spec

-----------------------------------------------------------------------------
(* The theorems.                                                           *)

\* Type correctness: among others, an account that exists has an identity and
\* the arrays of throttling keep their length.
THEOREM TypeCorrect == Spec => []TypeOK
<1>1. ASSUME Inv PROVE TypeOK
    <2>1. \A who \in User \cup {Ip}, a \in Action : Len(entries[who][a]) = MaxAllowed
        BY <1>1 DEF Inv, ThrottleInv, Window, Client
    <2> QED BY <1>1, <2>1 DEF Inv, Typed, WorkersInv, WorkerInv, WorkerTyped, TypeOK
<1> QED BY <1>1, InvAlways, PTL

\* A request acts for an account only with a session that the login service
\* announced for the identity of that account and that had not expired when the
\* request came in, although the context is reused from request to request and
\* the account is looked up after the session.
THEOREM IdentityTheorem == Spec => []IdentityVouchedFor
<1>1. ASSUME Inv PROVE IdentityVouchedFor
    <2> SUFFICES ASSUME NEW w \in Worker, Busy(w), worker[w].user # NoUser
                 PROVE  /\ worker[w].request.csrf
                        /\ \E l \in logins : /\ l.token = worker[w].request.token
                                             /\ l.auth = authOf[worker[w].user]
                                             /\ l.until >= worker[w].since
        BY DEF IdentityVouchedFor, Busy
    <2> QED BY <1>1 DEF Inv, WorkersInv, WorkerInv, AuthInv, UserInv
<1> QED BY <1>1, InvAlways, PTL

\* No two accounts share an identity, whatever the order in which the requests
\* of one session look their account up and register it.
THEOREM OneAccountTheorem == Spec => []OneAccountPerIdentity
<1>1. Inv => OneAccountPerIdentity
    BY DEF Inv
<1> QED BY <1>1, InvAlways, PTL

\* For every limit and period, any MaxAllowed + 1 actions of a kind that one
\* client was allowed take at least the period: the circular array also counts
\* the attempts that were refused, so it only errs on the safe side.
THEOREM ThrottlingTheorem == Spec => []ThrottlingRespected
<1>1. Inv => ThrottlingRespected
    BY DEF Inv, ThrottleInv, Window, ThrottlingRespected, Client
<1> QED BY <1>1, InvAlways, PTL

\* Who is seen, when a step of worker w changes the time of u.
SeenBy(w, u) ==
    /\ worker'[w].pc # worker[w].pc
    /\ \/ \E l \in logins : /\ l.token = worker[w].request.token
                            /\ l.auth = authOf[u]
       \/ worker[w].pc = "update" /\ worker[w].update.user \notin live

LEMMA BusyUserVouchedFor ==
    ASSUME Inv, NEW w \in Worker, Busy(w), worker[w].user # NoUser
    PROVE  \E l \in logins : /\ l.token = worker[w].request.token
                             /\ l.auth = authOf[worker[w].user]
    BY DEF Inv, WorkersInv, WorkerInv, AuthInv, UserInv

LEMMA CommandSeen ==
    ASSUME Inv, NEW w \in Worker, CommandStep(w), NEW u \in User,
           lastSeen'[u] # lastSeen[u]
    PROVE  SeenBy(w, u)
<1>1. worker[w].pc = "command" /\ Answer(w, "DONE")
    BY DEF CommandStep, addNewUser, deleteUser, OtherCommand, Writes
<1>2. lastSeen' = SeenNow(Actor(w))
    BY DEF CommandStep, addNewUser, deleteUser, OtherCommand
<1>3. u = Actor(w) /\ u # NoUser
    BY <1>2 DEF SeenNow, Inv, Typed
<1>4. u = worker[w].user
    BY <1>3 DEF Actor
<1>5. worker'[w].pc = "answer"
    <2>1. worker = [v \in Worker |-> worker[v]] /\ worker[w] = [f \in Field |-> worker[w][f]]
        BY DEF Inv, WorkersInv, WorkerInv, WorkerTyped
    <2> QED BY <1>1, <2>1 DEF Answer, Field
<1>6. Busy(w)
    BY <1>1 DEF Busy
<1> QED BY <1>1, <1>3, <1>4, <1>5, <1>6, BusyUserVouchedFor DEF SeenBy

LEMMA UpdateSeen ==
    ASSUME Inv, NEW w \in Worker, lastSeenUpdate(w), NEW u \in User,
           lastSeen'[u] # lastSeen[u]
    PROVE  SeenBy(w, u)
<1>1. worker[w].pc = "update" /\ Answer(w, "DONE")
    BY DEF lastSeenUpdate
<1>2. worker'[w].pc = "answer"
    <2>1. worker = [v \in Worker |-> worker[v]] /\ worker[w] = [f \in Field |-> worker[w][f]]
        BY DEF Inv, WorkersInv, WorkerInv, WorkerTyped
    <2> QED BY <1>1, <2>1 DEF Answer, Field
<1>3. CASE worker[w].update.user \notin live
    BY <1>1, <1>2, <1>3 DEF SeenBy
<1>4. CASE worker[w].update.user \in live
    <2>1. \/ lastSeen' = lastSeen
          \/ lastSeen' = [lastSeen EXCEPT ![worker[w].update.user] = worker[w].update.at]
        BY <1>4 DEF lastSeenUpdate
    <2>2. u = worker[w].update.user
        BY <2>1 DEF Inv, Typed
    <2>3. worker[w].update.user = worker[w].user /\ worker[w].user # NoUser
        BY <1>1 DEF Inv, WorkersInv, WorkerInv, UpdateInv
    <2>4. Busy(w)
        BY <1>1 DEF Busy
    <2> QED BY <1>1, <1>2, <2>2, <2>3, <2>4, BusyUserVouchedFor DEF SeenBy
<1> QED BY <1>3, <1>4

\* The time at which a user was last seen changes only in a step of a worker
\* that serves a request with a session of that user, or in the late update of
\* an account that was deleted meanwhile.
THEOREM LastSeenTheorem == Spec => LastSeenByOwnRequests
<1> DEFINE Own == \A u \in User : lastSeen'[u] # lastSeen[u] =>
                      \E w \in Worker :
                          /\ worker'[w].pc # worker[w].pc
                          /\ \/ \E l \in logins : /\ l.token = worker[w].request.token
                                                 /\ l.auth = authOf[u]
                             \/ worker[w].pc = "update" /\ worker[w].update.user \notin live
<1>1. ASSUME Inv, [Next]_vars PROVE [Own]_vars
    <2> SUFFICES ASSUME NEW u \in User, lastSeen'[u] # lastSeen[u]
                 PROVE  \E w \in Worker : SeenBy(w, u)
        BY DEF SeenBy
    <2>1. \/ \E w \in Worker : CommandStep(w) \/ lastSeenUpdate(w)
          \/ lastSeen' = lastSeen
        BY <1>1 DEF Next, Step, Receive, handle, BeginView, EndView, Reply, loginUser,
                    Tick, vars
    <2> QED BY <1>1, <2>1, CommandSeen, UpdateSeen
<1> QED BY <1>1, InvAlways, PTL DEF Spec, LastSeenByOwnRequests

-----------------------------------------------------------------------------
(* From a request to the parameters of its handler.                        *)

Values == scene.words \cup {""}

\* Request r is one that a client may make of endpoint e.
Asks(r, e) == r.endpoint = e /\ \A i \in 0 .. 4 : r.values[i] \in Values

LEMMA RequestAsks ==
    ASSUME NEW e, NEW r \in RequestsFor(e)
    PROVE  Asks(r, e)
<1>1. r.endpoint = e /\ r.values \in ValuesFor(e)
    BY DEF RequestsFor
<1>2. ASSUME NEW i \in 0 .. 4 PROVE r.values[i] \in Values
    BY <1>1 DEF Values, ValuesFor
<1> QED BY <1>1, <1>2 DEF Asks

\* The last part of the path that is in use.
LEMMA LastInUse ==
    ASSUME NEW used \in SUBSET (1 .. 4), used # {},
           NEW n, n = CHOOSE i \in used : \A j \in used : j <= i
    PROVE  n \in 1 .. 4 /\ \A i \in used : i <= n
<1>1. 1 \in used \/ 2 \in used \/ 3 \in used \/ 4 \in used
    <2>1. PICK i \in used : TRUE
        OBVIOUS
    <2>2. i \in 1 .. 4
        OBVIOUS
    <2>3. i = 1 \/ i = 2 \/ i = 3 \/ i = 4
        BY <2>2
    <2> QED BY <2>3
<1>2. \E i \in used : \A j \in used : j <= i
    <2>1. \A j \in used : j \in 1 .. 4
        OBVIOUS
    <2>2. CASE 4 \in used
        BY <2>1, <2>2
    <2>3. CASE 4 \notin used /\ 3 \in used
        <3>1. ASSUME NEW j \in used PROVE j <= 3
            <4>1. j \in 1 .. 4 /\ j # 4
                BY <2>3
            <4> QED BY <4>1
        <3> QED BY <2>3, <3>1
    <2>4. CASE 4 \notin used /\ 3 \notin used /\ 2 \in used
        <3>1. ASSUME NEW j \in used PROVE j <= 2
            <4>1. j \in 1 .. 4 /\ j # 4 /\ j # 3
                BY <2>4
            <4> QED BY <4>1
        <3> QED BY <2>4, <3>1
    <2>5. CASE 4 \notin used /\ 3 \notin used /\ 2 \notin used
        <3>1. ASSUME NEW j \in used PROVE j <= 1
            <4>1. j \in 1 .. 4 /\ j # 4 /\ j # 3 /\ j # 2
                BY <2>5
            <4> QED BY <4>1
        <3> QED BY <1>1, <2>5, <3>1
    <2> QED BY <2>2, <2>3, <2>4, <2>5
<1> QED BY <1>2

\* The path of a request: its route and the values up to the last one in use.
LEMMA PathOfRequest ==
    ASSUME NEW r
    PROVE  \E n \in 0 .. 4 :
              /\ PathOf(r) = Routes[r.endpoint] \o [i \in 1 .. n |-> r.values[i]]
              /\ \A i \in 1 .. 4 : i > n => r.values[i] = ""
<1> DEFINE used == {i \in 1 .. 4 : r.values[i] # ""}
           n == IF used = {} THEN 0 ELSE CHOOSE i \in used : \A j \in used : j <= i
<1>1. PathOf(r) = Routes[r.endpoint] \o [i \in 1 .. n |-> r.values[i]]
    BY DEF PathOf
<1>2. used \in SUBSET (1 .. 4) /\ \A i \in 1 .. 4 : i \notin used => r.values[i] = ""
    OBVIOUS
<1> HIDE DEF used
<1>3. n \in 0 .. 4 /\ \A i \in used : i <= n
    <2>1. CASE used = {}
        BY <2>1
    <2>2. CASE used # {}
        <3>1. n = CHOOSE i \in used : \A j \in used : j <= i
            BY <2>2
        <3> HIDE DEF n
        <3>2. n \in 1 .. 4 /\ \A i \in used : i <= n
            BY <1>2, <2>2, <3>1, LastInUse
        <3> QED BY <3>2
    <2> QED BY <2>1, <2>2
<1> HIDE DEF n
<1>4. ASSUME NEW i \in 1 .. 4, i > n PROVE r.values[i] = ""
    <2>1. i \notin used
        BY <1>3, <1>4
    <2> QED BY <1>2, <2>1
<1> QED BY <1>1, <1>3, <1>4

\* A path is its route, then the values.
LEMMA PathParts ==
    ASSUME NEW e \in Endpoint, NEW n \in 0 .. 4, NEW values
    PROVE  LET route == Routes[e]
               path == route \o [i \in 1 .. n |-> values[i]]
           IN  /\ Len(route) \in Nat \ {0}
               /\ Len(path) = Len(route) + n
               /\ \A i \in 1 .. Len(route) : path[i] = route[i]
               /\ \A i \in 1 .. n : path[Len(route) + i] = values[i]
<1> DEFINE route == Routes[e]
           tail == [i \in 1 .. n |-> values[i]]
           S == STRING \cup {values[i] : i \in 1 .. n}
<1>1. route \in Seq(S) /\ route # << >>
    <2>1. route \in Seq(STRING) /\ route # << >>
        BY RoutesAssumption
    <2> HIDE DEF route
    <2> QED BY <2>1
<1>2. tail \in Seq(S) /\ Len(tail) = n /\ \A i \in 1 .. n : tail[i] = values[i]
    OBVIOUS
<1>3. Len(route) \in Nat \ {0}
    <2> HIDE DEF route, S
    <2> QED BY <1>1, EmptySeq, LenProperties
<1> HIDE DEF S, tail
<1>4. /\ Len(route \o tail) = Len(route) + Len(tail)
      /\ \A i \in 1 .. Len(route) + Len(tail) :
            (route \o tail)[i] = IF i <= Len(route) THEN route[i]
                                 ELSE tail[i - Len(route)]
    BY <1>1, <1>2, ConcatProperties
<1> HIDE DEF route
<1>5. /\ \A i \in 1 .. Len(route) : (route \o tail)[i] = route[i]
      /\ \A i \in 1 .. n : (route \o tail)[Len(route) + i] = tail[i]
    BY <1>2, <1>3, <1>4
<1> QED BY <1>2, <1>3, <1>4, <1>5 DEF route, tail

\* HttpRouter::forward: a path reaches the endpoint whose route it is made of,
\* if no value begins with the last word of a longer route.
LEMMA ForwardReaches ==
    ASSUME NEW e \in Endpoint, NEW n \in 0 .. 4, NEW values,
           ClearOfRoutes(e, values)
    PROVE  forward(Routes[e] \o [i \in 1 .. n |-> values[i]]) = e
<1> DEFINE path == Routes[e] \o [i \in 1 .. n |-> values[i]]
<1>1. /\ Len(Routes[e]) \in Nat \ {0}
      /\ Len(path) = Len(Routes[e]) + n
      /\ \A i \in 1 .. Len(Routes[e]) : path[i] = Routes[e][i]
      /\ \A i \in 1 .. n : path[Len(Routes[e]) + i] = values[i]
    BY PathParts, SMTT(30)
<1> DEFINE Best(x) == /\ Matches(Routes[x], path)
                      /\ \A o \in Endpoint : Matches(Routes[o], path)
                                                => ~Longer(Routes[o], Routes[x])
<1>2. forward(path) = CHOOSE x \in Endpoint : Best(x)
    BY DEF forward
<1> HIDE DEF path
<1>3. Matches(Routes[e], path)
    BY <1>1 DEF Matches
<1>4. ASSUME NEW o \in Endpoint, o # e, Matches(Routes[o], path)
      PROVE  Longer(Routes[e], Routes[o]) /\ ~Longer(Routes[o], Routes[e])
    <2>0. Len(Routes[o]) \in Nat \ {0}
        BY PathParts
    <2>1. CASE Len(Routes[o]) <= Len(Routes[e])
        <3>1. \A i \in 1 .. Len(Routes[o]) : path[i] = Routes[e][i]
            BY <1>1, <2>0, <2>1
        <3>2. Matches(Routes[o], Routes[e])
            BY <1>4, <2>0, <2>1, <3>1 DEF Matches
        <3> QED BY <1>4, <3>2, RoutesAssumption
    <2>2. CASE ~(Len(Routes[o]) <= Len(Routes[e]))
        <3> DEFINE k == Len(Routes[o]) - Len(Routes[e])
        <3>1. Len(Routes[o]) <= Len(path)
            BY <1>4 DEF Matches
        <3>2. k \in 1 .. n /\ Len(Routes[e]) + k = Len(Routes[o])
            BY <1>1, <2>0, <2>2, <3>1
        <3> HIDE DEF k
        <3>3. path[Len(Routes[o])] = values[k]
            BY <1>1, <3>2
        <3>4. k \in 1 .. 4 /\ Len(Routes[o]) = Len(Routes[e]) + k
            BY <3>2
        <3> QED BY <1>4, <3>3, <3>4, Zenon DEF Matches, ClearOfRoutes
    <2> QED BY <2>1, <2>2
<1>5. ~Longer(Routes[e], Routes[e])
    BY RoutesAssumption
<1>6. Best(e)
    BY <1>3, <1>4, <1>5
<1>7. ASSUME NEW x \in Endpoint, Best(x) PROVE x = e
    BY <1>3, <1>4, <1>7
<1> HIDE DEF Best
<1>8. (CHOOSE x \in Endpoint : Best(x)) = e
    BY <1>6, <1>7
<1> QED BY <1>2, <1>8 DEF path

\* What the endpoint hands over: the values of the request.
Own(r) == [i \in 1 .. Len(Gives[r.endpoint]) |-> r.values[Gives[r.endpoint][i]]]

LEMMA HandedOver ==
    ASSUME NEW e \in Endpoint, NEW r, Asks(r, e), ClearOfRoutes(e, r.values)
    PROVE  LET parts == extractExtraPathParts(e, PathOf(r))
           IN  /\ forward(PathOf(r)) = e
               /\ [i \in 1 .. Len(Gives[e]) |->
                      IF Gives[e][i] = Body THEN r.values[Body]
                      ELSE parts[Gives[e][i]]] = Own(r)
<1> DEFINE parts == extractExtraPathParts(e, PathOf(r))
<1>1. PICK n \in 0 .. 4 :
         /\ PathOf(r) = Routes[e] \o [i \in 1 .. n |-> r.values[i]]
         /\ \A i \in 1 .. 4 : i > n => r.values[i] = ""
    BY PathOfRequest DEF Asks
<1>2. forward(PathOf(r)) = e
    BY <1>1, ForwardReaches
<1>3. \A i \in 1 .. 4 : parts[i] = r.values[i]
    <2> DEFINE path == Routes[e] \o [i \in 1 .. n |-> r.values[i]]
    <2>1. /\ Len(Routes[e]) \in Nat \ {0}
          /\ Len(path) = Len(Routes[e]) + n
          /\ \A i \in 1 .. n : path[Len(Routes[e]) + i] = r.values[i]
        BY PathParts
    <2>2. path = PathOf(r)
        BY <1>1
    <2> HIDE DEF path
    <2>3. \A i \in 1 .. 4 : parts[i] = IF Len(Routes[e]) + i <= Len(path)
                                       THEN path[Len(Routes[e]) + i] ELSE ""
        BY <2>2 DEF extractExtraPathParts
    <2> HIDE DEF parts
    <2>4. ASSUME NEW i \in 1 .. 4 PROVE parts[i] = r.values[i]
        <3>1. CASE i <= n
            <4>1. i \in 1 .. n /\ Len(Routes[e]) + i <= Len(path)
                BY <2>1, <3>1
            <4> QED BY <2>1, <2>3, <4>1
        <3>2. CASE ~(i <= n)
            <4>1. i > n /\ ~(Len(Routes[e]) + i <= Len(path))
                BY <2>1, <3>2
            <4>2. parts[i] = ""
                BY <2>3, <4>1
            <4> QED BY <1>1, <4>1, <4>2
        <3> QED BY <3>1, <3>2
    <2> QED BY <2>4
<1> HIDE DEF parts
<1>4. \A i \in 1 .. Len(Gives[e]) : Gives[e][i] \in 0 .. 4
    <2>1. Gives[e] \in Seq(0 .. 4)
        BY HandlersAssumption
    <2> QED BY <2>1, ElementOfSeq
<1>5. \A i \in 1 .. Len(Gives[e]) :
          (IF Gives[e][i] = Body THEN r.values[Body] ELSE parts[Gives[e][i]])
              = r.values[Gives[e][i]]
    BY <1>3, <1>4 DEF Body
<1>6. [i \in 1 .. Len(Gives[e]) |->
          IF Gives[e][i] = Body THEN r.values[Body] ELSE parts[Gives[e][i]]] = Own(r)
    BY <1>5 DEF Own, Asks
<1> QED BY <1>2, <1>6 DEF parts

-----------------------------------------------------------------------------
(* The parameters of a worker, from request to handler.                    *)

\* What is known of the parameters of a worker in state x, if the values of its
\* request are clear of longer routes.
WellServed(x) ==
    ClearOfRoutes(x.request.endpoint, x.request.values) =>
        /\ x.pc \in {"handle", "command", "view"} =>
              /\ x.request.endpoint \in Endpoint /\ x.endpoint = x.request.endpoint
              /\ x.params = Own(x.request)
        /\ x.pc \in {"command", "view"} => Accepts(Handlers[x.endpoint], x.params)
        /\ x.pc = "answer" /\ x.status = "INVALID_PARAMETERS" =>
              /\ x.request.endpoint \in Endpoint
              /\ ~Accepts(Handlers[x.request.endpoint], Own(x.request))

ServedInv == \A w \in Worker : WellServed(worker[w])

\* The state of worker w, as a record.
LEMMA WorkerRecord ==
    ASSUME WorkersInv, NEW w \in Worker
    PROVE  /\ worker = [v \in Worker |-> worker[v]]
           /\ worker[w] = [f \in Field |-> worker[w][f]]
BY DEF WorkersInv, WorkerInv, WorkerTyped

LEMMA ReceiveServes ==
    ASSUME Inv, ServedInv, NEW w \in Worker, NEW e \in scene.endpoints,
           NEW r \in RequestsFor(e), Receive(w, r)
    PROVE  ServedInv'
<1>0. /\ worker = [v \in Worker |-> worker[v]]
      /\ worker[w] = [f \in Field |-> worker[w][f]]
    BY WorkerRecord DEF Inv
<1>1. CASE r.origin
    <2> DEFINE context == updateContextForRequest(w, r, r.csrf)
               to == forward(PathOf(r))
               parts == extractExtraPathParts(to, PathOf(r))
               own == [i \in 1 .. Len(Gives[to]) |->
                          IF Gives[to][i] = Body THEN r.values[Body]
                          ELSE parts[Gives[to][i]]]
    <2>1. Asks(r, e) /\ e \in Endpoint
        BY RequestAsks, ScenesAssumption DEF Inv, Typed
    <2>2. ASSUME ClearOfRoutes(e, r.values) PROVE to = e /\ own = Own(r)
        BY <2>1, <2>2, HandedOver
    <2>3. worker' = [worker EXCEPT ![w] =
              [context EXCEPT !.pc = "handle", !.request = r, !.since = now,
                              !.endpoint = to, !.params = own]]
        BY <1>1 DEF Receive, handleInternal
    <2>4. context = [f \in Field |-> context[f]]
        BY <1>0 DEF updateContextForRequest, Field
    <2> HIDE DEF context, to, own
    <2>5. /\ worker'[w].pc = "handle" /\ worker'[w].request = r
          /\ worker'[w].endpoint = to /\ worker'[w].params = own
          /\ \A v \in Worker : v # w => worker'[v] = worker[v]
        BY <1>0, <2>3, <2>4 DEF Field
    <2>6. WellServed(worker'[w])
        BY <2>1, <2>2, <2>5 DEF WellServed, Asks
    <2> QED BY <2>5, <2>6 DEF ServedInv
<1>2. CASE ~r.origin
    <2>1. worker' = [worker EXCEPT ![w].pc = "answer", ![w].status = "BAD_REQUEST",
                                   ![w].request = r, ![w].since = now]
        BY <1>2 DEF Receive
    <2>2. /\ worker'[w].pc = "answer" /\ worker'[w].status = "BAD_REQUEST"
          /\ \A v \in Worker : v # w => worker'[v] = worker[v]
        BY <1>0, <2>1 DEF Field
    <2>3. WellServed(worker'[w])
        BY <2>2 DEF WellServed
    <2> QED BY <2>2, <2>3 DEF ServedInv
<1> QED BY <1>1, <1>2

LEMMA HandleServes ==
    ASSUME Inv, ServedInv, NEW w \in Worker, handle(w)
    PROVE  ServedInv'
<1>0. /\ worker = [v \in Worker |-> worker[v]]
      /\ worker[w] = [f \in Field |-> worker[w][f]]
    BY WorkerRecord DEF Inv
<1> DEFINE accepted == Accepts(Handlers[worker[w].endpoint], worker[w].params)
<1>1. PICK user, status, pc :
         /\ worker[w].pc = "handle"
         /\ worker' = [worker EXCEPT ![w].user = user, ![w].status = status,
                                     ![w].pc = pc]
         /\ pc \in {"answer", "view", "command"}
         /\ pc # "answer" => status = ""
         /\ status = "INVALID_PARAMETERS" => ~accepted
         /\ status = "" => accepted
    BY DEF handle
<1>2. /\ worker'[w].pc = pc /\ worker'[w].status = status
      /\ worker'[w].request = worker[w].request
      /\ worker'[w].endpoint = worker[w].endpoint
      /\ worker'[w].params = worker[w].params
      /\ \A v \in Worker : v # w => worker'[v] = worker[v]
    BY <1>0, <1>1 DEF Field
<1>3. WellServed(worker[w])
    BY DEF ServedInv
<1>4. WellServed(worker'[w])
    BY <1>1, <1>2, <1>3 DEF WellServed
<1> QED BY <1>2, <1>4 DEF ServedInv

\* Any other step of a worker ends the call or goes on without its parameters.
LEMMA OthersServe ==
    ASSUME Inv, ServedInv, NEW w \in Worker, ~handle(w), Step(w)
    PROVE  ServedInv'
<1>0. /\ worker = [v \in Worker |-> worker[v]]
      /\ worker[w] = [f \in Field |-> worker[w][f]]
    BY WorkerRecord DEF Inv
<1>1. ASSUME Answer(w, "DONE") PROVE ServedInv'
    <2>1. /\ worker'[w].pc = "answer" /\ worker'[w].status = "DONE"
          /\ \A v \in Worker : v # w => worker'[v] = worker[v]
        BY <1>0, <1>1 DEF Answer, Field
    <2>2. WellServed(worker'[w])
        BY <2>1 DEF WellServed
    <2> QED BY <2>1, <2>2 DEF ServedInv
<1>2. ASSUME NEW pc \in {"reading", "update", "idle"}, worker'[w].pc = pc,
             \A v \in Worker : v # w => worker'[v] = worker[v]
      PROVE  ServedInv'
    <2>1. WellServed(worker'[w])
        BY <1>2 DEF WellServed
    <2> QED BY <1>2, <2>1 DEF ServedInv
<1>3. CASE CommandStep(w)
    <2>1. Answer(w, "DONE")
        BY <1>3 DEF CommandStep, addNewUser, deleteUser, OtherCommand
    <2> QED BY <1>1, <2>1
<1>4. CASE BeginView(w)
    <2>1. /\ worker'[w].pc = "reading"
          /\ \A v \in Worker : v # w => worker'[v] = worker[v]
        BY <1>0, <1>4 DEF BeginView, Field
    <2> QED BY <1>2, <2>1
<1>5. CASE EndView(w)
    <2>1. CASE Answer(w, "DONE")
        BY <1>1, <2>1
    <2>2. CASE To(w, "update")
        <3>1. /\ worker'[w].pc = "update"
              /\ \A v \in Worker : v # w => worker'[v] = worker[v]
            BY <1>0, <2>2 DEF To, Field
        <3> QED BY <1>2, <3>1
    <2> QED BY <1>5, <2>1, <2>2 DEF EndView
<1>6. CASE lastSeenUpdate(w)
    BY <1>1, <1>6 DEF lastSeenUpdate
<1>7. CASE Reply(w)
    <2>1. /\ worker'[w].pc = "idle"
          /\ \A v \in Worker : v # w => worker'[v] = worker[v]
        BY <1>0, <1>7 DEF Reply, Field
    <2> QED BY <1>2, <2>1
<1> QED BY <1>3, <1>4, <1>5, <1>6, <1>7 DEF Step

LEMMA ServedStep == Inv /\ ServedInv /\ [Next]_vars => ServedInv'
<1> SUFFICES ASSUME Inv, ServedInv, [Next]_vars PROVE ServedInv'
    OBVIOUS
<1>1. ASSUME NEW w \in scene.workers, NEW e \in scene.endpoints,
             NEW r \in RequestsFor(e), Receive(w, r)
      PROVE  ServedInv'
    <2>1. w \in Worker
        BY ScenesAssumption DEF Inv, Typed
    <2> QED BY <1>1, <2>1, ReceiveServes
<1>2. ASSUME NEW w \in Worker, Step(w) PROVE ServedInv'
    BY <1>2, HandleServes, OthersServe
<1>3. ASSUME worker' = worker PROVE ServedInv'
    BY <1>3 DEF ServedInv
<1>4. ASSUME NEW k, NEW a, NEW d, loginUser(k, a, d) PROVE ServedInv'
    BY <1>3, <1>4 DEF loginUser
<1>5. CASE Tick
    BY <1>3, <1>5 DEF Tick
<1>6. CASE UNCHANGED vars
    BY <1>3, <1>6 DEF vars
<1> QED BY <1>1, <1>2, <1>4, <1>5, <1>6 DEF Next

LEMMA ServedInit == Init => ServedInv
<1> SUFFICES ASSUME Init, NEW w \in Worker PROVE WellServed(worker[w])
    BY DEF ServedInv
<1>1. worker[w].pc = "idle"
    BY DEF Init
<1> QED BY <1>1 DEF WellServed

\* The checks of the command handler are about the right number of parameters.
LEMMA Checked ==
    ASSUME NEW r, r.endpoint \in Endpoint
    PROVE  LET h == Handlers[r.endpoint]
               gives == Gives[r.endpoint]
           IN  /\ h.reads \in 0 .. Len(gives) /\ DOMAIN Own(r) = 1 .. Len(gives)
               /\ gives \in Seq(0 .. 4) /\ Len(gives) \in Nat
               /\ \A i \in 1 .. Len(gives) : Own(r)[i] = r.values[gives[i]]
               /\ Accepts(h, Own(r)) /\ h.exact =>
                     \A i \in 1 .. Len(gives) : Own(r)[i] # ""
               /\ (\A i \in 1 .. Len(gives) : Parses(Own(r)[i])) => Accepts(h, Own(r))
<1> DEFINE h == Handlers[r.endpoint]
           gives == Gives[r.endpoint]
           own == Own(r)
           n == Len(gives)
           filled == {i \in 1 .. n : own[i] # ""}
<1>1. /\ gives \in Seq(0 .. 4) /\ h.exact \in BOOLEAN /\ h.n \in 0 .. n
      /\ h.exact => h.n = n
      /\ h.reads \in 0 .. n /\ h.parsed \subseteq 1 .. n
    BY HandlersAssumption
<1>2. n \in Nat /\ DOMAIN own = 1 .. n /\ \A i \in 1 .. n : own[i] = r.values[gives[i]]
    BY <1>1, LenProperties DEF Own
<1> HIDE DEF own, n, h, gives
<1>3. IsFiniteSet(1 .. n) /\ Cardinality(1 .. n) = n
    <2>1. 1 \in Int /\ n \in Int /\ (IF 1 > n THEN 0 ELSE n - 1 + 1) = n
        BY <1>2
    <2> QED BY <2>1, FS_Interval
<1>4. filled \in SUBSET (1 .. n) /\ (Cardinality(filled) = n => filled = 1 .. n)
    <2>1. filled \in SUBSET (1 .. n)
        OBVIOUS
    <2> HIDE DEF filled
    <2> QED BY <1>3, <2>1, FS_Subset
<1>5. Accepts(h, own) <=>
         /\ IF h.exact THEN Cardinality(filled) = h.n ELSE Cardinality(filled) >= h.n
         /\ \A i \in h.parsed : i \in 1 .. n /\ Parses(own[i])
    BY <1>2, Zenon DEF Accepts, checkNumberOfParameters, countNonEmpty
<1>6. ASSUME Accepts(h, own), h.exact PROVE \A i \in 1 .. n : own[i] # ""
    <2> DEFINE size == Cardinality(filled)
    <2>1. IF h.exact THEN size = h.n ELSE size >= h.n
        BY <1>5, <1>6
    <2> HIDE DEF size
    <2>2. size = n
        BY <1>1, <1>6, <2>1
    <2>3. filled = 1 .. n
        BY <1>4, <2>2, Zenon DEF size
    <2> QED BY <2>3
<1>7. ASSUME \A i \in 1 .. n : Parses(own[i]) PROVE Accepts(h, own)
    <2>1. filled = 1 .. n
        BY <1>7 DEF Parses
    <2> DEFINE size == Cardinality(filled)
    <2>2. size = n
        BY <1>3, <2>1, Zenon
    <2> HIDE DEF size
    <2>3. IF h.exact THEN size = h.n ELSE size >= h.n
        BY <1>1, <1>2, <2>2
    <2>4. \A i \in h.parsed : i \in 1 .. n /\ Parses(own[i])
        BY <1>1, <1>7
    <2> QED BY <1>5, <2>3, <2>4, Zenon DEF size
<1> QED BY <1>1, <1>2, <1>6, <1>7 DEF own, n, h, gives

\* For any number of workers and any requests, whatever those before them were: a
\* path whose values are clear of longer routes (HttpRouter::forward compares
\* characters) reaches the endpoint that was asked for, its handler works on the
\* values of this request and of no earlier one on the same thread, reads none
\* that was not pushed, and refuses none of a request that lacks nothing.
THEOREM ServedTheorem == Spec => []ServedAsAsked
<1>1. ASSUME ServedInv PROVE ServedAsAsked
    <2> SUFFICES ASSUME NEW w \in Worker
                 PROVE  LET self == worker[w]
                            r == self.request
                            h == Handlers[r.endpoint]
                            gives == Gives[r.endpoint]
                            clear == ClearOfRoutes(r.endpoint, r.values)
                        IN /\ self.pc \in {"command", "view"} /\ clear =>
                                 /\ self.endpoint = r.endpoint
                                 /\ \A i \in 1 .. h.reads :
                                        /\ i \in DOMAIN self.params
                                        /\ self.params[i] = r.values[gives[i]]
                                        /\ h.exact => self.params[i] # ""
                                 /\ \A i \in h.optional \cap DOMAIN self.params :
                                        self.params[i] = r.values[gives[i]]
                           /\ /\ self.pc = "answer" /\ self.status = "INVALID_PARAMETERS"
                              /\ clear
                              => \E i \in DOMAIN gives : ~Parses(r.values[gives[i]])
        BY Zenon DEF ServedAsAsked
    <2> DEFINE self == worker[w]
               r == self.request
               h == Handlers[r.endpoint]
               gives == Gives[r.endpoint]
               clear == ClearOfRoutes(r.endpoint, r.values)
    <2>0. WellServed(self)
        BY <1>1 DEF ServedInv
    <2>1. ASSUME r.endpoint \in Endpoint
          PROVE  /\ h.reads \in 0 .. Len(gives) /\ DOMAIN Own(r) = 1 .. Len(gives)
                 /\ gives \in Seq(0 .. 4) /\ Len(gives) \in Nat
                 /\ \A i \in 1 .. Len(gives) : Own(r)[i] = r.values[gives[i]]
                 /\ Accepts(h, Own(r)) /\ h.exact =>
                       \A i \in 1 .. Len(gives) : Own(r)[i] # ""
                 /\ (\A i \in 1 .. Len(gives) : Parses(Own(r)[i])) => Accepts(h, Own(r))
        BY <2>1, Checked
    <2> HIDE DEF self, r, h, gives, clear
    <2>2. ASSUME self.pc \in {"command", "view"}, clear
          PROVE  /\ self.endpoint = r.endpoint
                 /\ \A i \in 1 .. h.reads :
                        /\ i \in DOMAIN self.params
                        /\ self.params[i] = r.values[gives[i]]
                        /\ h.exact => self.params[i] # ""
                 /\ \A i \in h.optional \cap DOMAIN self.params :
                        self.params[i] = r.values[gives[i]]
        <3>1. /\ r.endpoint \in Endpoint /\ self.endpoint = r.endpoint
              /\ self.params = Own(r) /\ Accepts(h, Own(r))
            <4>1. /\ r.endpoint \in Endpoint /\ self.endpoint = r.endpoint
                  /\ self.params = Own(r) /\ Accepts(Handlers[self.endpoint], self.params)
                BY <2>0, <2>2, Zenon DEF WellServed, r, clear
            <4> QED BY <4>1, Zenon DEF h
        <3>2. \A i \in 1 .. h.reads : i \in 1 .. Len(gives)
            <4>1. h.reads \in 0 .. Len(gives) /\ Len(gives) \in Nat
                BY <2>1, <3>1, Zenon
            <4> QED BY <4>1
        <3> QED BY <2>1, <3>1, <3>2
    <2>3. ASSUME self.pc = "answer", self.status = "INVALID_PARAMETERS", clear
          PROVE  \E i \in DOMAIN gives : ~Parses(r.values[gives[i]])
        <3>1. r.endpoint \in Endpoint /\ ~Accepts(h, Own(r))
            BY <2>0, <2>3, Zenon DEF WellServed, r, h, clear
        <3>2. DOMAIN gives = 1 .. Len(gives)
            <4>1. gives \in Seq(0 .. 4)
                BY <2>1, <3>1, Zenon
            <4> QED BY <4>1, LenProperties
        <3> QED BY <2>1, <3>1, <3>2
    <2> QED BY <2>2, <2>3 DEF self, r, h, gives, clear
<1>2. Spec => []ServedInv
    BY ServedInit, ServedStep, InvAlways, PTL DEF Spec
<1> QED BY <1>1, <1>2, PTL
=============================================================================
