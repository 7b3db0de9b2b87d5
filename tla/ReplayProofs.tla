---------------------------- MODULE ReplayProofs ----------------------------
(* For any number of commands and restarts and any values: the importer     *)
(* refuses nothing that the program recorded, and gives back the collection *)
(* that was stopped, in the order of its times.                             *)
EXTENDS Replay, SequenceTheorems, FiniteSetTheorems, TLAPS

Moment == {"created", "updated", "visible"}

Fields(k) ==
    {"at", "by", "ip"}
    \cup [users |-> {"name", "auth", "info", "title", "signature", "logo", "quota",
                     "quoteHistory"},
          threads |-> {"name", "pinDisplayOrder", "approved", "subscribedUsers"},
          messages |-> {"thread", "content", "approved", "reason"},
          tags |-> {"name", "uiBlob"},
          categories |-> {"name", "description", "displayOrder", "parent"},
          attachments |-> {"name", "size", "approved"}][k]

\* A display order, and what the events keep of it.
Shown(m, n) == m \in Nat /\ n = KeptOrder(m)

\* What the events give back as it is.
Fixed(k) == Fields(k) \ {"at", "ip", "subscribedUsers", "displayOrder"}

\* Two entities, as the program has one and as the events give it back: dates
\* may be one tick late, addresses are only kept when they are recorded, and display
\* orders as far as there is room for them.
Alike(k, e, f, keep) ==
    /\ DOMAIN e = Fields(k) /\ DOMAIN f = Fields(k)
    /\ \A x \in Fixed(k) : e[x] = f[x]
    /\ DOMAIN e.at = Moment /\ DOMAIN f.at = Moment
    /\ \A s \in Moment : e.at[s] \in Nat /\ f.at[s] \in {e.at[s], e.at[s] + 1}
    /\ keep => e.ip = f.ip
    /\ k = "threads" => e.subscribedUsers \ {""} = f.subscribedUsers \ {""}
    /\ k = "categories" => Shown(e.displayOrder, f.displayOrder)

\* Two collections with the same entities.
Similar(a, b, keep) ==
    /\ DOMAIN a = Kind \cup {"subscribedThreads"} /\ DOMAIN b = DOMAIN a
    /\ a.subscribedThreads = b.subscribedThreads
    /\ \A k \in Kind : /\ DOMAIN a[k] = DOMAIN b[k]
                       /\ \A id \in DOMAIN a[k] : Alike(k, a[k][id], b[k][id], keep)
    /\ "" \notin DOMAIN a.users \cup DOMAIN a.categories
    /\ IsFiniteSet(DOMAIN a.users)

\* The context of a command and that of its event.
SameContext(c, e, keep) ==
    /\ c.time \in Nat /\ e.time \in {c.time, c.time + 1}
    /\ e.by = c.by
    /\ keep => e.ip = c.ip
-----------------------------------------------------------------------------
(* Each direct function does the same to similar collections.               *)

LEMMA KeptZero == KeptOrder(0) = 0
<1>1. Signed(0) = 0
    BY DEF Signed
<1> QED BY <1>1 DEF KeptOrder, NotNegative

LEMMA Remainder ==
    ASSUME NEW m \in Nat, NEW w \in Nat, w > 0
    PROVE  m % w \in Nat /\ m % w < w
OBVIOUS

LEMMA NoRemainder ==
    ASSUME NEW m \in Nat, NEW w \in Nat, m < w
    PROVE  m % w = m
OBVIOUS

\* What was kept once has room in an event.
LEMMA KeptOnce ==
    ASSUME NEW m \in Nat
    PROVE  KeptOrder(m) \in Nat /\ KeptOrder(KeptOrder(m)) = KeptOrder(m)
<1>1. PICK w \in Nat : w = 65536
    OBVIOUS
<1>2. PICK h \in Nat : h = 32768
    OBVIOUS
<1>3. 0 < w
    BY <1>1
<1>4. \A v : Signed(v) = IF v % w < h THEN v % w ELSE (v % w) - w
    BY <1>1, <1>2 DEF Signed
<1>5. PICK r \in Nat : r = m % w /\ r < w
    BY <1>3, Remainder
<1>6. Signed(m) = IF r < h THEN r ELSE r - w
    BY <1>4, <1>5
<1>7. CASE r < h
    <2>1. KeptOrder(m) = r
        BY <1>6, <1>7 DEF KeptOrder, NotNegative
    <2>2. r % w = r
        BY <1>5, NoRemainder
    <2>3. Signed(r) = r
        BY <1>4, <1>7, <2>2
    <2>4. KeptOrder(r) = r
        BY <2>3 DEF KeptOrder, NotNegative
    <2> QED BY <2>1, <2>4
<1>8. CASE ~(r < h)
    <2>1. Signed(m) < 0
        BY <1>5, <1>6, <1>8
    <2>2. KeptOrder(m) = 0
        BY <2>1 DEF KeptOrder, NotNegative
    <2> QED BY <2>2, KeptZero
<1> QED BY <1>7, <1>8

LEMMA ChangeAlike ==
    ASSUME NEW keep, NEW a, NEW b, Similar(a, b, keep),
           NEW k \in Kind, NEW id \in DOMAIN a[k],
           NEW e, NEW f, Alike(k, e, f, keep)
    PROVE  Similar([a EXCEPT ![k][id] = e], [b EXCEPT ![k][id] = f], keep)
<1> DEFINE c == [a EXCEPT ![k][id] = e]
           d == [b EXCEPT ![k][id] = f]
<1>1. DOMAIN c = DOMAIN a /\ DOMAIN d = DOMAIN b
    OBVIOUS
<1>2. /\ k \in DOMAIN a /\ k \in DOMAIN b
      /\ k # "subscribedThreads" /\ "subscribedThreads" \notin Kind
      /\ DOMAIN b[k] = DOMAIN a[k]
      /\ "users" \in Kind /\ "categories" \in Kind
    BY DEF Similar, Kind
<1>3. \A j \in Kind : j \in DOMAIN a /\ j \in DOMAIN b
    BY DEF Similar
<1>4. \A j \in Kind : DOMAIN c[j] = DOMAIN a[j] /\ DOMAIN d[j] = DOMAIN b[j]
    BY <1>2, <1>3
<1>5. c.subscribedThreads = a.subscribedThreads /\ d.subscribedThreads = b.subscribedThreads
    BY <1>2 DEF Similar
<1>6. \A j \in Kind : \A i \in DOMAIN a[j] : Alike(j, c[j][i], d[j][i], keep)
    <2> SUFFICES ASSUME NEW j \in Kind, NEW i \in DOMAIN a[j]
                 PROVE  Alike(j, c[j][i], d[j][i], keep)
        OBVIOUS
    <2>1. CASE j = k /\ i = id
        <3>1. c[j][i] = e /\ d[j][i] = f
            BY <2>1, <1>2
        <3> QED BY <2>1, <3>1
    <2>2. CASE ~(j = k /\ i = id)
        <3>1. c[j][i] = a[j][i] /\ d[j][i] = b[j][i]
            BY <2>2, <1>2, <1>3
        <3>2. Alike(j, a[j][i], b[j][i], keep)
            BY Zenon DEF Similar
        <3> QED BY <3>1, <3>2
    <2> QED BY <2>1, <2>2
<1> HIDE DEF c, d
<1>7. Similar(a, b, keep) => Similar(c, d, keep)
    BY <1>1, <1>2, <1>4, <1>5, <1>6, Zenon DEF Similar
<1> QED BY <1>7 DEF c, d

\* The same answer, and similar collections.
Agree(r, s, keep) == r.status = s.status /\ Similar(r.db, s.db, keep)

\* The identifier of an entity.
Named(id) == id # ""

LEMMA InsertAlike ==
    ASSUME NEW keep, NEW a, NEW b, Similar(a, b, keep),
           NEW k \in Kind, NEW id, id \notin DOMAIN a[k],
           k \in {"users", "categories"} => Named(id),
           NEW e, NEW f, Alike(k, e, f, keep)
    PROVE  Agree(Insert(a, k, id, e), Insert(b, k, id, f), keep)
<1> DEFINE c == Insert(a, k, id, e).db
           d == Insert(b, k, id, f).db
           new == DOMAIN a[k] \cup {id}
<1>1. /\ k \in DOMAIN a /\ k \in DOMAIN b
      /\ k # "subscribedThreads" /\ "subscribedThreads" \notin Kind
      /\ DOMAIN b[k] = DOMAIN a[k]
      /\ "users" \in Kind /\ "categories" \in Kind
    BY DEF Similar, Kind
<1>2. /\ c = [a EXCEPT ![k] = [x \in DOMAIN a[k] \cup {id} |->
                                IF x \in DOMAIN a[k] THEN a[k][x] ELSE e]]
      /\ d = [b EXCEPT ![k] = [x \in DOMAIN b[k] \cup {id} |->
                                IF x \in DOMAIN b[k] THEN b[k][x] ELSE f]]
      /\ Insert(a, k, id, e).status = "OK" /\ Insert(b, k, id, f).status = "OK"
    BY DEF Insert, Ok, Result
<1> HIDE DEF c, d
<1>3. \A j \in Kind : j \in DOMAIN a /\ j \in DOMAIN b
    BY DEF Similar
<1>4. /\ DOMAIN c = DOMAIN a /\ DOMAIN d = DOMAIN b
      /\ DOMAIN c[k] = new /\ DOMAIN d[k] = new
      /\ \A j \in Kind \ {k} : c[j] = a[j] /\ d[j] = b[j]
      /\ c.subscribedThreads = a.subscribedThreads
      /\ d.subscribedThreads = b.subscribedThreads
      /\ c[k][id] = e /\ d[k][id] = f
      /\ \A i \in DOMAIN a[k] : c[k][i] = a[k][i] /\ d[k][i] = b[k][i]
    <2>1. DOMAIN c = DOMAIN a /\ DOMAIN d = DOMAIN b
        BY <1>2
    <2>2. /\ c[k] = [x \in new |-> IF x \in DOMAIN a[k] THEN a[k][x] ELSE e]
          /\ d[k] = [x \in new |-> IF x \in DOMAIN a[k] THEN b[k][x] ELSE f]
        BY <1>1, <1>2
    <2>3. /\ \A j \in Kind \ {k} : c[j] = a[j] /\ d[j] = b[j]
          /\ c.subscribedThreads = a.subscribedThreads
          /\ d.subscribedThreads = b.subscribedThreads
        BY <1>1, <1>2, <1>3 DEF Similar
    <2> QED BY <2>1, <2>2, <2>3
<1>5. \A j \in Kind : /\ DOMAIN c[j] = DOMAIN d[j]
                      /\ \A i \in DOMAIN c[j] : Alike(j, c[j][i], d[j][i], keep)
    <2> SUFFICES ASSUME NEW j \in Kind
                 PROVE  /\ DOMAIN c[j] = DOMAIN d[j]
                        /\ \A i \in DOMAIN c[j] : Alike(j, c[j][i], d[j][i], keep)
        OBVIOUS
    <2>1. /\ DOMAIN a[j] = DOMAIN b[j]
          /\ \A i \in DOMAIN a[j] : Alike(j, a[j][i], b[j][i], keep)
        BY Zenon DEF Similar
    <2>2. CASE j # k
        BY <2>1, <2>2, <1>4
    <2>3. CASE j = k
        <3> SUFFICES ASSUME NEW i \in new PROVE Alike(k, c[k][i], d[k][i], keep)
            BY <2>3, <1>4
        <3>1. CASE i = id
            BY <3>1, <1>4
        <3>2. CASE i # id
            <4>1. i \in DOMAIN a[k]
                BY <3>2
            <4>2. c[k][i] = a[k][i] /\ d[k][i] = b[k][i]
                BY <4>1, <1>4
            <4> QED BY <4>1, <4>2, <2>1, <2>3
        <3> QED BY <3>1, <3>2
    <2> QED BY <2>2, <2>3
<1>6. "" \notin DOMAIN c.users \cup DOMAIN c.categories
    <2>1. "" \notin DOMAIN a.users \cup DOMAIN a.categories
        BY DEF Similar
    <2>2. ASSUME NEW j \in {"users", "categories"} PROVE "" \notin DOMAIN c[j]
        <3>1. j \in Kind /\ "" \notin DOMAIN a[j]
            BY <2>1, <1>1
        <3>2. CASE j = k
            BY <3>1, <3>2, <1>4 DEF Named
        <3>3. CASE j # k
            BY <3>1, <3>3, <1>4
        <3> QED BY <3>2, <3>3
    <2> QED BY <2>2
<1>7. IsFiniteSet(DOMAIN c.users)
    <2>1. IsFiniteSet(DOMAIN a.users)
        BY DEF Similar
    <2>2. CASE k = "users"
        <3>1. IsFiniteSet(DOMAIN a.users \cup {id})
            BY <2>1, FS_AddElement
        <3> QED BY <3>1, <2>2, <1>4
    <2>3. CASE k # "users"
        BY <2>3, <2>1, <1>1, <1>4
    <2> QED BY <2>2, <2>3
<1>8. Similar(a, b, keep) => Similar(c, d, keep)
    BY <1>4, <1>5, <1>6, <1>7, Zenon DEF Similar
<1> QED BY <1>2, <1>8 DEF Agree, c, d

LEMMA InsertTells ==
    ASSUME NEW a, NEW k \in DOMAIN a, NEW id, id \notin DOMAIN a[k], NEW e
    PROVE  /\ Insert(a, k, id, e).status = "OK"
           /\ Insert(a, k, id, e).db[k][id] = e
BY DEF Insert, Ok, Result

LEMMA SameUser ==
    ASSUME NEW keep, NEW a, NEW b, Similar(a, b, keep),
           NEW c, NEW e, SameContext(c, e, keep)
    PROVE  getCurrentUser(a, c) = getCurrentUser(b, e)
BY DEF Similar, SameContext, getCurrentUser, Kind

\* One attribute is set to the same value.
LEMMA FieldAlike ==
    ASSUME NEW keep, NEW k, NEW e, NEW f, Alike(k, e, f, keep),
           NEW x \in Fields(k) \ {"at", "ip", "displayOrder"}, NEW v
    PROVE  Alike(k, [e EXCEPT ![x] = v], [f EXCEPT ![x] = v], keep)
<1> DEFINE g == [e EXCEPT ![x] = v]
           h == [f EXCEPT ![x] = v]
<1>1. DOMAIN g = Fields(k) /\ DOMAIN h = Fields(k)
    BY DEF Alike
<1>2. /\ g[x] = v /\ h[x] = v
      /\ \A y \in Fields(k) \ {x} : g[y] = e[y] /\ h[y] = f[y]
    BY DEF Alike
<1>3. {"at", "ip"} \subseteq Fields(k)
    BY DEF Fields
<1>4. g.at = e.at /\ h.at = f.at /\ g.ip = e.ip /\ h.ip = f.ip
    BY <1>2, <1>3
<1>5. \A y \in Fixed(k) : g[y] = h[y]
    BY <1>2 DEF Alike, Fixed
<1>6. k = "threads" => g.subscribedUsers \ {""} = h.subscribedUsers \ {""}
    <2> SUFFICES ASSUME k = "threads"
                 PROVE  g.subscribedUsers \ {""} = h.subscribedUsers \ {""}
        OBVIOUS
    <2>1. "subscribedUsers" \in Fields(k)
        BY DEF Fields
    <2>2. CASE x = "subscribedUsers"
        BY <2>2, <1>2
    <2>3. CASE x # "subscribedUsers"
        BY <2>1, <2>3, <1>2 DEF Alike
    <2> QED BY <2>2, <2>3
<1>7. k = "categories" => Shown(g.displayOrder, h.displayOrder)
    <2>1. k = "categories" => "displayOrder" \in Fields(k) \ {x}
        BY DEF Fields
    <2> QED BY <2>1, <1>2 DEF Alike
<1> HIDE DEF g, h
<1>8. Alike(k, g, h, keep)
    BY <1>1, <1>4, <1>5, <1>6, <1>7 DEF Alike
<1> QED BY <1>8 DEF g, h

\* An entity is looked up and changed in one attribute.
SetField(d, k, id, x, v) ==
    IF id \in DOMAIN d[k] THEN Ok([d EXCEPT ![k][id] = [d[k][id] EXCEPT ![x] = v]])
    ELSE Result("NOT_FOUND", d)

LEMMA FieldAgrees ==
    ASSUME NEW keep, NEW a, NEW b, Similar(a, b, keep), NEW k \in Kind, NEW id,
           NEW x \in Fields(k) \ {"at", "ip", "displayOrder"}, NEW v
    PROVE  /\ Agree(SetField(a, k, id, x, v), SetField(b, k, id, x, v), keep)
           /\ SetField(a, k, id, x, v).status = "OK" =>
                  SetField(a, k, id, x, v).db[k][id][x] = v
<1>1. /\ DOMAIN a[k] = DOMAIN b[k]
      /\ \A i \in DOMAIN a[k] : Alike(k, a[k][i], b[k][i], keep)
      /\ k \in DOMAIN a
    BY Zenon DEF Similar
<1>2. ASSUME id \in DOMAIN a[k]
      PROVE  Similar([a EXCEPT ![k][id] = [a[k][id] EXCEPT ![x] = v]],
                     [b EXCEPT ![k][id] = [b[k][id] EXCEPT ![x] = v]], keep)
    <2>1. Alike(k, [a[k][id] EXCEPT ![x] = v], [b[k][id] EXCEPT ![x] = v], keep)
        BY <1>1, <1>2, FieldAlike
    <2> QED BY <2>1, <1>2, ChangeAlike
<1>3. ASSUME id \in DOMAIN a[k]
      PROVE  [a EXCEPT ![k][id] = [a[k][id] EXCEPT ![x] = v]][k][id][x] = v
    <2>1. x \in DOMAIN a[k][id]
        BY <1>1, <1>3 DEF Alike
    <2> QED BY <2>1, <1>1, <1>3
<1>4. CASE id \in DOMAIN a[k]
    BY <1>1, <1>2, <1>3, <1>4 DEF SetField, Agree, Ok, Result
<1>5. CASE id \notin DOMAIN a[k]
    BY <1>1, <1>5 DEF SetField, Agree, Ok, Result
<1> QED BY <1>4, <1>5

LEMMA SameNames ==
    ASSUME NEW keep, NEW a, NEW b, Similar(a, b, keep), NEW k \in Kind \ {"messages"},
           NEW v
    PROVE  Taken(a, k, v) <=> Taken(b, k, v)
<1>1. /\ DOMAIN a[k] = DOMAIN b[k]
      /\ \A i \in DOMAIN a[k] : Alike(k, a[k][i], b[k][i], keep)
    BY Zenon DEF Similar
<1>2. "name" \in Fixed(k)
    BY DEF Fields, Kind, Fixed
<1>3. \A i \in DOMAIN a[k] : a[k][i].name = b[k][i].name
    BY <1>1, <1>2 DEF Alike
<1> QED BY <1>1, <1>3 DEF Taken

LEMMA UpdatedKeeps ==
    ASSUME NEW d, NEW c, NEW e, NEW y \in DOMAIN e \ {"at", "by", "ip"}
    PROVE  updateLastUpdated(e, d, c)[y] = e[y] /\ updateThreadLastUpdated(e, d, c)[y] = e[y]
<1>1. updateLastUpdated(e, d, c)[y] = e[y] /\ DOMAIN updateLastUpdated(e, d, c) = DOMAIN e
    BY DEF updateLastUpdated
<1> QED BY <1>1 DEF updateThreadLastUpdated

LEMMA UpdatedAlike ==
    ASSUME NEW keep, NEW k, NEW e, NEW f, Alike(k, e, f, keep),
           NEW a, NEW b, NEW c, NEW x, SameContext(c, x, keep),
           getCurrentUser(a, c) = getCurrentUser(b, x)
    PROVE  /\ Alike(k, updateLastUpdated(e, a, c), updateLastUpdated(f, b, x), keep)
           /\ Alike(k, updateThreadLastUpdated(e, a, c),
                    updateThreadLastUpdated(f, b, x), keep)
<1> DEFINE u == getCurrentUser(a, c)
           g == updateLastUpdated(e, a, c)
           h == updateLastUpdated(f, b, x)
           gt == updateThreadLastUpdated(e, a, c)
           ht == updateThreadLastUpdated(f, b, x)
<1>1. /\ DOMAIN e = Fields(k) /\ DOMAIN f = Fields(k)
      /\ {"at", "by", "ip"} \subseteq Fields(k)
    BY DEF Alike, Fields
<1>2. /\ g = [e EXCEPT !.at = [e.at EXCEPT !.updated = c.time],
                       !.ip = [e.ip EXCEPT !.updated = c.ip],
                       !.by = [e.by EXCEPT !.updated = u]]
      /\ h = [f EXCEPT !.at = [f.at EXCEPT !.updated = x.time],
                       !.ip = [f.ip EXCEPT !.updated = x.ip],
                       !.by = [f.by EXCEPT !.updated = u]]
    BY <1>1 DEF updateLastUpdated
<1>3. /\ gt = [g EXCEPT !.at = [g.at EXCEPT !.visible = c.time]]
      /\ ht = [h EXCEPT !.at = [h.at EXCEPT !.visible = x.time]]
    BY <1>1 DEF updateThreadLastUpdated
<1> HIDE DEF g, h, gt, ht, u
<1>4. /\ DOMAIN g = Fields(k) /\ DOMAIN h = Fields(k)
      /\ DOMAIN gt = Fields(k) /\ DOMAIN ht = Fields(k)
      /\ \A y \in Fields(k) \ {"at", "by", "ip"} :
             g[y] = e[y] /\ h[y] = f[y] /\ gt[y] = e[y] /\ ht[y] = f[y]
    BY <1>1, <1>2, <1>3
<1>5. /\ g.at = [e.at EXCEPT !.updated = c.time]
      /\ h.at = [f.at EXCEPT !.updated = x.time]
      /\ gt.at = [g.at EXCEPT !.visible = c.time]
      /\ ht.at = [h.at EXCEPT !.visible = x.time]
    BY <1>1, <1>2, <1>3, <1>4
<1>6. /\ g.by = [e.by EXCEPT !.updated = u] /\ gt.by = g.by
      /\ h.by = [f.by EXCEPT !.updated = u] /\ ht.by = h.by
      /\ g.ip = [e.ip EXCEPT !.updated = c.ip] /\ gt.ip = g.ip
      /\ h.ip = [f.ip EXCEPT !.updated = x.ip] /\ ht.ip = h.ip
    BY <1>1, <1>2, <1>3, <1>4
<1>7. e.by = f.by /\ (keep => e.ip = f.ip /\ x.ip = c.ip)
    BY <1>1 DEF Alike, SameContext, Fixed
<1>8. g.by = h.by /\ gt.by = ht.by /\ (keep => g.ip = h.ip /\ gt.ip = ht.ip)
    BY <1>6, <1>7
<1>9. /\ DOMAIN g.at = Moment /\ DOMAIN h.at = Moment
      /\ \A s \in Moment : g.at[s] \in Nat /\ h.at[s] \in {g.at[s], g.at[s] + 1}
    BY <1>5 DEF Alike, SameContext, Moment
<1>10. /\ DOMAIN gt.at = Moment /\ DOMAIN ht.at = Moment
       /\ \A s \in Moment : gt.at[s] \in Nat /\ ht.at[s] \in {gt.at[s], gt.at[s] + 1}
    BY <1>5, <1>9 DEF SameContext, Moment
<1>11. \A y \in Fixed(k) : g[y] = h[y] /\ gt[y] = ht[y]
    BY <1>4, <1>8 DEF Alike, Fixed
<1>12. k = "threads" => /\ g.subscribedUsers \ {""} = h.subscribedUsers \ {""}
                        /\ gt.subscribedUsers \ {""} = ht.subscribedUsers \ {""}
    <2>1. k = "threads" => "subscribedUsers" \in Fields(k) \ {"at", "by", "ip"}
        BY DEF Fields
    <2> QED BY <2>1, <1>4 DEF Alike
<1>13. k = "categories" => /\ Shown(g.displayOrder, h.displayOrder)
                           /\ Shown(gt.displayOrder, ht.displayOrder)
    <2>1. k = "categories" => "displayOrder" \in Fields(k) \ {"at", "by", "ip"}
        BY DEF Fields
    <2> QED BY <2>1, <1>4 DEF Alike
<1>14. Alike(k, g, h, keep) /\ Alike(k, gt, ht, keep)
    BY <1>4, <1>8, <1>9, <1>10, <1>11, <1>12, <1>13, Zenon DEF Alike
<1> QED BY <1>14 DEF g, h, gt, ht

\* The same, and the entity was updated by the current user.
SetDated(d, c, k, id, x, v) ==
    IF id \in DOMAIN d[k]
    THEN Ok([d EXCEPT ![k][id] = updateLastUpdated([d[k][id] EXCEPT ![x] = v], d, c)])
    ELSE Result("NOT_FOUND", d)

SetThreadDated(d, c, k, id, x, v) ==
    IF id \in DOMAIN d[k]
    THEN Ok([d EXCEPT ![k][id] =
                updateThreadLastUpdated([d[k][id] EXCEPT ![x] = v], d, c)])
    ELSE Result("NOT_FOUND", d)

LEMMA DatedAgrees ==
    ASSUME NEW keep, NEW a, NEW b, Similar(a, b, keep),
           NEW c, NEW e, SameContext(c, e, keep),
           NEW k \in Kind, NEW id,
           NEW x \in Fields(k) \ {"at", "by", "ip", "displayOrder"}, NEW v
    PROVE  /\ Agree(SetDated(a, c, k, id, x, v), SetDated(b, e, k, id, x, v), keep)
           /\ SetDated(a, c, k, id, x, v).status = "OK" =>
                  SetDated(a, c, k, id, x, v).db[k][id][x] = v
           /\ Agree(SetThreadDated(a, c, k, id, x, v),
                    SetThreadDated(b, e, k, id, x, v), keep)
           /\ SetThreadDated(a, c, k, id, x, v).status = "OK" =>
                  SetThreadDated(a, c, k, id, x, v).db[k][id][x] = v
<1>1. /\ DOMAIN a[k] = DOMAIN b[k]
      /\ \A i \in DOMAIN a[k] : Alike(k, a[k][i], b[k][i], keep)
      /\ k \in DOMAIN a
    BY Zenon DEF Similar
<1>2. getCurrentUser(a, c) = getCurrentUser(b, e)
    BY SameUser
<1>3. CASE id \in DOMAIN a[k]
    <2> DEFINE g == [a[k][id] EXCEPT ![x] = v]
               h == [b[k][id] EXCEPT ![x] = v]
    <2>1. Alike(k, g, h, keep)
        BY <1>1, <1>3, FieldAlike
    <2>2. g[x] = v
        BY <1>1, <1>3 DEF Alike
    <2> HIDE DEF g, h
    <2>3. /\ Alike(k, updateLastUpdated(g, a, c), updateLastUpdated(h, b, e), keep)
          /\ Alike(k, updateThreadLastUpdated(g, a, c),
                   updateThreadLastUpdated(h, b, e), keep)
          /\ updateLastUpdated(g, a, c)[x] = v
          /\ updateThreadLastUpdated(g, a, c)[x] = v
        <3>1. /\ updateLastUpdated(g, a, c)[x] = g[x]
              /\ updateThreadLastUpdated(g, a, c)[x] = g[x]
            <4>1. x \in DOMAIN g \ {"at", "by", "ip"}
                BY <2>1 DEF Alike
            <4> QED BY <4>1, UpdatedKeeps
        <3>2. /\ Alike(k, updateLastUpdated(g, a, c), updateLastUpdated(h, b, e), keep)
              /\ Alike(k, updateThreadLastUpdated(g, a, c),
                       updateThreadLastUpdated(h, b, e), keep)
            BY <2>1, <1>2, UpdatedAlike, Zenon
        <3> QED BY <2>2, <3>1, <3>2
    <2> DEFINE al == [a EXCEPT ![k][id] = updateLastUpdated(g, a, c)]
               bl == [b EXCEPT ![k][id] = updateLastUpdated(h, b, e)]
               at == [a EXCEPT ![k][id] = updateThreadLastUpdated(g, a, c)]
               bt == [b EXCEPT ![k][id] = updateThreadLastUpdated(h, b, e)]
    <2>4. Similar(al, bl, keep) /\ Similar(at, bt, keep)
        BY <2>3, <1>3, ChangeAlike
    <2>5. al[k][id][x] = v /\ at[k][id][x] = v
        BY <2>3, <1>1, <1>3
    <2> HIDE DEF al, bl, at, bt
    <2>6. /\ SetDated(a, c, k, id, x, v) = Ok(al)
          /\ SetDated(b, e, k, id, x, v) = Ok(bl)
          /\ SetThreadDated(a, c, k, id, x, v) = Ok(at)
          /\ SetThreadDated(b, e, k, id, x, v) = Ok(bt)
        BY <1>1, <1>3, Zenon DEF SetDated, SetThreadDated, al, bl, at, bt, g, h
    <2> QED BY <2>4, <2>5, <2>6 DEF Agree, Ok, Result
<1>4. CASE id \notin DOMAIN a[k]
    BY <1>1, <1>4 DEF SetDated, SetThreadDated, Agree, Ok, Result
<1> QED BY <1>3, <1>4

\* A display order is set to what an event keeps of it.
LEMMA OrderAlike ==
    ASSUME NEW keep, NEW e, NEW f, Alike("categories", e, f, keep), NEW m \in Nat
    PROVE  Alike("categories", [e EXCEPT !["displayOrder"] = m],
                 [f EXCEPT !["displayOrder"] = KeptOrder(m)], keep)
<1> DEFINE g == [e EXCEPT !["displayOrder"] = m]
           h == [f EXCEPT !["displayOrder"] = KeptOrder(m)]
<1>1. {"at", "ip", "displayOrder"} \subseteq Fields("categories")
    BY DEF Fields
<1>2. /\ DOMAIN g = Fields("categories") /\ DOMAIN h = Fields("categories")
      /\ g["displayOrder"] = m /\ h["displayOrder"] = KeptOrder(m)
      /\ \A y \in Fields("categories") \ {"displayOrder"} : g[y] = e[y] /\ h[y] = f[y]
    BY <1>1 DEF Alike
<1>3. g.at = e.at /\ h.at = f.at /\ g.ip = e.ip /\ h.ip = f.ip
    BY <1>1, <1>2
<1>4. \A y \in Fixed("categories") : g[y] = h[y]
    BY <1>2 DEF Alike, Fixed
<1>5. Shown(g.displayOrder, h.displayOrder)
    BY <1>2 DEF Shown
<1> HIDE DEF g, h
<1>6. Alike("categories", g, h, keep)
    BY <1>2, <1>3, <1>4, <1>5 DEF Alike
<1> QED BY <1>6 DEF g, h

LEMMA OrderAgrees ==
    ASSUME NEW keep, NEW a, NEW b, Similar(a, b, keep),
           NEW c, NEW e, SameContext(c, e, keep), NEW id, NEW m \in Nat
    PROVE  /\ Agree(SetDated(a, c, "categories", id, "displayOrder", m),
                    SetDated(b, e, "categories", id, "displayOrder", KeptOrder(m)), keep)
           /\ SetDated(a, c, "categories", id, "displayOrder", m).status = "OK" =>
                  SetDated(a, c, "categories", id, "displayOrder", m)
                      .db["categories"][id]["displayOrder"] = m
<1>1. /\ "categories" \in Kind
      /\ DOMAIN a["categories"] = DOMAIN b["categories"]
      /\ \A i \in DOMAIN a["categories"] :
             Alike("categories", a["categories"][i], b["categories"][i], keep)
      /\ "categories" \in DOMAIN a
    <2>1. "categories" \in Kind
        BY DEF Kind
    <2> QED BY <2>1, Zenon DEF Similar
<1>2. getCurrentUser(a, c) = getCurrentUser(b, e)
    BY SameUser
<1>3. CASE id \in DOMAIN a["categories"]
    <2> DEFINE g == [a["categories"][id] EXCEPT !["displayOrder"] = m]
               h == [b["categories"][id] EXCEPT !["displayOrder"] = KeptOrder(m)]
    <2>1. Alike("categories", g, h, keep)
        BY <1>1, <1>3, OrderAlike
    <2>2. "displayOrder" \in DOMAIN a["categories"][id]
        <3>1. "displayOrder" \in Fields("categories")
            BY DEF Fields
        <3> QED BY <3>1, <1>1, <1>3 DEF Alike
    <2>3. g["displayOrder"] = m /\ "displayOrder" \in DOMAIN g \ {"at", "by", "ip"}
        BY <2>2
    <2> HIDE DEF g, h
    <2>4. updateLastUpdated(g, a, c)["displayOrder"] = m
        BY <2>3, UpdatedKeeps
    <2>5. Alike("categories", updateLastUpdated(g, a, c), updateLastUpdated(h, b, e), keep)
        BY <2>1, <1>2, UpdatedAlike, Zenon
    <2> DEFINE x == [a EXCEPT !["categories"][id] = updateLastUpdated(g, a, c)]
               y == [b EXCEPT !["categories"][id] = updateLastUpdated(h, b, e)]
    <2>6. Similar(x, y, keep)
        BY <2>5, <1>1, <1>3, ChangeAlike
    <2>7. x["categories"][id]["displayOrder"] = m
        BY <2>4, <1>1, <1>3
    <2> HIDE DEF x, y
    <2>8. /\ SetDated(a, c, "categories", id, "displayOrder", m) = Ok(x)
          /\ SetDated(b, e, "categories", id, "displayOrder", KeptOrder(m)) = Ok(y)
        BY <1>1, <1>3, Zenon DEF SetDated, x, y, g, h
    <2> QED BY <2>6, <2>7, <2>8 DEF Agree, Ok, Result
<1>4. CASE id \notin DOMAIN a["categories"]
    BY <1>1, <1>4 DEF SetDated, Agree, Ok, Result
<1> QED BY <1>3, <1>4

LEMMA ThreadFields ==
    ASSUME NEW d, NEW c, NEW id, NEW v
    PROVE  /\ changeDiscussionThreadName(d, c, id, v)
                  = SetThreadDated(d, c, "threads", id, "name", v)
           /\ changeDiscussionThreadPinDisplayOrder(d, c, id, v)
                  = SetThreadDated(d, c, "threads", id, "pinDisplayOrder", v % 16384)
           /\ changeDiscussionThreadApproval(d, c, id, v)
                  = SetThreadDated(d, c, "threads", id, "approved", v)
<1>1. changeDiscussionThreadName(d, c, id, v)
          = SetThreadDated(d, c, "threads", id, "name", v)
    BY Zenon DEF changeDiscussionThreadName, Change, SetThreadDated
<1>2. changeDiscussionThreadPinDisplayOrder(d, c, id, v)
          = SetThreadDated(d, c, "threads", id, "pinDisplayOrder", v % 16384)
    <2> DEFINE w == v % 16384
    <2>1. changeDiscussionThreadPinDisplayOrder(d, c, id, v) =
              Change(d, "threads", id,
                     LAMBDA t : updateThreadLastUpdated(
                         [t EXCEPT !.pinDisplayOrder = w], d, c))
        BY DEF changeDiscussionThreadPinDisplayOrder
    <2> HIDE DEF w
    <2>2. Change(d, "threads", id,
                 LAMBDA t : updateThreadLastUpdated(
                     [t EXCEPT !.pinDisplayOrder = w], d, c))
          = SetThreadDated(d, c, "threads", id, "pinDisplayOrder", w)
        BY Zenon DEF Change, SetThreadDated
    <2> QED BY <2>1, <2>2 DEF w
<1>3. changeDiscussionThreadApproval(d, c, id, v)
          = SetThreadDated(d, c, "threads", id, "approved", v)
    BY Zenon DEF changeDiscussionThreadApproval, Change, SetThreadDated
<1> QED BY <1>1, <1>2, <1>3

LEMMA TagFields ==
    ASSUME NEW d, NEW c, NEW id, NEW v
    PROVE  /\ changeDiscussionTagName(d, c, id, v)
                  = SetDated(d, c, "tags", id, "name", v)
           /\ changeDiscussionTagUiBlob(d, c, id, v)
                  = SetField(d, "tags", id, "uiBlob", v)
BY Zenon DEF changeDiscussionTagName, changeDiscussionTagUiBlob, Change, SetDated, SetField

LEMMA CategoryFields ==
    ASSUME NEW d, NEW c, NEW id, NEW v
    PROVE  /\ changeDiscussionCategoryName(d, c, id, v) =
                  IF id \in DOMAIN d.categories /\ Taken(d, "categories", v)
                  THEN Result("ALREADY_EXISTS", d)
                  ELSE SetDated(d, c, "categories", id, "name", v)
           /\ changeDiscussionCategoryDescription(d, c, id, v)
                  = SetDated(d, c, "categories", id, "description", v)
           /\ changeDiscussionCategoryDisplayOrder(d, c, id, v)
                  = SetDated(d, c, "categories", id, "displayOrder", NotNegative(v))
BY Zenon DEF changeDiscussionCategoryName, changeDiscussionCategoryDescription,
       changeDiscussionCategoryDisplayOrder, Change, SetDated

LEMMA ApprovalFields ==
    ASSUME NEW d, NEW c, NEW id, NEW v
    PROVE  /\ changeDiscussionThreadMessageApproval(d, c, id, v) =
                  IF id \in DOMAIN d["messages"] /\ d["messages"][id]["approved"] = v
                  THEN Result("NO_EFFECT", d)
                  ELSE SetField(d, "messages", id, "approved", v)
           /\ changeAttachmentApproval(d, c, id, v) =
                  IF id \in DOMAIN d["attachments"] /\ d["attachments"][id]["approved"] = v
                  THEN Result("NO_EFFECT", d)
                  ELSE SetField(d, "attachments", id, "approved", v)
           /\ changeAttachmentName(d, c, id, v)
                  = SetField(d, "attachments", id, "name", v)
BY Zenon DEF changeDiscussionThreadMessageApproval, changeAttachmentApproval,
       changeAttachmentName, ChangeUnlessSame, Change, SetField

-----------------------------------------------------------------------------
(* What an event tells of an entity makes the importer do what the command  *)
(* did.                                                                     *)

\* The payload p has the values w; these make a collection b similar to a.
Follows(a, b, type, e, p, w, keep) ==
    /\ p = w
    /\ Import(type, b, e, w).status \in {"OK", "NO_EFFECT"}
    /\ Similar(a, Import(type, b, e, w).db, keep)

LEMMA ImportBy ==
    ASSUME NEW type, NEW d, NEW c, NEW v
    PROVE  /\ type \in UserEvent => Import(type, d, c, v) = ImportUserEvent(type, d, c, v)
           /\ type \in ThreadEvent =>
                  Import(type, d, c, v) = ImportThreadEvent(type, d, c, v)
           /\ type \in MessageEvent =>
                  Import(type, d, c, v) = ImportMessageEvent(type, d, c, v)
           /\ type \in TagOrCategoryEvent =>
                  Import(type, d, c, v) = ImportTagOrCategoryEvent(type, d, c, v)
           /\ type \in AttachmentEvent =>
                  Import(type, d, c, v) = ImportAttachmentEvent(type, d, c, v)
           /\ type \in OtherEvent => Import(type, d, c, v) = Ok(d)
<1>1. /\ type \in ThreadEvent => type \notin UserEvent
      /\ type \in MessageEvent => type \notin UserEvent \cup ThreadEvent
      /\ type \in TagOrCategoryEvent => type \notin UserEvent \cup ThreadEvent \cup MessageEvent
    BY DEF UserEvent, ThreadEvent, MessageEvent, TagOrCategoryEvent
<1>2. type \in AttachmentEvent =>
          type \notin UserEvent \cup ThreadEvent \cup MessageEvent \cup TagOrCategoryEvent
    BY DEF UserEvent, ThreadEvent, MessageEvent, TagOrCategoryEvent, AttachmentEvent
<1>3. type \in OtherEvent =>
          /\ type \notin UserEvent \cup ThreadEvent \cup MessageEvent
          /\ type \notin TagOrCategoryEvent \cup AttachmentEvent
    BY DEF OtherEvent
<1> QED BY <1>1, <1>2, <1>3, Zenon DEF Import

LEMMA SetsUser ==
    ASSUME NEW type \in UserEvent \ {"ADD_NEW_USER"}
    PROVE  \E x \in {"name", "info", "title", "signature", "logo", "quota"} :
               /\ \A d, c, v :
                      ImportUserEvent(type, d, c, v) =
                          IF /\ type = "CHANGE_USER_NAME"
                             /\ v[1] \in DOMAIN d.users /\ Taken(d, "users", v[2])
                          THEN Result("ALREADY_EXISTS", d)
                          ELSE SetField(d, "users", v[1], x, v[2])
               /\ \A id, u : UserPayload(type, id, u) = <<id, u[x]>>
<1>1. CASE type = "CHANGE_USER_NAME"
    <2>1. \A d, c, v : ImportUserEvent(type, d, c, v) = changeUserName(d, c, v[1], v[2])
        BY <1>1, Zenon DEF ImportUserEvent
    <2>2. \A id, u : UserPayload(type, id, u) = <<id, u["name"]>>
        BY <1>1, Zenon DEF UserPayload
    <2>3. \A d, c, v : changeUserName(d, c, v[1], v[2]) =
              IF v[1] \in DOMAIN d.users /\ Taken(d, "users", v[2])
              THEN Result("ALREADY_EXISTS", d)
              ELSE SetField(d, "users", v[1], "name", v[2])
        BY Zenon DEF changeUserName, Change, SetField
    <2>4. \A d, c, v : ImportUserEvent(type, d, c, v) =
              IF /\ type = "CHANGE_USER_NAME"
                 /\ v[1] \in DOMAIN d.users /\ Taken(d, "users", v[2])
              THEN Result("ALREADY_EXISTS", d)
              ELSE SetField(d, "users", v[1], "name", v[2])
        BY <2>1, <2>3, <1>1
    <2> QED BY <2>2, <2>4
<1>2. CASE type = "CHANGE_USER_INFO"
    <2>1. \A d, c, v : ImportUserEvent(type, d, c, v) = changeUserInfo(d, c, v[1], v[2])
        BY <1>2, Zenon DEF ImportUserEvent
    <2>2. \A id, u : UserPayload(type, id, u) = <<id, u["info"]>>
        BY <1>2, Zenon DEF UserPayload
    <2>3. \A d, c, v : changeUserInfo(d, c, v[1], v[2])
                       = SetField(d, "users", v[1], "info", v[2])
        BY Zenon DEF changeUserInfo, Change, SetField
    <2>4. \A d, c, v : ImportUserEvent(type, d, c, v) =
              IF /\ type = "CHANGE_USER_NAME"
                 /\ v[1] \in DOMAIN d.users /\ Taken(d, "users", v[2])
              THEN Result("ALREADY_EXISTS", d)
              ELSE SetField(d, "users", v[1], "info", v[2])
        BY <2>1, <2>3, <1>2
    <2> QED BY <2>2, <2>4
<1>3. CASE type = "CHANGE_USER_TITLE"
    <2>1. \A d, c, v : ImportUserEvent(type, d, c, v) = changeUserTitle(d, c, v[1], v[2])
        BY <1>3, Zenon DEF ImportUserEvent
    <2>2. \A id, u : UserPayload(type, id, u) = <<id, u["title"]>>
        BY <1>3, Zenon DEF UserPayload
    <2>3. \A d, c, v : changeUserTitle(d, c, v[1], v[2])
                       = SetField(d, "users", v[1], "title", v[2])
        BY Zenon DEF changeUserTitle, Change, SetField
    <2>4. \A d, c, v : ImportUserEvent(type, d, c, v) =
              IF /\ type = "CHANGE_USER_NAME"
                 /\ v[1] \in DOMAIN d.users /\ Taken(d, "users", v[2])
              THEN Result("ALREADY_EXISTS", d)
              ELSE SetField(d, "users", v[1], "title", v[2])
        BY <2>1, <2>3, <1>3
    <2> QED BY <2>2, <2>4
<1>4. CASE type = "CHANGE_USER_SIGNATURE"
    <2>1. \A d, c, v : ImportUserEvent(type, d, c, v)
                       = changeUserSignature(d, c, v[1], v[2])
        BY <1>4, Zenon DEF ImportUserEvent
    <2>2. \A id, u : UserPayload(type, id, u) = <<id, u["signature"]>>
        BY <1>4, Zenon DEF UserPayload
    <2>3. \A d, c, v : changeUserSignature(d, c, v[1], v[2])
                       = SetField(d, "users", v[1], "signature", v[2])
        BY Zenon DEF changeUserSignature, Change, SetField
    <2>4. \A d, c, v : ImportUserEvent(type, d, c, v) =
              IF /\ type = "CHANGE_USER_NAME"
                 /\ v[1] \in DOMAIN d.users /\ Taken(d, "users", v[2])
              THEN Result("ALREADY_EXISTS", d)
              ELSE SetField(d, "users", v[1], "signature", v[2])
        BY <2>1, <2>3, <1>4
    <2> QED BY <2>2, <2>4
<1>5. CASE type = "CHANGE_USER_LOGO"
    <2>1. \A d, c, v : ImportUserEvent(type, d, c, v) = changeUserLogo(d, c, v[1], v[2])
        BY <1>5, Zenon DEF ImportUserEvent
    <2>2. \A id, u : UserPayload(type, id, u) = <<id, u["logo"]>>
        BY <1>5, Zenon DEF UserPayload
    <2>3. \A d, c, v : changeUserLogo(d, c, v[1], v[2])
                       = SetField(d, "users", v[1], "logo", v[2])
        BY Zenon DEF changeUserLogo, Change, SetField
    <2>4. \A d, c, v : ImportUserEvent(type, d, c, v) =
              IF /\ type = "CHANGE_USER_NAME"
                 /\ v[1] \in DOMAIN d.users /\ Taken(d, "users", v[2])
              THEN Result("ALREADY_EXISTS", d)
              ELSE SetField(d, "users", v[1], "logo", v[2])
        BY <2>1, <2>3, <1>5
    <2> QED BY <2>2, <2>4
<1>6. CASE type = "CHANGE_USER_ATTACHMENT_QUOTA"
    <2>1. \A d, c, v : ImportUserEvent(type, d, c, v)
                       = changeUserAttachmentQuota(d, c, v[1], v[2])
        BY <1>6, Zenon DEF ImportUserEvent
    <2>2. \A id, u : UserPayload(type, id, u) = <<id, u["quota"]>>
        BY <1>6, Zenon DEF UserPayload
    <2>3. \A d, c, v : changeUserAttachmentQuota(d, c, v[1], v[2])
                       = SetField(d, "users", v[1], "quota", v[2])
        BY Zenon DEF changeUserAttachmentQuota, Change, SetField
    <2>4. \A d, c, v : ImportUserEvent(type, d, c, v) =
              IF /\ type = "CHANGE_USER_NAME"
                 /\ v[1] \in DOMAIN d.users /\ Taken(d, "users", v[2])
              THEN Result("ALREADY_EXISTS", d)
              ELSE SetField(d, "users", v[1], "quota", v[2])
        BY <2>1, <2>3, <1>6
    <2> QED BY <2>2, <2>4
<1> QED BY <1>1, <1>2, <1>3, <1>4, <1>5, <1>6 DEF UserEvent

LEMMA UserFollows ==
    ASSUME NEW keep, NEW a, NEW b, Similar(a, b, keep), NEW c, NEW e,
           NEW id, NEW new, NEW v, v[1] = id, v[2] = new,
           NEW type \in UserEvent \ {"ADD_NEW_USER"},
           ImportUserEvent(type, a, c, v).status = "OK"
    PROVE  Follows(ImportUserEvent(type, a, c, v).db, b, type, e,
                   UserPayload(type, id, ImportUserEvent(type, a, c, v).db.users[id]),
                   <<id, new>>, keep)
<1> DEFINE r == ImportUserEvent(type, a, c, v)
           Own == {"name", "info", "title", "signature", "logo", "quota"}
<1>1. PICK x \in Own :
          /\ \A d, g, z :
                 ImportUserEvent(type, d, g, z) =
                     IF /\ type = "CHANGE_USER_NAME"
                        /\ z[1] \in DOMAIN d.users /\ Taken(d, "users", z[2])
                     THEN Result("ALREADY_EXISTS", d)
                     ELSE SetField(d, "users", z[1], x, z[2])
          /\ \A i, u : UserPayload(type, i, u) = <<i, u[x]>>
    BY SetsUser
<1>2. "users" \in Kind /\ x \in Fields("users") \ {"at", "ip", "displayOrder"}
    BY DEF Kind, Fields
<1>3. /\ r = SetField(a, "users", id, x, new)
      /\ ~(type = "CHANGE_USER_NAME" /\ id \in DOMAIN a.users /\ Taken(a, "users", new))
    BY <1>1 DEF Result
<1>4. /\ Agree(r, SetField(b, "users", id, x, new), keep)
      /\ r.db["users"][id][x] = new
    BY <1>2, <1>3, FieldAgrees
<1>5. Taken(a, "users", new) <=> Taken(b, "users", new)
    BY <1>2, SameNames
<1>6. DOMAIN a.users = DOMAIN b.users
    BY <1>2 DEF Similar
<1>7. ImportUserEvent(type, b, e, <<id, new>>) = SetField(b, "users", id, x, new)
    BY <1>1, <1>3, <1>5, <1>6
<1>8. Import(type, b, e, <<id, new>>) = SetField(b, "users", id, x, new)
    BY <1>7, ImportBy
<1>9. UserPayload(type, id, r.db.users[id]) = <<id, new>>
    BY <1>1, <1>4
<1> QED BY <1>4, <1>8, <1>9 DEF Agree, Follows

LEMMA LogoFollows ==
    ASSUME NEW keep, NEW a, NEW b, Similar(a, b, keep), NEW c, NEW e, NEW id,
           deleteUserLogo(a, c, id).status = "OK"
    PROVE  Follows(deleteUserLogo(a, c, id).db, b, "CHANGE_USER_LOGO", e,
                   UserPayload("CHANGE_USER_LOGO", id, deleteUserLogo(a, c, id).db.users[id]),
                   <<id, "">>, keep)
<1>1. PICK v : v = <<id, "">>
    OBVIOUS
<1>2. v[1] = id /\ v[2] = ""
    BY <1>1
<1>3. "CHANGE_USER_LOGO" \in UserEvent \ {"ADD_NEW_USER"}
    BY DEF UserEvent
<1>4. ImportUserEvent("CHANGE_USER_LOGO", a, c, v) = changeUserLogo(a, c, id, "")
    BY <1>2, Zenon DEF ImportUserEvent
<1>5. deleteUserLogo(a, c, id) = ImportUserEvent("CHANGE_USER_LOGO", a, c, v)
    BY <1>4, Zenon DEF deleteUserLogo, changeUserLogo
<1> QED BY <1>2, <1>3, <1>5, UserFollows

\* New entities.
NewUser(c, u, name, auth) ==
    [name |-> name, auth |-> auth, info |-> "", title |-> "",
     signature |-> "", logo |-> "", quota |-> Quota,
     quoteHistory |-> <<>>, at |-> Dates(c.time, 0, 0),
     by |-> Pair(u, ""), ip |-> Pair(c.ip, "")]

NewThread(c, u, name, approved) ==
    [name |-> name, pinDisplayOrder |-> 0, approved |-> approved,
     subscribedUsers |-> {}, at |-> Dates(c.time, c.time, c.time),
     by |-> Pair(u, ""), ip |-> Pair(c.ip, "")]

NewTag(c, name) ==
    [name |-> name, uiBlob |-> "", at |-> Dates(c.time, 0, 0),
     by |-> Pair("", ""), ip |-> Pair(c.ip, "")]

NewCategory(c, name, parent) ==
    [name |-> name, description |-> "", displayOrder |-> 0, parent |-> parent,
     at |-> Dates(c.time, 0, 0), by |-> Pair("", ""), ip |-> Pair(c.ip, "")]

NewAttachment(c, u, name, size, approved) ==
    [name |-> name, size |-> size, approved |-> approved,
     at |-> Dates(c.time, 0, 0), by |-> Pair(u, ""), ip |-> Pair(c.ip, "")]

NewMessage(c, u, thread, content, approved) ==
    [thread |-> thread, content |-> content, approved |-> approved, reason |-> "",
     at |-> Dates(c.time, 0, 0), by |-> Pair(u, ""), ip |-> Pair(c.ip, "")]

\* Its dates, and those of a thread.
Born(c) == Dates(c.time, 0, 0)
BornVisible(c) == Dates(c.time, c.time, c.time)

LEMMA NewAlike ==
    ASSUME NEW keep, NEW c, NEW e, SameContext(c, e, keep), NEW u
    PROVE  /\ \A name, auth :
                  Alike("users", NewUser(c, u, name, auth), NewUser(e, u, name, auth), keep)
           /\ \A name, approved :
                  Alike("threads", NewThread(c, u, name, approved),
                        NewThread(e, u, name, approved), keep)
           /\ \A name : Alike("tags", NewTag(c, name), NewTag(e, name), keep)
           /\ \A name, parent :
                  Alike("categories", NewCategory(c, name, parent),
                        NewCategory(e, name, parent), keep)
           /\ \A name, size, approved :
                  Alike("attachments", NewAttachment(c, u, name, size, approved),
                        NewAttachment(e, u, name, size, approved), keep)
           /\ \A thread, content, approved :
                  Alike("messages", NewMessage(c, u, thread, content, approved),
                        NewMessage(e, u, thread, content, approved), keep)
<1>1. /\ DOMAIN Born(c) = Moment /\ DOMAIN Born(e) = Moment
      /\ \A s \in Moment : /\ Born(c)[s] \in Nat
                           /\ Born(e)[s] \in {Born(c)[s], Born(c)[s] + 1}
    BY DEF Born, Dates, Moment, SameContext
<1>2. /\ DOMAIN BornVisible(c) = Moment /\ DOMAIN BornVisible(e) = Moment
      /\ \A s \in Moment :
             /\ BornVisible(c)[s] \in Nat
             /\ BornVisible(e)[s] \in {BornVisible(c)[s], BornVisible(c)[s] + 1}
    BY DEF BornVisible, Dates, Moment, SameContext
<1>3. keep => Pair(c.ip, "") = Pair(e.ip, "")
    BY DEF SameContext
<1>4. ASSUME NEW name, NEW auth
      PROVE  Alike("users", NewUser(c, u, name, auth), NewUser(e, u, name, auth), keep)
    <2> DEFINE g == NewUser(c, u, name, auth)
               h == NewUser(e, u, name, auth)
    <2>1. Fields("users") =
              {"name", "at", "by", "ip", "auth", "info", "title", "signature", "logo",
               "quota", "quoteHistory"}
        BY DEF Fields
    <2>2. DOMAIN g = Fields("users") /\ DOMAIN h = Fields("users")
        BY <2>1 DEF NewUser
    <2>3. /\ g.at = Born(c) /\ h.at = Born(e)
          /\ g.ip = Pair(c.ip, "") /\ h.ip = Pair(e.ip, "")
        BY DEF NewUser, Born
    <2>4. /\ g.name = h.name /\ g.by = h.by /\ g.auth = h.auth /\ g.info = h.info
          /\ g.title = h.title /\ g.signature = h.signature /\ g.logo = h.logo
          /\ g.quota = h.quota /\ g.quoteHistory = h.quoteHistory
        BY DEF NewUser
    <2> HIDE DEF g, h
    <2>5. \A x \in Fixed("users") : g[x] = h[x]
        BY <2>1, <2>4 DEF Fixed
    <2>6. Alike("users", g, h, keep)
        BY <1>1, <1>3, <2>2, <2>3, <2>4, <2>5 DEF Alike
    <2> QED BY <2>6 DEF g, h
<1>5. ASSUME NEW name, NEW approved
      PROVE  Alike("threads", NewThread(c, u, name, approved),
                    NewThread(e, u, name, approved), keep)
    <2> DEFINE g == NewThread(c, u, name, approved)
               h == NewThread(e, u, name, approved)
    <2>1. Fields("threads") =
              {"name", "at", "by", "ip", "pinDisplayOrder", "approved", "subscribedUsers"}
        BY DEF Fields
    <2>2. DOMAIN g = Fields("threads") /\ DOMAIN h = Fields("threads")
        BY <2>1 DEF NewThread
    <2>3. /\ g.at = BornVisible(c) /\ h.at = BornVisible(e)
          /\ g.ip = Pair(c.ip, "") /\ h.ip = Pair(e.ip, "")
        BY DEF NewThread, BornVisible
    <2>4. /\ g.name = h.name /\ g.by = h.by /\ g.pinDisplayOrder = h.pinDisplayOrder
          /\ g.approved = h.approved /\ g.subscribedUsers = h.subscribedUsers
        BY DEF NewThread
    <2> HIDE DEF g, h
    <2>5. \A x \in Fixed("threads") : g[x] = h[x]
        BY <2>1, <2>4 DEF Fixed
    <2>6. Alike("threads", g, h, keep)
        BY <1>2, <1>3, <2>2, <2>3, <2>4, <2>5 DEF Alike
    <2> QED BY <2>6 DEF g, h
<1>6. ASSUME NEW name
      PROVE  Alike("tags", NewTag(c, name), NewTag(e, name), keep)
    <2> DEFINE g == NewTag(c, name)
               h == NewTag(e, name)
    <2>1. Fields("tags") =
              {"name", "at", "by", "ip", "uiBlob"}
        BY DEF Fields
    <2>2. DOMAIN g = Fields("tags") /\ DOMAIN h = Fields("tags")
        BY <2>1 DEF NewTag
    <2>3. /\ g.at = Born(c) /\ h.at = Born(e)
          /\ g.ip = Pair(c.ip, "") /\ h.ip = Pair(e.ip, "")
        BY DEF NewTag, Born
    <2>4. /\ g.name = h.name /\ g.by = h.by /\ g.uiBlob = h.uiBlob
        BY DEF NewTag
    <2> HIDE DEF g, h
    <2>5. \A x \in Fixed("tags") : g[x] = h[x]
        BY <2>1, <2>4 DEF Fixed
    <2>6. Alike("tags", g, h, keep)
        BY <1>1, <1>3, <2>2, <2>3, <2>4, <2>5 DEF Alike
    <2> QED BY <2>6 DEF g, h
<1>7. ASSUME NEW name, NEW parent
      PROVE  Alike("categories", NewCategory(c, name, parent), NewCategory(e, name, parent), keep)
    <2> DEFINE g == NewCategory(c, name, parent)
               h == NewCategory(e, name, parent)
    <2>1. Fields("categories") =
              {"name", "at", "by", "ip", "description", "displayOrder", "parent"}
        BY DEF Fields
    <2>2. DOMAIN g = Fields("categories") /\ DOMAIN h = Fields("categories")
        BY <2>1 DEF NewCategory
    <2>3. /\ g.at = Born(c) /\ h.at = Born(e)
          /\ g.ip = Pair(c.ip, "") /\ h.ip = Pair(e.ip, "")
        BY DEF NewCategory, Born
    <2>4. /\ g.name = h.name /\ g.by = h.by /\ g.description = h.description
          /\ g.displayOrder = 0 /\ h.displayOrder = 0 /\ g.parent = h.parent
        BY DEF NewCategory
    <2> HIDE DEF g, h
    <2>5. \A x \in Fixed("categories") : g[x] = h[x]
        BY <2>1, <2>4 DEF Fixed
    <2>6. Shown(g.displayOrder, h.displayOrder)
        BY <2>4, KeptZero DEF Shown
    <2>7. Alike("categories", g, h, keep)
        BY <1>1, <1>3, <2>2, <2>3, <2>5, <2>6 DEF Alike
    <2> QED BY <2>7 DEF g, h
<1>8. ASSUME NEW name, NEW size, NEW approved
      PROVE  Alike("attachments", NewAttachment(c, u, name, size, approved),
                    NewAttachment(e, u, name, size, approved), keep)
    <2> DEFINE g == NewAttachment(c, u, name, size, approved)
               h == NewAttachment(e, u, name, size, approved)
    <2>1. Fields("attachments") =
              {"name", "at", "by", "ip", "size", "approved"}
        BY DEF Fields
    <2>2. DOMAIN g = Fields("attachments") /\ DOMAIN h = Fields("attachments")
        BY <2>1 DEF NewAttachment
    <2>3. /\ g.at = Born(c) /\ h.at = Born(e)
          /\ g.ip = Pair(c.ip, "") /\ h.ip = Pair(e.ip, "")
        BY DEF NewAttachment, Born
    <2>4. /\ g.name = h.name /\ g.by = h.by /\ g.size = h.size
          /\ g.approved = h.approved
        BY DEF NewAttachment
    <2> HIDE DEF g, h
    <2>5. \A x \in Fixed("attachments") : g[x] = h[x]
        BY <2>1, <2>4 DEF Fixed
    <2>6. Alike("attachments", g, h, keep)
        BY <1>1, <1>3, <2>2, <2>3, <2>4, <2>5 DEF Alike
    <2> QED BY <2>6 DEF g, h
<1>9. ASSUME NEW thread, NEW content, NEW approved
      PROVE  Alike("messages", NewMessage(c, u, thread, content, approved),
                   NewMessage(e, u, thread, content, approved), keep)
    <2> DEFINE g == NewMessage(c, u, thread, content, approved)
               h == NewMessage(e, u, thread, content, approved)
    <2>1. Fields("messages") =
              {"at", "by", "ip", "thread", "content", "approved", "reason"}
        BY DEF Fields
    <2>2. DOMAIN g = Fields("messages") /\ DOMAIN h = Fields("messages")
        BY <2>1 DEF NewMessage
    <2>3. /\ g.at = Born(c) /\ h.at = Born(e)
          /\ g.ip = Pair(c.ip, "") /\ h.ip = Pair(e.ip, "")
        BY DEF NewMessage, Born
    <2>4. /\ g.by = h.by /\ g.thread = h.thread
          /\ g.content = h.content /\ g.approved = h.approved /\ g.reason = h.reason
        BY DEF NewMessage
    <2> HIDE DEF g, h
    <2>5. \A x \in Fixed("messages") : g[x] = h[x]
        BY <2>1, <2>4 DEF Fixed
    <2>6. Alike("messages", g, h, keep)
        BY <1>1, <1>3, <2>2, <2>3, <2>4, <2>5 DEF Alike
    <2> QED BY <2>6 DEF g, h
<1> QED BY <1>4, <1>5, <1>6, <1>7, <1>8, <1>9

LEMMA NewUserFollows ==
    ASSUME NEW keep, NEW a, NEW b, Similar(a, b, keep),
           NEW c, NEW e, SameContext(c, e, keep),
           NEW id, Named(id), id \notin DOMAIN a.users, NEW name, NEW auth,
           addNewUser(a, c, id, name, auth).status = "OK"
    PROVE  Follows(addNewUser(a, c, id, name, auth).db, b, "ADD_NEW_USER", e,
                   UserPayload("ADD_NEW_USER", id,
                               addNewUser(a, c, id, name, auth).db.users[id]),
                   <<id, auth, name>>, keep)
<1> DEFINE u == getCurrentUser(a, c)
           r == addNewUser(a, c, id, name, auth)
<1>1. /\ "users" \in Kind
      /\ DOMAIN a.users = DOMAIN b.users
      /\ \A i \in DOMAIN a.users : a.users[i].auth = b.users[i].auth
    <2>1. /\ "users" \in Kind
          /\ "auth" \in Fixed("users")
        BY DEF Kind, Fields, Fixed
    <2>2. /\ DOMAIN a["users"] = DOMAIN b["users"]
          /\ \A i \in DOMAIN a["users"] : Alike("users", a["users"][i], b["users"][i], keep)
        BY <2>1, Zenon DEF Similar
    <2> QED BY <2>1, <2>2 DEF Alike
<1>2. ~\E i \in DOMAIN a.users : a.users[i].auth = auth
    BY DEF addNewUser, Result
<1>3. ~Taken(a, "users", name)
    BY <1>2 DEF addNewUser, Result
<1>4. r = Insert(a, "users", id, NewUser(c, u, name, auth))
    BY <1>2, <1>3, Zenon DEF addNewUser, NewUser
<1>5. ~\E i \in DOMAIN b.users : b.users[i].auth = auth
    BY <1>1, <1>2
<1>6. ~Taken(b, "users", name)
    BY <1>1, <1>3, SameNames
<1>7. getCurrentUser(a, c) = getCurrentUser(b, e)
    BY SameUser
<1>8. addNewUser(b, e, id, name, auth) = Insert(b, "users", id, NewUser(e, u, name, auth))
    BY <1>5, <1>6, <1>7, Zenon DEF addNewUser, NewUser
<1>9. Alike("users", NewUser(c, u, name, auth), NewUser(e, u, name, auth), keep)
    BY NewAlike
<1>10. id \notin DOMAIN a["users"]
    OBVIOUS
<1> HIDE DEF u, r
<1>11. /\ addNewUser(b, e, id, name, auth).status = "OK"
       /\ Similar(r.db, addNewUser(b, e, id, name, auth).db, keep)
       /\ r.db["users"][id] = NewUser(c, u, name, auth)
    <2>1. Agree(r, addNewUser(b, e, id, name, auth), keep)
        <3>1. Agree(Insert(a, "users", id, NewUser(c, u, name, auth)),
                    Insert(b, "users", id, NewUser(e, u, name, auth)), keep)
            BY <1>1, <1>9, <1>10, InsertAlike
        <3> QED BY <3>1, <1>4, <1>8
    <2>2. "users" \in DOMAIN a
        BY <1>1 DEF Similar
    <2>3. LET s == Insert(a, "users", id, NewUser(c, u, name, auth))
          IN s.status = "OK" /\ s.db["users"][id] = NewUser(c, u, name, auth)
        BY <2>2, <1>10, InsertTells
    <2> QED BY <2>1, <2>3, <1>4 DEF Agree
<1>12. UserPayload("ADD_NEW_USER", id, r.db.users[id]) = <<id, auth, name>>
    <2>1. UserPayload("ADD_NEW_USER", id, NewUser(c, u, name, auth)) =
              <<id, NewUser(c, u, name, auth).auth, NewUser(c, u, name, auth).name>>
        BY Zenon DEF UserPayload
    <2> QED BY <2>1, <1>11 DEF NewUser
<1>13. Import("ADD_NEW_USER", b, e, <<id, auth, name>>) = addNewUser(b, e, id, name, auth)
    <2>1. "ADD_NEW_USER" \in UserEvent
        BY DEF UserEvent
    <2>2. PICK v : v = <<id, auth, name>>
        OBVIOUS
    <2>3. ImportUserEvent("ADD_NEW_USER", b, e, v) = addNewUser(b, e, v[1], v[3], v[2])
        BY Zenon DEF ImportUserEvent
    <2>4. v[1] = id /\ v[2] = auth /\ v[3] = name
        BY <2>2
    <2>5. Import("ADD_NEW_USER", b, e, v) = ImportUserEvent("ADD_NEW_USER", b, e, v)
        BY <2>1, ImportBy
    <2> QED BY <2>2, <2>3, <2>4, <2>5
<1> QED BY <1>11, <1>12, <1>13 DEF Follows, r

LEMMA AddFollows ==
    ASSUME NEW keep, NEW a, NEW b, Similar(a, b, keep),
           NEW k \in Kind, NEW id, id \notin DOMAIN a[k],
           k \in {"users", "categories"} => Named(id),
           NEW f, NEW g, Alike(k, f, g, keep),
           NEW type, NEW e, NEW w, Import(type, b, e, w) = Insert(b, k, id, g)
    PROVE  Follows(Insert(a, k, id, f).db, b, type, e, w, w, keep)
<1>1. Agree(Insert(a, k, id, f), Insert(b, k, id, g), keep)
    BY InsertAlike
<1>2. Insert(a, k, id, f).status = "OK"
    BY DEF Insert, Ok, Result
<1> QED BY <1>1, <1>2 DEF Agree, Follows

\* Entities are there after they were added.
LEMMA Added ==
    ASSUME NEW keep, NEW a, NEW b, Similar(a, b, keep),
           NEW k \in Kind, NEW id, id \notin DOMAIN a[k], NEW f
    PROVE  Insert(a, k, id, f).db[k][id] = f
<1>1. k \in DOMAIN a
    BY DEF Similar
<1> QED BY <1>1, InsertTells

LEMMA FlagTells ==
    ASSUME NEW x \in BOOLEAN
    PROVE  (Flag(x) # 0) = x /\ (Flag(x) = 1) = x /\ Flag(x) \in {0, 1}
BY DEF Flag

LEMMA NewThreadFollows ==
    ASSUME NEW keep, NEW a, NEW b, Similar(a, b, keep),
           NEW c, NEW e, SameContext(c, e, keep),
           NEW id, id \notin DOMAIN a["threads"], NEW name, NEW approved \in BOOLEAN
    PROVE  Follows(addNewDiscussionThread(a, c, id, name, approved).db, b,
                   "ADD_NEW_DISCUSSION_THREAD", e,
                   ThreadPayload("ADD_NEW_DISCUSSION_THREAD", id,
                       addNewDiscussionThread(a, c, id, name, approved).db.threads[id]),
                   <<id, name, Flag(approved)>>, keep)
<1> DEFINE type == "ADD_NEW_DISCUSSION_THREAD"
           r == addNewDiscussionThread(a, c, id, name, approved)
<1>1. PICK u : u = getCurrentUser(a, c) /\ u = getCurrentUser(b, e)
    BY SameUser
<1>2. r = Insert(a, "threads", id, NewThread(c, u, name, approved))
    BY <1>1, Zenon DEF addNewDiscussionThread, NewThread
<1>3. "threads" \in Kind
    BY DEF Kind
<1>4. Alike("threads", NewThread(c, u, name, approved), NewThread(e, u, name, approved), keep)
    BY NewAlike
<1>5. PICK w : w = <<id, name, Flag(approved)>>
    OBVIOUS
<1>6. Import(type, b, e, w) = Insert(b, "threads", id, NewThread(e, u, name, approved))
    <2>1. type \in ThreadEvent
        BY DEF ThreadEvent
    <2>2. Import(type, b, e, w) = ImportThreadEvent(type, b, e, w)
        BY <2>1, ImportBy
    <2>3. ImportThreadEvent(type, b, e, w)
              = addNewDiscussionThread(b, e, w[1], w[2], w[3] # 0)
        BY Zenon DEF ImportThreadEvent
    <2>4. w[1] = id /\ w[2] = name /\ (w[3] # 0) = approved
        BY <1>5, FlagTells
    <2>5. addNewDiscussionThread(b, e, id, name, approved)
              = Insert(b, "threads", id, NewThread(e, u, name, approved))
        BY <1>1, Zenon DEF addNewDiscussionThread, NewThread
    <2>6. ImportThreadEvent(type, b, e, w) = addNewDiscussionThread(b, e, id, name, approved)
        BY <2>3, <2>4, Zenon
    <2> QED BY <2>2, <2>5, <2>6, Zenon
<1>7. Follows(r.db, b, type, e, w, w, keep)
    <2> HIDE DEF type
    <2>1. Follows(Insert(a, "threads", id, NewThread(c, u, name, approved)).db,
                  b, type, e, w, w, keep)
        BY <1>3, <1>4, <1>6, AddFollows
    <2> QED BY <2>1, <1>2
<1>8. ThreadPayload(type, id, r.db.threads[id]) = w
    <2>1. r.db["threads"][id] = NewThread(c, u, name, approved)
        BY <1>2, <1>3, Added
    <2>2. \A t : ThreadPayload(type, id, t) = <<id, t.name, Flag(t.approved)>>
        BY Zenon DEF ThreadPayload
    <2>3. /\ NewThread(c, u, name, approved).name = name
          /\ NewThread(c, u, name, approved).approved = approved
        BY DEF NewThread
    <2>4. ThreadPayload(type, id, r.db["threads"][id])
              = <<id, NewThread(c, u, name, approved).name,
                  Flag(NewThread(c, u, name, approved).approved)>>
        BY <2>1, <2>2, Zenon
    <2> QED BY <2>3, <2>4, <1>5, Zenon
<1> HIDE DEF type, r
<1>9. Follows(r.db, b, type, e, ThreadPayload(type, id, r.db.threads[id]),
              <<id, name, Flag(approved)>>, keep)
    BY <1>5, <1>7, <1>8
<1> QED BY <1>9 DEF type, r

LEMMA NewTagFollows ==
    ASSUME NEW keep, NEW a, NEW b, Similar(a, b, keep),
           NEW c, NEW e, SameContext(c, e, keep),
           NEW id, id \notin DOMAIN a["tags"], NEW name,
           addNewDiscussionTag(a, c, id, name).status = "OK"
    PROVE  Follows(addNewDiscussionTag(a, c, id, name).db, b, "ADD_NEW_DISCUSSION_TAG", e,
                   TagPayload("ADD_NEW_DISCUSSION_TAG", id,
                              addNewDiscussionTag(a, c, id, name).db.tags[id]),
                   <<id, name>>, keep)
<1> DEFINE type == "ADD_NEW_DISCUSSION_TAG"
           r == addNewDiscussionTag(a, c, id, name)
<1>1. ~Taken(a, "tags", name)
    BY DEF addNewDiscussionTag, Result
<1>2. r = Insert(a, "tags", id, NewTag(c, name))
    BY <1>1, Zenon DEF addNewDiscussionTag, NewTag
<1>3. "tags" \in Kind \ {"messages"}
    BY DEF Kind
<1>4. Alike("tags", NewTag(c, name), NewTag(e, name), keep)
    BY NewAlike
<1>5. PICK w : w = <<id, name>>
    OBVIOUS
<1>6. Import(type, b, e, w) = Insert(b, "tags", id, NewTag(e, name))
    <2>1. type \in TagOrCategoryEvent
        BY DEF TagOrCategoryEvent
    <2>2. Import(type, b, e, w) = ImportTagOrCategoryEvent(type, b, e, w)
        BY <2>1, ImportBy
    <2>3. ImportTagOrCategoryEvent(type, b, e, w) = addNewDiscussionTag(b, e, w[1], w[2])
        BY Zenon DEF ImportTagOrCategoryEvent
    <2>4. w[1] = id /\ w[2] = name
        BY <1>5
    <2>5. ~Taken(b, "tags", name)
        BY <1>1, <1>3, SameNames
    <2>6. addNewDiscussionTag(b, e, id, name) = Insert(b, "tags", id, NewTag(e, name))
        BY <2>5, Zenon DEF addNewDiscussionTag, NewTag
    <2> QED BY <2>2, <2>3, <2>4, <2>6, Zenon
<1>7. Follows(r.db, b, type, e, w, w, keep)
    <2> HIDE DEF type
    <2>1. Follows(Insert(a, "tags", id, NewTag(c, name)).db, b, type, e, w, w, keep)
        BY <1>3, <1>4, <1>6, AddFollows
    <2> QED BY <2>1, <1>2
<1>8. TagPayload(type, id, r.db.tags[id]) = w
    <2>1. r.db["tags"][id] = NewTag(c, name)
        BY <1>2, <1>3, Added
    <2>2. TagPayload(type, id, NewTag(c, name)) = <<id, NewTag(c, name).name>>
        BY Zenon DEF TagPayload
    <2>3. NewTag(c, name).name = name
        BY DEF NewTag
    <2> QED BY <2>1, <2>2, <2>3, <1>5, Zenon
<1> HIDE DEF type, r
<1>9. Follows(r.db, b, type, e, TagPayload(type, id, r.db.tags[id]), <<id, name>>, keep)
    BY <1>5, <1>7, <1>8
<1> QED BY <1>9 DEF type, r

LEMMA NewCategoryFollows ==
    ASSUME NEW keep, NEW a, NEW b, Similar(a, b, keep),
           NEW c, NEW e, SameContext(c, e, keep),
           NEW id, Named(id), id \notin DOMAIN a["categories"], NEW name, NEW parent,
           addNewDiscussionCategory(a, c, id, name, parent).status = "OK"
    PROVE  Follows(addNewDiscussionCategory(a, c, id, name, parent).db, b,
                   "ADD_NEW_DISCUSSION_CATEGORY", e,
                   CategoryPayload("ADD_NEW_DISCUSSION_CATEGORY", id,
                       addNewDiscussionCategory(a, c, id, name, parent).db.categories[id]),
                   <<id, IF parent \in DOMAIN a.categories THEN parent ELSE "", name>>, keep)
<1> DEFINE type == "ADD_NEW_DISCUSSION_CATEGORY"
           r == addNewDiscussionCategory(a, c, id, name, parent)
           p == IF parent \in DOMAIN a.categories THEN parent ELSE ""
<1>1. ~Taken(a, "categories", name)
    BY DEF addNewDiscussionCategory, Result
<1>2. r = Insert(a, "categories", id, NewCategory(c, name, p))
    BY <1>1, Zenon DEF addNewDiscussionCategory, NewCategory
<1>3. "categories" \in Kind \ {"messages"}
    BY DEF Kind
<1>4. Alike("categories", NewCategory(c, name, p), NewCategory(e, name, p), keep)
    BY NewAlike
<1>5. PICK w : w = <<id, p, name>>
    OBVIOUS
<1>6. Import(type, b, e, w) = Insert(b, "categories", id, NewCategory(e, name, p))
    <2>1. type \in TagOrCategoryEvent
        BY DEF TagOrCategoryEvent
    <2>2. Import(type, b, e, w) = ImportTagOrCategoryEvent(type, b, e, w)
        BY <2>1, ImportBy
    <2>3. ImportTagOrCategoryEvent(type, b, e, w)
              = addNewDiscussionCategory(b, e, w[1], w[3], w[2])
        BY Zenon DEF ImportTagOrCategoryEvent
    <2>4. w[1] = id /\ w[2] = p /\ w[3] = name
        <3> HIDE DEF p
        <3> QED BY <1>5
    <2>5. ~Taken(b, "categories", name)
        BY <1>1, <1>3, SameNames
    <2>6. (IF p \in DOMAIN b.categories THEN p ELSE "") = p
        <3>1. DOMAIN a["categories"] = DOMAIN b["categories"]
            BY <1>3 DEF Similar
        <3> QED BY <3>1
    <2>7. addNewDiscussionCategory(b, e, id, name, p)
              = Insert(b, "categories", id, NewCategory(e, name, p))
        <3> HIDE DEF p
        <3> QED BY <2>5, <2>6, Zenon DEF addNewDiscussionCategory, NewCategory
    <2> HIDE DEF p
    <2> QED BY <2>2, <2>3, <2>4, <2>7, Zenon
<1> HIDE DEF p
<1>7. Follows(r.db, b, type, e, w, w, keep)
    <2> HIDE DEF type
    <2>1. Follows(Insert(a, "categories", id, NewCategory(c, name, p)).db,
                  b, type, e, w, w, keep)
        BY <1>3, <1>4, <1>6, AddFollows
    <2> QED BY <2>1, <1>2
<1>8. CategoryPayload(type, id, r.db.categories[id]) = w
    <2>1. r.db["categories"][id] = NewCategory(c, name, p)
        BY <1>2, <1>3, Added
    <2>2. CategoryPayload(type, id, NewCategory(c, name, p))
              = <<id, NewCategory(c, name, p).parent, NewCategory(c, name, p).name>>
        BY Zenon DEF CategoryPayload
    <2>3. NewCategory(c, name, p).name = name /\ NewCategory(c, name, p).parent = p
        BY DEF NewCategory
    <2> QED BY <2>1, <2>2, <2>3, <1>5, Zenon
<1> HIDE DEF type, r
<1>9. Follows(r.db, b, type, e, CategoryPayload(type, id, r.db.categories[id]),
              <<id, p, name>>, keep)
    BY <1>5, <1>7, <1>8
<1> QED BY <1>9 DEF type, r, p

LEMMA NewAttachmentFollows ==
    ASSUME NEW keep, NEW a, NEW b, Similar(a, b, keep),
           NEW c, NEW e, SameContext(c, e, keep),
           NEW id, id \notin DOMAIN a["attachments"], NEW name, NEW size,
           NEW approved \in BOOLEAN
    PROVE  Follows(addNewAttachment(a, c, id, name, size, approved).db, b,
                   "ADD_NEW_ATTACHMENT", e,
                   AttachmentPayload("ADD_NEW_ATTACHMENT", id,
                       addNewAttachment(a, c, id, name, size, approved).db.attachments[id]),
                   <<id, name, size, Flag(approved)>>, keep)
<1> DEFINE type == "ADD_NEW_ATTACHMENT"
           r == addNewAttachment(a, c, id, name, size, approved)
<1>1. PICK u : u = getCurrentUser(a, c) /\ u = getCurrentUser(b, e)
    BY SameUser
<1>2. r = Insert(a, "attachments", id, NewAttachment(c, u, name, size, approved))
    BY <1>1, Zenon DEF addNewAttachment, NewAttachment
<1>3. "attachments" \in Kind
    BY DEF Kind
<1>4. Alike("attachments", NewAttachment(c, u, name, size, approved),
            NewAttachment(e, u, name, size, approved), keep)
    BY NewAlike
<1>5. PICK w : w = <<id, name, size, Flag(approved)>>
    OBVIOUS
<1>6. Import(type, b, e, w)
          = Insert(b, "attachments", id, NewAttachment(e, u, name, size, approved))
    <2>1. type \in AttachmentEvent
        BY DEF AttachmentEvent
    <2>2. Import(type, b, e, w) = ImportAttachmentEvent(type, b, e, w)
        BY <2>1, ImportBy
    <2>3. ImportAttachmentEvent(type, b, e, w)
              = addNewAttachment(b, e, w[1], w[2], w[3], w[4] = 1)
        BY Zenon DEF ImportAttachmentEvent
    <2>4. w[1] = id /\ w[2] = name /\ w[3] = size /\ (w[4] = 1) = approved
        BY <1>5, FlagTells
    <2>5. addNewAttachment(b, e, id, name, size, approved)
              = Insert(b, "attachments", id, NewAttachment(e, u, name, size, approved))
        BY <1>1, Zenon DEF addNewAttachment, NewAttachment
    <2>6. ImportAttachmentEvent(type, b, e, w)
              = addNewAttachment(b, e, id, name, size, approved)
        BY <2>3, <2>4, Zenon
    <2> QED BY <2>2, <2>5, <2>6, Zenon
<1>7. Follows(r.db, b, type, e, w, w, keep)
    <2> HIDE DEF type
    <2>1. Follows(Insert(a, "attachments", id, NewAttachment(c, u, name, size, approved)).db,
                  b, type, e, w, w, keep)
        BY <1>3, <1>4, <1>6, AddFollows
    <2> QED BY <2>1, <1>2
<1>8. AttachmentPayload(type, id, r.db.attachments[id]) = w
    <2> DEFINE n == NewAttachment(c, u, name, size, approved)
    <2>1. r.db["attachments"][id] = n
        BY <1>2, <1>3, Added
    <2>2. AttachmentPayload(type, id, n) = <<id, n.name, n.size, Flag(n.approved)>>
        BY Zenon DEF AttachmentPayload
    <2>3. n.name = name /\ n.size = size /\ n.approved = approved
        BY DEF NewAttachment
    <2> HIDE DEF n
    <2> QED BY <2>1, <2>2, <2>3, <1>5, Zenon
<1> HIDE DEF type, r
<1>9. Follows(r.db, b, type, e, AttachmentPayload(type, id, r.db.attachments[id]),
              <<id, name, size, Flag(approved)>>, keep)
    BY <1>5, <1>7, <1>8
<1> QED BY <1>9 DEF type, r

\* What is kept of the value of a command, and what its event tells.
Approval ==
    {"CHANGE_DISCUSSION_THREAD_APPROVAL", "CHANGE_DISCUSSION_THREAD_MESSAGE_APPROVAL",
     "CHANGE_ATTACHMENT_APPROVAL"}
Kept(type, w) ==
    IF type = "CHANGE_DISCUSSION_THREAD_PIN_DISPLAY_ORDER" THEN w % 16384
    ELSE IF type \in Approval THEN w # 0
    ELSE w
Told(type, y) == IF type \in Approval THEN Flag(y) ELSE y
Tells(type, w) == Told(type, Kept(type, w))

Counted(type, w) == type = "CHANGE_DISCUSSION_THREAD_PIN_DISPLAY_ORDER" => w \in Int

LEMMA CutAgain ==
    ASSUME NEW y \in 0 .. 16383
    PROVE  y % 16384 = y
OBVIOUS

LEMMA KeptAgain ==
    ASSUME NEW type, NEW w, Counted(type, w)
    PROVE  Kept(type, Tells(type, w)) = Kept(type, w)
<1>1. CASE type = "CHANGE_DISCUSSION_THREAD_PIN_DISPLAY_ORDER"
    <2>1. w \in Int
        BY <1>1 DEF Counted
    <2>2. PICK z \in 0 .. 16383 : z = w % 16384
        BY <2>1
    <2>3. z % 16384 = z
        BY CutAgain
    <2>4. (\A y : Kept(type, y) = y % 16384) /\ (\A y : Told(type, y) = y)
        BY <1>1 DEF Told, Kept, Approval
    <2>5. Kept(type, w) = z
        BY <2>2, <2>4
    <2>6. Tells(type, w) = z
        BY <2>4, <2>5 DEF Tells
    <2>7. Kept(type, z) = z
        BY <2>3, <2>4
    <2> QED BY <2>5, <2>6, <2>7
<1>2. CASE type \in Approval
    <2>1. \A y : Kept(type, y) = (y # 0)
        BY <1>2 DEF Kept, Approval
    <2>2. Kept(type, w) \in BOOLEAN
        BY <2>1
    <2>3. Tells(type, w) = Flag(Kept(type, w))
        BY <1>2 DEF Tells, Told
    <2>4. (Flag(Kept(type, w)) # 0) = Kept(type, w)
        BY <2>2, FlagTells
    <2> QED BY <2>1, <2>3, <2>4, Zenon
<1>3. CASE type # "CHANGE_DISCUSSION_THREAD_PIN_DISPLAY_ORDER" /\ type \notin Approval
    BY <1>3 DEF Kept, Tells, Told
<1> QED BY <1>1, <1>2, <1>3

LEMMA SetsThread ==
    ASSUME NEW type \in ThreadEvent \ {"ADD_NEW_DISCUSSION_THREAD",
                                       "SUBSCRIBE_TO_DISCUSSION_THREAD",
                                       "UNSUBSCRIBE_FROM_DISCUSSION_THREAD"}
    PROVE  \E x \in {"name", "pinDisplayOrder", "approved"} :
               /\ \A d, c, v :
                      ImportThreadEvent(type, d, c, v) =
                          SetThreadDated(d, c, "threads", v[1], x, Kept(type, v[2]))
               /\ \A id, t : ThreadPayload(type, id, t) = <<id, Told(type, t[x])>>
<1>1. CASE type = "CHANGE_DISCUSSION_THREAD_NAME"
    <2>1. \A d, c, v : ImportThreadEvent(type, d, c, v)
                       = changeDiscussionThreadName(d, c, v[1], v[2])
        BY <1>1, Zenon DEF ImportThreadEvent
    <2>2. \A id, t : ThreadPayload(type, id, t) = <<id, t["name"]>>
        BY <1>1, Zenon DEF ThreadPayload
    <2>3. \A y : Told(type, y) = y /\ Kept(type, y) = y
        BY <1>1 DEF Told, Kept, Approval
    <2>4. \A d, c, v : ImportThreadEvent(type, d, c, v)
                       = SetThreadDated(d, c, "threads", v[1], "name", Kept(type, v[2]))
        BY <2>1, <2>3, ThreadFields
    <2>5. \A id, t : ThreadPayload(type, id, t) = <<id, Told(type, t["name"])>>
        BY <2>2, <2>3
    <2> QED BY <2>4, <2>5
<1>2. CASE type = "CHANGE_DISCUSSION_THREAD_PIN_DISPLAY_ORDER"
    <2>1. \A d, c, v : ImportThreadEvent(type, d, c, v)
                       = changeDiscussionThreadPinDisplayOrder(d, c, v[1], v[2])
        BY <1>2, Zenon DEF ImportThreadEvent
    <2>2. \A id, t : ThreadPayload(type, id, t) = <<id, t["pinDisplayOrder"]>>
        BY <1>2, Zenon DEF ThreadPayload
    <2>3. \A y : Told(type, y) = y /\ Kept(type, y) = y % 16384
        BY <1>2 DEF Told, Kept, Approval
    <2>4. \A d, c, v : ImportThreadEvent(type, d, c, v)
                       = SetThreadDated(d, c, "threads", v[1], "pinDisplayOrder",
                                        Kept(type, v[2]))
        BY <2>1, <2>3, ThreadFields
    <2>5. \A id, t : ThreadPayload(type, id, t) = <<id, Told(type, t["pinDisplayOrder"])>>
        BY <2>2, <2>3
    <2> QED BY <2>4, <2>5
<1>3. CASE type = "CHANGE_DISCUSSION_THREAD_APPROVAL"
    <2>1. \A d, c, v : ImportThreadEvent(type, d, c, v)
                       = changeDiscussionThreadApproval(d, c, v[1], v[2] # 0)
        BY <1>3, Zenon DEF ImportThreadEvent
    <2>2. \A id, t : ThreadPayload(type, id, t) = <<id, Flag(t.approved)>>
        BY <1>3, Zenon DEF ThreadPayload
    <2>3. \A y : Told(type, y) = Flag(y) /\ Kept(type, y) = (y # 0)
        BY <1>3 DEF Told, Kept, Approval
    <2>4. \A d, c, v : ImportThreadEvent(type, d, c, v)
                       = SetThreadDated(d, c, "threads", v[1], "approved", Kept(type, v[2]))
        <3> SUFFICES ASSUME NEW d, NEW c, NEW v
                     PROVE  ImportThreadEvent(type, d, c, v)
                            = SetThreadDated(d, c, "threads", v[1], "approved",
                                             Kept(type, v[2]))
            OBVIOUS
        <3>1. ImportThreadEvent(type, d, c, v)
                  = changeDiscussionThreadApproval(d, c, v[1], Kept(type, v[2]))
            <4>1. Kept(type, v[2]) = (v[2] # 0)
                BY <2>3
            <4> QED BY <2>1, <4>1, Zenon
        <3> QED BY <3>1, ThreadFields
    <2>5. \A id, t : ThreadPayload(type, id, t) = <<id, Told(type, t["approved"])>>
        BY <2>2, <2>3
    <2> QED BY <2>4, <2>5
<1> QED BY <1>1, <1>2, <1>3 DEF ThreadEvent

LEMMA ThreadFollows ==
    ASSUME NEW keep, NEW a, NEW b, Similar(a, b, keep),
           NEW c, NEW e, SameContext(c, e, keep),
           NEW id, NEW new, NEW v, v[1] = id, v[2] = new,
           NEW type \in ThreadEvent \ {"ADD_NEW_DISCUSSION_THREAD",
                                       "SUBSCRIBE_TO_DISCUSSION_THREAD",
                                       "UNSUBSCRIBE_FROM_DISCUSSION_THREAD"},
           Counted(type, new),
           ImportThreadEvent(type, a, c, v).status = "OK"
    PROVE  Follows(ImportThreadEvent(type, a, c, v).db, b, type, e,
                   ThreadPayload(type, id, ImportThreadEvent(type, a, c, v).db.threads[id]),
                   <<id, Tells(type, new)>>, keep)
<1> DEFINE r == ImportThreadEvent(type, a, c, v)
<1>1. PICK x \in {"name", "pinDisplayOrder", "approved"} :
          /\ \A d, g, z :
                 ImportThreadEvent(type, d, g, z) =
                     SetThreadDated(d, g, "threads", z[1], x, Kept(type, z[2]))
          /\ \A i, t : ThreadPayload(type, i, t) = <<i, Told(type, t[x])>>
    BY SetsThread
<1>2. "threads" \in Kind /\ x \in Fields("threads") \ {"at", "by", "ip", "displayOrder"}
    BY DEF Kind, Fields
<1>3. r = SetThreadDated(a, c, "threads", id, x, Kept(type, new))
    BY <1>1
<1>4. /\ Agree(r, SetThreadDated(b, e, "threads", id, x, Kept(type, new)), keep)
      /\ r.db["threads"][id][x] = Kept(type, new)
    BY <1>2, <1>3, DatedAgrees
<1>5. PICK w : w = <<id, Tells(type, new)>>
    OBVIOUS
<1>6. ImportThreadEvent(type, b, e, w)
          = SetThreadDated(b, e, "threads", id, x, Kept(type, new))
    BY <1>1, <1>5, KeptAgain
<1>7. Import(type, b, e, w) = SetThreadDated(b, e, "threads", id, x, Kept(type, new))
    BY <1>6, ImportBy
<1>8. ThreadPayload(type, id, r.db.threads[id]) = <<id, Tells(type, new)>>
    BY <1>1, <1>4 DEF Tells
<1> HIDE DEF r
<1>9. Follows(r.db, b, type, e, ThreadPayload(type, id, r.db.threads[id]), w, keep)
    <2>1. r.status = "OK"
        BY DEF r
    <2> QED BY <2>1, <1>4, <1>5, <1>7, <1>8 DEF Agree, Follows
<1> QED BY <1>5, <1>9 DEF r

LEMMA TagFollows ==
    ASSUME NEW keep, NEW a, NEW b, Similar(a, b, keep),
           NEW c, NEW e, SameContext(c, e, keep),
           NEW id, NEW new, NEW v, v[1] = id, v[2] = new,
           NEW type \in {"CHANGE_DISCUSSION_TAG_NAME", "CHANGE_DISCUSSION_TAG_UI_BLOB"},
           ImportTagOrCategoryEvent(type, a, c, v).status = "OK"
    PROVE  Follows(ImportTagOrCategoryEvent(type, a, c, v).db, b, type, e,
                   TagPayload(type, id, ImportTagOrCategoryEvent(type, a, c, v).db.tags[id]),
                   <<id, new>>, keep)
<1> DEFINE r == ImportTagOrCategoryEvent(type, a, c, v)
<1>1. /\ "tags" \in Kind
      /\ "name" \in Fields("tags") \ {"at", "by", "ip", "displayOrder"}
      /\ "uiBlob" \in Fields("tags") \ {"at", "ip", "displayOrder"}
    BY DEF Kind, Fields
<1>2. PICK w : w = <<id, new>>
    OBVIOUS
<1>3. w[1] = id /\ w[2] = new
    BY <1>2
<1>4. Import(type, b, e, w) = ImportTagOrCategoryEvent(type, b, e, w)
    <2>1. type \in TagOrCategoryEvent
        BY DEF TagOrCategoryEvent
    <2> QED BY <2>1, ImportBy
<1>5. CASE type = "CHANGE_DISCUSSION_TAG_NAME"
    <2>1. \A d, g, z : z[1] = id /\ z[2] = new =>
              ImportTagOrCategoryEvent(type, d, g, z) = SetDated(d, g, "tags", id, "name", new)
        <3>1. \A d, g, z : ImportTagOrCategoryEvent(type, d, g, z)
                           = changeDiscussionTagName(d, g, z[1], z[2])
            BY <1>5, Zenon DEF ImportTagOrCategoryEvent
        <3> QED BY <3>1, TagFields
    <2>2. r = SetDated(a, c, "tags", id, "name", new)
        BY <2>1
    <2>3. Import(type, b, e, w) = SetDated(b, e, "tags", id, "name", new)
        BY <2>1, <1>3, <1>4
    <2>4. /\ Agree(r, SetDated(b, e, "tags", id, "name", new), keep)
          /\ r.db["tags"][id]["name"] = new
        BY <1>1, <2>2, DatedAgrees
    <2>5. TagPayload(type, id, r.db.tags[id]) = w
        BY <1>2, <1>5, <2>4 DEF TagPayload
    <2> HIDE DEF r
    <2>6. Follows(r.db, b, type, e, TagPayload(type, id, r.db.tags[id]), w, keep)
        <3>1. r.status = "OK"
            BY DEF r
        <3> QED BY <3>1, <2>3, <2>4, <2>5 DEF Agree, Follows
    <2> QED BY <2>6, <1>2 DEF r
<1>6. CASE type = "CHANGE_DISCUSSION_TAG_UI_BLOB"
    <2>1. \A d, g, z : z[1] = id /\ z[2] = new =>
              ImportTagOrCategoryEvent(type, d, g, z) = SetField(d, "tags", id, "uiBlob", new)
        <3>1. \A d, g, z : ImportTagOrCategoryEvent(type, d, g, z)
                           = changeDiscussionTagUiBlob(d, g, z[1], z[2])
            BY <1>6, Zenon DEF ImportTagOrCategoryEvent
        <3> QED BY <3>1, TagFields
    <2>2. r = SetField(a, "tags", id, "uiBlob", new)
        BY <2>1
    <2>3. Import(type, b, e, w) = SetField(b, "tags", id, "uiBlob", new)
        BY <2>1, <1>3, <1>4
    <2>4. /\ Agree(r, SetField(b, "tags", id, "uiBlob", new), keep)
          /\ r.db["tags"][id]["uiBlob"] = new
        BY <1>1, <2>2, FieldAgrees
    <2>5. TagPayload(type, id, r.db.tags[id]) = w
        BY <1>2, <1>6, <2>4 DEF TagPayload
    <2> HIDE DEF r
    <2>6. Follows(r.db, b, type, e, TagPayload(type, id, r.db.tags[id]), w, keep)
        <3>1. r.status = "OK"
            BY DEF r
        <3> QED BY <3>1, <2>3, <2>4, <2>5 DEF Agree, Follows
    <2> QED BY <2>6, <1>2 DEF r
<1> QED BY <1>5, <1>6

LEMMA SetsCategory ==
    ASSUME NEW type \in {"CHANGE_DISCUSSION_CATEGORY_NAME",
                         "CHANGE_DISCUSSION_CATEGORY_DESCRIPTION"}
    PROVE  \E x \in {"name", "description"} :
               /\ \A d, c, v :
                      ImportTagOrCategoryEvent(type, d, c, v) =
                          IF /\ type = "CHANGE_DISCUSSION_CATEGORY_NAME"
                             /\ v[1] \in DOMAIN d.categories /\ Taken(d, "categories", v[2])
                          THEN Result("ALREADY_EXISTS", d)
                          ELSE SetDated(d, c, "categories", v[1], x, v[2])
               /\ \A id, y : CategoryPayload(type, id, y) = <<id, y[x]>>
<1>1. CASE type = "CHANGE_DISCUSSION_CATEGORY_NAME"
    <2>1. \A d, c, v : ImportTagOrCategoryEvent(type, d, c, v)
                       = changeDiscussionCategoryName(d, c, v[1], v[2])
        BY <1>1, Zenon DEF ImportTagOrCategoryEvent
    <2>2. \A id, y : CategoryPayload(type, id, y) = <<id, y["name"]>>
        BY <1>1, Zenon DEF CategoryPayload
    <2>3. \A d, c, v : ImportTagOrCategoryEvent(type, d, c, v) =
              IF /\ type = "CHANGE_DISCUSSION_CATEGORY_NAME"
                 /\ v[1] \in DOMAIN d.categories /\ Taken(d, "categories", v[2])
              THEN Result("ALREADY_EXISTS", d)
              ELSE SetDated(d, c, "categories", v[1], "name", v[2])
        BY <2>1, <1>1, CategoryFields
    <2> QED BY <2>2, <2>3
<1>2. CASE type = "CHANGE_DISCUSSION_CATEGORY_DESCRIPTION"
    <2>1. \A d, c, v : ImportTagOrCategoryEvent(type, d, c, v)
                       = changeDiscussionCategoryDescription(d, c, v[1], v[2])
        BY <1>2, Zenon DEF ImportTagOrCategoryEvent
    <2>2. \A id, y : CategoryPayload(type, id, y) = <<id, y["description"]>>
        BY <1>2, Zenon DEF CategoryPayload
    <2>3. \A d, c, v : ImportTagOrCategoryEvent(type, d, c, v) =
              IF /\ type = "CHANGE_DISCUSSION_CATEGORY_NAME"
                 /\ v[1] \in DOMAIN d.categories /\ Taken(d, "categories", v[2])
              THEN Result("ALREADY_EXISTS", d)
              ELSE SetDated(d, c, "categories", v[1], "description", v[2])
        BY <2>1, <1>2, CategoryFields
    <2> QED BY <2>2, <2>3
<1> QED BY <1>1, <1>2

LEMMA CategoryFollows ==
    ASSUME NEW keep, NEW a, NEW b, Similar(a, b, keep),
           NEW c, NEW e, SameContext(c, e, keep),
           NEW id, NEW new, NEW v, v[1] = id, v[2] = new,
           NEW type \in {"CHANGE_DISCUSSION_CATEGORY_NAME",
                         "CHANGE_DISCUSSION_CATEGORY_DESCRIPTION"},
           ImportTagOrCategoryEvent(type, a, c, v).status = "OK"
    PROVE  Follows(ImportTagOrCategoryEvent(type, a, c, v).db, b, type, e,
                   CategoryPayload(type, id,
                       ImportTagOrCategoryEvent(type, a, c, v).db.categories[id]),
                   <<id, new>>, keep)
<1> DEFINE r == ImportTagOrCategoryEvent(type, a, c, v)
<1>1. PICK x \in {"name", "description"} :
          /\ \A d, g, z :
                 ImportTagOrCategoryEvent(type, d, g, z) =
                     IF /\ type = "CHANGE_DISCUSSION_CATEGORY_NAME"
                        /\ z[1] \in DOMAIN d.categories /\ Taken(d, "categories", z[2])
                     THEN Result("ALREADY_EXISTS", d)
                     ELSE SetDated(d, g, "categories", z[1], x, z[2])
          /\ \A i, y : CategoryPayload(type, i, y) = <<i, y[x]>>
    BY SetsCategory
<1>2. /\ "categories" \in Kind \ {"messages"}
      /\ x \in Fields("categories") \ {"at", "by", "ip", "displayOrder"}
    BY DEF Kind, Fields
<1>3. /\ r = SetDated(a, c, "categories", id, x, new)
      /\ ~(/\ type = "CHANGE_DISCUSSION_CATEGORY_NAME"
           /\ id \in DOMAIN a.categories /\ Taken(a, "categories", new))
    BY <1>1 DEF Result
<1>4. /\ Agree(r, SetDated(b, e, "categories", id, x, new), keep)
      /\ r.db["categories"][id][x] = new
    BY <1>2, <1>3, DatedAgrees
<1>5. PICK w : w = <<id, new>>
    OBVIOUS
<1>6. w[1] = id /\ w[2] = new
    BY <1>5
<1>7. ~(/\ type = "CHANGE_DISCUSSION_CATEGORY_NAME"
        /\ w[1] \in DOMAIN b.categories /\ Taken(b, "categories", w[2]))
    <2>1. DOMAIN a["categories"] = DOMAIN b["categories"]
        BY <1>2 DEF Similar
    <2>2. Taken(a, "categories", new) <=> Taken(b, "categories", new)
        BY <1>2, SameNames
    <2> QED BY <1>3, <1>6, <2>1, <2>2
<1>8. ImportTagOrCategoryEvent(type, b, e, w) = SetDated(b, e, "categories", id, x, new)
    BY <1>1, <1>6, <1>7
<1>9. Import(type, b, e, w) = SetDated(b, e, "categories", id, x, new)
    <2>1. type \in TagOrCategoryEvent
        BY DEF TagOrCategoryEvent
    <2> QED BY <2>1, <1>8, ImportBy
<1>10. CategoryPayload(type, id, r.db.categories[id]) = w
    BY <1>1, <1>4, <1>5
<1> HIDE DEF r
<1>11. Follows(r.db, b, type, e, CategoryPayload(type, id, r.db.categories[id]), w, keep)
    <2>1. r.status = "OK"
        BY DEF r
    <2> QED BY <2>1, <1>4, <1>9, <1>10 DEF Agree, Follows
<1> QED BY <1>5, <1>11 DEF r

\* A display order is stored, and read back, with 16 bits.
LEMMA OrderFollows ==
    ASSUME NEW keep, NEW a, NEW b, Similar(a, b, keep),
           NEW c, NEW e, SameContext(c, e, keep),
           NEW id, NEW m \in Nat, NEW v, v[1] = id, v[2] = m,
           NEW type, type = "CHANGE_DISCUSSION_CATEGORY_DISPLAY_ORDER",
           NEW r, r = ImportTagOrCategoryEvent(type, a, c, v), r.status = "OK",
           NEW w, w = <<id, Signed(m)>>
    PROVE  /\ CategoryPayload(type, id, r.db.categories[id]) = <<id, m>>
           /\ Import(type, b, e, w).status \in {"OK", "NO_EFFECT"}
           /\ Similar(r.db, Import(type, b, e, w).db, keep)
<1>1. \A d, g, z : ImportTagOrCategoryEvent(type, d, g, z)
                   = SetDated(d, g, "categories", z[1], "displayOrder", NotNegative(z[2]))
    <2>1. \A d, g, z : ImportTagOrCategoryEvent(type, d, g, z)
                       = changeDiscussionCategoryDisplayOrder(d, g, z[1], z[2])
        BY Zenon DEF ImportTagOrCategoryEvent
    <2> QED BY <2>1, CategoryFields
<1>2. r = SetDated(a, c, "categories", id, "displayOrder", m)
    <2>1. NotNegative(m) = m
        BY DEF NotNegative
    <2> QED BY <2>1, <1>1
<1>3. PICK s : s = SetDated(b, e, "categories", id, "displayOrder", KeptOrder(m))
    OBVIOUS
<1>4. Import(type, b, e, w) = s
    <2>1. type \in TagOrCategoryEvent
        BY DEF TagOrCategoryEvent
    <2>2. w[1] = id /\ NotNegative(w[2]) = KeptOrder(m)
        BY DEF KeptOrder
    <2> QED BY <2>1, <2>2, <1>1, <1>3, ImportBy
<1>5. Agree(r, s, keep) /\ r.db["categories"][id]["displayOrder"] = m
    BY <1>2, <1>3, OrderAgrees
<1>6. CategoryPayload(type, id, r.db.categories[id]) = <<id, m>>
    <2>1. \A y : CategoryPayload(type, id, y) = <<id, y["displayOrder"]>>
        BY Zenon DEF CategoryPayload
    <2> QED BY <2>1, <1>5
<1> QED BY <1>4, <1>5, <1>6 DEF Agree

LEMMA SameParents ==
    ASSUME NEW keep, NEW a, NEW b, Similar(a, b, keep)
    PROVE  ParentOf(a) = ParentOf(b)
<1>1. /\ "categories" \in Kind
      /\ "parent" \in Fixed("categories")
    BY DEF Kind, Fields, Fixed
<1>2. /\ DOMAIN a["categories"] = DOMAIN b["categories"]
      /\ \A i \in DOMAIN a["categories"] :
             Alike("categories", a["categories"][i], b["categories"][i], keep)
    BY <1>1, Zenon DEF Similar
<1>3. \A i \in DOMAIN a["categories"] : a["categories"][i].parent = b["categories"][i].parent
    BY <1>1, <1>2 DEF Alike
<1> QED BY <1>2, <1>3 DEF ParentOf

LEMMA ParentFollows ==
    ASSUME NEW keep, NEW a, NEW b, Similar(a, b, keep),
           NEW c, NEW e, SameContext(c, e, keep),
           NEW id, NEW new, NEW v, v[1] = id, v[2] = new,
           NEW type, type = "CHANGE_DISCUSSION_CATEGORY_PARENT",
           ImportTagOrCategoryEvent(type, a, c, v).status = "OK"
    PROVE  Follows(ImportTagOrCategoryEvent(type, a, c, v).db, b, type, e,
                   CategoryPayload(type, id,
                       ImportTagOrCategoryEvent(type, a, c, v).db.categories[id]),
                   <<id, IF new \in DOMAIN a.categories THEN new ELSE "">>, keep)
<1> DEFINE r == ImportTagOrCategoryEvent(type, a, c, v)
           n == IF new \in DOMAIN a.categories THEN new ELSE ""
<1>1. /\ "categories" \in Kind
      /\ "parent" \in Fields("categories") \ {"at", "by", "ip", "displayOrder"}
      /\ "parent" \in Fixed("categories")
    BY DEF Kind, Fields, Fixed
<1>2. /\ DOMAIN a["categories"] = DOMAIN b["categories"]
      /\ \A i \in DOMAIN a["categories"] :
             Alike("categories", a["categories"][i], b["categories"][i], keep)
      /\ "" \notin DOMAIN a.categories
    BY <1>1 DEF Similar
<1>3. \A d, g, z : ImportTagOrCategoryEvent(type, d, g, z)
                   = changeDiscussionCategoryParent(d, g, z[1], z[2])
    BY Zenon DEF ImportTagOrCategoryEvent
<1>4. \A d, g, i, m :
          changeDiscussionCategoryParent(d, g, i, m) =
              IF i \notin DOMAIN d.categories THEN Result("NOT_FOUND", d)
              ELSE IF m \in DOMAIN d.categories /\ hasAncestor(ParentOf(d), m, i)
              THEN Result("CIRCULAR_REFERENCE_NOT_ALLOWED", d)
              ELSE IF m # "" /\ d.categories[i].parent = m THEN Result("NO_EFFECT", d)
              ELSE SetDated(d, g, "categories", i, "parent",
                            IF m \in DOMAIN d.categories THEN m ELSE "")
    BY Zenon DEF changeDiscussionCategoryParent, Change, SetDated
<1>5. r = changeDiscussionCategoryParent(a, c, id, new)
    BY <1>3
<1>6. /\ id \in DOMAIN a.categories
      /\ ~(new \in DOMAIN a.categories /\ hasAncestor(ParentOf(a), new, id))
      /\ ~(new # "" /\ a.categories[id].parent = new)
    <2>1. /\ Result("NOT_FOUND", a).status # "OK"
          /\ Result("CIRCULAR_REFERENCE_NOT_ALLOWED", a).status # "OK"
          /\ Result("NO_EFFECT", a).status # "OK"
        BY DEF Result
    <2> QED BY <2>1, <1>4, <1>5
<1>7. r = SetDated(a, c, "categories", id, "parent", n)
    BY <1>4, <1>5, <1>6
<1>8. changeDiscussionCategoryParent(b, e, id, n)
          = SetDated(b, e, "categories", id, "parent", n)
    <2>1. ParentOf(a) = ParentOf(b)
        BY SameParents
    <2>2. a["categories"][id].parent = b["categories"][id].parent
        BY <1>1, <1>2, <1>6 DEF Alike
    <2>3. (IF n \in DOMAIN b.categories THEN n ELSE "") = n
        BY <1>2
    <2>4. ~(n \in DOMAIN b.categories /\ hasAncestor(ParentOf(b), n, id))
        BY <2>1, <1>2, <1>6
    <2>5. ~(n # "" /\ b.categories[id].parent = n)
        BY <2>2, <1>2, <1>6
    <2> HIDE DEF n
    <2> QED BY <2>3, <2>4, <2>5, <1>2, <1>4, <1>6
<1> HIDE DEF n
<1>9. PICK w : w = <<id, n>>
    OBVIOUS
<1>10. Import(type, b, e, w) = SetDated(b, e, "categories", id, "parent", n)
    <2>1. type \in TagOrCategoryEvent
        BY DEF TagOrCategoryEvent
    <2>2. w[1] = id /\ w[2] = n
        BY <1>9
    <2> QED BY <2>1, <2>2, <1>3, <1>8, ImportBy
<1>11. /\ Agree(r, SetDated(b, e, "categories", id, "parent", n), keep)
       /\ r.db["categories"][id]["parent"] = n
    BY <1>1, <1>7, DatedAgrees
<1>12. CategoryPayload(type, id, r.db.categories[id]) = w
    <2>1. \A y : CategoryPayload(type, id, y) = <<id, y["parent"]>>
        BY Zenon DEF CategoryPayload
    <2> QED BY <2>1, <1>9, <1>11
<1> HIDE DEF r
<1>13. Follows(r.db, b, type, e, CategoryPayload(type, id, r.db.categories[id]), w, keep)
    <2>1. r.status = "OK"
        BY DEF r
    <2> QED BY <2>1, <1>10, <1>11, <1>12 DEF Agree, Follows
<1> QED BY <1>9, <1>13 DEF r, n

SetApproval(d, k, id, v) ==
    IF id \in DOMAIN d[k] /\ d[k][id]["approved"] = v THEN Result("NO_EFFECT", d)
    ELSE SetField(d, k, id, "approved", v)

LEMMA ApprovalAgrees ==
    ASSUME NEW keep, NEW a, NEW b, Similar(a, b, keep),
           NEW k \in {"messages", "attachments"}, NEW id, NEW v,
           SetApproval(a, k, id, v).status = "OK"
    PROVE  /\ Agree(SetApproval(a, k, id, v), SetApproval(b, k, id, v), keep)
           /\ SetApproval(a, k, id, v).db[k][id]["approved"] = v
<1>1. /\ k \in Kind
      /\ "approved" \in Fields(k) \ {"at", "ip", "displayOrder"}
      /\ "approved" \in Fixed(k)
    BY DEF Kind, Fields, Fixed
<1>2. /\ DOMAIN a[k] = DOMAIN b[k]
      /\ \A i \in DOMAIN a[k] : Alike(k, a[k][i], b[k][i], keep)
    BY <1>1, Zenon DEF Similar
<1>3. ~(id \in DOMAIN a[k] /\ a[k][id]["approved"] = v)
    BY DEF SetApproval, Result
<1>4. ~(id \in DOMAIN b[k] /\ b[k][id]["approved"] = v)
    BY <1>1, <1>2, <1>3 DEF Alike
<1>5. /\ SetApproval(a, k, id, v) = SetField(a, k, id, "approved", v)
      /\ SetApproval(b, k, id, v) = SetField(b, k, id, "approved", v)
    BY <1>3, <1>4 DEF SetApproval
<1>6. /\ Agree(SetField(a, k, id, "approved", v), SetField(b, k, id, "approved", v), keep)
      /\ SetField(a, k, id, "approved", v).status = "OK" =>
             SetField(a, k, id, "approved", v).db[k][id]["approved"] = v
    BY <1>1, FieldAgrees
<1> QED BY <1>5, <1>6

LEMMA AttachmentFollows ==
    ASSUME NEW keep, NEW a, NEW b, Similar(a, b, keep), NEW c, NEW e,
           NEW id, NEW new, NEW v, v[1] = id, v[2] = new,
           NEW type \in AttachmentEvent \ {"ADD_NEW_ATTACHMENT"},
           ImportAttachmentEvent(type, a, c, v).status = "OK"
    PROVE  Follows(ImportAttachmentEvent(type, a, c, v).db, b, type, e,
                   AttachmentPayload(type, id,
                       ImportAttachmentEvent(type, a, c, v).db.attachments[id]),
                   <<id, Tells(type, new)>>, keep)
<1> DEFINE r == ImportAttachmentEvent(type, a, c, v)
<1>1. /\ "attachments" \in Kind
      /\ "name" \in Fields("attachments") \ {"at", "ip", "displayOrder"}
    BY DEF Kind, Fields
<1>2. PICK w : w = <<id, Tells(type, new)>>
    OBVIOUS
<1>3. w[1] = id /\ w[2] = Tells(type, new)
    BY <1>2
<1>4. Import(type, b, e, w) = ImportAttachmentEvent(type, b, e, w)
    BY ImportBy
<1>5. CASE type = "CHANGE_ATTACHMENT_NAME"
    <2>1. \A d, g, z : ImportAttachmentEvent(type, d, g, z)
                       = SetField(d, "attachments", z[1], "name", z[2])
        <3>1. \A d, g, z : ImportAttachmentEvent(type, d, g, z)
                           = changeAttachmentName(d, g, z[1], z[2])
            BY <1>5, Zenon DEF ImportAttachmentEvent
        <3> QED BY <3>1, ApprovalFields
    <2>2. Tells(type, new) = new
        BY <1>5 DEF Tells, Told, Kept, Approval
    <2>3. /\ r = SetField(a, "attachments", id, "name", new)
          /\ Import(type, b, e, w) = SetField(b, "attachments", id, "name", new)
        BY <2>1, <2>2, <1>3, <1>4
    <2>4. /\ Agree(r, SetField(b, "attachments", id, "name", new), keep)
          /\ r.db["attachments"][id]["name"] = new
        BY <1>1, <2>3, FieldAgrees
    <2>5. \A y : AttachmentPayload(type, id, y) = <<id, y["name"]>>
        BY <1>5, Zenon DEF AttachmentPayload
    <2>6. AttachmentPayload(type, id, r.db.attachments[id]) = w
        BY <1>2, <2>2, <2>4, <2>5
    <2> HIDE DEF r
    <2>7. Follows(r.db, b, type, e, AttachmentPayload(type, id, r.db.attachments[id]),
                  w, keep)
        <3>1. r.status = "OK"
            BY DEF r
        <3> QED BY <3>1, <2>3, <2>4, <2>6 DEF Agree, Follows
    <2> QED BY <2>7, <1>2 DEF r
<1>6. CASE type = "CHANGE_ATTACHMENT_APPROVAL"
    <2>1. \A y : Told(type, y) = Flag(y) /\ Kept(type, y) = (y # 0)
        BY <1>6 DEF Told, Kept, Approval
    <2>2. \A d, g, z : ImportAttachmentEvent(type, d, g, z)
                       = SetApproval(d, "attachments", z[1], Kept(type, z[2]))
        <3> SUFFICES ASSUME NEW d, NEW g, NEW z
                     PROVE  ImportAttachmentEvent(type, d, g, z)
                            = SetApproval(d, "attachments", z[1], Kept(type, z[2]))
            OBVIOUS
        <3>1. Kept(type, z[2]) = (z[2] # 0)
            BY <2>1
        <3>2. ImportAttachmentEvent(type, d, g, z)
                  = changeAttachmentApproval(d, g, z[1], z[2] # 0)
            BY <1>6, Zenon DEF ImportAttachmentEvent
        <3>3. ImportAttachmentEvent(type, d, g, z)
                  = changeAttachmentApproval(d, g, z[1], Kept(type, z[2]))
            BY <3>1, <3>2, Zenon
        <3> QED BY <3>3, ApprovalFields DEF SetApproval
    <2>3. Kept(type, w[2]) = Kept(type, new)
        <3>1. Counted(type, new)
            BY <1>6 DEF Counted
        <3> QED BY <3>1, <1>3, KeptAgain
    <2>4. /\ r = SetApproval(a, "attachments", id, Kept(type, new))
          /\ Import(type, b, e, w) = SetApproval(b, "attachments", id, Kept(type, new))
        BY <2>2, <2>3, <1>3, <1>4
    <2>5. /\ Agree(r, SetApproval(b, "attachments", id, Kept(type, new)), keep)
          /\ r.db["attachments"][id]["approved"] = Kept(type, new)
        BY <2>4, ApprovalAgrees
    <2>6. \A y : AttachmentPayload(type, id, y) = <<id, Flag(y["approved"])>>
        BY <1>6, Zenon DEF AttachmentPayload
    <2>7. AttachmentPayload(type, id, r.db.attachments[id]) = w
        <3> HIDE DEF r
        <3>1. w = <<id, Flag(Kept(type, new))>>
            BY <1>2, <2>1 DEF Tells
        <3>2. AttachmentPayload(type, id, r.db["attachments"][id])
                  = <<id, Flag(r.db["attachments"][id]["approved"])>>
            BY <2>6
        <3> QED BY <3>1, <3>2, <2>5, Zenon
    <2> HIDE DEF r
    <2>8. Follows(r.db, b, type, e, AttachmentPayload(type, id, r.db.attachments[id]),
                  w, keep)
        <3>1. r.status = "OK"
            BY DEF r
        <3> QED BY <3>1, <2>4, <2>5, <2>7 DEF Agree, Follows
    <2> QED BY <2>8, <1>2 DEF r
<1> QED BY <1>5, <1>6 DEF AttachmentEvent

LEMMA MessageApprovalFollows ==
    ASSUME NEW keep, NEW a, NEW b, Similar(a, b, keep), NEW c, NEW e,
           NEW id, NEW new, NEW v, v[1] = id, v[2] = new,
           NEW type, type = "CHANGE_DISCUSSION_THREAD_MESSAGE_APPROVAL",
           ImportMessageEvent(type, a, c, v).status = "OK"
    PROVE  Follows(ImportMessageEvent(type, a, c, v).db, b, type, e,
                   MessagePayload(type, id,
                       ImportMessageEvent(type, a, c, v).db.messages[id]),
                   <<id, Tells(type, new)>>, keep)
<1> DEFINE r == ImportMessageEvent(type, a, c, v)
<1>1. PICK w : w = <<id, Tells(type, new)>>
    OBVIOUS
<1>2. w[1] = id /\ w[2] = Tells(type, new)
    BY <1>1
<1>3. \A y : Told(type, y) = Flag(y) /\ Kept(type, y) = (y # 0)
    BY DEF Told, Kept, Approval
<1>4. \A d, g, z : ImportMessageEvent(type, d, g, z)
                   = SetApproval(d, "messages", z[1], Kept(type, z[2]))
    <2> SUFFICES ASSUME NEW d, NEW g, NEW z
                 PROVE  ImportMessageEvent(type, d, g, z)
                        = SetApproval(d, "messages", z[1], Kept(type, z[2]))
        OBVIOUS
    <2>1. Kept(type, z[2]) = (z[2] # 0)
        BY <1>3
    <2>2. ImportMessageEvent(type, d, g, z)
              = changeDiscussionThreadMessageApproval(d, g, z[1], z[2] # 0)
        BY Zenon DEF ImportMessageEvent
    <2>3. ImportMessageEvent(type, d, g, z)
              = changeDiscussionThreadMessageApproval(d, g, z[1], Kept(type, z[2]))
        BY <2>1, <2>2, Zenon
    <2> QED BY <2>3, ApprovalFields DEF SetApproval
<1>5. Kept(type, w[2]) = Kept(type, new)
    <2>1. Counted(type, new)
        BY DEF Counted
    <2> QED BY <2>1, <1>2, KeptAgain
<1>6. Import(type, b, e, w) = ImportMessageEvent(type, b, e, w)
    <2>1. type \in MessageEvent
        BY DEF MessageEvent
    <2> QED BY <2>1, ImportBy
<1>7. /\ r = SetApproval(a, "messages", id, Kept(type, new))
      /\ Import(type, b, e, w) = SetApproval(b, "messages", id, Kept(type, new))
    BY <1>2, <1>4, <1>5, <1>6
<1>8. /\ Agree(r, SetApproval(b, "messages", id, Kept(type, new)), keep)
      /\ r.db["messages"][id]["approved"] = Kept(type, new)
    BY <1>7, ApprovalAgrees
<1>9. \A y : MessagePayload(type, id, y) = <<id, Flag(y["approved"])>>
    BY Zenon DEF MessagePayload
<1> HIDE DEF r
<1>10. MessagePayload(type, id, r.db.messages[id]) = w
    <2>1. w = <<id, Flag(Kept(type, new))>>
        BY <1>1, <1>3 DEF Tells
    <2>2. MessagePayload(type, id, r.db["messages"][id])
              = <<id, Flag(r.db["messages"][id]["approved"])>>
        BY <1>9
    <2> QED BY <2>1, <2>2, <1>8, Zenon
<1>11. Follows(r.db, b, type, e, MessagePayload(type, id, r.db.messages[id]), w, keep)
    <2>1. r.status = "OK"
        BY DEF r
    <2> QED BY <2>1, <1>7, <1>8, <1>10 DEF Agree, Follows
<1> QED BY <1>11, <1>1 DEF r

\* The lists of those who follow a thread.
LEMMA FollowersAlike ==
    ASSUME NEW keep, NEW f, NEW g, Alike("threads", f, g, keep),
           NEW S, NEW T, S \ {""} = T \ {""}
    PROVE  Alike("threads", [f EXCEPT !.subscribedUsers = S],
                 [g EXCEPT !.subscribedUsers = T], keep)
<1> DEFINE x == [f EXCEPT !.subscribedUsers = S]
           y == [g EXCEPT !.subscribedUsers = T]
<1>1. {"at", "by", "ip", "subscribedUsers"} \subseteq Fields("threads")
    BY DEF Fields
<1>2. DOMAIN f = Fields("threads") /\ DOMAIN g = Fields("threads")
    BY DEF Alike
<1>3. /\ DOMAIN x = Fields("threads") /\ DOMAIN y = Fields("threads")
      /\ \A i \in Fields("threads") \ {"subscribedUsers"} : x[i] = f[i] /\ y[i] = g[i]
      /\ x.subscribedUsers = S /\ y.subscribedUsers = T
    BY <1>1, <1>2
<1>4. x.at = f.at /\ y.at = g.at /\ x.ip = f.ip /\ y.ip = g.ip
    BY <1>1, <1>3
<1> HIDE DEF x, y
<1>5. Alike("threads", x, y, keep)
    BY <1>3, <1>4 DEF Alike, Fixed
<1> QED BY <1>5 DEF x, y

LEMMA RelationAlike ==
    ASSUME NEW keep, NEW a, NEW b, Similar(a, b, keep), NEW T
    PROVE  Similar([a EXCEPT !.subscribedThreads = T], [b EXCEPT !.subscribedThreads = T],
                   keep)
<1> DEFINE x == [a EXCEPT !.subscribedThreads = T]
           y == [b EXCEPT !.subscribedThreads = T]
<1>1. "subscribedThreads" \notin Kind /\ {"users", "categories"} \subseteq Kind
    BY DEF Kind
<1>2. DOMAIN a = Kind \cup {"subscribedThreads"} /\ DOMAIN b = DOMAIN a
    BY DEF Similar
<1>3. /\ DOMAIN x = DOMAIN a /\ DOMAIN y = DOMAIN b
      /\ \A k \in Kind : x[k] = a[k] /\ y[k] = b[k]
      /\ x.subscribedThreads = T /\ y.subscribedThreads = T
    BY <1>1, <1>2
<1>4. x.users = a.users /\ x.categories = a.categories
    BY <1>1, <1>3
<1> HIDE DEF x, y
<1>5. Similar(x, y, keep)
    BY <1>2, <1>3, <1>4 DEF Similar
<1> QED BY <1>5 DEF x, y

SetFollowers(d, id, S, T) ==
    [d EXCEPT !.threads[id].subscribedUsers = S, !.subscribedThreads = T]

LEMMA SetFollowersAlike ==
    ASSUME NEW keep, NEW a, NEW b, Similar(a, b, keep), NEW id \in DOMAIN a["threads"],
           NEW S, NEW U, S \ {""} = U \ {""}, NEW T
    PROVE  Similar(SetFollowers(a, id, S, T), SetFollowers(b, id, U, T), keep)
<1> DEFINE f == [a["threads"][id] EXCEPT !.subscribedUsers = S]
           g == [b["threads"][id] EXCEPT !.subscribedUsers = U]
<1>1. "threads" \in Kind
    BY DEF Kind
<1>2. /\ Alike("threads", a["threads"][id], b["threads"][id], keep)
      /\ "threads" \in DOMAIN a /\ "threads" \in DOMAIN b
      /\ "subscribedThreads" \in DOMAIN a /\ "subscribedThreads" \in DOMAIN b
      /\ DOMAIN b["threads"] = DOMAIN a["threads"]
    BY <1>1 DEF Similar
<1>3. Alike("threads", f, g, keep)
    BY <1>2, FollowersAlike
<1> HIDE DEF f, g
<1>4. PICK x : x = [a EXCEPT !["threads"][id] = f]
    OBVIOUS
<1>5. PICK y : y = [b EXCEPT !["threads"][id] = g]
    OBVIOUS
<1>6. Similar(x, y, keep)
    BY <1>1, <1>3, <1>4, <1>5, ChangeAlike
<1>7. Similar([x EXCEPT !.subscribedThreads = T], [y EXCEPT !.subscribedThreads = T], keep)
    BY <1>6, RelationAlike
<1>8. /\ SetFollowers(a, id, S, T) = [x EXCEPT !.subscribedThreads = T]
      /\ SetFollowers(b, id, U, T) = [y EXCEPT !.subscribedThreads = T]
    BY <1>2, <1>4, <1>5 DEF SetFollowers, f, g
<1> QED BY <1>7, <1>8

\* The same followers, but for the anonymous user.
SameFollowers(a, b, id) ==
    /\ id \in DOMAIN b["threads"]
    /\ a["threads"][id].subscribedUsers \ {""} = b["threads"][id].subscribedUsers \ {""}
    /\ a.subscribedThreads = b.subscribedThreads

LEMMA FollowersSame ==
    ASSUME NEW keep, NEW a, NEW b, Similar(a, b, keep), NEW id \in DOMAIN a["threads"]
    PROVE  SameFollowers(a, b, id)
<1>1. "threads" \in Kind
    BY DEF Kind
<1>2. DOMAIN a["threads"] = DOMAIN b["threads"]
    BY <1>1 DEF Similar
<1>3. Alike("threads", a["threads"][id], b["threads"][id], keep)
    BY <1>1 DEF Similar
<1> QED BY <1>2, <1>3 DEF Similar, Alike, SameFollowers

Subscribing(d, u, id) ==
    IF id \notin DOMAIN d["threads"] THEN Result("NOT_FOUND", d)
    ELSE IF u \in d["threads"][id].subscribedUsers THEN Result("NO_EFFECT", d)
    ELSE Ok(SetFollowers(d, id, d["threads"][id].subscribedUsers \cup {u},
                         d.subscribedThreads \cup {<<u, id>>}))

LEMMA Subscribes ==
    ASSUME NEW d, NEW c, NEW id
    PROVE  subscribeToDiscussionThread(d, c, id) = Subscribing(d, getCurrentUser(d, c), id)
<1> DEFINE u == getCurrentUser(d, c)
<1>1. CASE id \notin DOMAIN d["threads"]
    BY <1>1 DEF subscribeToDiscussionThread, Subscribing
<1>2. CASE id \in DOMAIN d["threads"] /\ u \in d["threads"][id].subscribedUsers
    BY <1>2 DEF subscribeToDiscussionThread, Subscribing
<1>3. CASE id \in DOMAIN d["threads"] /\ ~(u \in d["threads"][id].subscribedUsers)
    <2>1. subscribeToDiscussionThread(d, c, id) =
              Ok([d EXCEPT !.threads[id].subscribedUsers = @ \cup {u},
                           !.subscribedThreads = @ \cup {<<u, id>>}])
        BY <1>3 DEF subscribeToDiscussionThread
    <2> QED BY <2>1, <1>3 DEF SetFollowers, Subscribing
<1> QED BY <1>1, <1>2, <1>3

Unsubscribing(d, u, id) ==
    IF id \notin DOMAIN d["threads"] THEN Result("NOT_FOUND", d)
    ELSE IF u \notin d["threads"][id].subscribedUsers THEN Result("NO_EFFECT", d)
    ELSE Ok(SetFollowers(d, id, d["threads"][id].subscribedUsers \ {u},
                         d.subscribedThreads \ {<<u, id>>}))

LEMMA Unsubscribes ==
    ASSUME NEW d, NEW c, NEW id
    PROVE  unsubscribeFromDiscussionThread(d, c, id) = Unsubscribing(d, getCurrentUser(d, c), id)
<1> DEFINE u == getCurrentUser(d, c)
<1>1. CASE id \notin DOMAIN d["threads"]
    BY <1>1 DEF unsubscribeFromDiscussionThread, Unsubscribing
<1>2. CASE id \in DOMAIN d["threads"] /\ u \notin d["threads"][id].subscribedUsers
    BY <1>2 DEF unsubscribeFromDiscussionThread, Unsubscribing
<1>3. CASE id \in DOMAIN d["threads"] /\ ~(u \notin d["threads"][id].subscribedUsers)
    <2>1. unsubscribeFromDiscussionThread(d, c, id) =
              Ok([d EXCEPT !.threads[id].subscribedUsers = @ \ {u},
                           !.subscribedThreads = @ \ {<<u, id>>}])
        BY <1>3 DEF unsubscribeFromDiscussionThread
    <2> QED BY <2>1, <1>3 DEF SetFollowers, Unsubscribing
<1> QED BY <1>1, <1>2, <1>3

LEMMA SubscriptionFollows ==
    ASSUME NEW keep, NEW a, NEW b, Similar(a, b, keep),
           NEW c, NEW e, SameContext(c, e, keep), Named(getCurrentUser(a, c)),
           NEW id, NEW v, v[1] = id,
           NEW type \in {"SUBSCRIBE_TO_DISCUSSION_THREAD",
                         "UNSUBSCRIBE_FROM_DISCUSSION_THREAD"},
           ImportThreadEvent(type, a, c, v).status = "OK"
    PROVE  Follows(ImportThreadEvent(type, a, c, v).db, b, type, e,
                   ThreadPayload(type, id, ImportThreadEvent(type, a, c, v).db.threads[id]),
                   <<id>>, keep)
<1> DEFINE r == ImportThreadEvent(type, a, c, v)
<1>1. PICK u : u = getCurrentUser(a, c) /\ u = getCurrentUser(b, e)
    BY SameUser
<1>2. PICK w : w = <<id>>
    OBVIOUS
<1>3. Import(type, b, e, w) = ImportThreadEvent(type, b, e, w)
    <2>1. type \in ThreadEvent
        BY DEF ThreadEvent
    <2> QED BY <2>1, ImportBy
<1>4. \A t : ThreadPayload(type, id, t) = w
    <2>1. CASE type = "SUBSCRIBE_TO_DISCUSSION_THREAD"
        BY <2>1, <1>2, Zenon DEF ThreadPayload
    <2>2. CASE type = "UNSUBSCRIBE_FROM_DISCUSSION_THREAD"
        BY <2>2, <1>2, Zenon DEF ThreadPayload
    <2> QED BY <2>1, <2>2
<1>5. w[1] = id
    BY <1>2
<1>6. /\ Result("NOT_FOUND", a).status # "OK" /\ Result("NO_EFFECT", a).status # "OK"
      /\ \A d : Ok(d).status = "OK" /\ Ok(d).db = d
    BY DEF Result, Ok
<1>7. CASE type = "SUBSCRIBE_TO_DISCUSSION_THREAD"
    <2>1. \A d, g, z : ImportThreadEvent(type, d, g, z)
                       = subscribeToDiscussionThread(d, g, z[1])
        BY <1>7, Zenon DEF ImportThreadEvent
    <2>2. /\ subscribeToDiscussionThread(a, c, id) = Subscribing(a, u, id)
          /\ subscribeToDiscussionThread(b, e, id) = Subscribing(b, u, id)
        BY <1>1, Subscribes
    <2>3. r = subscribeToDiscussionThread(a, c, id)
        BY <2>1
    <2>4. id \in DOMAIN a["threads"] /\ u \notin a["threads"][id].subscribedUsers
        BY <2>2, <2>3, <1>6 DEF Subscribing
    <2>5. r.db = SetFollowers(a, id, a["threads"][id].subscribedUsers \cup {u},
                              a.subscribedThreads \cup {<<u, id>>})
        BY <2>2, <2>3, <2>4, <1>6 DEF Subscribing
    <2>6. /\ id \in DOMAIN b["threads"] /\ u \notin b["threads"][id].subscribedUsers
          /\ a["threads"][id].subscribedUsers \ {""}
                 = b["threads"][id].subscribedUsers \ {""}
          /\ a.subscribedThreads = b.subscribedThreads
        <3>1. u # ""
            BY <1>1 DEF Named
        <3>2. SameFollowers(a, b, id)
            BY <2>4, FollowersSame
        <3> QED BY <3>1, <3>2, <2>4 DEF SameFollowers
    <2>7. /\ Import(type, b, e, w).status = "OK"
          /\ Import(type, b, e, w).db =
                 SetFollowers(b, id, b["threads"][id].subscribedUsers \cup {u},
                              a.subscribedThreads \cup {<<u, id>>})
        <3>1. Import(type, b, e, w) = subscribeToDiscussionThread(b, e, id)
            BY <2>1, <1>3, <1>5
        <3>2. Import(type, b, e, w) = Subscribing(b, u, id)
            BY <3>1, <2>2
        <3>3. Subscribing(b, u, id) =
                  Ok(SetFollowers(b, id, b["threads"][id].subscribedUsers \cup {u},
                                  b.subscribedThreads \cup {<<u, id>>}))
            BY <2>6, Zenon DEF Subscribing
        <3>4. Import(type, b, e, w) =
                  Ok(SetFollowers(b, id, b["threads"][id].subscribedUsers \cup {u},
                                  a.subscribedThreads \cup {<<u, id>>}))
            BY <3>2, <3>3, <2>6, Zenon
        <3> QED BY <3>4, <1>6, Zenon
    <2>8. (a["threads"][id].subscribedUsers \cup {u}) \ {""}
              = (b["threads"][id].subscribedUsers \cup {u}) \ {""}
        BY <2>6
    <2>9. Similar(r.db, Import(type, b, e, w).db, keep)
        <3>1. PICK S : S = a["threads"][id].subscribedUsers \cup {u}
            OBVIOUS
        <3>2. PICK U : U = b["threads"][id].subscribedUsers \cup {u}
            OBVIOUS
        <3>3. PICK T : T = a.subscribedThreads \cup {<<u, id>>}
            OBVIOUS
        <3>4. S \ {""} = U \ {""}
            BY <3>1, <3>2, <2>8
        <3>5. Similar(SetFollowers(a, id, S, T), SetFollowers(b, id, U, T), keep)
            BY <3>4, <2>4, SetFollowersAlike
        <3> QED BY <3>1, <3>2, <3>3, <3>5, <2>5, <2>7, Zenon
    <2> HIDE DEF r
    <2>10. Follows(r.db, b, type, e, ThreadPayload(type, id, r.db.threads[id]), w, keep)
        BY <2>7, <2>9, <1>4 DEF Follows
    <2> QED BY <2>10, <1>2 DEF r
<1>8. CASE type = "UNSUBSCRIBE_FROM_DISCUSSION_THREAD"
    <2>1. \A d, g, z : ImportThreadEvent(type, d, g, z)
                       = unsubscribeFromDiscussionThread(d, g, z[1])
        BY <1>8, Zenon DEF ImportThreadEvent
    <2>2. /\ unsubscribeFromDiscussionThread(a, c, id) = Unsubscribing(a, u, id)
          /\ unsubscribeFromDiscussionThread(b, e, id) = Unsubscribing(b, u, id)
        BY <1>1, Unsubscribes
    <2>3. r = unsubscribeFromDiscussionThread(a, c, id)
        BY <2>1
    <2>4. id \in DOMAIN a["threads"] /\ u \in a["threads"][id].subscribedUsers
        BY <2>2, <2>3, <1>6 DEF Unsubscribing
    <2>5. r.db = SetFollowers(a, id, a["threads"][id].subscribedUsers \ {u},
                              a.subscribedThreads \ {<<u, id>>})
        BY <2>2, <2>3, <2>4, <1>6 DEF Unsubscribing
    <2>6. /\ id \in DOMAIN b["threads"] /\ u \in b["threads"][id].subscribedUsers
          /\ a["threads"][id].subscribedUsers \ {""}
                 = b["threads"][id].subscribedUsers \ {""}
          /\ a.subscribedThreads = b.subscribedThreads
        <3>1. u # ""
            BY <1>1 DEF Named
        <3>2. SameFollowers(a, b, id)
            BY <2>4, FollowersSame
        <3> QED BY <3>1, <3>2, <2>4 DEF SameFollowers
    <2>7. /\ Import(type, b, e, w).status = "OK"
          /\ Import(type, b, e, w).db =
                 SetFollowers(b, id, b["threads"][id].subscribedUsers \ {u},
                              a.subscribedThreads \ {<<u, id>>})
        <3>1. Import(type, b, e, w) = unsubscribeFromDiscussionThread(b, e, id)
            BY <2>1, <1>3, <1>5
        <3>2. Import(type, b, e, w) = Unsubscribing(b, u, id)
            BY <3>1, <2>2
        <3>3. Unsubscribing(b, u, id) =
                  Ok(SetFollowers(b, id, b["threads"][id].subscribedUsers \ {u},
                                  b.subscribedThreads \ {<<u, id>>}))
            BY <2>6, Zenon DEF Unsubscribing
        <3>4. Import(type, b, e, w) =
                  Ok(SetFollowers(b, id, b["threads"][id].subscribedUsers \ {u},
                                  a.subscribedThreads \ {<<u, id>>}))
            BY <3>2, <3>3, <2>6, Zenon
        <3> QED BY <3>4, <1>6, Zenon
    <2>8. (a["threads"][id].subscribedUsers \ {u}) \ {""}
              = (b["threads"][id].subscribedUsers \ {u}) \ {""}
        BY <2>6
    <2>9. Similar(r.db, Import(type, b, e, w).db, keep)
        <3>1. PICK S : S = a["threads"][id].subscribedUsers \ {u}
            OBVIOUS
        <3>2. PICK U : U = b["threads"][id].subscribedUsers \ {u}
            OBVIOUS
        <3>3. PICK T : T = a.subscribedThreads \ {<<u, id>>}
            OBVIOUS
        <3>4. S \ {""} = U \ {""}
            BY <3>1, <3>2, <2>8
        <3>5. Similar(SetFollowers(a, id, S, T), SetFollowers(b, id, U, T), keep)
            BY <3>4, <2>4, SetFollowersAlike
        <3> QED BY <3>1, <3>2, <3>3, <3>5, <2>5, <2>7, Zenon
    <2> HIDE DEF r
    <2>10. Follows(r.db, b, type, e, ThreadPayload(type, id, r.db.threads[id]), w, keep)
        BY <2>7, <2>9, <1>4 DEF Follows
    <2> QED BY <2>10, <1>2 DEF r
<1> QED BY <1>7, <1>8

\* The same collection, as far as one can see.
Same(x, a) ==
    /\ DOMAIN x = DOMAIN a
    /\ x.subscribedThreads = a.subscribedThreads
    /\ \A k \in Kind : /\ DOMAIN x[k] = DOMAIN a[k]
                       /\ \A id \in DOMAIN a[k] : x[k][id] = a[k][id]

LEMMA SameSimilar ==
    ASSUME NEW keep, NEW a, NEW b, NEW x, NEW y, Similar(a, b, keep),
           Same(x, a), Same(y, b)
    PROVE  Similar(x, y, keep)
<1>1. /\ DOMAIN x = DOMAIN a /\ DOMAIN y = DOMAIN b
      /\ x.subscribedThreads = a.subscribedThreads
      /\ y.subscribedThreads = b.subscribedThreads
      /\ \A k \in Kind : DOMAIN x[k] = DOMAIN a[k] /\ DOMAIN y[k] = DOMAIN b[k]
      /\ \A k \in Kind : \A id \in DOMAIN a[k] : x[k][id] = a[k][id]
      /\ \A k \in Kind : \A id \in DOMAIN b[k] : y[k][id] = b[k][id]
    BY Zenon DEF Same
<1>2. /\ DOMAIN a = Kind \cup {"subscribedThreads"} /\ DOMAIN b = DOMAIN a
      /\ a.subscribedThreads = b.subscribedThreads
      /\ \A k \in Kind : /\ DOMAIN a[k] = DOMAIN b[k]
                         /\ \A id \in DOMAIN a[k] : Alike(k, a[k][id], b[k][id], keep)
      /\ "" \notin DOMAIN a.users \cup DOMAIN a.categories
      /\ IsFiniteSet(DOMAIN a.users)
    BY Zenon DEF Similar
<1>3. DOMAIN x.users = DOMAIN a.users /\ DOMAIN x.categories = DOMAIN a.categories
    BY <1>1 DEF Kind
<1>4. ASSUME NEW k \in Kind
      PROVE  /\ DOMAIN x[k] = DOMAIN y[k]
             /\ \A id \in DOMAIN x[k] : Alike(k, x[k][id], y[k][id], keep)
    <2>1. DOMAIN x[k] = DOMAIN a[k] /\ DOMAIN y[k] = DOMAIN a[k] /\ DOMAIN b[k] = DOMAIN a[k]
        BY <1>1, <1>2
    <2>2. ASSUME NEW id \in DOMAIN a[k] PROVE Alike(k, x[k][id], y[k][id], keep)
        <3>1. x[k][id] = a[k][id] /\ y[k][id] = b[k][id]
            BY <1>1, <2>1
        <3>2. Alike(k, a[k][id], b[k][id], keep)
            BY <1>2
        <3> QED BY <3>1, <3>2
    <2> QED BY <2>1, <2>2
<1> QED BY <1>1, <1>2, <1>3, <1>4, Zenon DEF Similar

LEMMA FollowersKept ==
    ASSUME NEW keep, NEW a, NEW b, Similar(a, b, keep), NEW id \in DOMAIN a["threads"],
           NEW U, U \ {""} = a["threads"][id].subscribedUsers \ {""}
    PROVE  Similar(a, SetFollowers(b, id, U, a.subscribedThreads), keep)
<1>1. "threads" \in Kind /\ "subscribedThreads" \notin Kind
    BY DEF Kind
<1>2. /\ Alike("threads", a["threads"][id], b["threads"][id], keep)
      /\ DOMAIN a["threads"] = DOMAIN b["threads"]
      /\ DOMAIN a = Kind \cup {"subscribedThreads"} /\ DOMAIN b = DOMAIN a
      /\ a.subscribedThreads = b.subscribedThreads
    BY <1>1 DEF Similar
<1>3. PICK g : g = [b["threads"][id] EXCEPT !.subscribedUsers = U]
    OBVIOUS
<1>4. Alike("threads", a["threads"][id], g, keep)
    <2>1. {"at", "by", "ip", "subscribedUsers"} \subseteq Fields("threads")
        BY DEF Fields
    <2>2. /\ DOMAIN g = Fields("threads") /\ g.subscribedUsers = U
          /\ \A z \in Fields("threads") \ {"subscribedUsers"} : g[z] = b["threads"][id][z]
        BY <1>2, <1>3, <2>1 DEF Alike
    <2>3. g.at = b["threads"][id].at /\ g.ip = b["threads"][id].ip
        BY <2>1, <2>2
    <2> QED BY <1>2, <2>2, <2>3 DEF Alike, Fixed
<1>5. PICK x : x = [a EXCEPT !["threads"][id] = a["threads"][id]]
    OBVIOUS
<1>6. PICK y : y = [b EXCEPT !["threads"][id] = g]
    OBVIOUS
<1>7. Similar(x, y, keep)
    BY <1>1, <1>4, <1>5, <1>6, ChangeAlike
<1>8. Same(a, x)
    BY <1>1, <1>2, <1>5 DEF Same
<1>9. Same(SetFollowers(b, id, U, a.subscribedThreads), y)
    <2>1. SetFollowers(b, id, U, a.subscribedThreads) =
              [b EXCEPT !["threads"] = [b["threads"] EXCEPT ![id] = g],
                        !["subscribedThreads"] = a.subscribedThreads]
        BY <1>1, <1>2, <1>3 DEF SetFollowers
    <2>2. y = [b EXCEPT !["threads"] = [b["threads"] EXCEPT ![id] = g]]
        BY <1>6
    <2>3. "threads" # "subscribedThreads" /\ "threads" \in DOMAIN b
        BY <1>1, <1>2
    <2> QED BY <2>1, <2>2, <2>3, <1>1, <1>2 DEF Same
<1> QED BY <1>7, <1>8, <1>9, SameSimilar

\* The subscription that is recorded with a message finds the author subscribed.
LEMMA SubscribeKeeps ==
    ASSUME NEW keep, NEW a, NEW b, Similar(a, b, keep), NEW e, NEW u,
           u = getCurrentUser(b, e),
           NEW id \in DOMAIN a["threads"], <<u, id>> \in a.subscribedThreads,
           Named(u) => u \in a["threads"][id].subscribedUsers
    PROVE  Follows(a, b, "SUBSCRIBE_TO_DISCUSSION_THREAD", e, <<id>>, <<id>>, keep)
<1>1. PICK w : w = <<id>>
    OBVIOUS
<1>2. PICK type : type = "SUBSCRIBE_TO_DISCUSSION_THREAD"
    OBVIOUS
<1>3. Import(type, b, e, w) = Subscribing(b, u, id)
    <2>1. type \in ThreadEvent
        BY <1>2 DEF ThreadEvent
    <2>2. \A d, g, z : ImportThreadEvent(type, d, g, z)
                       = subscribeToDiscussionThread(d, g, z[1])
        BY <1>2, Zenon DEF ImportThreadEvent
    <2>3. w[1] = id
        BY <1>1
    <2> QED BY <2>1, <2>2, <2>3, ImportBy, Subscribes
<1>4. SameFollowers(a, b, id)
    BY FollowersSame
<1>5. CASE u \in b["threads"][id].subscribedUsers
    <2>1. Subscribing(b, u, id) = Result("NO_EFFECT", b)
        BY <1>4, <1>5 DEF Subscribing, SameFollowers
    <2> QED BY <2>1, <1>1, <1>2, <1>3 DEF Follows, Result
<1>6. CASE u \notin b["threads"][id].subscribedUsers
    <2>1. PICK U : U = b["threads"][id].subscribedUsers \cup {u}
        OBVIOUS
    <2>2. u = ""
        BY <1>4, <1>6 DEF Named, SameFollowers
    <2>3. U \ {""} = a["threads"][id].subscribedUsers \ {""}
        BY <2>1, <2>2, <1>4 DEF SameFollowers
    <2>4. b.subscribedThreads \cup {<<u, id>>} = a.subscribedThreads
        BY <1>4 DEF SameFollowers
    <2>5. Subscribing(b, u, id) = Ok(SetFollowers(b, id, U, a.subscribedThreads))
        <3>1. Subscribing(b, u, id) =
                  Ok(SetFollowers(b, id, b["threads"][id].subscribedUsers \cup {u},
                                  b.subscribedThreads \cup {<<u, id>>}))
            BY <1>4, <1>6, Zenon DEF Subscribing, SameFollowers
        <3> QED BY <3>1, <2>1, <2>4, Zenon
    <2>6. Similar(a, SetFollowers(b, id, U, a.subscribedThreads), keep)
        BY <2>3, FollowersKept
    <2> QED BY <2>5, <2>6, <1>1, <1>2, <1>3 DEF Follows, Ok, Result
<1> QED BY <1>5, <1>6

\* The thread has a message that was written or changed.
Visible(d, id, time) == [d EXCEPT !.threads[id].at.visible = time]

LEMMA VisibleAlike ==
    ASSUME NEW keep, NEW a, NEW b, Similar(a, b, keep),
           NEW c, NEW e, SameContext(c, e, keep), NEW id
    PROVE  Similar(Visible(a, id, c.time), Visible(b, id, e.time), keep)
<1> DEFINE f == [a["threads"][id] EXCEPT !.at = [a["threads"][id].at EXCEPT !.visible = c.time]]
           g == [b["threads"][id] EXCEPT !.at = [b["threads"][id].at EXCEPT !.visible = e.time]]
<1>1. PICK x : x = [a EXCEPT !["threads"] = [a["threads"] EXCEPT ![id] = f]]
    OBVIOUS
<1>2. PICK y : y = [b EXCEPT !["threads"] = [b["threads"] EXCEPT ![id] = g]]
    OBVIOUS
<1>3. x = Visible(a, id, c.time) /\ y = Visible(b, id, e.time)
    BY <1>1, <1>2, Zenon DEF Visible
<1>4. /\ "threads" \in Kind /\ "threads" \in DOMAIN a /\ "threads" \in DOMAIN b
      /\ DOMAIN a["threads"] = DOMAIN b["threads"]
      /\ "subscribedThreads" \notin Kind
    BY DEF Similar, Kind
<1>5. CASE id \in DOMAIN a["threads"]
    <2>1. Alike("threads", a["threads"][id], b["threads"][id], keep)
        BY <1>4, <1>5, Zenon DEF Similar
    <2>2. Alike("threads", f, g, keep)
        <3>1. {"at", "by", "ip", "subscribedUsers"} \subseteq Fields("threads")
            BY DEF Fields
        <3>2. /\ DOMAIN f = Fields("threads") /\ DOMAIN g = Fields("threads")
              /\ \A z \in Fields("threads") \ {"at"} : /\ f[z] = a["threads"][id][z]
                                                       /\ g[z] = b["threads"][id][z]
              /\ f.at = [a["threads"][id].at EXCEPT !.visible = c.time]
              /\ g.at = [b["threads"][id].at EXCEPT !.visible = e.time]
            BY <2>1, <3>1 DEF Alike
        <3>3. /\ f.ip = a["threads"][id].ip /\ g.ip = b["threads"][id].ip
              /\ f.subscribedUsers = a["threads"][id].subscribedUsers
              /\ g.subscribedUsers = b["threads"][id].subscribedUsers
            BY <3>1, <3>2
        <3> HIDE DEF f, g
        <3>4. /\ DOMAIN f.at = Moment /\ DOMAIN g.at = Moment
              /\ \A s \in Moment : f.at[s] \in Nat /\ g.at[s] \in {f.at[s], f.at[s] + 1}
            BY <2>1, <3>2 DEF Alike, Moment, SameContext
        <3> QED BY <2>1, <3>2, <3>3, <3>4 DEF Alike, Fixed
    <2> HIDE DEF f, g
    <2>3. /\ x = [a EXCEPT !["threads"][id] = f]
          /\ y = [b EXCEPT !["threads"][id] = g]
        BY <1>1, <1>2
    <2> QED BY <2>2, <2>3, <1>3, <1>4, <1>5, ChangeAlike
<1>6. CASE id \notin DOMAIN a["threads"]
    <2> HIDE DEF f, g
    <2>1. DOMAIN a = Kind \cup {"subscribedThreads"} /\ DOMAIN b = DOMAIN a
        BY DEF Similar
    <2>2. Same(x, a) /\ Same(y, b)
        BY <1>1, <1>2, <1>4, <1>6, <2>1 DEF Same
    <2> QED BY <2>2, <1>3, SameSimilar
<1> QED BY <1>5, <1>6

\* A new message in a thread that exists.
MessageAdded(d, c, u, id, thread, approved, content) ==
    LET x == Visible(d, thread, c.time)
        y == SetFollowers(x, thread, d["threads"][thread].subscribedUsers \cup ({u} \ {""}),
                          d.subscribedThreads \cup {<<u, thread>>})
    IN Insert(y, "messages", id, NewMessage(c, u, thread, content, approved))

LEMMA AddsMessage ==
    ASSUME NEW d, NEW c, NEW id, NEW thread, NEW approved, NEW content
    PROVE  addNewDiscussionMessageInThread(d, c, id, thread, approved, content) =
               IF thread \notin DOMAIN d["threads"] THEN Result("NOT_FOUND", d)
               ELSE MessageAdded(d, c, getCurrentUser(d, c), id, thread, approved, content)
<1> DEFINE u == getCurrentUser(d, c)
           z == [d EXCEPT !.threads[thread].at.visible = c.time,
                          !.threads[thread].subscribedUsers = @ \cup ({u} \ {""}),
                          !.subscribedThreads = @ \cup {<<u, thread>>}]
           x == Visible(d, thread, c.time)
           y == SetFollowers(x, thread, d["threads"][thread].subscribedUsers \cup ({u} \ {""}),
                             d.subscribedThreads \cup {<<u, thread>>})
<1>1. z = y
    BY DEF SetFollowers, Visible
<1> HIDE DEF z, y
<1>2. addNewDiscussionMessageInThread(d, c, id, thread, approved, content) =
          IF thread \notin DOMAIN d["threads"] THEN Result("NOT_FOUND", d)
          ELSE Insert(z, "messages", id, NewMessage(c, u, thread, content, approved))
    BY Zenon DEF addNewDiscussionMessageInThread, NewMessage, z
<1>3. MessageAdded(d, c, u, id, thread, approved, content) =
          Insert(y, "messages", id, NewMessage(c, u, thread, content, approved))
    BY Zenon DEF MessageAdded, y
<1> QED BY <1>1, <1>2, <1>3, Zenon

\* What is known of the new message m of user u and of its thread.
Answered(r, q, id, thread, u, m, keep) ==
    /\ Agree(r, q, keep)
    /\ r.status = "OK"
    /\ r.db["messages"][id] = m
    /\ thread \in DOMAIN r.db["threads"]
    /\ <<u, thread>> \in r.db.subscribedThreads
    /\ Named(u) => u \in r.db["threads"][thread].subscribedUsers

LEMMA MessageAddedAlike ==
    ASSUME NEW keep, NEW a, NEW b, Similar(a, b, keep),
           NEW c, NEW e, SameContext(c, e, keep), NEW u,
           NEW id, id \notin DOMAIN a["messages"], NEW thread \in DOMAIN a["threads"],
           NEW approved, NEW content
    PROVE  Answered(MessageAdded(a, c, u, id, thread, approved, content),
                  MessageAdded(b, e, u, id, thread, approved, content),
                  id, thread, u, NewMessage(c, u, thread, content, approved), keep)
<1>1. PICK x : x = Visible(a, thread, c.time)
    OBVIOUS
<1>2. PICK y : y = Visible(b, thread, e.time)
    OBVIOUS
<1>3. Similar(x, y, keep)
    BY <1>1, <1>2, VisibleAlike
<1>4. /\ "threads" \in Kind /\ "messages" \in Kind /\ "messages" # "threads"
      /\ "subscribedThreads" \notin Kind
      /\ DOMAIN a = Kind \cup {"subscribedThreads"} /\ DOMAIN x = Kind \cup {"subscribedThreads"}
    BY <1>3 DEF Similar, Kind
<1>5. thread \in DOMAIN x["threads"] /\ id \notin DOMAIN x["messages"]
    BY <1>1, <1>4 DEF Visible
<1>6. SameFollowers(a, b, thread)
    BY FollowersSame
<1>7. PICK S : S = a["threads"][thread].subscribedUsers \cup ({u} \ {""})
    OBVIOUS
<1>8. PICK U : U = b["threads"][thread].subscribedUsers \cup ({u} \ {""})
    OBVIOUS
<1>9. PICK T : T = a.subscribedThreads \cup {<<u, thread>>}
    OBVIOUS
<1>10. S \ {""} = U \ {""}
    BY <1>6, <1>7, <1>8 DEF SameFollowers
<1>11. PICK f : f = SetFollowers(x, thread, S, T)
    OBVIOUS
<1>12. PICK g : g = SetFollowers(y, thread, U, T)
    OBVIOUS
<1>13. Similar(f, g, keep)
    BY <1>3, <1>5, <1>10, <1>11, <1>12, SetFollowersAlike
<1>14. /\ DOMAIN f["threads"] = DOMAIN x["threads"]
       /\ DOMAIN f["messages"] = DOMAIN x["messages"]
       /\ f.subscribedThreads = T
       /\ f["threads"][thread].subscribedUsers = S
    <2>1. f = [x EXCEPT !["threads"] = [x["threads"] EXCEPT ![thread] =
                           [x["threads"][thread] EXCEPT !.subscribedUsers = S]],
                        !["subscribedThreads"] = T]
        BY <1>4, <1>11 DEF SetFollowers
    <2>2. "subscribedUsers" \in DOMAIN x["threads"][thread]
        <3>1. Alike("threads", x["threads"][thread], y["threads"][thread], keep)
            BY <1>3, <1>4, <1>5, Zenon DEF Similar
        <3> QED BY <3>1 DEF Alike, Fields
    <2> QED BY <2>1, <2>2, <1>4, <1>5
<1>15. Alike("messages", NewMessage(c, u, thread, content, approved),
             NewMessage(e, u, thread, content, approved), keep)
    BY NewAlike
<1>16. PICK m : m = NewMessage(c, u, thread, content, approved)
    OBVIOUS
<1>17. PICK n : n = NewMessage(e, u, thread, content, approved)
    OBVIOUS
<1>18. Agree(Insert(f, "messages", id, m), Insert(g, "messages", id, n), keep)
    BY <1>4, <1>5, <1>13, <1>14, <1>15, <1>16, <1>17, InsertAlike
<1>19. /\ MessageAdded(a, c, u, id, thread, approved, content) = Insert(f, "messages", id, m)
       /\ MessageAdded(b, e, u, id, thread, approved, content) = Insert(g, "messages", id, n)
    <2>1. b.subscribedThreads = a.subscribedThreads
        BY <1>6 DEF SameFollowers
    <2>2. g = SetFollowers(y, thread, U, b.subscribedThreads \cup {<<u, thread>>})
        BY <2>1, <1>9, <1>12
    <2> QED BY <2>2, <1>1, <1>2, <1>7, <1>8, <1>9, <1>11, <1>16, <1>17, Zenon DEF MessageAdded
<1>20. /\ Insert(f, "messages", id, m).status = "OK"
       /\ Insert(f, "messages", id, m).db["messages"][id] = m
       /\ Insert(f, "messages", id, m).db["threads"] = f["threads"]
       /\ Insert(f, "messages", id, m).db.subscribedThreads = f.subscribedThreads
    <2>1. "messages" \in DOMAIN f /\ "threads" \in DOMAIN f /\ "subscribedThreads" \in DOMAIN f
        BY <1>13, <1>4 DEF Similar
    <2>2. id \notin DOMAIN f["messages"]
        BY <1>5, <1>14
    <2>3. /\ Insert(f, "messages", id, m).status = "OK"
          /\ Insert(f, "messages", id, m).db["messages"][id] = m
        BY <2>1, <2>2, InsertTells
    <2> QED BY <2>1, <2>3, <1>4 DEF Insert, Ok, Result
<1> QED BY <1>5, <1>7, <1>9, <1>14, <1>16, <1>18, <1>19, <1>20 DEF Named, Answered

LEMMA NewMessageFollows ==
    ASSUME NEW keep, NEW a, NEW b, Similar(a, b, keep),
           NEW c, NEW e, SameContext(c, e, keep),
           NEW id, id \notin DOMAIN a["messages"], NEW thread, NEW approved \in BOOLEAN,
           NEW content, NEW r,
           r = addNewDiscussionMessageInThread(a, c, id, thread, approved, content),
           r.status = "OK"
    PROVE  /\ Follows(r.db, b, "ADD_NEW_DISCUSSION_THREAD_MESSAGE", e,
                      MessagePayload("ADD_NEW_DISCUSSION_THREAD_MESSAGE", id,
                                     r.db.messages[id]),
                      <<id, thread, Flag(approved), content>>, keep)
           /\ thread \in DOMAIN r.db["threads"]
           /\ <<getCurrentUser(a, c), thread>> \in r.db.subscribedThreads
           /\ Named(getCurrentUser(a, c)) =>
                  getCurrentUser(a, c) \in r.db["threads"][thread].subscribedUsers
<1>1. PICK u : u = getCurrentUser(a, c) /\ u = getCurrentUser(b, e)
    BY SameUser
<1>2. PICK type : type = "ADD_NEW_DISCUSSION_THREAD_MESSAGE"
    OBVIOUS
<1>3. PICK w : w = <<id, thread, Flag(approved), content>>
    OBVIOUS
<1>4. w[1] = id /\ w[2] = thread /\ w[3] = Flag(approved) /\ w[4] = content
    BY <1>3
<1>5. thread \in DOMAIN a["threads"] /\ thread \in DOMAIN b["threads"]
    <2>1. thread \in DOMAIN a["threads"]
        BY AddsMessage DEF Result
    <2> QED BY <2>1 DEF Similar, Kind
<1>6. r = MessageAdded(a, c, u, id, thread, approved, content)
    BY <1>1, <1>5, AddsMessage
<1>7. Import(type, b, e, w) = MessageAdded(b, e, u, id, thread, approved, content)
    <2>1. type \in MessageEvent
        BY <1>2 DEF MessageEvent
    <2>2. ImportMessageEvent(type, b, e, w)
              = addNewDiscussionMessageInThread(b, e, w[1], w[2], w[3] # 0, w[4])
        BY <1>2, Zenon DEF ImportMessageEvent
    <2>3. (w[3] # 0) = approved
        <3>1. (Flag(approved) # 0) = approved
            BY FlagTells
        <3> QED BY <3>1, <1>4, Zenon
    <2>4. ImportMessageEvent(type, b, e, w)
              = addNewDiscussionMessageInThread(b, e, id, thread, approved, content)
        BY <2>2, <2>3, <1>4, Zenon
    <2>5. addNewDiscussionMessageInThread(b, e, id, thread, approved, content)
              = MessageAdded(b, e, u, id, thread, approved, content)
        BY <1>1, <1>5, AddsMessage
    <2> QED BY <2>1, <2>4, <2>5, ImportBy
<1>8. PICK q : q = MessageAdded(b, e, u, id, thread, approved, content)
    OBVIOUS
<1>9. PICK n : n = NewMessage(c, u, thread, content, approved)
    OBVIOUS
<1>10. Answered(r, q, id, thread, u, n, keep)
    BY <1>5, <1>6, <1>8, <1>9, MessageAddedAlike
<1>11. /\ Agree(r, q, keep)
       /\ r.db["messages"][id] = n
       /\ thread \in DOMAIN r.db["threads"]
       /\ <<u, thread>> \in r.db.subscribedThreads
       /\ Named(u) => u \in r.db["threads"][thread].subscribedUsers
    BY <1>10, Zenon DEF Answered
<1>12. MessagePayload(type, id, r.db.messages[id]) = w
    <2>1. \A m : MessagePayload(type, id, m) = <<id, m.thread, Flag(m.approved), m.content>>
        BY <1>2, Zenon DEF MessagePayload
    <2>2. /\ NewMessage(c, u, thread, content, approved).thread = thread
          /\ NewMessage(c, u, thread, content, approved).approved = approved
          /\ NewMessage(c, u, thread, content, approved).content = content
        BY DEF NewMessage
    <2>3. MessagePayload(type, id, r.db["messages"][id])
              = <<id, n.thread, Flag(n.approved), n.content>>
        BY <2>1, <1>11, Zenon
    <2> QED BY <2>2, <2>3, <1>3, <1>9, Zenon
<1>13. Follows(r.db, b, type, e, MessagePayload(type, id, r.db.messages[id]), w, keep)
    BY <1>7, <1>8, <1>11, <1>12 DEF Agree, Follows
<1> QED BY <1>1, <1>2, <1>3, <1>11, <1>13

\* A message is changed.
Edited(m, c, u, new, reason) ==
    [m EXCEPT !.content = new, !.reason = reason,
              !.at.updated = c.time, !.ip.updated = c.ip,
              !.by.updated = IF u = m.by.created THEN m.by.updated ELSE u]

LEMMA EditedAlike ==
    ASSUME NEW keep, NEW f, NEW g, Alike("messages", f, g, keep),
           NEW c, NEW e, SameContext(c, e, keep), NEW u, NEW new, NEW reason
    PROVE  Alike("messages", Edited(f, c, u, new, reason), Edited(g, e, u, new, reason), keep)
<1> DEFINE editor == IF u = f.by.created THEN f.by.updated ELSE u
<1>1. /\ DOMAIN f = Fields("messages") /\ DOMAIN g = Fields("messages")
      /\ Fields("messages") = {"at", "by", "ip", "thread", "content", "approved", "reason"}
    BY DEF Alike, Fields
<1>2. PICK x : x = Edited(f, c, u, new, reason)
    OBVIOUS
<1>3. PICK y : y = Edited(g, e, u, new, reason)
    OBVIOUS
<1>4. /\ f.by = g.by /\ f.thread = g.thread /\ f.approved = g.approved
      /\ keep => f.ip = g.ip /\ e.ip = c.ip
    BY <1>1 DEF Alike, SameContext, Fixed
<1>5. x = [f EXCEPT !.content = new, !.reason = reason,
                    !.at = [f.at EXCEPT !.updated = c.time],
                    !.ip = [f.ip EXCEPT !.updated = c.ip],
                    !.by = [f.by EXCEPT !.updated = editor]]
    BY <1>2, <1>1 DEF Edited
<1>6. y = [g EXCEPT !.content = new, !.reason = reason,
                    !.at = [g.at EXCEPT !.updated = e.time],
                    !.ip = [g.ip EXCEPT !.updated = e.ip],
                    !.by = [f.by EXCEPT !.updated = editor]]
    BY <1>3, <1>1, <1>4 DEF Edited
<1> HIDE DEF editor
<1>7. /\ DOMAIN x = Fields("messages") /\ DOMAIN y = Fields("messages")
      /\ x.content = new /\ y.content = new /\ x.reason = reason /\ y.reason = reason
      /\ x.thread = f.thread /\ y.thread = f.thread
      /\ x.approved = f.approved /\ y.approved = f.approved
      /\ x.at = [f.at EXCEPT !.updated = c.time]
      /\ y.at = [g.at EXCEPT !.updated = e.time]
      /\ x.ip = [f.ip EXCEPT !.updated = c.ip]
      /\ y.ip = [g.ip EXCEPT !.updated = e.ip]
      /\ x.by = y.by
    BY <1>1, <1>4, <1>5, <1>6
<1>8. /\ DOMAIN x.at = Moment /\ DOMAIN y.at = Moment
      /\ \A s \in Moment : x.at[s] \in Nat /\ y.at[s] \in {x.at[s], x.at[s] + 1}
    BY <1>7 DEF Alike, SameContext, Moment
<1>9. keep => x.ip = y.ip
    BY <1>4, <1>7
<1>10. \A z \in Fixed("messages") : x[z] = y[z]
    BY <1>1, <1>7 DEF Fixed
<1>11. Alike("messages", x, y, keep)
    BY <1>7, <1>8, <1>9, <1>10 DEF Alike
<1> QED BY <1>2, <1>3, <1>11

MessageEdited(d, c, u, id, new, reason) ==
    LET m == d["messages"][id]
    IN Visible([d EXCEPT !["messages"][id] = Edited(m, c, u, new, reason)],
               m.thread, c.time)

LEMMA EditsMessage ==
    ASSUME NEW d, NEW c, NEW id, NEW new, NEW reason
    PROVE  changeDiscussionThreadMessageContent(d, c, id, new, reason) =
               IF id \notin DOMAIN d["messages"] THEN Result("NOT_FOUND", d)
               ELSE Ok(MessageEdited(d, c, getCurrentUser(d, c), id, new, reason))
<1>1. PICK u : u = getCurrentUser(d, c)
    OBVIOUS
<1>2. PICK m : m = d["messages"][id]
    OBVIOUS
<1>3. CASE id \notin DOMAIN d["messages"]
    BY <1>3 DEF changeDiscussionThreadMessageContent
<1>4. CASE id \in DOMAIN d["messages"]
    <2> DEFINE n == [m EXCEPT !.content = new, !.reason = reason,
                              !.at.updated = c.time, !.ip.updated = c.ip,
                              !.by.updated = IF u = m.by.created THEN m.by.updated ELSE u]
               z == [d EXCEPT !.messages[id] = n, !.threads[m.thread].at.visible = c.time]
    <2>1. changeDiscussionThreadMessageContent(d, c, id, new, reason) = Ok(z)
        BY <1>1, <1>2, <1>4, Zenon DEF changeDiscussionThreadMessageContent
    <2>2. n = Edited(m, c, u, new, reason)
        BY DEF Edited
    <2> HIDE DEF n
    <2>3. z = Visible([d EXCEPT !["messages"][id] = n], m.thread, c.time)
        BY DEF Visible
    <2> HIDE DEF z
    <2>4. z = MessageEdited(d, c, u, id, new, reason)
        BY <2>2, <2>3, <1>2, Zenon DEF MessageEdited
    <2> QED BY <2>1, <2>4, <1>1, <1>4, Zenon
<1> QED BY <1>3, <1>4

LEMMA MessageEditedAlike ==
    ASSUME NEW keep, NEW a, NEW b, Similar(a, b, keep),
           NEW c, NEW e, SameContext(c, e, keep), NEW u,
           NEW id \in DOMAIN a["messages"], NEW new, NEW reason
    PROVE  Similar(MessageEdited(a, c, u, id, new, reason),
                   MessageEdited(b, e, u, id, new, reason), keep)
<1>1. "messages" \in Kind /\ "messages" # "threads"
    BY DEF Kind
<1>2. Alike("messages", a["messages"][id], b["messages"][id], keep)
    BY <1>1, Zenon DEF Similar
<1>3. PICK f : f = Edited(a["messages"][id], c, u, new, reason)
    OBVIOUS
<1>4. PICK g : g = Edited(b["messages"][id], e, u, new, reason)
    OBVIOUS
<1>5. Alike("messages", f, g, keep)
    BY <1>2, <1>3, <1>4, EditedAlike
<1>6. PICK x : x = [a EXCEPT !["messages"][id] = f]
    OBVIOUS
<1>7. PICK y : y = [b EXCEPT !["messages"][id] = g]
    OBVIOUS
<1>8. Similar(x, y, keep)
    BY <1>1, <1>5, <1>6, <1>7, ChangeAlike
<1>9. PICK t : t = a["messages"][id].thread
    OBVIOUS
<1>10. t = b["messages"][id].thread
    <2>1. "thread" \in Fixed("messages")
        BY DEF Fields, Fixed
    <2> QED BY <2>1, <1>2, <1>9 DEF Alike
<1>11. Similar(Visible(x, t, c.time), Visible(y, t, e.time), keep)
    BY <1>8, VisibleAlike
<1>12. /\ MessageEdited(a, c, u, id, new, reason) = Visible(x, t, c.time)
       /\ MessageEdited(b, e, u, id, new, reason) = Visible(y, t, e.time)
    BY <1>3, <1>4, <1>6, <1>7, <1>9, <1>10, Zenon DEF MessageEdited
<1> QED BY <1>11, <1>12

LEMMA MessageContentFollows ==
    ASSUME NEW keep, NEW a, NEW b, Similar(a, b, keep),
           NEW c, NEW e, SameContext(c, e, keep),
           NEW id, NEW new, NEW reason, NEW r,
           r = changeDiscussionThreadMessageContent(a, c, id, new, reason),
           r.status = "OK"
    PROVE  Follows(r.db, b, "CHANGE_DISCUSSION_THREAD_MESSAGE_CONTENT", e,
                   MessagePayload("CHANGE_DISCUSSION_THREAD_MESSAGE_CONTENT", id,
                                  r.db.messages[id]),
                   <<id, new, reason>>, keep)
<1>1. PICK u : u = getCurrentUser(a, c) /\ u = getCurrentUser(b, e)
    BY SameUser
<1>2. PICK type : type = "CHANGE_DISCUSSION_THREAD_MESSAGE_CONTENT"
    OBVIOUS
<1>3. PICK w : w = <<id, new, reason>>
    OBVIOUS
<1>4. id \in DOMAIN a["messages"] /\ id \in DOMAIN b["messages"]
    <2>1. id \in DOMAIN a["messages"]
        BY EditsMessage DEF Result
    <2> QED BY <2>1 DEF Similar, Kind
<1>5. PICK x : x = MessageEdited(a, c, u, id, new, reason)
    OBVIOUS
<1>6. PICK y : y = MessageEdited(b, e, u, id, new, reason)
    OBVIOUS
<1>7. r.db = x
    BY <1>1, <1>4, <1>5, EditsMessage DEF Ok, Result
<1>8. Import(type, b, e, w) = Ok(y)
    <2>1. type \in MessageEvent
        BY <1>2 DEF MessageEvent
    <2>2. ImportMessageEvent(type, b, e, w)
              = changeDiscussionThreadMessageContent(b, e, w[1], w[2], w[3])
        BY <1>2, Zenon DEF ImportMessageEvent
    <2>3. w[1] = id /\ w[2] = new /\ w[3] = reason
        BY <1>3
    <2>4. changeDiscussionThreadMessageContent(b, e, id, new, reason) = Ok(y)
        BY <1>1, <1>4, <1>6, EditsMessage
    <2> QED BY <2>1, <2>2, <2>3, <2>4, ImportBy
<1>9. Similar(x, y, keep)
    BY <1>4, <1>5, <1>6, MessageEditedAlike
<1>10. MessagePayload(type, id, r.db.messages[id]) = w
    <2>1. \A m : MessagePayload(type, id, m) = <<id, m.content, m.reason>>
        BY <1>2, Zenon DEF MessagePayload
    <2>2. "messages" \in Kind /\ "messages" # "threads" /\ "messages" \in DOMAIN a
        BY DEF Kind, Similar
    <2>3. PICK m : m = a["messages"][id]
        OBVIOUS
    <2>4. PICK n : n = Edited(m, c, u, new, reason)
        OBVIOUS
    <2>5. n.content = new /\ n.reason = reason
        <3>1. Alike("messages", m, b["messages"][id], keep)
            BY <2>2, <2>3, <1>4, Zenon DEF Similar
        <3>2. /\ "content" \in DOMAIN m /\ "reason" \in DOMAIN m
            BY <3>1 DEF Alike, Fields
        <3> QED BY <3>2, <2>4 DEF Edited
    <2>6. x["messages"][id] = n
        <3>1. PICK z : z = [a EXCEPT !["messages"][id] = n]
            OBVIOUS
        <3>2. z["messages"][id] = n /\ "messages" \in DOMAIN z
            BY <3>1, <2>2, <1>4
        <3>3. x = Visible(z, m.thread, c.time)
            BY <3>1, <2>3, <2>4, <1>5, Zenon DEF MessageEdited
        <3> QED BY <3>2, <3>3, <2>2 DEF Visible
    <2>7. MessagePayload(type, id, n) = w
        BY <2>1, <2>5, <1>3
    <2> QED BY <2>6, <2>7, <1>7
<1>11. Follows(r.db, b, type, e, MessagePayload(type, id, r.db.messages[id]), w, keep)
    BY <1>7, <1>8, <1>9, <1>10 DEF Follows, Ok, Result
<1> QED BY <1>2, <1>3, <1>11

\* The user was quoted once more.
Quoted(f, message) == [f EXCEPT !.quoteHistory = Append(f.quoteHistory, message)]

LEMMA QuotesUser ==
    ASSUME NEW d, NEW message, NEW u \in DOMAIN d["users"]
    PROVE  quoteUserInMessage(d, message, u)
               = Ok([d EXCEPT !["users"][u] = Quoted(d["users"][u], message)])
BY Zenon DEF quoteUserInMessage, Change, Quoted

LEMMA QuoteUsers ==
    ASSUME NEW d, "users" \in DOMAIN d, NEW message, NEW U
    PROVE  Quote(d, message, U) =
               [d EXCEPT !["users"] = [u \in DOMAIN d["users"] |->
                                          IF u \in U THEN Quoted(d["users"][u], message)
                                          ELSE d["users"][u]]]
<1>1. ASSUME NEW u \in DOMAIN d["users"]
      PROVE  quoteUserInMessage(d, message, u).db.users[u] = Quoted(d["users"][u], message)
    <2>1. quoteUserInMessage(d, message, u)
              = Ok([d EXCEPT !["users"][u] = Quoted(d["users"][u], message)])
        BY QuotesUser
    <2> QED BY <2>1 DEF Ok, Result
<1>2. PICK F : F = [u \in DOMAIN d["users"] |->
                       IF u \in U THEN quoteUserInMessage(d, message, u).db.users[u]
                       ELSE d["users"][u]]
    OBVIOUS
<1>3. F = [u \in DOMAIN d["users"] |-> IF u \in U THEN Quoted(d["users"][u], message)
                                       ELSE d["users"][u]]
    BY <1>1, <1>2
<1>4. Quote(d, message, U) = [d EXCEPT !["users"] = F]
    BY <1>2, Zenon DEF Quote
<1> QED BY <1>3, <1>4

LEMMA QuotedAlike ==
    ASSUME NEW keep, NEW f, NEW g, Alike("users", f, g, keep), NEW message
    PROVE  Alike("users", Quoted(f, message), Quoted(g, message), keep)
<1>1. /\ "quoteHistory" \in Fixed("users")
      /\ "quoteHistory" \in Fields("users") \ {"at", "ip", "displayOrder"}
    BY DEF Fields, Fixed
<1>2. PICK v : v = Append(f.quoteHistory, message)
    OBVIOUS
<1>3. f.quoteHistory = g.quoteHistory
    BY <1>1 DEF Alike
<1>4. Alike("users", [f EXCEPT !["quoteHistory"] = v], [g EXCEPT !["quoteHistory"] = v], keep)
    BY <1>1, FieldAlike
<1> QED BY <1>2, <1>3, <1>4 DEF Quoted

LEMMA QuoteAlike ==
    ASSUME NEW keep, NEW a, NEW b, Similar(a, b, keep), NEW message, NEW U
    PROVE  Similar(Quote(a, message, U), Quote(b, message, U), keep)
<1>1. /\ "users" \in Kind /\ "subscribedThreads" \notin Kind /\ "users" # "categories"
      /\ "categories" \in Kind
      /\ DOMAIN a = Kind \cup {"subscribedThreads"} /\ DOMAIN b = DOMAIN a
      /\ DOMAIN b["users"] = DOMAIN a["users"]
    BY DEF Kind, Similar
<1>2. PICK F : F = [u \in DOMAIN a["users"] |-> IF u \in U THEN Quoted(a["users"][u], message)
                                                ELSE a["users"][u]]
    OBVIOUS
<1>3. PICK G : G = [u \in DOMAIN a["users"] |-> IF u \in U THEN Quoted(b["users"][u], message)
                                                ELSE b["users"][u]]
    OBVIOUS
<1>4. PICK x : x = [a EXCEPT !["users"] = F]
    OBVIOUS
<1>5. PICK y : y = [b EXCEPT !["users"] = G]
    OBVIOUS
<1>6. Quote(a, message, U) = x /\ Quote(b, message, U) = y
    BY <1>1, <1>2, <1>3, <1>4, <1>5, QuoteUsers
<1>7. /\ DOMAIN x = DOMAIN a /\ DOMAIN y = DOMAIN b
      /\ x["users"] = F /\ y["users"] = G
      /\ \A k \in Kind \ {"users"} : x[k] = a[k] /\ y[k] = b[k]
      /\ x.subscribedThreads = a.subscribedThreads
      /\ y.subscribedThreads = b.subscribedThreads
    BY <1>1, <1>4, <1>5
<1>8. \A u \in DOMAIN a["users"] : Alike("users", F[u], G[u], keep)
    <2> SUFFICES ASSUME NEW u \in DOMAIN a["users"]
                 PROVE  Alike("users", F[u], G[u], keep)
        OBVIOUS
    <2>1. Alike("users", a["users"][u], b["users"][u], keep)
        BY <1>1, Zenon DEF Similar
    <2>2. Alike("users", Quoted(a["users"][u], message), Quoted(b["users"][u], message), keep)
        BY <2>1, QuotedAlike
    <2>3. CASE u \in U
        BY <2>2, <2>3, <1>2, <1>3
    <2>4. CASE u \notin U
        BY <2>1, <2>4, <1>2, <1>3
    <2> QED BY <2>3, <2>4
<1>9. ASSUME NEW k \in Kind
      PROVE  /\ DOMAIN x[k] = DOMAIN y[k]
             /\ \A id \in DOMAIN x[k] : Alike(k, x[k][id], y[k][id], keep)
    <2>1. CASE k = "users"
        <3>1. DOMAIN F = DOMAIN a["users"] /\ DOMAIN G = DOMAIN a["users"]
            BY <1>2, <1>3
        <3> QED BY <2>1, <3>1, <1>7, <1>8
    <2>2. CASE k # "users"
        <3>1. x[k] = a[k] /\ y[k] = b[k]
            BY <2>2, <1>7
        <3>2. /\ DOMAIN a[k] = DOMAIN b[k]
              /\ \A id \in DOMAIN a[k] : Alike(k, a[k][id], b[k][id], keep)
            BY Zenon DEF Similar
        <3> QED BY <3>1, <3>2
    <2> QED BY <2>1, <2>2
<1>10. DOMAIN x.users = DOMAIN a.users /\ DOMAIN x.categories = DOMAIN a.categories
    BY <1>1, <1>2, <1>7
<1>11. /\ "" \notin DOMAIN a.users \cup DOMAIN a.categories
       /\ IsFiniteSet(DOMAIN a.users)
       /\ a.subscribedThreads = b.subscribedThreads
    BY Zenon DEF Similar
<1>12. Similar(x, y, keep)
    BY <1>1, <1>7, <1>9, <1>10, <1>11 DEF Similar
<1> QED BY <1>6, <1>12

\* Nobody to quote.
LEMMA QuoteNobody ==
    ASSUME NEW keep, NEW a, NEW b, Similar(a, b, keep), NEW message,
           NEW U, U \cap DOMAIN a["users"] = {}
    PROVE  Similar(Quote(a, message, U), b, keep)
<1>1. /\ "users" \in Kind /\ "subscribedThreads" \notin Kind
      /\ DOMAIN a = Kind \cup {"subscribedThreads"}
    BY DEF Kind, Similar
<1>2. PICK x : x = Quote(a, message, U)
    OBVIOUS
<1>3. PICK F : F = [u \in DOMAIN a["users"] |-> IF u \in U THEN Quoted(a["users"][u], message)
                                                ELSE a["users"][u]]
    OBVIOUS
<1>4. x = [a EXCEPT !["users"] = F]
    BY <1>1, <1>2, <1>3, QuoteUsers
<1>5. DOMAIN F = DOMAIN a["users"] /\ \A u \in DOMAIN a["users"] : F[u] = a["users"][u]
    BY <1>3
<1>6. Same(x, a)
    BY <1>1, <1>4, <1>5 DEF Same
<1>7. Same(b, b)
    BY DEF Same
<1> QED BY <1>2, <1>6, <1>7, SameSimilar

\* The events of the quotes quote one user after the other.
LEMMA QuoteOnce ==
    ASSUME NEW b, "users" \in DOMAIN b, NEW message, NEW V, NEW d, NEW e,
           d = Quote(b, message, V) \/ (d = b /\ V = {}),
           NEW q \in DOMAIN b["users"] \ V, NEW w, w = <<message, q>>
    PROVE  Import("QUOTE_USER_IN_DISCUSSION_THREAD_MESSAGE", d, e, w)
               = Ok(Quote(b, message, V \cup {q}))
<1>1. PICK type : type = "QUOTE_USER_IN_DISCUSSION_THREAD_MESSAGE"
    OBVIOUS
<1>2. Import(type, d, e, w) = quoteUserInMessage(d, message, q)
    <2>1. type \in MessageEvent
        BY <1>1 DEF MessageEvent
    <2>2. ImportMessageEvent(type, d, e, w) = quoteUserInMessage(d, w[1], w[2])
        BY <1>1, Zenon DEF ImportMessageEvent
    <2>3. w[1] = message /\ w[2] = q
        OBVIOUS
    <2> QED BY <2>1, <2>2, <2>3, ImportBy
<1>3. PICK N : N = [u \in DOMAIN b["users"] |->
                       IF u \in V \cup {q} THEN Quoted(b["users"][u], message)
                       ELSE b["users"][u]]
    OBVIOUS
<1>4. Quote(b, message, V \cup {q}) = [b EXCEPT !["users"] = N]
    BY <1>3, QuoteUsers
<1>5. /\ q \in DOMAIN d["users"] /\ d["users"][q] = b["users"][q]
      /\ [d EXCEPT !["users"] = [d["users"] EXCEPT ![q] = Quoted(b["users"][q], message)]]
             = [b EXCEPT !["users"] = N]
    <2>1. CASE d = b /\ V = {}
        <3>1. [b["users"] EXCEPT ![q] = Quoted(b["users"][q], message)] = N
            BY <2>1, <1>3
        <3> QED BY <2>1, <3>1
    <2>2. CASE d = Quote(b, message, V)
        <3>1. PICK F : F = [u \in DOMAIN b["users"] |->
                               IF u \in V THEN Quoted(b["users"][u], message)
                               ELSE b["users"][u]]
            OBVIOUS
        <3>2. d = [b EXCEPT !["users"] = F]
            BY <2>2, <3>1, QuoteUsers
        <3>3. d["users"] = F
            BY <3>2
        <3>4. [F EXCEPT ![q] = Quoted(b["users"][q], message)] = N
            BY <3>1, <1>3
        <3>5. [d EXCEPT !["users"] = N] = [b EXCEPT !["users"] = N]
            BY <3>2
        <3> QED BY <3>1, <3>3, <3>4, <3>5
    <2> QED BY <2>1, <2>2
<1>6. quoteUserInMessage(d, message, q)
          = Ok([d EXCEPT !["users"] = [d["users"] EXCEPT ![q] = Quoted(b["users"][q], message)]])
    BY <1>5, QuotesUser
<1> QED BY <1>1, <1>2, <1>4, <1>5, <1>6
-----------------------------------------------------------------------------
(* What is written is read back.                                            *)

Tuple(n, w) == w = [i \in 1 .. n |-> w[i]]

LEMMA Tuples ==
    ASSUME NEW a, NEW b, NEW c, NEW d
    PROVE  /\ Tuple(1, <<a>>)
           /\ Tuple(2, <<a, b>>)
           /\ Tuple(3, <<a, b, c>>)
           /\ Tuple(4, <<a, b, c, d>>)
BY DEF Tuple

\* The values w are those of an event of the type, and the importer accepts them.
Readable(type, w) ==
    /\ type \in Range(EventType)
    /\ Tuple(Len(Written[type].fields), w)
    /\ \A i \in 1 .. Len(Written[type].fields) :
           Read[type][Written[type].version][i] = "nonempty" => Named(w[i])

\* Only a display order is cut.
Recordable(type, w) ==
    Readable(type, w) /\ type # "CHANGE_DISCUSSION_CATEGORY_DISPLAY_ORDER"

LEMMA CarriesRecordable ==
    ASSUME NEW type, NEW n, NEW texts, Carries(type, n, texts),
           NEW w, Tuple(n, w), \A i \in texts : Named(w[i])
    PROVE  /\ Readable(type, w)
           /\ type # "CHANGE_DISCUSSION_CATEGORY_DISPLAY_ORDER" => Recordable(type, w)
BY Zenon DEF Carries, Readable, Recordable

\* What is left of the values in the fields of an event.
Cut(type, w) ==
    [i \in 1 .. Len(Written[type].fields) |->
        IF Written[type].fields[i] = "i16" THEN Signed(w[i]) ELSE w[i]]

LEMMA Uncut ==
    ASSUME NEW type, NEW w, Recordable(type, w)
    PROVE  Cut(type, w) = w
<1>1. PICK f : f = Written[type].fields
    OBVIOUS
<1>2. \A i \in 1 .. Len(f) : f[i] # "i16"
    BY <1>1, PayloadsAssumption, Zenon DEF Recordable, Readable
<1>3. Cut(type, w) = [i \in 1 .. Len(f) |-> IF f[i] = "i16" THEN Signed(w[i]) ELSE w[i]]
    BY <1>1, Zenon DEF Cut
<1>4. Cut(type, w) = [i \in 1 .. Len(f) |-> w[i]]
    BY <1>2, <1>3
<1>5. w = [i \in 1 .. Len(f) |-> w[i]]
    BY <1>1, Zenon DEF Recordable, Readable, Tuple
<1> QED BY <1>4, <1>5

LEMMA TypesListed ==
    /\ Len(EventType) \in Nat
    /\ DOMAIN EventType = 1 .. Len(EventType)
BY DEF EventType

LEMMA FormatOf ==
    ASSUME NEW type \in Range(EventType)
    PROVE  \E i \in 1 .. Len(EventType) :
               /\ EventType[i] = type /\ i <= Len(importFunctions)
               /\ Written[type].fields \in Seq(DOMAIN Width)
               /\ Written[type].version \in 1 .. Len(Read[type])
               /\ Len(Read[type][Written[type].version]) = Len(Written[type].fields)
               /\ \A j \in 1 .. Len(Written[type].fields) :
                      Fits(Read[type][Written[type].version][j],
                           [type |-> Written[type].fields[j], value |-> "text"])
<1>1. PICK i \in 1 .. Len(EventType) : EventType[i] = type
    <2> HIDE DEF EventType
    <2> QED BY TypesListed DEF Range
<1> HIDE DEF EventType
<1>2. i <= Len(importFunctions)
    BY FormatsAssumption, TypesListed
<1> QED BY <1>1, <1>2, FormatsAssumption, Zenon

LEMMA ImporterAt ==
    ASSUME NEW i \in 1 .. Len(EventType)
    PROVE  importFunctions[i] = EventType[i]
BY FormatsAssumption

LEMMA FitsAny ==
    ASSUME NEW field, NEW t, Fits(field, [type |-> t, value |-> "text"]),
           NEW v, field = "nonempty" => Named(v)
    PROVE  Fits(field, [type |-> t, value |-> v])
BY DEF Fits, Named

LEMMA ReadBack ==
    ASSUME NEW type, NEW w, Readable(type, w), NEW e, NEW x, x = Encode(type, e, w)
    PROVE  /\ Decodes(x)
           /\ ImporterOf(x) = type
           /\ x.context = e
           /\ Values(x) = Cut(type, w)
<1>1. type \in Range(EventType)
    BY Zenon DEF Readable
<1>2. PICK f : f = Written[type].fields
    OBVIOUS
<1>3. PICK n : n = Written[type].version
    OBVIOUS
<1>4. PICK fields : fields = Read[type][n]
    OBVIOUS
<1>5. PICK i \in 1 .. Len(EventType) :
               /\ EventType[i] = type /\ i <= Len(importFunctions)
               /\ f \in Seq(DOMAIN Width)
               /\ n \in 1 .. Len(Read[type])
               /\ Len(fields) = Len(f)
               /\ \A j \in 1 .. Len(f) :
                      Fits(fields[j], [type |-> f[j], value |-> "text"])
    BY <1>1, <1>2, <1>3, <1>4, FormatOf, Zenon
<1>6. PICK code : code = CHOOSE j \in 1 .. Len(EventType) : EventType[j] = type
    OBVIOUS
<1>7. code \in 1 .. Len(EventType) /\ EventType[code] = type /\ importFunctions[code] = type
    <2>1. code \in 1 .. Len(EventType) /\ EventType[code] = type
        BY <1>5, <1>6, Zenon
    <2> QED BY <2>1, ImporterAt
<1>8. code <= Len(importFunctions)
    BY <1>7, FormatsAssumption, TypesListed
<1>9. PICK cells : cells = [j \in 1 .. Len(f) |->
                               [type |-> f[j],
                                value |-> IF f[j] = "i16" THEN Signed(w[j]) ELSE w[j]]]
    OBVIOUS
<1>10. x = [code |-> code, version |-> n, context |-> e, cells |-> cells]
    BY <1>2, <1>3, <1>6, <1>9, Zenon DEF Encode
<1>11. x.code = code /\ x.version = n /\ x.context = e /\ x.cells = cells
    BY <1>10
<1>12. Len(f) \in Nat /\ Len(cells) = Len(f)
    BY <1>5, <1>9
<1>13. PICK left : left = [j \in 1 .. Len(f) |-> IF f[j] = "i16" THEN Signed(w[j]) ELSE w[j]]
    OBVIOUS
<1>14. ImporterOf(x) = type
    BY <1>7, <1>11 DEF ImporterOf
<1>15. \A j \in 1 .. Len(f) : Fits(fields[j], cells[j])
    <2> SUFFICES ASSUME NEW j \in 1 .. Len(f)
                 PROVE  Fits(fields[j], cells[j])
        OBVIOUS
    <2>1. Fits(fields[j], [type |-> f[j], value |-> "text"])
        BY <1>5
    <2>2. cells[j] = [type |-> f[j], value |-> left[j]]
        BY <1>9, <1>13
    <2>3. fields[j] = "nonempty" => Named(left[j])
        <3>1. fields[j] = "nonempty" => f[j] = "text"
            BY <2>1 DEF Fits
        <3>2. fields[j] = "nonempty" => Named(w[j])
            BY <1>2, <1>3, <1>4, Zenon DEF Readable
        <3> QED BY <3>1, <3>2, <1>13
    <2>4. Fits(fields[j], [type |-> f[j], value |-> left[j]])
        BY <2>1, <2>3, FitsAny
    <2> QED BY <2>2, <2>4
<1>16. Decodes(x)
    <2>1. n <= Len(Read[type])
        BY <1>5
    <2>2. Read[ImporterOf(x)][x.version] = fields
        BY <1>4, <1>11, <1>14
    <2>3. \A j \in 1 .. Len(fields) : Fits(fields[j], x.cells[j])
        BY <1>5, <1>11, <1>15
    <2> QED BY <2>1, <2>2, <2>3, <1>5, <1>8, <1>11, <1>12, <1>14, Zenon DEF Decodes
<1>17. Values(x) = Cut(type, w)
    <2>1. Values(x) = [j \in 1 .. Len(f) |-> cells[j].value]
        BY <1>11, <1>12 DEF Values
    <2>2. \A j \in 1 .. Len(f) : cells[j].value = left[j]
        BY <1>9, <1>13
    <2>3. Cut(type, w) = left
        BY <1>2, <1>13, Zenon DEF Cut
    <2> QED BY <2>1, <2>2, <2>3, <1>13
<1> QED BY <1>11, <1>14, <1>16, <1>17
-----------------------------------------------------------------------------
(* Lists of events.                                                         *)

\* The import of a stored event takes a collection to another.
Imports(d, x, f) ==
    /\ Decodes(x)
    /\ Import(ImporterOf(x), d, x.context, Values(x)).status \in {"OK", "NO_EFFECT"}
    /\ f = Import(ImporterOf(x), d, x.context, Values(x)).db

\* The collections that the import of the list passes through.
Passes(G, s) == \A i \in 1 .. Len(s) : Imports(G[i - 1], s[i], G[i])

Leads(d, s, f) == \E G : G[0] = d /\ G[Len(s)] = f /\ Passes(G, s)

Listed(s) == \E S : s \in Seq(S)

LEMMA ListedCat ==
    ASSUME NEW s, NEW t, Listed(s), Listed(t)
    PROVE  /\ Listed(s \o t)
           /\ Len(s) \in Nat /\ Len(t) \in Nat /\ Len(s \o t) = Len(s) + Len(t)
           /\ \A i \in 1 .. Len(s) + Len(t) :
                  (s \o t)[i] = IF i <= Len(s) THEN s[i] ELSE t[i - Len(s)]
<1>1. PICK S : s \in Seq(S)
    BY DEF Listed
<1>2. PICK T : t \in Seq(T)
    BY DEF Listed
<1>3. s \in Seq(S \cup T) /\ t \in Seq(S \cup T)
    BY <1>1, <1>2
<1>4. s \o t \in Seq(S \cup T)
    BY <1>3
<1>5. Listed(s \o t)
    BY <1>4 DEF Listed
<1>6. Len(s) \in Nat /\ Len(t) \in Nat
    BY <1>1, <1>2
<1> HIDE DEF Listed
<1>7. /\ Len(s \o t) = Len(s) + Len(t)
      /\ \A i \in 1 .. Len(s) + Len(t) :
             (s \o t)[i] = IF i <= Len(s) THEN s[i] ELSE t[i - Len(s)]
    BY <1>3, ConcatProperties
<1> QED BY <1>5, <1>6, <1>7

LEMMA LeadsCat ==
    ASSUME NEW s, NEW t, Listed(s), Listed(t),
           NEW d, NEW f, NEW g, Leads(d, s, f), Leads(f, t, g)
    PROVE  Leads(d, s \o t, g)
<1>1. PICK F : F[0] = d /\ F[Len(s)] = f /\ Passes(F, s)
    BY Zenon DEF Leads
<1>2. PICK G : G[0] = f /\ G[Len(t)] = g /\ Passes(G, t)
    BY Zenon DEF Leads
<1>3. PICK m \in Nat : m = Len(s)
    BY ListedCat
<1>4. PICK n \in Nat : n = Len(t)
    BY ListedCat
<1>5. PICK q : q = s \o t
    OBVIOUS
<1>6. /\ Len(q) = m + n
      /\ \A i \in 1 .. m + n : q[i] = IF i <= m THEN s[i] ELSE t[i - m]
    BY <1>3, <1>4, <1>5, ListedCat
<1>7. PICK H : H = [i \in 0 .. m + n |-> IF i <= m THEN F[i] ELSE G[i - m]]
    OBVIOUS
<1>8. H[0] = d
    BY <1>1, <1>7
<1>9. H[Len(q)] = g
    <2>1. CASE n = 0
        BY <2>1, <1>1, <1>2, <1>3, <1>4, <1>6, <1>7
    <2>2. CASE n > 0
        BY <2>2, <1>2, <1>4, <1>6, <1>7
    <2> QED BY <2>1, <2>2
<1>10. Passes(H, q)
    <2> SUFFICES ASSUME NEW i \in 1 .. m + n PROVE Imports(H[i - 1], q[i], H[i])
        BY <1>6 DEF Passes
    <2>1. CASE i <= m
        <3>1. H[i - 1] = F[i - 1] /\ H[i] = F[i] /\ q[i] = s[i]
            BY <2>1, <1>6, <1>7
        <3>2. Imports(F[i - 1], s[i], F[i])
            BY <2>1, <1>1, <1>3 DEF Passes
        <3> QED BY <3>1, <3>2
    <2>2. CASE i > m
        <3>1. H[i - 1] = G[i - m - 1]
            <4>1. CASE i - 1 = m
                BY <4>1, <1>1, <1>2, <1>3, <1>7
            <4>2. CASE i - 1 > m
                BY <4>2, <1>7
            <4> QED BY <4>1, <4>2, <2>2
        <3>2. H[i] = G[i - m] /\ q[i] = t[i - m]
            BY <2>2, <1>6, <1>7
        <3>3. i - m \in 1 .. n
            BY <2>2
        <3>4. Imports(G[i - m - 1], t[i - m], G[i - m])
            BY <3>3, <1>2, <1>4 DEF Passes
        <3> QED BY <3>1, <3>2, <3>4
    <2> QED BY <2>1, <2>2
<1>11. Leads(d, q, g)
    BY <1>8, <1>9, <1>10, Zenon DEF Leads
<1> QED BY <1>5, <1>11

\* The events of a command as they are stored with the context e.
Encoded(events, e) ==
    [i \in 1 .. Len(events) |-> Encode(events[i].type, e, events[i].values)]

LEMMA EncodedListed ==
    ASSUME NEW s, Listed(s), NEW e
    PROVE  /\ Listed(Encoded(s, e))
           /\ Len(Encoded(s, e)) = Len(s)
           /\ Len(s) \in Nat
           /\ \A i \in 1 .. Len(s) :
                  Encoded(s, e)[i] = Encode(s[i].type, e, s[i].values)
<1>1. PICK n \in Nat : n = Len(s)
    BY DEF Listed
<1>2. PICK S : S = {Encode(s[i].type, e, s[i].values) : i \in 1 .. n}
    OBVIOUS
<1>3. PICK x : x = [i \in 1 .. n |-> Encode(s[i].type, e, s[i].values)]
    OBVIOUS
<1>4. x \in Seq(S) /\ Len(x) = n
    BY <1>2, <1>3
<1>5. x = Encoded(s, e)
    BY <1>1, <1>3, Zenon DEF Encoded
<1> QED BY <1>1, <1>3, <1>4, <1>5 DEF Listed

LEMMA EncodedCat ==
    ASSUME NEW s, NEW t, Listed(s), Listed(t), NEW e
    PROVE  Encoded(s \o t, e) = Encoded(s, e) \o Encoded(t, e)
<1>1. PICK m \in Nat : m = Len(s)
    BY ListedCat
<1>2. PICK n \in Nat : n = Len(t)
    BY ListedCat
<1>3. PICK q : q = s \o t
    OBVIOUS
<1>4. PICK x : x = Encoded(s, e)
    OBVIOUS
<1>5. PICK y : y = Encoded(t, e)
    OBVIOUS
<1>6. PICK z : z = x \o y
    OBVIOUS
<1>7. /\ Len(q) = m + n
      /\ \A i \in 1 .. m + n : q[i] = IF i <= m THEN s[i] ELSE t[i - m]
    BY <1>1, <1>2, <1>3, ListedCat
<1>8. /\ Listed(x) /\ Len(x) = m
      /\ \A i \in 1 .. m : x[i] = Encode(s[i].type, e, s[i].values)
    BY <1>1, <1>4, EncodedListed
<1>9. /\ Listed(y) /\ Len(y) = n
      /\ \A i \in 1 .. n : y[i] = Encode(t[i].type, e, t[i].values)
    BY <1>2, <1>5, EncodedListed
<1>10. /\ Listed(z) /\ Len(z) = m + n
       /\ \A i \in 1 .. m + n : z[i] = IF i <= m THEN x[i] ELSE y[i - m]
    BY <1>6, <1>8, <1>9, ListedCat
<1>11. PICK w : w = Encoded(q, e)
    OBVIOUS
<1>12. w = [i \in 1 .. m + n |-> Encode(q[i].type, e, q[i].values)]
    BY <1>7, <1>11, Zenon DEF Encoded
<1>13. \A i \in 1 .. m + n : z[i] = w[i]
    <2> SUFFICES ASSUME NEW i \in 1 .. m + n PROVE z[i] = w[i]
        OBVIOUS
    <2>1. CASE i <= m
        BY <2>1, <1>7, <1>8, <1>10, <1>12
    <2>2. CASE i > m
        <3>1. i - m \in 1 .. n /\ ~(i <= m)
            BY <2>2
        <3> QED BY <3>1, <1>7, <1>9, <1>10, <1>12
    <2> QED BY <2>1, <2>2
<1>14. z = [i \in 1 .. m + n |-> z[i]]
    BY <1>10 DEF Listed
<1>15. z = w
    BY <1>12, <1>13, <1>14
<1> QED BY <1>3, <1>4, <1>5, <1>6, <1>11, <1>15

\* The events of a command, stored with the context e, make the collection d
\* similar to a.
Restores(a, d, events, e, keep) ==
    /\ Listed(events)
    /\ \E f : Leads(d, Encoded(events, e), f) /\ Similar(a, f, keep)

LEMMA RestoresNone ==
    ASSUME NEW keep, NEW a, NEW d, Similar(a, d, keep), NEW e
    PROVE  Restores(a, d, <<>>, e, keep)
<1>1. PICK s : s = <<>>
    OBVIOUS
<1>2. Listed(s) /\ Len(s) = 0
    <2>1. s \in Seq({})
        BY <1>1
    <2> QED BY <2>1, <1>1 DEF Listed
<1>3. PICK x : x = Encoded(s, e)
    OBVIOUS
<1>4. Len(x) = 0
    BY <1>2, <1>3, EncodedListed
<1>5. PICK G : G = [i \in {0} |-> d]
    OBVIOUS
<1>6. G[0] = d /\ G[Len(x)] = d /\ Passes(G, x)
    BY <1>4, <1>5 DEF Passes
<1>7. Leads(d, x, d)
    BY <1>6, Zenon DEF Leads
<1> QED BY <1>1, <1>2, <1>3, <1>7, Zenon DEF Restores

LEMMA RestoresRead ==
    ASSUME NEW keep, NEW a, NEW d, NEW type, NEW e, NEW p, Readable(type, p),
           NEW w, w = Cut(type, p),
           Import(type, d, e, w).status \in {"OK", "NO_EFFECT"},
           Similar(a, Import(type, d, e, w).db, keep)
    PROVE  Restores(a, d, <<Event(type, p)>>, e, keep)
<1>1. /\ Import(type, d, e, w).status \in {"OK", "NO_EFFECT"}
      /\ Similar(a, Import(type, d, e, w).db, keep)
    OBVIOUS
<1>2. PICK x : x = Encode(type, e, p)
    OBVIOUS
<1>3. Decodes(x) /\ ImporterOf(x) = type /\ x.context = e /\ Values(x) = w
    BY <1>2, ReadBack
<1>4. PICK f : f = Import(type, d, e, w).db
    OBVIOUS
<1>5. Imports(d, x, f)
    BY <1>1, <1>3, <1>4, Zenon DEF Imports
<1>6. PICK y : y = Event(type, p)
    OBVIOUS
<1>7. y.type = type /\ y.values = p
    BY <1>6 DEF Event
<1>8. PICK s : s = <<y>>
    OBVIOUS
<1>9. Listed(s) /\ Len(s) = 1 /\ s[1] = y
    <2>1. s \in Seq({y}) /\ Len(s) = 1 /\ s[1] = y
        BY <1>8
    <2> QED BY <2>1 DEF Listed
<1>10. PICK q : q = Encoded(s, e)
    OBVIOUS
<1>11. Len(q) = 1 /\ q[1] = x
    <2>1. Len(q) = 1 /\ q[1] = Encode(s[1].type, e, s[1].values)
        BY <1>9, <1>10, EncodedListed
    <2> QED BY <2>1, <1>2, <1>7, <1>9
<1>12. PICK G : G = [i \in {0, 1} |-> IF i = 0 THEN d ELSE f]
    OBVIOUS
<1>13. G[0] = d /\ G[1] = f
    BY <1>12
<1>14. Passes(G, q)
    <2>1. Imports(G[1 - 1], q[1], G[1])
        BY <1>5, <1>11, <1>13
    <2> QED BY <2>1, <1>11 DEF Passes
<1>15. Leads(d, q, f)
    BY <1>11, <1>13, <1>14 DEF Leads
<1>16. Restores(a, d, s, e, keep)
    BY <1>1, <1>4, <1>9, <1>10, <1>15, Zenon DEF Restores
<1> QED BY <1>6, <1>8, <1>16

LEMMA RestoresOne ==
    ASSUME NEW keep, NEW a, NEW d, NEW type, NEW e, NEW p, NEW w,
           Follows(a, d, type, e, p, w, keep), Recordable(type, w)
    PROVE  Restores(a, d, <<Event(type, p)>>, e, keep)
<1>1. /\ p = w
      /\ Import(type, d, e, w).status \in {"OK", "NO_EFFECT"}
      /\ Similar(a, Import(type, d, e, w).db, keep)
    BY Zenon DEF Follows
<1>2. Readable(type, p) /\ w = Cut(type, p)
    BY <1>1, Uncut DEF Recordable
<1> QED BY <1>1, <1>2, RestoresRead

LEMMA RestoresOther ==
    ASSUME NEW keep, NEW a, NEW d, Similar(a, d, keep), NEW type \in OtherEvent, NEW e,
           NEW w, Recordable(type, w)
    PROVE  Restores(a, d, <<Event(type, w)>>, e, keep)
<1>1. Import(type, d, e, w) = Ok(d)
    BY ImportBy
<1>2. Follows(a, d, type, e, w, w, keep)
    BY <1>1 DEF Follows, Ok, Result
<1> QED BY <1>2, RestoresOne

LEMMA RestoresCat ==
    ASSUME NEW keep, NEW a, NEW d, NEW s, NEW e, Restores(a, d, s, e, keep),
           NEW g, NEW t, \A f : Similar(a, f, keep) => Restores(g, f, t, e, keep)
    PROVE  Restores(g, d, s \o t, e, keep)
<1>1. PICK f : Leads(d, Encoded(s, e), f) /\ Similar(a, f, keep)
    BY Zenon DEF Restores
<1>2. Restores(g, f, t, e, keep)
    BY <1>1
<1>3. PICK h : Leads(f, Encoded(t, e), h) /\ Similar(g, h, keep)
    BY <1>2, Zenon DEF Restores
<1>4. Listed(s) /\ Listed(t)
    BY <1>2, Zenon DEF Restores
<1>5. Listed(Encoded(s, e)) /\ Listed(Encoded(t, e))
    BY <1>4, EncodedListed
<1>6. Leads(d, Encoded(s, e) \o Encoded(t, e), h)
    BY <1>1, <1>3, <1>5, LeadsCat
<1>7. Leads(d, Encoded(s \o t, e), h)
    <2>1. Encoded(s \o t, e) = Encoded(s, e) \o Encoded(t, e)
        BY <1>4, EncodedCat
    <2> QED BY <2>1, <1>6, Zenon
<1>8. Listed(s \o t)
    BY <1>4, ListedCat
<1> QED BY <1>3, <1>7, <1>8, Zenon DEF Restores

LEMMA SetInOrder ==
    ASSUME NEW S, IsFiniteSet(S), NEW q, q = SetToSeq(S)
    PROVE  /\ Cardinality(S) \in Nat
           /\ q \in [1 .. Cardinality(S) -> S]
           /\ \A i, j \in 1 .. Cardinality(S) : q[i] = q[j] => i = j
           /\ \A x \in S : \E i \in 1 .. Cardinality(S) : q[i] = x
<1>1. PICK n : n = Cardinality(S)
    OBVIOUS
<1>2. n \in Nat /\ ExistsBijection(1 .. n, S)
    BY <1>1, FS_CardinalityType
<1>3. \E f \in [1 .. n -> S] : IsInjective(f)
    <2>1. PICK f : f \in Bijection(1 .. n, S)
        BY <1>2 DEF ExistsBijection
    <2>2. f \in [1 .. n -> S] /\ \A a, b \in 1 .. n : f[a] = f[b] => a = b
        BY <2>1 DEF Bijection, Injection, IsInjective
    <2>3. IsInjective(f)
        BY <2>2 DEF IsInjective
    <2> QED BY <2>2, <2>3
<1>4. q = CHOOSE f \in [1 .. n -> S] : IsInjective(f)
    BY <1>1, Zenon DEF SetToSeq
<1>5. q \in [1 .. n -> S] /\ IsInjective(q)
    BY <1>3, <1>4, Zenon
<1>6. \A i, j \in 1 .. n : q[i] = q[j] => i = j
    BY <1>5 DEF IsInjective
<1>7. q \in Injection(1 .. n, S)
    BY <1>5, <1>6 DEF Injection, IsInjective
<1>8. Cardinality(1 .. n) = Cardinality(S)
    BY <1>1, <1>2, FS_Interval
<1>9. q \in Surjection(1 .. n, S)
    BY <1>7, <1>8, FS_Injection
<1>10. \A x \in S : \E i \in 1 .. n : q[i] = x
    BY <1>9 DEF Surjection
<1> QED BY <1>1, <1>2, <1>5, <1>6, <1>10

LEMMA QuoteThose ==
    ASSUME NEW a, "users" \in DOMAIN a, NEW message, NEW U
    PROVE  Quote(a, message, U) = Quote(a, message, U \cap DOMAIN a["users"])
<1>1. PICK S : S = U \cap DOMAIN a["users"]
    OBVIOUS
<1>2. PICK F : F = [u \in DOMAIN a["users"] |-> IF u \in U THEN Quoted(a["users"][u], message)
                                                ELSE a["users"][u]]
    OBVIOUS
<1>3. F = [u \in DOMAIN a["users"] |-> IF u \in S THEN Quoted(a["users"][u], message)
                                       ELSE a["users"][u]]
    BY <1>1, <1>2
<1>4. Quote(a, message, U) = [a EXCEPT !["users"] = F]
    BY <1>2, QuoteUsers
<1>5. Quote(a, message, S) = [a EXCEPT !["users"] = F]
    BY <1>3, QuoteUsers
<1> QED BY <1>1, <1>4, <1>5

LEMMA RestoresQuotes ==
    ASSUME NEW keep, NEW a, NEW d, Similar(a, d, keep), NEW e, NEW message, NEW U
    PROVE  Restores(Quote(a, message, U), d, QuoteEvents(a, message, U), e, keep)
<1>1. /\ "users" \in Kind /\ DOMAIN a = Kind \cup {"subscribedThreads"}
      /\ DOMAIN d = DOMAIN a /\ DOMAIN a["users"] = DOMAIN d["users"]
      /\ IsFiniteSet(DOMAIN a["users"])
    BY DEF Kind, Similar
<1>2. PICK S : S = U \cap DOMAIN a["users"]
    OBVIOUS
<1>3. IsFiniteSet(S)
    BY <1>1, <1>2, FS_Subset
<1>4. PICK q : q = SetToSeq(S)
    OBVIOUS
<1>5. PICK n : n = Cardinality(S)
    OBVIOUS
<1>6. /\ n \in Nat /\ q \in [1 .. n -> S]
      /\ \A i, j \in 1 .. n : q[i] = q[j] => i = j
      /\ \A x \in S : \E i \in 1 .. n : q[i] = x
    BY <1>3, <1>4, <1>5, SetInOrder
<1>7. Len(q) = n
    BY <1>6
<1>8. PICK type : type = "QUOTE_USER_IN_DISCUSSION_THREAD_MESSAGE"
    OBVIOUS
<1>9. PICK events : events = QuoteEvents(a, message, U)
    OBVIOUS
<1>10. events = [i \in 1 .. n |-> Event(type, <<message, q[i]>>)]
    BY <1>2, <1>4, <1>7, <1>8, <1>9, Zenon DEF QuoteEvents
<1>11. Listed(events) /\ Len(events) = n
    <2>1. PICK T : T = {Event(type, <<message, q[i]>>) : i \in 1 .. n}
        OBVIOUS
    <2>2. events \in Seq(T) /\ Len(events) = n
        BY <2>1, <1>6, <1>10
    <2> QED BY <2>2 DEF Listed
<1>12. PICK s : s = Encoded(events, e)
    OBVIOUS
<1>13. /\ Len(s) = n
       /\ \A i \in 1 .. n : s[i] = Encode(type, e, <<message, q[i]>>)
    <2>1. \A i \in 1 .. n : events[i].type = type /\ events[i].values = <<message, q[i]>>
        BY <1>10 DEF Event
    <2>2. /\ Len(s) = n
          /\ \A i \in 1 .. n : s[i] = Encode(events[i].type, e, events[i].values)
        BY <1>11, <1>12, EncodedListed
    <2> QED BY <2>1, <2>2
<1> DEFINE Done(i) == {q[j] : j \in 1 .. i}
<1>14. PICK G : G = [i \in 0 .. n |-> IF i = 0 THEN d ELSE Quote(d, message, Done(i))]
    OBVIOUS
<1>15. Passes(G, s)
    <2> SUFFICES ASSUME NEW i \in 1 .. n PROVE Imports(G[i - 1], s[i], G[i])
        BY <1>13 DEF Passes
    <2>1. PICK V : V = Done(i - 1)
        OBVIOUS
    <2>2. q[i] \in DOMAIN d["users"] \ V
        <3>1. q[i] \in S
            BY <1>6
        <3>2. \A j \in 1 .. i - 1 : q[j] # q[i]
            BY <1>6
        <3> QED BY <3>1, <3>2, <2>1, <1>1, <1>2
    <2>3. Done(i) = V \cup {q[i]}
        <3>1. \A j : j \in 1 .. i <=> j \in 1 .. i - 1 \/ j = i
            OBVIOUS
        <3> QED BY <3>1, <2>1
    <2>4. G[i - 1] = Quote(d, message, V) \/ (G[i - 1] = d /\ V = {})
        <3>1. i - 1 \in 0 .. n
            BY <1>6
        <3>2. CASE i - 1 = 0
            <4>1. V = {}
                BY <3>2, <2>1
            <4>2. G[i - 1] = d
                BY <3>1, <3>2, <1>14
            <4> QED BY <4>1, <4>2
        <3>3. CASE i - 1 # 0
            <4>1. G[i - 1] = Quote(d, message, Done(i - 1))
                BY <3>1, <3>3, <1>14
            <4> QED BY <4>1, <2>1, Zenon
        <3> QED BY <3>2, <3>3
    <2>5. G[i] = Quote(d, message, V \cup {q[i]})
        BY <2>3, <1>14
    <2> HIDE DEF Done
    <2>6. PICK w : w = <<message, q[i]>>
        OBVIOUS
    <2>7. Import(type, G[i - 1], e, w) = Ok(G[i])
        BY <2>2, <2>4, <2>5, <2>6, <1>1, <1>8, QuoteOnce
    <2>8. Recordable(type, w)
        <3>1. Carries(type, 2, {})
            BY <1>8, PayloadsAssumption
        <3>2. Tuple(2, w)
            BY <2>6, Tuples
        <3>3. \A j \in {} : Named(w[j])
            OBVIOUS
        <3>4. type # "CHANGE_DISCUSSION_CATEGORY_DISPLAY_ORDER"
            BY <1>8
        <3> QED BY <3>1, <3>2, <3>3, <3>4, CarriesRecordable
    <2>9. PICK x : x = Encode(type, e, w)
        OBVIOUS
    <2>10. Decodes(x) /\ ImporterOf(x) = type /\ x.context = e /\ Values(x) = w
        <3>1. Readable(type, w)
            BY <2>8 DEF Recordable
        <3>2. Cut(type, w) = w
            BY <2>8, Uncut
        <3> QED BY <3>1, <3>2, <2>9, ReadBack
    <2>11. /\ Import(type, G[i - 1], e, w).status \in {"OK", "NO_EFFECT"}
           /\ G[i] = Import(type, G[i - 1], e, w).db
        BY <2>7 DEF Ok, Result
    <2>12. Imports(G[i - 1], x, G[i])
        BY <2>10, <2>11, Zenon DEF Imports
    <2>13. s[i] = x
        BY <2>6, <2>9, <1>13
    <2> QED BY <2>12, <2>13
<1>16. Leads(d, s, G[n])
    <2>1. G[0] = d
        BY <1>6, <1>14
    <2> QED BY <2>1, <1>13, <1>15 DEF Leads
<1>17. Similar(Quote(a, message, U), G[n], keep)
    <2>1. CASE n = 0
        <3>1. S = {}
            BY <2>1, <1>6
        <3>2. G[n] = d
            BY <2>1, <1>14
        <3>3. Similar(Quote(a, message, U), d, keep)
            BY <3>1, <1>2, QuoteNobody
        <3> QED BY <3>2, <3>3
    <2>2. CASE n # 0
        <3>1. Done(n) = S
            BY <1>6
        <3>2. G[n] = Quote(d, message, S)
            BY <2>2, <3>1, <1>6, <1>14
        <3>3. Quote(a, message, U) = Quote(a, message, S)
            BY <1>1, <1>2, QuoteThose
        <3>4. Similar(Quote(a, message, S), Quote(d, message, S), keep)
            BY QuoteAlike
        <3> QED BY <3>2, <3>3, <3>4
    <2> QED BY <2>1, <2>2
<1>18. PICK f : f = G[n]
    OBVIOUS
<1>19. Restores(Quote(a, message, U), d, events, e, keep)
    BY <1>11, <1>12, <1>16, <1>17, Zenon DEF Restores
<1> QED BY <1>9, <1>19
-----------------------------------------------------------------------------
(* Commands.                                                                *)

\* A command with the context c takes the collection a to g, and its events,
\* stored with a context that agrees with c, do so to any collection similar
\* to a.
Recorded(a, c, g, events, keep) ==
    \A d, e : Similar(a, d, keep) /\ SameContext(c, e, keep)
                  => Restores(g, d, events, e, keep)

LEMMA RecordedNone ==
    ASSUME NEW keep, NEW a, NEW c
    PROVE  Recorded(a, c, a, <<>>, keep)
BY RestoresNone DEF Recorded

LEMMA RecordedOne ==
    ASSUME NEW keep, NEW a, NEW c, NEW g, NEW type, NEW p, NEW w, Recordable(type, w),
           \A d, e : Similar(a, d, keep) /\ SameContext(c, e, keep)
                         => Follows(g, d, type, e, p, w, keep)
    PROVE  Recorded(a, c, g, <<Event(type, p)>>, keep)
BY RestoresOne DEF Recorded

LEMMA RecordedOther ==
    ASSUME NEW keep, NEW a, NEW c, NEW type \in OtherEvent, NEW w, Recordable(type, w)
    PROVE  Recorded(a, c, a, <<Event(type, w)>>, keep)
BY RestoresOther DEF Recorded

LEMMA RecordedCat ==
    ASSUME NEW keep, NEW a, NEW c, NEW g, NEW s, Recorded(a, c, g, s, keep),
           NEW h, NEW t, Recorded(g, c, h, t, keep)
    PROVE  Recorded(a, c, h, s \o t, keep)
<1> SUFFICES ASSUME NEW d, NEW e, Similar(a, d, keep), SameContext(c, e, keep)
             PROVE  Restores(h, d, s \o t, e, keep)
    BY DEF Recorded
<1>1. Restores(g, d, s, e, keep)
    BY DEF Recorded
<1>2. \A f : Similar(g, f, keep) => Restores(h, f, t, e, keep)
    BY DEF Recorded
<1> QED BY <1>1, <1>2, RestoresCat

LEMMA RecordedQuotes ==
    ASSUME NEW keep, NEW a, NEW c, NEW message, NEW U
    PROVE  Recorded(a, c, Quote(a, message, U), QuoteEvents(a, message, U), keep)
BY RestoresQuotes DEF Recorded

\* The events with an identifier and a value.
Changes ==
    {"CHANGE_USER_NAME", "CHANGE_DISCUSSION_THREAD_NAME", "ADD_NEW_DISCUSSION_TAG",
     "CHANGE_DISCUSSION_TAG_NAME", "CHANGE_DISCUSSION_CATEGORY_NAME",
     "CHANGE_ATTACHMENT_NAME"}
QuietChanges ==
    {"CHANGE_USER_INFO", "CHANGE_USER_TITLE", "CHANGE_USER_SIGNATURE",
     "CHANGE_USER_LOGO", "CHANGE_USER_ATTACHMENT_QUOTA",
     "CHANGE_DISCUSSION_THREAD_PIN_DISPLAY_ORDER", "CHANGE_DISCUSSION_THREAD_APPROVAL",
     "CHANGE_DISCUSSION_THREAD_MESSAGE_APPROVAL",
     "QUOTE_USER_IN_DISCUSSION_THREAD_MESSAGE", "CHANGE_DISCUSSION_TAG_UI_BLOB",
     "CHANGE_DISCUSSION_CATEGORY_DESCRIPTION",
     "CHANGE_DISCUSSION_CATEGORY_DISPLAY_ORDER", "CHANGE_DISCUSSION_CATEGORY_PARENT",
     "CHANGE_ATTACHMENT_APPROVAL"}

LEMMA ChangesRecordable ==
    ASSUME NEW type \in Changes \cup QuietChanges, NEW id, NEW y,
           type \in Changes => Named(y)
    PROVE  /\ Readable(type, <<id, y>>)
           /\ type # "CHANGE_DISCUSSION_CATEGORY_DISPLAY_ORDER" => Recordable(type, <<id, y>>)
<1>1. PICK w : w = <<id, y>>
    OBVIOUS
<1>2. w[2] = y
    BY <1>1
<1>3. Tuple(2, w)
    BY <1>1, Tuples
<1>4. CASE type \in Changes
    <2>1. Carries(type, 2, {2})
        BY <1>4, PayloadsAssumption DEF Changes
    <2>2. \A i \in {2} : Named(w[i])
        BY <1>2, <1>4
    <2> QED BY <2>1, <2>2, <1>1, <1>2, <1>3, CarriesRecordable
<1>5. CASE type \in QuietChanges
    <2>1. Carries(type, 2, {})
        BY <1>5, PayloadsAssumption DEF QuietChanges
    <2>2. \A i \in {} : Named(w[i])
        OBVIOUS
    <2> QED BY <2>1, <2>2, <1>1, <1>2, <1>3, CarriesRecordable
<1> QED BY <1>4, <1>5

LEMMA UserRecorded ==
    ASSUME NEW keep, NEW a, NEW c, NEW v,
           NEW type \in UserEvent \ {"ADD_NEW_USER"},
           type = "CHANGE_USER_NAME" => Named(v[2]),
           NEW r, r = ImportUserEvent(type, a, c, v), r.status = "OK"
    PROVE  Recorded(a, c, r.db,
                    <<Event(type, UserPayload(type, v[1], r.db.users[v[1]]))>>, keep)
<1>1. PICK id : id = v[1]
    OBVIOUS
<1>2. PICK new : new = v[2]
    OBVIOUS
<1>3. Recordable(type, <<id, new>>)
    <2>1. type \in Changes \cup QuietChanges
        BY DEF UserEvent, Changes, QuietChanges
    <2>2. type \in Changes => type = "CHANGE_USER_NAME"
        BY DEF UserEvent, Changes
    <2>3. type # "CHANGE_DISCUSSION_CATEGORY_DISPLAY_ORDER"
        BY DEF UserEvent
    <2> QED BY <2>1, <2>2, <2>3, <1>2, ChangesRecordable
<1>4. PICK p : p = UserPayload(type, id, r.db.users[id])
    OBVIOUS
<1>5. ASSUME NEW d, NEW e, Similar(a, d, keep), SameContext(c, e, keep)
      PROVE  Follows(r.db, d, type, e, p, <<id, new>>, keep)
    BY <1>1, <1>2, <1>4, <1>5, UserFollows
<1>6. Recorded(a, c, r.db, <<Event(type, p)>>, keep)
    BY <1>3, <1>5, RecordedOne
<1> QED BY <1>1, <1>4, <1>6

LEMMA LogoRecorded ==
    ASSUME NEW keep, NEW a, NEW c, NEW id, NEW type, type = "CHANGE_USER_LOGO",
           NEW r, r = deleteUserLogo(a, c, id), r.status = "OK"
    PROVE  Recorded(a, c, r.db, <<Event(type, UserPayload(type, id, r.db.users[id]))>>, keep)
<1>1. Recordable(type, <<id, "">>)
    <2>1. type \in QuietChanges /\ type \notin Changes
        BY DEF Changes, QuietChanges
    <2> QED BY <2>1, ChangesRecordable
<1>2. PICK p : p = UserPayload(type, id, r.db.users[id])
    OBVIOUS
<1>3. ASSUME NEW d, NEW e, Similar(a, d, keep), SameContext(c, e, keep)
      PROVE  Follows(r.db, d, type, e, p, <<id, "">>, keep)
    BY <1>2, <1>3, LogoFollows
<1>4. Recorded(a, c, r.db, <<Event(type, p)>>, keep)
    BY <1>1, <1>3, RecordedOne
<1> QED BY <1>2, <1>4

LEMMA NewUserRecorded ==
    ASSUME NEW keep, NEW a, NEW c, NEW id, Named(id), id \notin DOMAIN a.users,
           NEW name, Named(name), NEW auth, Named(auth),
           NEW type, type = "ADD_NEW_USER",
           NEW r, r = addNewUser(a, c, id, name, auth), r.status = "OK"
    PROVE  Recorded(a, c, r.db, <<Event(type, UserPayload(type, id, r.db.users[id]))>>, keep)
<1>1. PICK w : w = <<id, auth, name>>
    OBVIOUS
<1>2. Recordable(type, w)
    <2>1. Carries(type, 3, {2, 3})
        BY PayloadsAssumption
    <2>2. Tuple(3, w)
        BY <1>1, Tuples
    <2>3. \A i \in {2, 3} : Named(w[i])
        BY <1>1
    <2> QED BY <2>1, <2>2, <2>3, CarriesRecordable
<1>3. PICK p : p = UserPayload(type, id, r.db.users[id])
    OBVIOUS
<1>4. ASSUME NEW d, NEW e, Similar(a, d, keep), SameContext(c, e, keep)
      PROVE  Follows(r.db, d, type, e, p, w, keep)
    BY <1>1, <1>3, <1>4, NewUserFollows
<1>5. Recorded(a, c, r.db, <<Event(type, p)>>, keep)
    BY <1>2, <1>4, RecordedOne
<1> QED BY <1>3, <1>5

\* A grant has no effect here.
LEMMA GrantRecorded ==
    ASSUME NEW keep, NEW a, NEW c, NEW x, NEW y, NEW z
    PROVE  /\ Recorded(a, c, a, <<Event("ASSIGN_FORUM_WIDE_PRIVILEGE", <<x, y, z>>)>>, keep)
           /\ \A t : Recorded(a, c, a,
                         <<Event("ASSIGN_DISCUSSION_THREAD_PRIVILEGE", <<x, y, z, t>>)>>, keep)
           /\ \A t : Recorded(a, c, a,
                         <<Event("ASSIGN_DISCUSSION_THREAD_MESSAGE_PRIVILEGE",
                                 <<x, y, z, t>>)>>, keep)
<1>1. \A i \in {} : FALSE
    OBVIOUS
<1>2. ASSUME NEW type \in {"ASSIGN_FORUM_WIDE_PRIVILEGE",
                           "ASSIGN_DISCUSSION_THREAD_PRIVILEGE",
                           "ASSIGN_DISCUSSION_THREAD_MESSAGE_PRIVILEGE"},
             NEW n, Carries(type, n, {}), NEW w, Tuple(n, w)
      PROVE  Recorded(a, c, a, <<Event(type, w)>>, keep)
    <2>1. type \in OtherEvent
        <3>1. type \in Range(EventType)
            BY <1>2, Zenon DEF Carries
        <3> QED BY <3>1 DEF OtherEvent, UserEvent, ThreadEvent, MessageEvent,
                            TagOrCategoryEvent, AttachmentEvent
    <2>2. Recordable(type, w)
        <3>1. \A i \in {} : Named(w[i])
            OBVIOUS
        <3>2. type # "CHANGE_DISCUSSION_CATEGORY_DISPLAY_ORDER"
            OBVIOUS
        <3> QED BY <3>1, <3>2, <1>2, CarriesRecordable
    <2> QED BY <2>1, <2>2, RecordedOther
<1>3. Recorded(a, c, a, <<Event("ASSIGN_FORUM_WIDE_PRIVILEGE", <<x, y, z>>)>>, keep)
    <2>1. Carries("ASSIGN_FORUM_WIDE_PRIVILEGE", 3, {})
        BY PayloadsAssumption
    <2> QED BY <2>1, <1>2, Tuples
<1>4. ASSUME NEW t, NEW type \in {"ASSIGN_DISCUSSION_THREAD_PRIVILEGE",
                                  "ASSIGN_DISCUSSION_THREAD_MESSAGE_PRIVILEGE"}
      PROVE  Recorded(a, c, a, <<Event(type, <<x, y, z, t>>)>>, keep)
    <2>1. Carries(type, 4, {})
        BY PayloadsAssumption
    <2> QED BY <2>1, <1>2, Tuples
<1> QED BY <1>3, <1>4

LEMMA NewThreadRecorded ==
    ASSUME NEW keep, NEW a, NEW c, NEW id, id \notin DOMAIN a["threads"],
           NEW name, Named(name), NEW approved \in BOOLEAN,
           NEW type, type = "ADD_NEW_DISCUSSION_THREAD",
           NEW r, r = addNewDiscussionThread(a, c, id, name, approved)
    PROVE  Recorded(a, c, r.db, <<Event(type, ThreadPayload(type, id, r.db.threads[id]))>>,
                    keep)
<1>1. PICK w : w = <<id, name, Flag(approved)>>
    OBVIOUS
<1>2. Recordable(type, w)
    <2>1. Carries(type, 3, {2})
        BY PayloadsAssumption
    <2>2. Tuple(3, w)
        BY <1>1, Tuples
    <2>3. \A i \in {2} : Named(w[i])
        BY <1>1
    <2> QED BY <2>1, <2>2, <2>3, CarriesRecordable
<1>3. PICK p : p = ThreadPayload(type, id, r.db.threads[id])
    OBVIOUS
<1>4. ASSUME NEW d, NEW e, Similar(a, d, keep), SameContext(c, e, keep)
      PROVE  Follows(r.db, d, type, e, p, w, keep)
    BY <1>1, <1>3, <1>4, NewThreadFollows
<1>5. Recorded(a, c, r.db, <<Event(type, p)>>, keep)
    BY <1>2, <1>4, RecordedOne
<1> QED BY <1>3, <1>5

LEMMA ThreadRecorded ==
    ASSUME NEW keep, NEW a, NEW c, NEW v,
           NEW type \in ThreadEvent \ {"ADD_NEW_DISCUSSION_THREAD",
                                       "SUBSCRIBE_TO_DISCUSSION_THREAD",
                                       "UNSUBSCRIBE_FROM_DISCUSSION_THREAD"},
           type = "CHANGE_DISCUSSION_THREAD_NAME" => Named(v[2]), Counted(type, v[2]),
           NEW r, r = ImportThreadEvent(type, a, c, v), r.status = "OK"
    PROVE  Recorded(a, c, r.db,
                    <<Event(type, ThreadPayload(type, v[1], r.db.threads[v[1]]))>>, keep)
<1>1. PICK id : id = v[1]
    OBVIOUS
<1>2. PICK new : new = v[2]
    OBVIOUS
<1>3. PICK y : y = Tells(type, new)
    OBVIOUS
<1>4. Recordable(type, <<id, y>>)
    <2>1. type \in Changes \cup QuietChanges
        BY DEF ThreadEvent, Changes, QuietChanges
    <2>2. type \in Changes => Named(y)
        <3>1. type \in Changes => type = "CHANGE_DISCUSSION_THREAD_NAME"
            BY DEF ThreadEvent, Changes
        <3> QED BY <3>1, <1>2, <1>3 DEF Tells, Told, Kept, Approval
    <2>3. type # "CHANGE_DISCUSSION_CATEGORY_DISPLAY_ORDER"
        BY DEF ThreadEvent
    <2> QED BY <2>1, <2>2, <2>3, ChangesRecordable
<1>5. PICK p : p = ThreadPayload(type, id, r.db.threads[id])
    OBVIOUS
<1>6. ASSUME NEW d, NEW e, Similar(a, d, keep), SameContext(c, e, keep)
      PROVE  Follows(r.db, d, type, e, p, <<id, y>>, keep)
    BY <1>1, <1>2, <1>3, <1>5, <1>6, ThreadFollows
<1>7. Recorded(a, c, r.db, <<Event(type, p)>>, keep)
    BY <1>4, <1>6, RecordedOne
<1> QED BY <1>1, <1>5, <1>7

LEMMA OneRecordable ==
    ASSUME NEW type \in {"SUBSCRIBE_TO_DISCUSSION_THREAD",
                         "UNSUBSCRIBE_FROM_DISCUSSION_THREAD"}, NEW id
    PROVE  Recordable(type, <<id>>)
<1>1. Carries(type, 1, {})
    BY PayloadsAssumption
<1>2. PICK w : w = <<id>>
    OBVIOUS
<1>3. Tuple(1, w)
    BY <1>2, Tuples
<1>4. \A i \in {} : Named(w[i])
    OBVIOUS
<1>5. type # "CHANGE_DISCUSSION_CATEGORY_DISPLAY_ORDER"
    OBVIOUS
<1> QED BY <1>1, <1>2, <1>3, <1>4, <1>5, CarriesRecordable

LEMMA SubscriptionRecorded ==
    ASSUME NEW keep, NEW a, NEW c, Named(getCurrentUser(a, c)), NEW v,
           NEW type \in {"SUBSCRIBE_TO_DISCUSSION_THREAD",
                         "UNSUBSCRIBE_FROM_DISCUSSION_THREAD"},
           NEW r, r = ImportThreadEvent(type, a, c, v), r.status = "OK"
    PROVE  Recorded(a, c, r.db,
                    <<Event(type, ThreadPayload(type, v[1], r.db.threads[v[1]]))>>, keep)
<1>1. PICK id : id = v[1]
    OBVIOUS
<1>2. PICK w : w = <<id>>
    OBVIOUS
<1>3. Recordable(type, w)
    BY <1>2, OneRecordable
<1>4. PICK p : p = ThreadPayload(type, id, r.db.threads[id])
    OBVIOUS
<1>5. ASSUME NEW d, NEW e, Similar(a, d, keep), SameContext(c, e, keep)
      PROVE  Follows(r.db, d, type, e, p, w, keep)
    BY <1>1, <1>2, <1>4, <1>5, SubscriptionFollows
<1>6. Recorded(a, c, r.db, <<Event(type, p)>>, keep)
    BY <1>3, <1>5, RecordedOne
<1> QED BY <1>1, <1>4, <1>6

LEMMA TagRecorded ==
    ASSUME NEW keep, NEW a, NEW c, NEW v,
           NEW type \in {"CHANGE_DISCUSSION_TAG_NAME", "CHANGE_DISCUSSION_TAG_UI_BLOB"},
           type = "CHANGE_DISCUSSION_TAG_NAME" => Named(v[2]),
           NEW r, r = ImportTagOrCategoryEvent(type, a, c, v), r.status = "OK"
    PROVE  Recorded(a, c, r.db,
                    <<Event(type, TagPayload(type, v[1], r.db.tags[v[1]]))>>, keep)
<1>1. PICK id : id = v[1]
    OBVIOUS
<1>2. PICK new : new = v[2]
    OBVIOUS
<1>3. PICK y : y = new
    OBVIOUS
<1>4. Recordable(type, <<id, y>>)
    <2>1. type \in Changes \cup QuietChanges
        BY DEF Changes, QuietChanges
    <2>2. type \in Changes => type = "CHANGE_DISCUSSION_TAG_NAME"
        BY DEF Changes
    <2>3. type # "CHANGE_DISCUSSION_CATEGORY_DISPLAY_ORDER"
        OBVIOUS
    <2> QED BY <2>1, <2>2, <2>3, <1>2, <1>3, ChangesRecordable
<1>5. PICK p : p = TagPayload(type, id, r.db.tags[id])
    OBVIOUS
<1>6. ASSUME NEW d, NEW e, Similar(a, d, keep), SameContext(c, e, keep)
      PROVE  Follows(r.db, d, type, e, p, <<id, y>>, keep)
    BY <1>1, <1>2, <1>3, <1>5, <1>6, TagFollows
<1>7. Recorded(a, c, r.db, <<Event(type, p)>>, keep)
    BY <1>4, <1>6, RecordedOne
<1> QED BY <1>1, <1>5, <1>7

LEMMA CategoryRecorded ==
    ASSUME NEW keep, NEW a, NEW c, NEW v,
           NEW type \in {"CHANGE_DISCUSSION_CATEGORY_NAME",
                         "CHANGE_DISCUSSION_CATEGORY_DESCRIPTION"},
           type = "CHANGE_DISCUSSION_CATEGORY_NAME" => Named(v[2]),
           NEW r, r = ImportTagOrCategoryEvent(type, a, c, v), r.status = "OK"
    PROVE  Recorded(a, c, r.db,
                    <<Event(type, CategoryPayload(type, v[1], r.db.categories[v[1]]))>>, keep)
<1>1. PICK id : id = v[1]
    OBVIOUS
<1>2. PICK new : new = v[2]
    OBVIOUS
<1>3. Recordable(type, <<id, new>>)
    <2>1. type \in Changes \cup QuietChanges
        BY DEF Changes, QuietChanges
    <2>2. type \in Changes => type = "CHANGE_DISCUSSION_CATEGORY_NAME"
        BY DEF Changes
    <2>3. type # "CHANGE_DISCUSSION_CATEGORY_DISPLAY_ORDER"
        OBVIOUS
    <2> QED BY <2>1, <2>2, <2>3, <1>2, ChangesRecordable
<1>4. PICK p : p = CategoryPayload(type, id, r.db.categories[id])
    OBVIOUS
<1>5. ASSUME NEW d, NEW e, Similar(a, d, keep), SameContext(c, e, keep)
      PROVE  Follows(r.db, d, type, e, p, <<id, new>>, keep)
    BY <1>1, <1>2, <1>4, <1>5, CategoryFollows
<1>6. Recorded(a, c, r.db, <<Event(type, p)>>, keep)
    BY <1>3, <1>5, RecordedOne
<1> QED BY <1>1, <1>4, <1>6

LEMMA OrderRecorded ==
    ASSUME NEW keep, NEW a, NEW c, NEW v, v[2] \in Nat,
           NEW type, type = "CHANGE_DISCUSSION_CATEGORY_DISPLAY_ORDER",
           NEW r, r = ImportTagOrCategoryEvent(type, a, c, v), r.status = "OK"
    PROVE  Recorded(a, c, r.db,
                    <<Event(type, CategoryPayload(type, v[1], r.db.categories[v[1]]))>>, keep)
<1>1. PICK id : id = v[1]
    OBVIOUS
<1>2. PICK m \in Nat : m = v[2]
    OBVIOUS
<1>3. PICK p : p = <<id, m>>
    OBVIOUS
<1>4. PICK w : w = <<id, Signed(m)>>
    OBVIOUS
<1>5. Readable(type, p)
    <2>1. type \in QuietChanges /\ type \notin Changes
        BY DEF Changes, QuietChanges
    <2> QED BY <2>1, <1>3, ChangesRecordable
<1>6. w = Cut(type, p)
    <2>1. Carries(type, 2, {})
        BY PayloadsAssumption
    <2>2. PICK f : f = Written[type].fields
        OBVIOUS
    <2>3. Len(f) = 2 /\ f[2] = "i16" /\ f[1] # "i16"
        <3>1. Len(f) = 2 /\ type \in Range(EventType)
            BY <2>1, <2>2 DEF Carries
        <3>2. f[2] = "i16"
            BY <2>2, PayloadsAssumption
        <3>3. \A i \in 1 .. Len(f) : f[i] = "i16" => i = 2
            BY <3>1, <2>2, PayloadsAssumption, Zenon
        <3> QED BY <3>1, <3>2, <3>3
    <2>4. Cut(type, p) = [i \in 1 .. Len(f) |-> IF f[i] = "i16" THEN Signed(p[i]) ELSE p[i]]
        BY <2>2, Zenon DEF Cut
    <2>5. p[1] = id /\ p[2] = m
        BY <1>3
    <2>6. PICK s : s = Signed(m)
        OBVIOUS
    <2>7. Cut(type, p) = [i \in 1 .. 2 |-> IF i = 2 THEN s ELSE id]
        BY <2>3, <2>4, <2>5, <2>6
    <2>8. <<id, s>> = [i \in 1 .. 2 |-> IF i = 2 THEN s ELSE id]
        OBVIOUS
    <2> QED BY <2>6, <2>7, <2>8, <1>4
<1>7. PICK q : q = CategoryPayload(type, id, r.db.categories[id])
    OBVIOUS
<1>8. ASSUME NEW d, NEW e, Similar(a, d, keep), SameContext(c, e, keep)
      PROVE  Restores(r.db, d, <<Event(type, q)>>, e, keep)
    <2>1. /\ q = p
          /\ Import(type, d, e, w).status \in {"OK", "NO_EFFECT"}
          /\ Similar(r.db, Import(type, d, e, w).db, keep)
        BY <1>1, <1>2, <1>3, <1>4, <1>7, <1>8, OrderFollows
    <2> QED BY <2>1, <1>5, <1>6, RestoresRead
<1>9. Recorded(a, c, r.db, <<Event(type, q)>>, keep)
    BY <1>8, Zenon DEF Recorded
<1> QED BY <1>1, <1>7, <1>9

LEMMA ParentRecorded ==
    ASSUME NEW keep, NEW a, NEW c, NEW v,
           NEW type, type = "CHANGE_DISCUSSION_CATEGORY_PARENT",
           NEW r, r = ImportTagOrCategoryEvent(type, a, c, v), r.status = "OK"
    PROVE  Recorded(a, c, r.db,
                    <<Event(type, CategoryPayload(type, v[1], r.db.categories[v[1]]))>>, keep)
<1>1. PICK id : id = v[1]
    OBVIOUS
<1>2. PICK new : new = v[2]
    OBVIOUS
<1>3. PICK y : y = IF new \in DOMAIN a.categories THEN new ELSE ""
    OBVIOUS
<1>4. Recordable(type, <<id, y>>)
    <2>1. type \in QuietChanges /\ type \notin Changes
        BY DEF Changes, QuietChanges
    <2> QED BY <2>1, ChangesRecordable
<1>5. PICK p : p = CategoryPayload(type, id, r.db.categories[id])
    OBVIOUS
<1>6. ASSUME NEW d, NEW e, Similar(a, d, keep), SameContext(c, e, keep)
      PROVE  Follows(r.db, d, type, e, p, <<id, y>>, keep)
    BY <1>1, <1>2, <1>3, <1>5, <1>6, ParentFollows
<1>7. Recorded(a, c, r.db, <<Event(type, p)>>, keep)
    BY <1>4, <1>6, RecordedOne
<1> QED BY <1>1, <1>5, <1>7

LEMMA AttachmentRecorded ==
    ASSUME NEW keep, NEW a, NEW c, NEW v,
           NEW type \in AttachmentEvent \ {"ADD_NEW_ATTACHMENT"},
           type = "CHANGE_ATTACHMENT_NAME" => Named(v[2]),
           NEW r, r = ImportAttachmentEvent(type, a, c, v), r.status = "OK"
    PROVE  Recorded(a, c, r.db,
                    <<Event(type, AttachmentPayload(type, v[1], r.db.attachments[v[1]]))>>, keep)
<1>1. PICK id : id = v[1]
    OBVIOUS
<1>2. PICK new : new = v[2]
    OBVIOUS
<1>3. PICK y : y = Tells(type, new)
    OBVIOUS
<1>4. Recordable(type, <<id, y>>)
    <2>1. type \in Changes \cup QuietChanges
        BY DEF AttachmentEvent, Changes, QuietChanges
    <2>2. type \in Changes => Named(y)
        <3>1. type \in Changes => type = "CHANGE_ATTACHMENT_NAME"
            BY DEF AttachmentEvent, Changes
        <3> QED BY <3>1, <1>2, <1>3 DEF Tells, Told, Kept, Approval
    <2>3. type # "CHANGE_DISCUSSION_CATEGORY_DISPLAY_ORDER"
        BY DEF AttachmentEvent
    <2> QED BY <2>1, <2>2, <2>3, ChangesRecordable
<1>5. PICK p : p = AttachmentPayload(type, id, r.db.attachments[id])
    OBVIOUS
<1>6. ASSUME NEW d, NEW e, Similar(a, d, keep), SameContext(c, e, keep)
      PROVE  Follows(r.db, d, type, e, p, <<id, y>>, keep)
    BY <1>1, <1>2, <1>3, <1>5, <1>6, AttachmentFollows
<1>7. Recorded(a, c, r.db, <<Event(type, p)>>, keep)
    BY <1>4, <1>6, RecordedOne
<1> QED BY <1>1, <1>5, <1>7

LEMMA MessageApprovalRecorded ==
    ASSUME NEW keep, NEW a, NEW c, NEW v,
           NEW type, type = "CHANGE_DISCUSSION_THREAD_MESSAGE_APPROVAL",
           NEW r, r = ImportMessageEvent(type, a, c, v), r.status = "OK"
    PROVE  Recorded(a, c, r.db,
                    <<Event(type, MessagePayload(type, v[1], r.db.messages[v[1]]))>>, keep)
<1>1. PICK id : id = v[1]
    OBVIOUS
<1>2. PICK new : new = v[2]
    OBVIOUS
<1>3. PICK y : y = Tells(type, new)
    OBVIOUS
<1>4. Recordable(type, <<id, y>>)
    <2>1. type \in QuietChanges /\ type \notin Changes
        BY DEF Changes, QuietChanges
    <2> QED BY <2>1, ChangesRecordable
<1>5. PICK p : p = MessagePayload(type, id, r.db.messages[id])
    OBVIOUS
<1>6. ASSUME NEW d, NEW e, Similar(a, d, keep), SameContext(c, e, keep)
      PROVE  Follows(r.db, d, type, e, p, <<id, y>>, keep)
    BY <1>1, <1>2, <1>3, <1>5, <1>6, MessageApprovalFollows
<1>7. Recorded(a, c, r.db, <<Event(type, p)>>, keep)
    BY <1>4, <1>6, RecordedOne
<1> QED BY <1>1, <1>5, <1>7

LEMMA NewTagRecorded ==
    ASSUME NEW keep, NEW a, NEW c, NEW id, id \notin DOMAIN a["tags"],
           NEW name, Named(name), NEW type, type = "ADD_NEW_DISCUSSION_TAG",
           NEW r, r = addNewDiscussionTag(a, c, id, name), r.status = "OK"
    PROVE  Recorded(a, c, r.db, <<Event(type, TagPayload(type, id, r.db.tags[id]))>>, keep)
<1>1. Recordable(type, <<id, name>>)
    <2>1. type \in Changes \cup QuietChanges
        BY DEF Changes, QuietChanges
    <2> QED BY <2>1, ChangesRecordable
<1>2. PICK p : p = TagPayload(type, id, r.db.tags[id])
    OBVIOUS
<1>3. ASSUME NEW d, NEW e, Similar(a, d, keep), SameContext(c, e, keep)
      PROVE  Follows(r.db, d, type, e, p, <<id, name>>, keep)
    BY <1>2, <1>3, NewTagFollows
<1>4. Recorded(a, c, r.db, <<Event(type, p)>>, keep)
    BY <1>1, <1>3, RecordedOne
<1> QED BY <1>2, <1>4

LEMMA NewCategoryRecorded ==
    ASSUME NEW keep, NEW a, NEW c, NEW id, Named(id), id \notin DOMAIN a["categories"],
           NEW name, Named(name), NEW parent,
           NEW type, type = "ADD_NEW_DISCUSSION_CATEGORY",
           NEW r, r = addNewDiscussionCategory(a, c, id, name, parent), r.status = "OK"
    PROVE  Recorded(a, c, r.db,
                    <<Event(type, CategoryPayload(type, id, r.db.categories[id]))>>, keep)
<1>1. PICK above : above = IF parent \in DOMAIN a.categories THEN parent ELSE ""
    OBVIOUS
<1>2. PICK w : w = <<id, above, name>>
    OBVIOUS
<1>3. Recordable(type, w)
    <2>1. Carries(type, 3, {3})
        BY PayloadsAssumption
    <2>2. Tuple(3, w)
        BY <1>2, Tuples
    <2>3. \A i \in {3} : Named(w[i])
        BY <1>2
    <2> QED BY <2>1, <2>2, <2>3, CarriesRecordable
<1>4. PICK p : p = CategoryPayload(type, id, r.db.categories[id])
    OBVIOUS
<1>5. ASSUME NEW d, NEW e, Similar(a, d, keep), SameContext(c, e, keep)
      PROVE  Follows(r.db, d, type, e, p, w, keep)
    BY <1>1, <1>2, <1>4, <1>5, NewCategoryFollows
<1>6. Recorded(a, c, r.db, <<Event(type, p)>>, keep)
    BY <1>3, <1>5, RecordedOne
<1> QED BY <1>4, <1>6

LEMMA NewAttachmentRecorded ==
    ASSUME NEW keep, NEW a, NEW c, NEW id, id \notin DOMAIN a["attachments"],
           NEW name, Named(name), NEW size, NEW approved \in BOOLEAN,
           NEW type, type = "ADD_NEW_ATTACHMENT",
           NEW r, r = addNewAttachment(a, c, id, name, size, approved)
    PROVE  Recorded(a, c, r.db,
                    <<Event(type, AttachmentPayload(type, id, r.db.attachments[id]))>>, keep)
<1>1. PICK w : w = <<id, name, size, Flag(approved)>>
    OBVIOUS
<1>2. Recordable(type, w)
    <2>1. Carries(type, 4, {2})
        BY PayloadsAssumption
    <2>2. Tuple(4, w)
        BY <1>1, Tuples
    <2>3. \A i \in {2} : Named(w[i])
        BY <1>1
    <2> QED BY <2>1, <2>2, <2>3, CarriesRecordable
<1>3. PICK p : p = AttachmentPayload(type, id, r.db.attachments[id])
    OBVIOUS
<1>4. ASSUME NEW d, NEW e, Similar(a, d, keep), SameContext(c, e, keep)
      PROVE  Follows(r.db, d, type, e, p, w, keep)
    BY <1>1, <1>3, <1>4, NewAttachmentFollows
<1>5. Recorded(a, c, r.db, <<Event(type, p)>>, keep)
    BY <1>2, <1>4, RecordedOne
<1> QED BY <1>3, <1>5

LEMMA AnswerRecorded ==
    ASSUME NEW keep, NEW a, NEW c, NEW id, id \notin DOMAIN a["messages"],
           NEW thread, NEW approved \in BOOLEAN, NEW content, Named(content),
           NEW type, type = "ADD_NEW_DISCUSSION_THREAD_MESSAGE",
           NEW r, r = addNewDiscussionMessageInThread(a, c, id, thread, approved, content),
           r.status = "OK"
    PROVE  Recorded(a, c, r.db,
                    <<Event(type, MessagePayload(type, id, r.db.messages[id]))>>, keep)
<1>1. PICK w : w = <<id, thread, Flag(approved), content>>
    OBVIOUS
<1>2. Recordable(type, w)
    <2>1. Carries(type, 4, {4})
        BY PayloadsAssumption
    <2>2. Tuple(4, w)
        BY <1>1, Tuples
    <2>3. \A i \in {4} : Named(w[i])
        BY <1>1
    <2> QED BY <2>1, <2>2, <2>3, CarriesRecordable
<1>3. PICK p : p = MessagePayload(type, id, r.db.messages[id])
    OBVIOUS
<1>4. ASSUME NEW d, NEW e, Similar(a, d, keep), SameContext(c, e, keep)
      PROVE  Follows(r.db, d, type, e, p, w, keep)
    BY <1>1, <1>3, <1>4, NewMessageFollows
<1>5. Recorded(a, c, r.db, <<Event(type, p)>>, keep)
    BY <1>2, <1>4, RecordedOne
<1> QED BY <1>3, <1>5

LEMMA AnswerKeepsUser ==
    ASSUME NEW a, "users" \in DOMAIN a, NEW c, NEW id, NEW thread, NEW approved,
           NEW content, NEW r,
           r = addNewDiscussionMessageInThread(a, c, id, thread, approved, content),
           r.status = "OK"
    PROVE  getCurrentUser(r.db, c) = getCurrentUser(a, c)
<1>1. PICK u : u = getCurrentUser(a, c)
    OBVIOUS
<1>2. r = IF thread \notin DOMAIN a["threads"] THEN Result("NOT_FOUND", a)
          ELSE MessageAdded(a, c, u, id, thread, approved, content)
    BY <1>1, AddsMessage
<1>3. r = MessageAdded(a, c, u, id, thread, approved, content)
    BY <1>2 DEF Result
<1>4. PICK x : x = Visible(a, thread, c.time)
    OBVIOUS
<1>5. "users" \in DOMAIN x /\ x["users"] = a["users"]
    BY <1>4 DEF Visible
<1>6. PICK y : y = SetFollowers(x, thread,
                        a["threads"][thread].subscribedUsers \cup ({u} \ {""}),
                        a.subscribedThreads \cup {<<u, thread>>})
    OBVIOUS
<1>7. "users" \in DOMAIN y /\ y["users"] = a["users"]
    BY <1>5, <1>6 DEF SetFollowers
<1>8. PICK m : m = NewMessage(c, u, thread, content, approved)
    OBVIOUS
<1>9. r = Insert(y, "messages", id, m)
    BY <1>3, <1>4, <1>6, <1>8 DEF MessageAdded
<1>10. r.db["users"] = a["users"]
    BY <1>7, <1>9 DEF Insert, Ok, Result
<1> QED BY <1>10 DEF getCurrentUser

\* Who follows a thread already is asked to follow it again.
LEMMA AnswerSubscribes ==
    ASSUME NEW keep, NEW a, NEW b, Similar(a, b, keep), NEW c, SameContext(c, c, keep),
           NEW id, id \notin DOMAIN a["messages"],
           NEW thread, NEW approved \in BOOLEAN, NEW content, NEW r,
           r = addNewDiscussionMessageInThread(a, c, id, thread, approved, content),
           r.status = "OK"
    PROVE  Recorded(r.db, c, r.db,
                    <<Event("SUBSCRIBE_TO_DISCUSSION_THREAD", <<thread>>)>>, keep)
<1>1. PICK type : type = "SUBSCRIBE_TO_DISCUSSION_THREAD"
    OBVIOUS
<1>2. PICK w : w = <<thread>>
    OBVIOUS
<1>3. Recordable(type, w)
    BY <1>1, <1>2, OneRecordable
<1>4. PICK u : u = getCurrentUser(a, c)
    OBVIOUS
<1>5. "users" \in DOMAIN a
    BY DEF Similar, Kind
<1>6. getCurrentUser(r.db, c) = u
    BY <1>4, <1>5, AnswerKeepsUser
<1>7. /\ thread \in DOMAIN r.db["threads"]
      /\ <<u, thread>> \in r.db.subscribedThreads
      /\ Named(u) => u \in r.db["threads"][thread].subscribedUsers
    BY <1>4, NewMessageFollows
<1>8. PICK g : g = r.db
    OBVIOUS
<1>9. ASSUME NEW d, NEW e, Similar(g, d, keep), SameContext(c, e, keep)
      PROVE  Follows(g, d, type, e, w, w, keep)
    <2>1. u = getCurrentUser(d, e)
        BY <1>6, <1>8, <1>9, SameUser
    <2> QED BY <2>1, <1>1, <1>2, <1>7, <1>8, <1>9, SubscribeKeeps
<1>10. Recorded(g, c, g, <<Event(type, w)>>, keep)
    BY <1>3, <1>9, RecordedOne
<1> QED BY <1>1, <1>2, <1>8, <1>10

LEMMA NoQuotes ==
    ASSUME NEW a, NEW message
    PROVE  QuoteEvents(a, message, {}) = <<>>
<1>1. PICK S : S = {} \cap DOMAIN a["users"]
    OBVIOUS
<1>2. S = {} /\ IsFiniteSet(S) /\ Cardinality(S) = 0
    BY <1>1, FS_EmptySet
<1>3. PICK q : q = SetToSeq(S)
    OBVIOUS
<1>4. q \in [1 .. 0 -> S]
    BY <1>2, <1>3, SetInOrder
<1>5. Len(q) = 0
    BY <1>4
<1>6. QuoteEvents(a, message, {}) =
          [i \in 1 .. 0 |->
              Event("QUOTE_USER_IN_DISCUSSION_THREAD_MESSAGE", <<message, q[i]>>)]
    BY <1>1, <1>3, <1>5, Zenon DEF QuoteEvents
<1> QED BY <1>6

LEMMA ContentRecorded ==
    ASSUME NEW keep, NEW a, NEW c, NEW id, NEW new, Named(new), NEW reason,
           NEW type, type = "CHANGE_DISCUSSION_THREAD_MESSAGE_CONTENT",
           NEW r, r = changeDiscussionThreadMessageContent(a, c, id, new, reason),
           r.status = "OK"
    PROVE  Recorded(a, c, Quote(r.db, id, {}),
                    <<Event(type, MessagePayload(type, id, r.db.messages[id]))>>, keep)
<1>1. PICK w : w = <<id, new, reason>>
    OBVIOUS
<1>2. Recordable(type, w)
    <2>1. Carries(type, 3, {2})
        BY PayloadsAssumption
    <2>2. Tuple(3, w)
        BY <1>1, Tuples
    <2>3. \A i \in {2} : Named(w[i])
        BY <1>1
    <2> QED BY <2>1, <2>2, <2>3, CarriesRecordable
<1>3. PICK p : p = MessagePayload(type, id, r.db.messages[id])
    OBVIOUS
<1>4. PICK g : g = Quote(r.db, id, {})
    OBVIOUS
<1>5. ASSUME NEW d, NEW e, Similar(a, d, keep), SameContext(c, e, keep)
      PROVE  Follows(g, d, type, e, p, w, keep)
    <2>1. Follows(r.db, d, type, e, p, w, keep)
        BY <1>1, <1>3, <1>5, MessageContentFollows
    <2>2. PICK f : f = Import(type, d, e, w).db
        OBVIOUS
    <2>3. Similar(r.db, f, keep)
        BY <2>1, <2>2, Zenon DEF Follows
    <2>4. Similar(g, f, keep)
        BY <2>3, <1>4, QuoteNobody
    <2> QED BY <2>1, <2>2, <2>4, Zenon DEF Follows
<1>6. Recorded(a, c, g, <<Event(type, p)>>, keep)
    BY <1>2, <1>5, RecordedOne
<1> QED BY <1>3, <1>4, <1>6

\* The content is the new one, so that nobody is left to quote.
LEMMA ContentKept ==
    ASSUME NEW keep, NEW a, NEW b, Similar(a, b, keep), NEW c, NEW id, NEW new, NEW reason,
           NEW r, r = changeDiscussionThreadMessageContent(a, c, id, new, reason),
           r.status = "OK"
    PROVE  r.db["messages"][id]["content"] = new
<1>1. PICK u : u = getCurrentUser(a, c)
    OBVIOUS
<1>2. id \in DOMAIN a["messages"] /\ r = Ok(MessageEdited(a, c, u, id, new, reason))
    BY <1>1, EditsMessage DEF Result, Ok
<1>3. "messages" \in DOMAIN a /\ "content" \in DOMAIN a["messages"][id]
    <2>1. "messages" \in Kind
        BY DEF Kind
    <2>2. "messages" \in DOMAIN a /\ Alike("messages", a["messages"][id], b["messages"][id], keep)
        BY <2>1, <1>2 DEF Similar
    <2>3. DOMAIN a["messages"][id] = Fields("messages")
        BY <2>2, Zenon DEF Alike
    <2>4. "content" \in Fields("messages")
        BY DEF Fields
    <2> QED BY <2>2, <2>3, <2>4
<1>4. PICK m : m = Edited(a["messages"][id], c, u, new, reason)
    OBVIOUS
<1>5. m["content"] = new
    BY <1>3, <1>4 DEF Edited
<1>6. PICK x : x = [a EXCEPT !["messages"][id] = m]
    OBVIOUS
<1>7. "messages" \in DOMAIN x /\ x["messages"][id] = m
    BY <1>2, <1>3, <1>6
<1>8. PICK y : y = Visible(x, a["messages"][id].thread, c.time)
    OBVIOUS
<1>9. y["messages"][id] = m
    BY <1>7, <1>8 DEF Visible
<1>10. r.db = y
    BY <1>2, <1>4, <1>6, <1>8 DEF MessageEdited, Ok, Result
<1> QED BY <1>5, <1>9, <1>10

LEMMA OtherRecorded ==
    ASSUME NEW keep, NEW a, NEW c, NEW type \in OtherEvent
    PROVE  Recorded(a, c, a,
               <<Event(type, [i \in 1 .. Len(Written[type].fields) |->
                                IF Written[type].fields[i] \in {"id", "text"}
                                THEN "x" ELSE 1])>>, keep)
<1>1. PICK f : f = Written[type].fields
    OBVIOUS
<1>2. PICK g : g = Read[type][Written[type].version]
    OBVIOUS
<1>3. type \in Range(EventType)
    BY DEF OtherEvent
<1>4. /\ f \in Seq(DOMAIN Width)
      /\ \A j \in 1 .. Len(f) : Fits(g[j], [type |-> f[j], value |-> "text"])
    BY <1>1, <1>2, <1>3, FormatOf
<1>5. PICK w : w = [i \in 1 .. Len(f) |-> IF f[i] \in {"id", "text"} THEN "x" ELSE 1]
    OBVIOUS
<1>6. Tuple(Len(f), w)
    BY <1>5 DEF Tuple
<1>7. ASSUME NEW i \in 1 .. Len(f), g[i] = "nonempty" PROVE Named(w[i])
    <2>1. f[i] = "text"
        <3>1. Fits("nonempty", [type |-> f[i], value |-> "text"])
            BY <1>4, <1>7
        <3> QED BY <3>1 DEF Fits
    <2>2. w[i] = "x"
        BY <2>1, <1>5
    <2> QED BY <2>2 DEF Named
<1>8. type # "CHANGE_DISCUSSION_CATEGORY_DISPLAY_ORDER"
    BY DEF OtherEvent, TagOrCategoryEvent
<1>9. Recordable(type, w)
    BY <1>1, <1>2, <1>3, <1>6, <1>7, <1>8, Zenon DEF Recordable, Readable
<1>10. Recorded(a, c, a, <<Event(type, w)>>, keep)
    BY <1>9, RecordedOther
<1> QED BY <1>1, <1>5, <1>10, Zenon
-----------------------------------------------------------------------------
(* The state machine.                                                       *)

\* The stored events lead from the empty collection to one that is similar to
\* that of the running program; while they are imported, the collection is one
\* that they pass through, and their end is similar to what was stopped.
Restorable(d) == \E f : Leads(EmptyDb, log, f) /\ Similar(d, f, scene.persistIPAddresses)

Underway ==
    /\ imported \in 0 .. Len(log)
    /\ \E G : /\ G[0] = EmptyDb /\ Passes(G, log)
              /\ db = G[imported]
              /\ Similar(stopped, G[Len(log)], scene.persistIPAddresses)

IInv ==
    /\ scene \in Scenes
    /\ now \in Nat
    /\ Listed(log)
    /\ phase \in {"serving", "importing"}
    /\ phase = "serving" => Restorable(db)
    /\ phase = "importing" => Underway

LEMMA EmptySimilar ==
    ASSUME NEW keep
    PROVE  Similar(EmptyDb, EmptyDb, keep)
<1>1. DOMAIN NoEntity = {}
    BY DEF NoEntity
<1>2. \A k \in Kind : EmptyDb[k] = NoEntity
    BY DEF Kind, EmptyDb
<1>3. DOMAIN EmptyDb = Kind \cup {"subscribedThreads"}
    BY DEF Kind, EmptyDb
<1>4. "users" \in Kind /\ "categories" \in Kind
    BY DEF Kind
<1>5. DOMAIN EmptyDb["users"] = {} /\ DOMAIN EmptyDb["categories"] = {}
    BY <1>1, <1>2, <1>4
<1>6. IsFiniteSet({})
    BY FS_EmptySet
<1> QED BY <1>1, <1>2, <1>3, <1>5, <1>6 DEF Similar

LEMMA SimilarSelf ==
    ASSUME NEW keep, NEW a, NEW b, Similar(a, b, keep),
           \A k \in Kind : \A id \in DOMAIN a[k] : Alike(k, b[k][id], b[k][id], keep)
    PROVE  Similar(b, b, keep)
BY DEF Similar, Kind

LEMMA AlikeSelf ==
    ASSUME NEW keep, NEW k, NEW e, NEW f, Alike(k, e, f, keep)
    PROVE  Alike(k, f, f, keep)
<1>1. /\ DOMAIN f = Fields(k) /\ DOMAIN f.at = Moment
      /\ \A s \in Moment : e.at[s] \in Nat /\ f.at[s] \in {e.at[s], e.at[s] + 1}
    BY DEF Alike
<1>2. \A s \in Moment : f.at[s] \in Nat
    <2> SUFFICES ASSUME NEW s \in Moment PROVE f.at[s] \in Nat
        OBVIOUS
    <2>1. PICK m \in Nat : m = e.at[s]
        BY <1>1
    <2>2. f.at[s] \in {m, m + 1}
        BY <2>1, <1>1
    <2> QED BY <2>2
<1>3. k = "categories" => Shown(f.displayOrder, f.displayOrder)
    <2> SUFFICES ASSUME k = "categories" PROVE Shown(f.displayOrder, f.displayOrder)
        OBVIOUS
    <2>1. PICK m \in Nat : m = e.displayOrder /\ f.displayOrder = KeptOrder(m)
        BY DEF Alike, Shown
    <2> QED BY <2>1, KeptOnce DEF Shown
<1> QED BY <1>1, <1>2, <1>3 DEF Alike

LEMMA Reflexive ==
    ASSUME NEW keep, NEW a, NEW b, Similar(a, b, keep)
    PROVE  Similar(b, b, keep)
<1>1. \A k \in Kind : \A id \in DOMAIN a[k] : Alike(k, a[k][id], b[k][id], keep)
    BY DEF Similar
<1>2. \A k \in Kind : \A id \in DOMAIN a[k] : Alike(k, b[k][id], b[k][id], keep)
    BY <1>1, AlikeSelf
<1> QED BY <1>2, SimilarSelf

LEMMA InitIInv == Init => IInv
<1> SUFFICES ASSUME Init PROVE IInv
    OBVIOUS
<1> USE DEF Init
<1>1. PICK G : G = [i \in {0} |-> EmptyDb]
    OBVIOUS
<1>2. Listed(log) /\ Len(log) = 0
    <2>1. log \in Seq({})
        OBVIOUS
    <2> QED BY <2>1 DEF Listed
<1>3. G[0] = EmptyDb /\ G[Len(log)] = EmptyDb /\ Passes(G, log)
    BY <1>1, <1>2 DEF Passes
<1>4. Leads(EmptyDb, log, EmptyDb)
    BY <1>3, Zenon DEF Leads
<1>5. Restorable(db)
    BY <1>4, EmptySimilar, Zenon DEF Restorable
<1> QED BY <1>2, <1>5 DEF IInv

LEMMA CommitKeeps ==
    ASSUME IInv, NEW by, NEW r, NEW events, Commit(by, r, events),
           Recorded(db, Current(by), r.db, events, scene.persistIPAddresses)
    PROVE  IInv'
<1>1. PICK keep : keep = scene.persistIPAddresses
    OBVIOUS
<1>2. PICK c : c = Current(by)
    OBVIOUS
<1>3. PICK t \in {now, now + 1} :
          /\ now' = t
          /\ log' = log \o [i \in 1 .. Len(events) |->
                 Encode(events[i].type,
                        [time |-> t, by |-> by,
                         ip |-> IF scene.persistIPAddresses THEN Ip ELSE ""],
                        events[i].values)]
    BY DEF Commit
<1>4. PICK e : e = [time |-> t, by |-> by,
                    ip |-> IF scene.persistIPAddresses THEN Ip ELSE ""]
    OBVIOUS
<1>5. log' = log \o Encoded(events, e)
    BY <1>3, <1>4, Zenon DEF Encoded
<1>6. /\ db' = r.db /\ phase = "serving"
      /\ scene' = scene /\ phase' = phase
    BY DEF Commit
<1>7. SameContext(c, e, keep)
    <2>1. now \in Nat
        BY DEF IInv
    <2> QED BY <2>1, <1>1, <1>2, <1>4 DEF SameContext, Current
<1>8. PICK f : Leads(EmptyDb, log, f) /\ Similar(db, f, keep)
    BY <1>1, <1>6 DEF IInv, Restorable
<1>9. Restores(r.db, f, events, e, keep)
    BY <1>1, <1>2, <1>7, <1>8 DEF Recorded
<1>10. PICK g : Leads(f, Encoded(events, e), g) /\ Similar(r.db, g, keep)
    BY <1>9, Zenon DEF Restores
<1>11. Listed(log) /\ Listed(Encoded(events, e))
    <2>1. Listed(events)
        BY <1>9, Zenon DEF Restores
    <2> QED BY <2>1, EncodedListed DEF IInv
<1>12. Listed(log \o Encoded(events, e)) /\ Leads(EmptyDb, log \o Encoded(events, e), g)
    BY <1>8, <1>10, <1>11, ListedCat, LeadsCat
<1>13. Listed(log') /\ Leads(EmptyDb, log', g) /\ Similar(db', g, scene'.persistIPAddresses)
    BY <1>1, <1>5, <1>6, <1>10, <1>12
<1>14. Restorable(db)'
    BY <1>13, Zenon DEF Restorable
<1>15. scene' \in Scenes /\ now' \in Nat /\ phase' = "serving"
    <2>1. scene \in Scenes /\ now \in Nat
        BY DEF IInv
    <2>2. PICK n \in Nat : n = now
        BY <2>1
    <2>3. t \in {n, n + 1}
        BY <2>2
    <2>4. t \in Nat
        BY <2>3
    <2>5. now' = t
        BY <1>3, Zenon
    <2> QED BY <2>1, <2>4, <2>5, <1>6
<1> QED BY <1>13, <1>14, <1>15 DEF IInv

LEMMA Texts ==
    ASSUME scene \in Scenes, NEW type, NEW v \in Asked(type)
    PROVE  /\ type \in FirstIsText => Named(v[1])
           /\ type \in SecondIsText => Named(v[2])
           /\ type = "CHANGE_DISCUSSION_CATEGORY_DISPLAY_ORDER" => v[2] \in Int
           /\ type = "CHANGE_DISCUSSION_THREAD_PIN_DISPLAY_ORDER" => v[2] \in UnsignedShort
<1>1. type \in DOMAIN scene.asks /\ v \in scene.asks[type]
    BY DEF Asked
<1>2. /\ type \in FirstIsText => v[1] # ""
      /\ type \in SecondIsText => v[2] # ""
      /\ type = "CHANGE_DISCUSSION_CATEGORY_DISPLAY_ORDER" => v[2] \in Int
      /\ type = "CHANGE_DISCUSSION_THREAD_PIN_DISPLAY_ORDER" => v[2] \in UnsignedShort
    BY <1>1, ScenesAssumption
<1> QED BY <1>2, Zenon DEF Named

LEMMA ShortCounts == \A x \in UnsignedShort : x \in Int
BY DEF UnsignedShort

LEMMA NewIds ==
    ASSUME scene \in Scenes, NEW kind \in Kind, Room(kind)
    PROVE  /\ NewId(kind) \notin DOMAIN db[kind]
           /\ kind \in {"users", "categories"} => Named(NewId(kind))
<1>1. \E id \in scene.ids[kind] : id \notin DOMAIN db[kind]
    BY DEF Room
<1>2. NewId(kind) \in scene.ids[kind] /\ NewId(kind) \notin DOMAIN db[kind]
    BY <1>1, Zenon DEF NewId
<1>3. "" \notin scene.ids["users"] \cup scene.ids["categories"]
    BY ScenesAssumption
<1> QED BY <1>2, <1>3 DEF Named

LEMMA AddNewUserKeeps == IInv /\ AddNewUser => IInv'
<1> SUFFICES ASSUME IInv, AddNewUser PROVE IInv'
    OBVIOUS
<1>1. PICK v \in Asked("ADD_NEW_USER") :
          LET id == NewId("users")
              r == addNewUser(db, Current(""), id, v[1], v[2])
          IN /\ Room("users") /\ r.status = "OK"
             /\ Commit("", r,
                   <<Event("ADD_NEW_USER", UserPayload("ADD_NEW_USER", id, r.db.users[id]))>>
                   \o IF Cardinality(DOMAIN r.db.users) = 1
                      THEN <<Event("ASSIGN_FORUM_WIDE_PRIVILEGE", <<id, MaxPrivilegeValue, 0>>)>>
                      ELSE <<>>)
    BY DEF AddNewUser
<1>2. PICK id : id = NewId("users")
    OBVIOUS
<1>3. PICK c : c = Current("")
    OBVIOUS
<1>4. PICK r : r = addNewUser(db, c, id, v[1], v[2])
    OBVIOUS
<1>5. PICK type : type = "ADD_NEW_USER"
    OBVIOUS
<1>6. PICK first : first = <<Event(type, UserPayload(type, id, r.db.users[id]))>>
    OBVIOUS
<1> DEFINE grant == IF Cardinality(DOMAIN r.db.users) = 1
                    THEN <<Event("ASSIGN_FORUM_WIDE_PRIVILEGE", <<id, MaxPrivilegeValue, 0>>)>>
                    ELSE <<>>
<1>8. Room("users") /\ r.status = "OK" /\ Commit("", r, first \o grant)
    BY <1>1, <1>2, <1>3, <1>4, <1>5, <1>6, Zenon
<1>9. scene \in Scenes /\ "users" \in Kind
    BY DEF IInv, Kind
<1>10. Named(id) /\ id \notin DOMAIN db["users"]
    BY <1>2, <1>8, <1>9, NewIds
<1>11. Named(v[1]) /\ Named(v[2])
    BY <1>9, Texts DEF FirstIsText, SecondIsText
<1>12. PICK keep : keep = scene.persistIPAddresses
    OBVIOUS
<1>13. Recorded(db, c, r.db, first, keep)
    BY <1>4, <1>5, <1>6, <1>8, <1>10, <1>11, NewUserRecorded
<1>14. Recorded(r.db, c, r.db, grant, keep)
    <2>1. Recorded(r.db, c, r.db,
                   <<Event("ASSIGN_FORUM_WIDE_PRIVILEGE", <<id, MaxPrivilegeValue, 0>>)>>, keep)
        BY GrantRecorded, Zenon
    <2>2. Recorded(r.db, c, r.db, <<>>, keep)
        BY RecordedNone, Zenon
    <2> QED BY <2>1, <2>2, Zenon
<1> HIDE DEF grant
<1>15. Recorded(db, c, r.db, first \o grant, keep)
    BY <1>13, <1>14, RecordedCat
<1> QED BY <1>3, <1>8, <1>12, <1>15, CommitKeeps

LEMMA ChangeUserKeeps == IInv /\ ChangeUser => IInv'
<1> SUFFICES ASSUME IInv, ChangeUser PROVE IInv'
    OBVIOUS
<1>0. PICK type \in UserEvent \ {"ADD_NEW_USER"}, by \in Caller :
          \E v \in Asked(type) :
              LET r == ImportUserEvent(type, db, Current(by), v)
              IN /\ r.status = "OK"
                 /\ Commit(by, r, <<Event(type, UserPayload(type, v[1], r.db.users[v[1]]))>>)
    BY DEF ChangeUser
<1>1. PICK v \in Asked(type) :
          LET r == ImportUserEvent(type, db, Current(by), v)
          IN /\ r.status = "OK"
             /\ Commit(by, r, <<Event(type, UserPayload(type, v[1], r.db.users[v[1]]))>>)
    BY <1>0
<1>2. PICK c : c = Current(by)
    OBVIOUS
<1>3. PICK r : r = ImportUserEvent(type, db, c, v)
    OBVIOUS
<1>4. PICK events : events = <<Event(type, UserPayload(type, v[1], r.db.users[v[1]]))>>
    OBVIOUS
<1>5. r.status = "OK" /\ Commit(by, r, events)
    BY <1>1, <1>2, <1>3, <1>4, Zenon
<1>6. type = "CHANGE_USER_NAME" => Named(v[2])
    <2>1. scene \in Scenes
        BY DEF IInv
    <2> QED BY <2>1, Texts DEF SecondIsText
<1>7. PICK keep : keep = scene.persistIPAddresses
    OBVIOUS
<1>8. Recorded(db, c, r.db, events, keep)
    BY <1>3, <1>4, <1>5, <1>6, UserRecorded
<1> QED BY <1>2, <1>5, <1>7, <1>8, CommitKeeps

LEMMA DeleteUserLogoKeeps == IInv /\ DeleteUserLogo => IInv'
<1> SUFFICES ASSUME IInv, DeleteUserLogo PROVE IInv'
    OBVIOUS
<1>1. PICK id \in DOMAIN db.users, by \in Caller :
          LET r == deleteUserLogo(db, Current(by), id)
              type == "CHANGE_USER_LOGO"
          IN /\ Asked(type) # {}
             /\ Commit(by, r, <<Event(type, UserPayload(type, id, r.db.users[id]))>>)
    BY DEF DeleteUserLogo
<1>2. PICK c : c = Current(by)
    OBVIOUS
<1>3. PICK r : r = deleteUserLogo(db, c, id)
    OBVIOUS
<1>4. PICK type : type = "CHANGE_USER_LOGO"
    OBVIOUS
<1>5. PICK events : events = <<Event(type, UserPayload(type, id, r.db.users[id]))>>
    OBVIOUS
<1>6. Commit(by, r, events)
    BY <1>1, <1>2, <1>3, <1>4, <1>5, Zenon
<1>7. r.status = "OK"
    BY <1>6 DEF Commit
<1>8. PICK keep : keep = scene.persistIPAddresses
    OBVIOUS
<1>9. Recorded(db, c, r.db, events, keep)
    BY <1>3, <1>4, <1>5, <1>7, LogoRecorded
<1> QED BY <1>2, <1>6, <1>8, <1>9, CommitKeeps

LEMMA ChangeDiscussionThreadKeeps == IInv /\ ChangeDiscussionThread => IInv'
<1> SUFFICES ASSUME IInv, ChangeDiscussionThread PROVE IInv'
    OBVIOUS
<1>1. PICK type \in ThreadEvent \ {"ADD_NEW_DISCUSSION_THREAD"}, by \in Caller :
          \E v \in Asked(type) :
              LET r == ImportThreadEvent(type, db, Current(by), v)
              IN /\ r.status = "OK"
                 /\ by = "" => type \notin {"SUBSCRIBE_TO_DISCUSSION_THREAD",
                                            "UNSUBSCRIBE_FROM_DISCUSSION_THREAD"}
                 /\ Commit(by, r,
                           <<Event(type, ThreadPayload(type, v[1], r.db.threads[v[1]]))>>)
    BY DEF ChangeDiscussionThread
<1>2. PICK v \in Asked(type) :
          LET r == ImportThreadEvent(type, db, Current(by), v)
          IN /\ r.status = "OK"
             /\ by = "" => type \notin {"SUBSCRIBE_TO_DISCUSSION_THREAD",
                                        "UNSUBSCRIBE_FROM_DISCUSSION_THREAD"}
             /\ Commit(by, r, <<Event(type, ThreadPayload(type, v[1], r.db.threads[v[1]]))>>)
    BY <1>1
<1>3. PICK c : c = Current(by)
    OBVIOUS
<1>4. PICK r : r = ImportThreadEvent(type, db, c, v)
    OBVIOUS
<1>5. PICK events : events = <<Event(type, ThreadPayload(type, v[1], r.db.threads[v[1]]))>>
    OBVIOUS
<1>6. r.status = "OK" /\ Commit(by, r, events)
    BY <1>2, <1>3, <1>4, <1>5, Zenon
<1>7. PICK keep : keep = scene.persistIPAddresses
    OBVIOUS
<1>8. scene \in Scenes
    BY DEF IInv
<1>9. PICK Follow : Follow = {"SUBSCRIBE_TO_DISCUSSION_THREAD",
                              "UNSUBSCRIBE_FROM_DISCUSSION_THREAD"}
    OBVIOUS
<1>10. Recorded(db, c, r.db, events, keep)
    <2>1. CASE type \in Follow
        <3>1. by \in DOMAIN db.users
            BY <2>1, <1>2, <1>9 DEF Caller
        <3>2. Named(getCurrentUser(db, c))
            <4>1. by # ""
                BY <2>1, <1>2, <1>9
            <4>2. c.by = by
                BY <1>3 DEF Current
            <4> QED BY <3>1, <4>1, <4>2 DEF getCurrentUser, Named
        <3> QED BY <2>1, <3>2, <1>4, <1>5, <1>6, <1>9, SubscriptionRecorded
    <2>2. CASE type \notin Follow
        <3>1. type = "CHANGE_DISCUSSION_THREAD_NAME" => Named(v[2])
            BY <1>8, Texts DEF SecondIsText
        <3>2. Counted(type, v[2])
            <4>1. type # "CHANGE_DISCUSSION_CATEGORY_DISPLAY_ORDER"
                BY DEF ThreadEvent
            <4>2. type = "CHANGE_DISCUSSION_THREAD_PIN_DISPLAY_ORDER"
                      => v[2] \in UnsignedShort
                BY <1>8, Texts
            <4> QED BY <4>1, <4>2, ShortCounts DEF Counted
        <3> QED BY <2>2, <3>1, <3>2, <1>4, <1>5, <1>6, <1>9, ThreadRecorded
    <2> QED BY <2>1, <2>2
<1> QED BY <1>3, <1>6, <1>7, <1>10, CommitKeeps

LEMMA ChangeDiscussionTagKeeps == IInv /\ ChangeDiscussionTag => IInv'
<1> SUFFICES ASSUME IInv, ChangeDiscussionTag PROVE IInv'
    OBVIOUS
<1>1. PICK type \in {"CHANGE_DISCUSSION_TAG_NAME",
                       "CHANGE_DISCUSSION_TAG_UI_BLOB"}, by \in Caller :
          \E v \in Asked(type) :
              LET r == ImportTagOrCategoryEvent(type, db, Current(by), v)
              IN /\ type = "CHANGE_DISCUSSION_TAG_NAME" => ~Taken(db, "tags", v[2])
                 /\ r.status = "OK"
                 /\ Commit(by, r,
                           <<Event(type, TagPayload(type, v[1], r.db.tags[v[1]]))>>)
    BY DEF ChangeDiscussionTag
<1>2. PICK v \in Asked(type) :
          LET r == ImportTagOrCategoryEvent(type, db, Current(by), v)
          IN /\ type = "CHANGE_DISCUSSION_TAG_NAME" => ~Taken(db, "tags", v[2])
             /\ r.status = "OK"
             /\ Commit(by, r, <<Event(type, TagPayload(type, v[1], r.db.tags[v[1]]))>>)
    BY <1>1
<1>3. PICK c : c = Current(by)
    OBVIOUS
<1>4. PICK r : r = ImportTagOrCategoryEvent(type, db, c, v)
    OBVIOUS
<1>5. PICK events : events = <<Event(type, TagPayload(type, v[1], r.db.tags[v[1]]))>>
    OBVIOUS
<1>6. r.status = "OK" /\ Commit(by, r, events)
    BY <1>2, <1>3, <1>4, <1>5, Zenon
<1>7. PICK keep : keep = scene.persistIPAddresses
    OBVIOUS
<1>8. scene \in Scenes
    BY DEF IInv
<1>9. type = "CHANGE_DISCUSSION_TAG_NAME" => Named(v[2])
    BY <1>8, Texts DEF SecondIsText
<1>10. Recorded(db, c, r.db, events, keep)
    BY <1>4, <1>5, <1>6, <1>9, TagRecorded
<1> QED BY <1>3, <1>6, <1>7, <1>10, CommitKeeps

LEMMA ChangeAttachmentKeeps == IInv /\ ChangeAttachment => IInv'
<1> SUFFICES ASSUME IInv, ChangeAttachment PROVE IInv'
    OBVIOUS
<1>1. PICK type \in AttachmentEvent \ {"ADD_NEW_ATTACHMENT"}, by \in Caller :
          \E v \in Asked(type) :
              LET r == ImportAttachmentEvent(type, db, Current(by), v)
              IN /\ r.status = "OK"
                 /\ Commit(by, r,
                           <<Event(type,
                                   AttachmentPayload(type, v[1], r.db.attachments[v[1]]))>>)
    BY DEF ChangeAttachment
<1>2. PICK v \in Asked(type) :
          LET r == ImportAttachmentEvent(type, db, Current(by), v)
          IN /\ r.status = "OK"
             /\ Commit(by, r,
                       <<Event(type, AttachmentPayload(type, v[1], r.db.attachments[v[1]]))>>)
    BY <1>1
<1>3. PICK c : c = Current(by)
    OBVIOUS
<1>4. PICK r : r = ImportAttachmentEvent(type, db, c, v)
    OBVIOUS
<1>5. PICK events : events = <<Event(type,
                                     AttachmentPayload(type, v[1], r.db.attachments[v[1]]))>>
    OBVIOUS
<1>6. r.status = "OK" /\ Commit(by, r, events)
    BY <1>2, <1>3, <1>4, <1>5, Zenon
<1>7. PICK keep : keep = scene.persistIPAddresses
    OBVIOUS
<1>8. scene \in Scenes
    BY DEF IInv
<1>9. type = "CHANGE_ATTACHMENT_NAME" => Named(v[2])
    BY <1>8, Texts DEF SecondIsText
<1>10. Recorded(db, c, r.db, events, keep)
    BY <1>4, <1>5, <1>6, <1>9, AttachmentRecorded
<1> QED BY <1>3, <1>6, <1>7, <1>10, CommitKeeps

LEMMA ChangeDiscussionCategoryKeeps == IInv /\ ChangeDiscussionCategory => IInv'
<1> SUFFICES ASSUME IInv, ChangeDiscussionCategory PROVE IInv'
    OBVIOUS
<1>1. PICK type \in {"CHANGE_DISCUSSION_CATEGORY_NAME",
                       "CHANGE_DISCUSSION_CATEGORY_DESCRIPTION",
                       "CHANGE_DISCUSSION_CATEGORY_DISPLAY_ORDER",
                       "CHANGE_DISCUSSION_CATEGORY_PARENT"}, by \in Caller :
          \E v \in Asked(type) :
              LET r == ImportTagOrCategoryEvent(type, db, Current(by), v)
              IN /\ type = "CHANGE_DISCUSSION_CATEGORY_DISPLAY_ORDER" => v[2] >= 0
                 /\ type = "CHANGE_DISCUSSION_CATEGORY_PARENT" => v[1] # v[2]
                 /\ r.status = "OK"
                 /\ Commit(by, r,
                           <<Event(type, CategoryPayload(type, v[1], r.db.categories[v[1]]))>>)
    BY DEF ChangeDiscussionCategory
<1>2. PICK v \in Asked(type) :
          LET r == ImportTagOrCategoryEvent(type, db, Current(by), v)
          IN /\ type = "CHANGE_DISCUSSION_CATEGORY_DISPLAY_ORDER" => v[2] >= 0
             /\ type = "CHANGE_DISCUSSION_CATEGORY_PARENT" => v[1] # v[2]
             /\ r.status = "OK"
             /\ Commit(by, r,
                       <<Event(type, CategoryPayload(type, v[1], r.db.categories[v[1]]))>>)
    BY <1>1
<1>3. PICK c : c = Current(by)
    OBVIOUS
<1>4. PICK r : r = ImportTagOrCategoryEvent(type, db, c, v)
    OBVIOUS
<1>5. PICK events : events = <<Event(type,
                                     CategoryPayload(type, v[1], r.db.categories[v[1]]))>>
    OBVIOUS
<1>6. r.status = "OK" /\ Commit(by, r, events)
    BY <1>2, <1>3, <1>4, <1>5, Zenon
<1>7. PICK keep : keep = scene.persistIPAddresses
    OBVIOUS
<1>8. scene \in Scenes
    BY DEF IInv
<1>9. type = "CHANGE_DISCUSSION_CATEGORY_NAME" => Named(v[2])
    BY <1>8, Texts DEF SecondIsText
<1>10. type = "CHANGE_DISCUSSION_CATEGORY_DISPLAY_ORDER" => v[2] \in Nat
    <2>1. type = "CHANGE_DISCUSSION_CATEGORY_DISPLAY_ORDER" => v[2] \in Int
        BY <1>8, Texts
    <2>2. type = "CHANGE_DISCUSSION_CATEGORY_DISPLAY_ORDER" => v[2] >= 0
        BY <1>2
    <2> QED BY <2>1, <2>2
<1>11. Recorded(db, c, r.db, events, keep)
    <2>1. CASE type = "CHANGE_DISCUSSION_CATEGORY_PARENT"
        BY <2>1, <1>4, <1>5, <1>6, ParentRecorded
    <2>2. CASE type = "CHANGE_DISCUSSION_CATEGORY_DISPLAY_ORDER"
        BY <2>2, <1>4, <1>5, <1>6, <1>10, OrderRecorded
    <2>3. CASE type \in {"CHANGE_DISCUSSION_CATEGORY_NAME",
                         "CHANGE_DISCUSSION_CATEGORY_DESCRIPTION"}
        BY <2>3, <1>4, <1>5, <1>6, <1>9, CategoryRecorded
    <2> QED BY <2>1, <2>2, <2>3
<1> QED BY <1>3, <1>6, <1>7, <1>11, CommitKeeps

LEMMA AddNewDiscussionThreadKeeps == IInv /\ AddNewDiscussionThread => IInv'
<1> SUFFICES ASSUME IInv, AddNewDiscussionThread PROVE IInv'
    OBVIOUS
<1>1. PICK v \in Asked("ADD_NEW_DISCUSSION_THREAD"), by \in Caller, approved \in BOOLEAN :
          LET id == NewId("threads")
              r == addNewDiscussionThread(db, Current(by), id, v[1], approved)
          IN /\ Room("threads")
             /\ Commit(by, r,
                   <<Event("ADD_NEW_DISCUSSION_THREAD",
                           ThreadPayload("ADD_NEW_DISCUSSION_THREAD", id,
                                         r.db.threads[id]))>>
                   \o IF by # "" /\ scene.defaultLevel
                      THEN <<Event("ASSIGN_DISCUSSION_THREAD_PRIVILEGE", <<id, by, 1, 0>>)>>
                      ELSE <<>>)
    BY DEF AddNewDiscussionThread
<1>2. PICK id : id = NewId("threads")
    OBVIOUS
<1>3. PICK c : c = Current(by)
    OBVIOUS
<1>4. PICK r : r = addNewDiscussionThread(db, c, id, v[1], approved)
    OBVIOUS
<1>5. PICK type : type = "ADD_NEW_DISCUSSION_THREAD"
    OBVIOUS
<1>6. PICK first : first = <<Event(type, ThreadPayload(type, id, r.db.threads[id]))>>
    OBVIOUS
<1>7. PICK grant : grant = IF by # "" /\ scene.defaultLevel
                           THEN <<Event("ASSIGN_DISCUSSION_THREAD_PRIVILEGE",
                                        <<id, by, 1, 0>>)>>
                           ELSE <<>>
    OBVIOUS
<1>8. Room("threads") /\ Commit(by, r, first \o grant)
    BY <1>1, <1>2, <1>3, <1>4, <1>5, <1>6, <1>7, Zenon
<1>9. scene \in Scenes /\ "threads" \in Kind
    BY DEF IInv, Kind
<1>10. id \notin DOMAIN db["threads"]
    BY <1>2, <1>8, <1>9, NewIds
<1>11. Named(v[1])
    BY <1>9, Texts DEF FirstIsText
<1>12. PICK keep : keep = scene.persistIPAddresses
    OBVIOUS
<1>13. Recorded(db, c, r.db, first, keep)
    BY <1>4, <1>5, <1>6, <1>10, <1>11, NewThreadRecorded
<1>14. Recorded(r.db, c, r.db, grant, keep)
    BY <1>7, GrantRecorded, RecordedNone
<1>15. Recorded(db, c, r.db, first \o grant, keep)
    BY <1>13, <1>14, RecordedCat
<1> QED BY <1>3, <1>8, <1>12, <1>15, CommitKeeps

LEMMA AddNewDiscussionTagKeeps == IInv /\ AddNewDiscussionTag => IInv'
<1> SUFFICES ASSUME IInv, AddNewDiscussionTag PROVE IInv'
    OBVIOUS
<1>1. PICK v \in Asked("ADD_NEW_DISCUSSION_TAG"), by \in Caller :
          LET id == NewId("tags")
              type == "ADD_NEW_DISCUSSION_TAG"
              r == addNewDiscussionTag(db, Current(by), id, v[1])
          IN /\ Room("tags") /\ r.status = "OK"
             /\ Commit(by, r, <<Event(type, TagPayload(type, id, r.db.tags[id]))>>)
    BY DEF AddNewDiscussionTag
<1>2. PICK id : id = NewId("tags")
    OBVIOUS
<1>3. PICK c : c = Current(by)
    OBVIOUS
<1>4. PICK r : r = addNewDiscussionTag(db, c, id, v[1])
    OBVIOUS
<1>5. PICK type : type = "ADD_NEW_DISCUSSION_TAG"
    OBVIOUS
<1>6. PICK events : events = <<Event(type, TagPayload(type, id, r.db.tags[id]))>>
    OBVIOUS
<1>7. Room("tags") /\ r.status = "OK" /\ Commit(by, r, events)
    BY <1>1, <1>2, <1>3, <1>4, <1>5, <1>6, Zenon
<1>8. scene \in Scenes /\ "tags" \in Kind
    BY DEF IInv, Kind
<1>9. id \notin DOMAIN db["tags"] /\ Named(v[1])
    BY <1>2, <1>7, <1>8, NewIds, Texts DEF FirstIsText
<1>10. PICK keep : keep = scene.persistIPAddresses
    OBVIOUS
<1>11. Recorded(db, c, r.db, events, keep)
    BY <1>4, <1>5, <1>6, <1>7, <1>9, NewTagRecorded
<1> QED BY <1>3, <1>7, <1>10, <1>11, CommitKeeps

LEMMA AddNewDiscussionCategoryKeeps == IInv /\ AddNewDiscussionCategory => IInv'
<1> SUFFICES ASSUME IInv, AddNewDiscussionCategory PROVE IInv'
    OBVIOUS
<1>1. PICK v \in Asked("ADD_NEW_DISCUSSION_CATEGORY"), by \in Caller :
          LET id == NewId("categories")
              type == "ADD_NEW_DISCUSSION_CATEGORY"
              r == addNewDiscussionCategory(db, Current(by), id, v[1], v[2])
          IN /\ Room("categories") /\ r.status = "OK"
             /\ Commit(by, r, <<Event(type, CategoryPayload(type, id, r.db.categories[id]))>>)
    BY DEF AddNewDiscussionCategory
<1>2. PICK id : id = NewId("categories")
    OBVIOUS
<1>3. PICK c : c = Current(by)
    OBVIOUS
<1>4. PICK r : r = addNewDiscussionCategory(db, c, id, v[1], v[2])
    OBVIOUS
<1>5. PICK type : type = "ADD_NEW_DISCUSSION_CATEGORY"
    OBVIOUS
<1>6. PICK events : events = <<Event(type, CategoryPayload(type, id, r.db.categories[id]))>>
    OBVIOUS
<1>7. Room("categories") /\ r.status = "OK" /\ Commit(by, r, events)
    BY <1>1, <1>2, <1>3, <1>4, <1>5, <1>6, Zenon
<1>8. scene \in Scenes /\ "categories" \in Kind
    BY DEF IInv, Kind
<1>9. Named(id) /\ id \notin DOMAIN db["categories"] /\ Named(v[1])
    BY <1>2, <1>7, <1>8, NewIds, Texts DEF FirstIsText
<1>10. PICK keep : keep = scene.persistIPAddresses
    OBVIOUS
<1>11. Recorded(db, c, r.db, events, keep)
    BY <1>4, <1>5, <1>6, <1>7, <1>9, NewCategoryRecorded
<1> QED BY <1>3, <1>7, <1>10, <1>11, CommitKeeps

LEMMA AddNewAttachmentKeeps == IInv /\ AddNewAttachment => IInv'
<1> SUFFICES ASSUME IInv, AddNewAttachment PROVE IInv'
    OBVIOUS
<1>1. PICK v \in Asked("ADD_NEW_ATTACHMENT"), by \in DOMAIN db.users, approved \in BOOLEAN :
          LET id == NewId("attachments")
              type == "ADD_NEW_ATTACHMENT"
              r == addNewAttachment(db, Current(by), id, v[1], v[2], approved)
          IN /\ Room("attachments")
             /\ Commit(by, r,
                       <<Event(type, AttachmentPayload(type, id, r.db.attachments[id]))>>)
    BY Zenon DEF AddNewAttachment
<1>2. PICK id : id = NewId("attachments")
    OBVIOUS
<1>3. PICK c : c = Current(by)
    OBVIOUS
<1>4. PICK r : r = addNewAttachment(db, c, id, v[1], v[2], approved)
    OBVIOUS
<1>5. PICK type : type = "ADD_NEW_ATTACHMENT"
    OBVIOUS
<1>6. PICK events :
          events = <<Event(type, AttachmentPayload(type, id, r.db.attachments[id]))>>
    OBVIOUS
<1>7. Room("attachments") /\ Commit(by, r, events)
    BY <1>1, <1>2, <1>3, <1>4, <1>5, <1>6, Zenon
<1>8. scene \in Scenes /\ "attachments" \in Kind
    BY DEF IInv, Kind
<1>9. id \notin DOMAIN db["attachments"] /\ Named(v[1])
    BY <1>2, <1>7, <1>8, NewIds, Texts DEF FirstIsText
<1>10. PICK keep : keep = scene.persistIPAddresses
    OBVIOUS
<1>11. Recorded(db, c, r.db, events, keep)
    BY <1>4, <1>5, <1>6, <1>9, NewAttachmentRecorded
<1> QED BY <1>3, <1>7, <1>10, <1>11, CommitKeeps

LEMMA AddNewDiscussionMessageInThreadKeeps ==
    IInv /\ AddNewDiscussionMessageInThread => IInv'
<1> SUFFICES ASSUME IInv, AddNewDiscussionMessageInThread PROVE IInv'
    OBVIOUS
<1>1. PICK v \in Asked("ADD_NEW_DISCUSSION_THREAD_MESSAGE"), by \in Caller,
           approved \in BOOLEAN :
        LET id == NewId("messages")
            type == "ADD_NEW_DISCUSSION_THREAD_MESSAGE"
            r == addNewDiscussionMessageInThread(db, Current(by), id, v[1], approved, v[2])
            alreadySubscribed == <<by, v[1]>> \in db.subscribedThreads
        IN /\ Room("messages") /\ r.status = "OK"
           /\ Commit(by, Ok(Quote(r.db, id, Mentioned(v[2]))),
                 <<Event(type, MessagePayload(type, id, r.db.messages[id]))>>
                 \o (IF alreadySubscribed THEN <<>>
                     ELSE <<Event("SUBSCRIBE_TO_DISCUSSION_THREAD", <<v[1]>>)>>)
                 \o (IF by # "" /\ scene.defaultLevel
                     THEN <<Event("ASSIGN_DISCUSSION_THREAD_MESSAGE_PRIVILEGE",
                                  <<id, by, 1, 0>>)>>
                     ELSE <<>>)
                 \o QuoteEvents(r.db, id, Mentioned(v[2])))
    BY DEF AddNewDiscussionMessageInThread
<1>2. PICK id : id = NewId("messages")
    OBVIOUS
<1>3. PICK c : c = Current(by)
    OBVIOUS
<1>4. PICK r : r = addNewDiscussionMessageInThread(db, c, id, v[1], approved, v[2])
    OBVIOUS
<1>5. PICK type : type = "ADD_NEW_DISCUSSION_THREAD_MESSAGE"
    OBVIOUS
<1>6. PICK first : first = <<Event(type, MessagePayload(type, id, r.db.messages[id]))>>
    OBVIOUS
<1>7. PICK follow : follow = IF <<by, v[1]>> \in db.subscribedThreads THEN <<>>
                             ELSE <<Event("SUBSCRIBE_TO_DISCUSSION_THREAD", <<v[1]>>)>>
    OBVIOUS
<1>8. PICK grant : grant = IF by # "" /\ scene.defaultLevel
                           THEN <<Event("ASSIGN_DISCUSSION_THREAD_MESSAGE_PRIVILEGE",
                                        <<id, by, 1, 0>>)>>
                           ELSE <<>>
    OBVIOUS
<1>9. PICK quotes : quotes = QuoteEvents(r.db, id, Mentioned(v[2]))
    OBVIOUS
<1>10. PICK q : q = Ok(Quote(r.db, id, Mentioned(v[2])))
    OBVIOUS
<1>11. /\ Room("messages") /\ r.status = "OK"
       /\ Commit(by, q, first \o follow \o grant \o quotes)
    BY <1>1, <1>2, <1>3, <1>4, <1>5, <1>6, <1>7, <1>8, <1>9, <1>10, Zenon
<1>12. scene \in Scenes /\ "messages" \in Kind /\ now \in Nat /\ phase = "serving"
    BY <1>11 DEF IInv, Kind, Commit
<1>13. id \notin DOMAIN db["messages"]
    BY <1>2, <1>11, <1>12, NewIds
<1>14. Named(v[2])
    BY <1>12, Texts DEF SecondIsText
<1>15. PICK keep : keep = scene.persistIPAddresses
    OBVIOUS
<1>16. PICK f : Similar(db, f, keep)
    BY <1>12, <1>15 DEF IInv, Restorable
<1>17. SameContext(c, c, keep)
    BY <1>3, <1>12 DEF SameContext, Current
<1>18. Recorded(db, c, r.db, first, keep)
    BY <1>4, <1>5, <1>6, <1>11, <1>13, <1>14, AnswerRecorded
<1>19. Recorded(r.db, c, r.db, follow, keep)
    <2>1. Recorded(r.db, c, r.db,
                   <<Event("SUBSCRIBE_TO_DISCUSSION_THREAD", <<v[1]>>)>>, keep)
        BY <1>4, <1>11, <1>13, <1>16, <1>17, AnswerSubscribes
    <2>2. Recorded(r.db, c, r.db, <<>>, keep)
        BY RecordedNone
    <2> QED BY <2>1, <2>2, <1>7
<1>20. Recorded(r.db, c, r.db, grant, keep)
    BY <1>8, GrantRecorded, RecordedNone
<1>21. Recorded(r.db, c, q.db, quotes, keep)
    <2>1. q.db = Quote(r.db, id, Mentioned(v[2]))
        BY <1>10 DEF Ok, Result
    <2> QED BY <2>1, <1>9, RecordedQuotes
<1>22. Recorded(db, c, r.db, first \o follow, keep)
    BY <1>18, <1>19, RecordedCat
<1>23. Recorded(db, c, r.db, first \o follow \o grant, keep)
    BY <1>20, <1>22, RecordedCat
<1>24. Recorded(db, c, q.db, first \o follow \o grant \o quotes, keep)
    BY <1>21, <1>23, RecordedCat
<1> QED BY <1>3, <1>11, <1>15, <1>24, CommitKeeps

LEMMA ChangeDiscussionThreadMessageContentKeeps ==
    IInv /\ ChangeDiscussionThreadMessageContent => IInv'
<1> SUFFICES ASSUME IInv, ChangeDiscussionThreadMessageContent PROVE IInv'
    OBVIOUS
<1>1. PICK v \in Asked("CHANGE_DISCUSSION_THREAD_MESSAGE_CONTENT"), by \in Caller :
        LET type == "CHANGE_DISCUSSION_THREAD_MESSAGE_CONTENT"
            r == changeDiscussionThreadMessageContent(db, Current(by), v[1], v[2], v[3])
            quoted == Mentioned(v[2]) \ Mentioned(r.db.messages[v[1]].content)
        IN /\ r.status = "OK"
           /\ Commit(by, Ok(Quote(r.db, v[1], quoted)),
                 QuoteEvents(r.db, v[1], quoted)
                 \o <<Event(type, MessagePayload(type, v[1], r.db.messages[v[1]]))>>)
    BY DEF ChangeDiscussionThreadMessageContent
<1>2. PICK c : c = Current(by)
    OBVIOUS
<1>3. PICK r : r = changeDiscussionThreadMessageContent(db, c, v[1], v[2], v[3])
    OBVIOUS
<1>4. PICK type : type = "CHANGE_DISCUSSION_THREAD_MESSAGE_CONTENT"
    OBVIOUS
<1>5. PICK quoted : quoted = Mentioned(v[2]) \ Mentioned(r.db.messages[v[1]].content)
    OBVIOUS
<1>6. PICK quotes : quotes = QuoteEvents(r.db, v[1], quoted)
    OBVIOUS
<1>7. PICK change :
          change = <<Event(type, MessagePayload(type, v[1], r.db.messages[v[1]]))>>
    OBVIOUS
<1>8. PICK q : q = Ok(Quote(r.db, v[1], quoted))
    OBVIOUS
<1>9. r.status = "OK" /\ Commit(by, q, quotes \o change)
    BY <1>1, <1>2, <1>3, <1>4, <1>5, <1>6, <1>7, <1>8, Zenon
<1>10. scene \in Scenes /\ phase = "serving"
    BY <1>9 DEF IInv, Commit
<1>11. Named(v[2])
    BY <1>10, Texts DEF SecondIsText
<1>12. PICK keep : keep = scene.persistIPAddresses
    OBVIOUS
<1>13. PICK f : Similar(db, f, keep)
    BY <1>10, <1>12 DEF IInv, Restorable
<1>14. quoted = {}
    <2>1. r.db["messages"][v[1]]["content"] = v[2]
        BY <1>3, <1>9, <1>13, ContentKept
    <2> QED BY <2>1, <1>5
<1>15. Recorded(db, c, db, quotes, keep)
    <2>1. quotes = <<>>
        BY <1>6, <1>14, NoQuotes
    <2> QED BY <2>1, RecordedNone
<1>16. Recorded(db, c, q.db, change, keep)
    <2>1. q.db = Quote(r.db, v[1], {})
        BY <1>8, <1>14 DEF Ok, Result
    <2> QED BY <2>1, <1>3, <1>4, <1>7, <1>9, <1>11, ContentRecorded
<1>17. Recorded(db, c, q.db, quotes \o change, keep)
    BY <1>15, <1>16, RecordedCat
<1> QED BY <1>2, <1>9, <1>12, <1>17, CommitKeeps

LEMMA ChangeDiscussionThreadMessageApprovalKeeps ==
    IInv /\ ChangeDiscussionThreadMessageApproval => IInv'
<1> SUFFICES ASSUME IInv, ChangeDiscussionThreadMessageApproval PROVE IInv'
    OBVIOUS
<1>1. PICK v \in Asked("CHANGE_DISCUSSION_THREAD_MESSAGE_APPROVAL"), by \in Caller :
        LET type == "CHANGE_DISCUSSION_THREAD_MESSAGE_APPROVAL"
            r == ImportMessageEvent(type, db, Current(by), v)
        IN /\ r.status = "OK"
           /\ Commit(by, r, <<Event(type, MessagePayload(type, v[1], r.db.messages[v[1]]))>>)
    BY DEF ChangeDiscussionThreadMessageApproval
<1>2. PICK c : c = Current(by)
    OBVIOUS
<1>3. PICK type : type = "CHANGE_DISCUSSION_THREAD_MESSAGE_APPROVAL"
    OBVIOUS
<1>4. PICK r : r = ImportMessageEvent(type, db, c, v)
    OBVIOUS
<1>5. PICK events :
          events = <<Event(type, MessagePayload(type, v[1], r.db.messages[v[1]]))>>
    OBVIOUS
<1>6. r.status = "OK" /\ Commit(by, r, events)
    BY <1>1, <1>2, <1>3, <1>4, <1>5, Zenon
<1>7. PICK keep : keep = scene.persistIPAddresses
    OBVIOUS
<1>8. Recorded(db, c, r.db, events, keep)
    BY <1>3, <1>4, <1>5, <1>6, MessageApprovalRecorded
<1> QED BY <1>2, <1>6, <1>7, <1>8, CommitKeeps

LEMMA OtherCommandKeeps == IInv /\ OtherCommand => IInv'
<1> SUFFICES ASSUME IInv, OtherCommand PROVE IInv'
    OBVIOUS
<1>1. PICK type \in OtherEvent :
          Commit("", Ok(db),
              <<Event(type, [i \in 1 .. Len(Written[type].fields) |->
                                IF Written[type].fields[i] \in {"id", "text"}
                                THEN "x" ELSE 1])>>)
    BY Zenon DEF OtherCommand
<1>2. PICK events :
          events = <<Event(type, [i \in 1 .. Len(Written[type].fields) |->
                                IF Written[type].fields[i] \in {"id", "text"}
                                THEN "x" ELSE 1])>>
    OBVIOUS
<1>3. PICK r : r = Ok(db)
    OBVIOUS
<1>4. Commit("", r, events)
    BY <1>1, <1>2, <1>3, Zenon
<1>5. r.db = db
    BY <1>3 DEF Ok, Result
<1>6. PICK keep : keep = scene.persistIPAddresses
    OBVIOUS
<1>7. PICK c : c = Current("")
    OBVIOUS
<1>8. Recorded(db, c, db, events, keep)
    BY <1>2, OtherRecorded, Zenon
<1>9. Recorded(db, c, r.db, events, keep)
    BY <1>5, <1>8
<1> QED BY <1>4, <1>6, <1>7, <1>9, CommitKeeps

LEMMA StopKeeps == IInv /\ Stop => IInv'
<1> SUFFICES ASSUME IInv, Stop PROVE IInv'
    OBVIOUS
<1>1. /\ phase = "serving" /\ phase' = "importing"
      /\ stopped' = db /\ db' = EmptyDb /\ imported' = 0
      /\ scene' = scene /\ now' = now /\ log' = log
    BY DEF Stop
<1>2. scene \in Scenes /\ now \in Nat /\ Listed(log)
    BY DEF IInv
<1>3. PICK f : Leads(EmptyDb, log, f) /\ Similar(db, f, scene.persistIPAddresses)
    BY <1>1 DEF IInv, Restorable
<1>4. PICK G : G[0] = EmptyDb /\ G[Len(log)] = f /\ Passes(G, log)
    BY <1>3, Zenon DEF Leads
<1>5. 0 \in 0 .. Len(log)
    <2>1. Len(log) \in Nat
        BY <1>2, EncodedListed
    <2> QED BY <2>1
<1>6. /\ imported' \in 0 .. Len(log')
      /\ G[0] = EmptyDb /\ Passes(G, log') /\ db' = G[imported']
      /\ Similar(stopped', G[Len(log')], scene'.persistIPAddresses)
    BY <1>1, <1>3, <1>4, <1>5
<1>7. Underway'
    BY <1>6, Zenon DEF Underway
<1>8. scene' \in Scenes /\ now' \in Nat /\ Listed(log')
    BY <1>1, <1>2
<1> QED BY <1>1, <1>7, <1>8 DEF IInv

\* The next event is one that the collection passes on to the next.
LEMMA ProcessEventKeeps == IInv /\ ProcessEvent => IInv'
<1> SUFFICES ASSUME IInv, ProcessEvent PROVE IInv'
    OBVIOUS
<1>1. /\ phase = "importing" /\ imported < Len(log)
      /\ scene' = scene /\ now' = now /\ log' = log /\ stopped' = stopped
    BY Zenon DEF ProcessEvent
<1>2. scene \in Scenes /\ now \in Nat /\ Listed(log) /\ Underway
    BY <1>1 DEF IInv
<1>3. PICK G : /\ G[0] = EmptyDb /\ Passes(G, log) /\ db = G[imported]
               /\ Similar(stopped, G[Len(log)], scene.persistIPAddresses)
    BY <1>2, Zenon DEF Underway
<1>4. PICK n : n = imported
    OBVIOUS
<1>5. n \in Nat /\ n + 1 \in 1 .. Len(log) /\ n + 1 - 1 = n /\ n + 1 \in 0 .. Len(log)
    <2>1. Len(log) \in Nat
        BY <1>2, EncodedListed
    <2>2. n \in 0 .. Len(log)
        BY <1>2, <1>4, Zenon DEF Underway
    <2> QED BY <2>1, <2>2, <1>1, <1>4
<1>6. PICK e : e = log[n + 1]
    OBVIOUS
<1>7. Imports(G[n], e, G[n + 1])
    <2>1. PICK m \in 1 .. Len(log) : m = n + 1 /\ m - 1 = n
        BY <1>5
    <2>2. Imports(G[m - 1], log[m], G[m])
        BY <1>3, Zenon DEF Passes
    <2> QED BY <2>1, <2>2, <1>6
<1>8. PICK r : r = Import(ImporterOf(e), db, e.context, Values(e))
    OBVIOUS
<1>9. Decodes(e) /\ r.status \in {"OK", "NO_EFFECT"} /\ r.db = G[n + 1]
    BY <1>3, <1>4, <1>7, <1>8, Zenon DEF Imports
<1>10. LET q == IF Decodes(e) THEN r ELSE Result("UNREADABLE", db)
       IN IF q.status \in {"OK", "NO_EFFECT"}
          THEN db' = q.db /\ imported' = n + 1 /\ phase' = phase
          ELSE phase' = "refused" /\ UNCHANGED <<db, imported>>
    BY <1>4, <1>6, <1>8, Zenon DEF ProcessEvent
<1>11. db' = r.db /\ imported' = n + 1 /\ phase' = phase
    BY <1>9, <1>10
<1>12. /\ imported' \in 0 .. Len(log')
       /\ G[0] = EmptyDb /\ Passes(G, log') /\ db' = G[imported']
       /\ Similar(stopped', G[Len(log')], scene'.persistIPAddresses)
    BY <1>1, <1>3, <1>5, <1>9, <1>11
<1>13. Underway'
    BY <1>12, Zenon DEF Underway
<1>14. scene' \in Scenes /\ now' \in Nat /\ Listed(log') /\ phase' = "importing"
    BY <1>1, <1>2, <1>11
<1> QED BY <1>13, <1>14 DEF IInv

LEMMA StartKeeps == IInv /\ Start => IInv'
<1> SUFFICES ASSUME IInv, Start PROVE IInv'
    OBVIOUS
<1>1. /\ phase = "importing" /\ imported = Len(log) /\ phase' = "serving"
      /\ now' = now + 1
      /\ scene' = scene /\ log' = log /\ db' = db
    BY DEF Start
<1>2. scene \in Scenes /\ now \in Nat /\ Listed(log) /\ Underway
    BY <1>1 DEF IInv
<1>3. PICK G : /\ G[0] = EmptyDb /\ Passes(G, log) /\ db = G[imported]
               /\ Similar(stopped, G[Len(log)], scene.persistIPAddresses)
    BY <1>2, Zenon DEF Underway
<1>4. G[Len(log)] = db /\ Similar(stopped, db, scene.persistIPAddresses)
    BY <1>1, <1>3
<1>5. Similar(db, db, scene.persistIPAddresses)
    BY <1>4, Reflexive
<1>6. Leads(EmptyDb, log, db)
    BY <1>3, <1>4, Zenon DEF Leads
<1>7. Leads(EmptyDb, log', db) /\ Similar(db', db, scene'.persistIPAddresses)
    BY <1>1, <1>5, <1>6
<1>8. Restorable(db)'
    BY <1>7, Zenon DEF Restorable
<1>9. scene' \in Scenes /\ now' \in Nat /\ Listed(log')
    BY <1>1, <1>2
<1> QED BY <1>1, <1>8, <1>9 DEF IInv

LEMMA StutterKeeps == IInv /\ UNCHANGED vars => IInv'
<1> SUFFICES ASSUME IInv, UNCHANGED vars PROVE IInv'
    OBVIOUS
<1> QED BY DEF vars, IInv, Restorable, Underway

LEMMA NextKeeps == IInv /\ [Next]_vars => IInv'
BY AddNewUserKeeps, ChangeUserKeeps, DeleteUserLogoKeeps, AddNewDiscussionThreadKeeps,
   ChangeDiscussionThreadKeeps, AddNewDiscussionMessageInThreadKeeps,
   ChangeDiscussionThreadMessageContentKeeps, ChangeDiscussionThreadMessageApprovalKeeps,
   AddNewDiscussionTagKeeps, ChangeDiscussionTagKeeps, AddNewDiscussionCategoryKeeps,
   ChangeDiscussionCategoryKeeps, AddNewAttachmentKeeps, ChangeAttachmentKeeps,
   OtherCommandKeeps, StopKeeps, ProcessEventKeeps, StartKeeps, StutterKeeps
   DEF Next

\* Whatever commands are served and however often the program is restarted, the
\* events on disk lead from nothing to the collection that the program has, or had
\* when it stopped.
THEOREM LogRestores == Spec => []IInv
<1> QED BY InitIInv, NextKeeps, PTL DEF Spec

\* The importer reads every event that a command recorded to its last byte, and the
\* direct function accepts it.
THEOREM NothingRefusedTheorem == Spec => []NothingRefused
<1>1. IInv => NothingRefused
    BY DEF IInv, NothingRefused
<1> QED BY <1>1, LogRestores, PTL
-----------------------------------------------------------------------------
(* What is kept, in the words of the properties.                            *)

LEMMA KnownSame ==
    ASSUME NEW e, NEW f, DOMAIN e = DOMAIN f,
           \A x \in DOMAIN e \ {"at", "ip"} : e[x] = f[x],
           scene.persistIPAddresses => e["ip"] = f["ip"]
    PROVE  Known(e) = Known(f)
<1>1. PICK p : p = IF scene.persistIPAddresses THEN e["ip"]
                   ELSE [created |-> "", updated |-> ""]
    OBVIOUS
<1>2. PICK q : q = IF scene.persistIPAddresses THEN f["ip"]
                   ELSE [created |-> "", updated |-> ""]
    OBVIOUS
<1>3. p = q
    BY <1>1, <1>2
<1>4. Known(e) = [e EXCEPT !.at = 0, !.ip = p]
    BY <1>1 DEF Known
<1>5. Known(f) = [f EXCEPT !.at = 0, !.ip = p]
    BY <1>2, <1>3 DEF Known
<1>6. [e EXCEPT !.at = 0, !.ip = p] = [f EXCEPT !.at = 0, !.ip = p]
    OBVIOUS
<1> QED BY <1>4, <1>5, <1>6

LEMMA ContentsOf ==
    ASSUME NEW d, DOMAIN d = Kind \cup {"subscribedThreads"}
    PROVE  /\ Contents(d).subscribedThreads = d.subscribedThreads
           /\ \A k \in Kind :
                  /\ DOMAIN Contents(d)[k] = DOMAIN d[k]
                  /\ \A id \in DOMAIN d[k] :
                         Contents(d)[k][id] = IF k = "threads" THEN Trimmed(d[k][id])
                                              ELSE d[k][id]
<1>1. PICK T : T = [t \in DOMAIN d["threads"] |-> Trimmed(d["threads"][t])]
    OBVIOUS
<1>2. Contents(d) = [d EXCEPT !["threads"] = T]
    BY <1>1 DEF Contents
<1>3. "threads" \in Kind /\ "subscribedThreads" \notin Kind
    BY DEF Kind
<1> QED BY <1>1, <1>2, <1>3

\* A category as the events keep it.
OrderCut(k, e) == IF k = "categories" THEN Narrowed(e) ELSE e

LEMMA RecordedOf ==
    ASSUME NEW d, DOMAIN d = Kind \cup {"subscribedThreads"}
    PROVE  /\ DOMAIN AsRecorded(d) = DOMAIN d
           /\ AsRecorded(d).subscribedThreads = d.subscribedThreads
           /\ \A k \in Kind :
                  /\ DOMAIN AsRecorded(d)[k] = DOMAIN d[k]
                  /\ \A id \in DOMAIN d[k] : AsRecorded(d)[k][id] = OrderCut(k, d[k][id])
<1>1. PICK C : C = [x \in DOMAIN d["categories"] |-> Narrowed(d["categories"][x])]
    OBVIOUS
<1>2. AsRecorded(d) = [d EXCEPT !["categories"] = C]
    BY <1>1 DEF AsRecorded
<1>3. "categories" \in Kind /\ "subscribedThreads" \notin Kind
    BY DEF Kind
<1>4. DOMAIN AsRecorded(d) = DOMAIN d /\ AsRecorded(d).subscribedThreads = d.subscribedThreads
    BY <1>2, <1>3
<1>5. ASSUME NEW k \in Kind, k = "categories"
      PROVE  /\ DOMAIN AsRecorded(d)[k] = DOMAIN d[k]
             /\ \A id \in DOMAIN d[k] : AsRecorded(d)[k][id] = OrderCut(k, d[k][id])
    <2>1. AsRecorded(d)[k] = C
        BY <1>2, <1>5
    <2> QED BY <2>1, <1>1, <1>5 DEF OrderCut
<1>6. ASSUME NEW k \in Kind, k # "categories"
      PROVE  /\ DOMAIN AsRecorded(d)[k] = DOMAIN d[k]
             /\ \A id \in DOMAIN d[k] : AsRecorded(d)[k][id] = OrderCut(k, d[k][id])
    <2>1. AsRecorded(d)[k] = d[k]
        BY <1>2, <1>6
    <2> QED BY <2>1, <1>6 DEF OrderCut
<1> QED BY <1>4, <1>5, <1>6

LEMMA AlikeKnown ==
    ASSUME NEW k \in Kind, NEW e, NEW f, Alike(k, e, f, scene.persistIPAddresses)
    PROVE  Known(IF k = "threads" THEN Trimmed(OrderCut(k, e)) ELSE OrderCut(k, e))
               = Known(IF k = "threads" THEN Trimmed(f) ELSE f)
<1>1. /\ DOMAIN e = Fields(k) /\ DOMAIN f = Fields(k)
      /\ \A x \in Fields(k) \ {"at", "ip", "subscribedUsers", "displayOrder"} : e[x] = f[x]
      /\ scene.persistIPAddresses => e["ip"] = f["ip"]
      /\ k = "threads" => e["subscribedUsers"] \ {""} = f["subscribedUsers"] \ {""}
      /\ k = "categories" => f["displayOrder"] = KeptOrder(e["displayOrder"])
    BY DEF Alike, Fixed, Shown
<1>2. CASE k = "threads"
    <2>1. PICK x : x = Trimmed(e)
        OBVIOUS
    <2>2. PICK y : y = Trimmed(f)
        OBVIOUS
    <2>3. DOMAIN x = DOMAIN y
        BY <2>1, <2>2, <1>1 DEF Trimmed
    <2>4. \A z \in DOMAIN x \ {"at", "ip"} : x[z] = y[z]
        <3>1. "displayOrder" \notin Fields(k)
            BY <1>2 DEF Fields
        <3> QED BY <3>1, <2>1, <2>2, <1>1, <1>2 DEF Trimmed
    <2>5. scene.persistIPAddresses => x["ip"] = y["ip"]
        <3>1. "ip" \in Fields(k)
            BY DEF Fields
        <3> QED BY <3>1, <2>1, <2>2, <1>1 DEF Trimmed
    <2>6. Known(x) = Known(y)
        BY <2>3, <2>4, <2>5, KnownSame
    <2>7. OrderCut(k, e) = e
        BY <1>2 DEF OrderCut
    <2> QED BY <2>1, <2>2, <2>6, <2>7, <1>2
<1>3. CASE k = "categories"
    <2>1. PICK x : x = OrderCut(k, e)
        OBVIOUS
    <2>2. PICK n : n = KeptOrder(e["displayOrder"])
        OBVIOUS
    <2>3. x = [e EXCEPT !["displayOrder"] = n]
        BY <2>1, <2>2, <1>3 DEF OrderCut, Narrowed
    <2>4. DOMAIN x = DOMAIN f
        BY <2>3, <1>1
    <2>5. "subscribedUsers" \notin Fields(k) /\ "displayOrder" \in Fields(k)
        BY <1>3 DEF Fields
    <2>6. \A z \in DOMAIN x \ {"at", "ip"} : x[z] = f[z]
        BY <2>2, <2>3, <2>5, <1>1, <1>3
    <2>7. scene.persistIPAddresses => x["ip"] = f["ip"]
        <3>1. "ip" \in Fields(k)
            BY DEF Fields
        <3> QED BY <3>1, <2>3, <1>1
    <2>8. Known(x) = Known(f)
        BY <2>4, <2>6, <2>7, KnownSame
    <2> QED BY <2>1, <2>8, <1>3
<1>4. CASE k \notin {"threads", "categories"}
    <2>1. "subscribedUsers" \notin Fields(k) /\ "displayOrder" \notin Fields(k)
        BY <1>4 DEF Kind, Fields
    <2>2. Known(e) = Known(f)
        BY <2>1, <1>1, KnownSame
    <2>3. OrderCut(k, e) = e
        BY <1>4 DEF OrderCut
    <2> QED BY <2>2, <2>3, <1>4
<1> QED BY <1>2, <1>3, <1>4

LEMMA CompleteSimilar ==
    ASSUME IInv, Complete
    PROVE  Similar(stopped, db, scene.persistIPAddresses)
<1>1. phase = "importing" /\ imported = Len(log)
    BY DEF Complete
<1>2. Underway
    BY <1>1 DEF IInv
<1>3. PICK G : db = G[imported] /\ Similar(stopped, G[Len(log)], scene.persistIPAddresses)
    BY <1>2, Zenon DEF Underway
<1> QED BY <1>1, <1>3

\* When everything is imported, the collection holds what it held when the program
\* stopped: the same entities, attributes, authors and subscriptions, and display
\* orders of any width as far as 16 bits keep them.
THEOREM RestartKeepsContentsTheorem == Spec => []RestartKeepsContents
<1>1. IInv => RestartKeepsContents
    <2> SUFFICES ASSUME IInv, Complete
                 PROVE  LET a == Contents(AsRecorded(stopped))
                            b == Contents(db)
                        IN /\ a.subscribedThreads = b.subscribedThreads
                           /\ \A k \in Kind :
                                  [id \in DOMAIN a[k] |-> Known(a[k][id])]
                                  = [id \in DOMAIN b[k] |-> Known(b[k][id])]
        BY Zenon DEF RestartKeepsContents
    <2>1. Similar(stopped, db, scene.persistIPAddresses)
        BY CompleteSimilar
    <2>2. /\ DOMAIN stopped = Kind \cup {"subscribedThreads"}
          /\ DOMAIN db = Kind \cup {"subscribedThreads"}
          /\ stopped.subscribedThreads = db.subscribedThreads
          /\ \A k \in Kind :
                 /\ DOMAIN stopped[k] = DOMAIN db[k]
                 /\ \A id \in DOMAIN stopped[k] :
                        Alike(k, stopped[k][id], db[k][id], scene.persistIPAddresses)
        BY <2>1 DEF Similar
    <2>3. PICK s : s = AsRecorded(stopped)
        OBVIOUS
    <2>4. /\ DOMAIN s = Kind \cup {"subscribedThreads"}
          /\ s.subscribedThreads = stopped.subscribedThreads
          /\ \A k \in Kind :
                 /\ DOMAIN s[k] = DOMAIN stopped[k]
                 /\ \A id \in DOMAIN stopped[k] : s[k][id] = OrderCut(k, stopped[k][id])
        BY <2>2, <2>3, RecordedOf
    <2>5. PICK a : a = Contents(s)
        OBVIOUS
    <2>6. PICK b : b = Contents(db)
        OBVIOUS
    <2>7. a.subscribedThreads = b.subscribedThreads
        BY <2>2, <2>4, <2>5, <2>6, ContentsOf
    <2>8. ASSUME NEW k \in Kind
          PROVE  [id \in DOMAIN a[k] |-> Known(a[k][id])]
                     = [id \in DOMAIN b[k] |-> Known(b[k][id])]
        <3>1. /\ DOMAIN a[k] = DOMAIN s[k]
              /\ \A id \in DOMAIN s[k] :
                     a[k][id] = IF k = "threads" THEN Trimmed(s[k][id]) ELSE s[k][id]
            BY <2>4, <2>5, ContentsOf
        <3>2. /\ DOMAIN b[k] = DOMAIN db[k]
              /\ \A id \in DOMAIN db[k] :
                     b[k][id] = IF k = "threads" THEN Trimmed(db[k][id]) ELSE db[k][id]
            BY <2>2, <2>6, ContentsOf
        <3>3. DOMAIN a[k] = DOMAIN b[k] /\ DOMAIN a[k] = DOMAIN stopped[k]
            BY <3>1, <3>2, <2>2, <2>4
        <3>4. ASSUME NEW id \in DOMAIN a[k] PROVE Known(a[k][id]) = Known(b[k][id])
            <4>1. PICK e : e = stopped[k][id]
                OBVIOUS
            <4>2. Alike(k, e, db[k][id], scene.persistIPAddresses)
                BY <4>1, <3>3, <2>2
            <4>3. Known(IF k = "threads" THEN Trimmed(OrderCut(k, e)) ELSE OrderCut(k, e))
                      = Known(IF k = "threads" THEN Trimmed(db[k][id]) ELSE db[k][id])
                BY <4>2, AlikeKnown
            <4>4. a[k][id] = IF k = "threads" THEN Trimmed(OrderCut(k, e))
                             ELSE OrderCut(k, e)
                BY <4>1, <3>1, <3>3, <2>4
            <4>5. b[k][id] = IF k = "threads" THEN Trimmed(db[k][id]) ELSE db[k][id]
                BY <3>2, <3>3
            <4> QED BY <4>3, <4>4, <4>5, Zenon
        <3> QED BY <3>3, <3>4
    <2> QED BY <2>3, <2>5, <2>6, <2>7, <2>8
<1> QED BY <1>1, LogRestores, PTL

Late(m, n) == m \in Nat /\ n \in {m, m + 1}

LEMMA SimilarLate ==
    ASSUME NEW keep, NEW a, NEW b, Similar(a, b, keep), NEW k \in Kind,
           NEW id \in DOMAIN a[k], NEW f \in Moment
    PROVE  Late(a[k][id].at[f], b[k][id].at[f])
<1>1. Alike(k, a[k][id], b[k][id], keep)
    BY DEF Similar
<1> QED BY <1>1 DEF Alike, Late

\* An import may date a change one tick later than the program did, and never past
\* a change that came later.
THEOREM RestartKeepsOrderTheorem == Spec => []RestartKeepsOrder
<1>1. IInv => RestartKeepsOrder
    <2> SUFFICES ASSUME IInv, Complete PROVE RestartKeepsOrder
        BY DEF RestartKeepsOrder
    <2> DEFINE Stamp == {<<k, id, f>> : k \in Kind,
                                        id \in UNION {DOMAIN stopped[k] : k \in Kind},
                                        f \in {"created", "updated", "visible"}}
               Dated == {s \in Stamp : /\ s[2] \in DOMAIN stopped[s[1]] \cap DOMAIN db[s[1]]
                                       /\ stopped[s[1]][s[2]].at[s[3]] # 0}
               Was(s) == stopped[s[1]][s[2]].at[s[3]]
               Is(s) == db[s[1]][s[2]].at[s[3]]
    <2>1. ASSUME NEW s \in Dated PROVE Was(s) \in Nat /\ Is(s) \in {Was(s), Was(s) + 1}
        <3>1. PICK k \in Kind, id \in UNION {DOMAIN stopped[k] : k \in Kind}, f \in Moment :
                  s = <<k, id, f>>
            BY DEF Moment
        <3>2. id \in DOMAIN stopped[k]
            BY <3>1
        <3>3. Late(stopped[k][id].at[f], db[k][id].at[f])
            BY <3>2, CompleteSimilar, SimilarLate
        <3> QED BY <3>1, <3>3 DEF Late
    <2> HIDE DEF Dated, Was, Is
    <2>2. ASSUME NEW s \in Dated, NEW t \in Dated
          PROVE  Was(s) <= Is(s) /\ (Was(s) < Was(t) => Is(s) <= Was(t))
        <3>1. PICK m \in Nat : m = Was(s)
            BY <2>1
        <3>2. PICK n \in Nat : n = Was(t)
            BY <2>1
        <3>3. Is(s) \in {m, m + 1}
            BY <3>1, <2>1
        <3> QED BY <3>1, <3>2, <3>3
    <2>3. \A s \in Dated :
              /\ Was(s) <= Is(s)
              /\ \A t \in Dated : Was(s) < Was(t) => Is(s) <= Was(t)
        BY <2>2, Zenon
    <2> QED BY <2>3 DEF RestartKeepsOrder, Dated, Was, Is
<1> QED BY <1>1, LogRestores, PTL
=============================================================================
