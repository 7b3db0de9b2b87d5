------------------------ MODULE EventPersistenceProofs ------------------------
(***************************************************************************)
(* Proofs about EventPersistence, for any number of events, seconds and    *)
(* starts, any life of an output file and any references between events.   *)
(***************************************************************************)
EXTENDS EventPersistence, Integers, SequenceTheorems, FiniteSetTheorems, TLAPS

\* A set that has 0 and with each number the next one has all of them: the
\* numbers up to some y that are missing would be mapped by n - 1 into
\* themselves without y, and two of them to the same number.
LEMMA NatSetInduction ==
    ASSUME NEW P, 0 \in P, \A n \in Nat : n \in P => n + 1 \in P
    PROVE  \A n \in Nat : n \in P
<1> SUFFICES ASSUME NEW y \in Nat, y \notin P PROVE FALSE
    OBVIOUS
<1> DEFINE C == {n \in 0 .. y : n \notin P}
           f == [n \in C |-> n - 1]
<1>1. IsFiniteSet(C) /\ y \in C
    <2>1. IsFiniteSet(0 .. y)
        BY FS_Interval
    <2> QED BY <2>1, FS_Subset
<1>2. f \in [C -> C \ {y}]
    <2> SUFFICES ASSUME NEW n \in C PROVE n - 1 \in C \ {y}
        OBVIOUS
    <2>1. n # 0 /\ n - 1 \in Nat
        OBVIOUS
    <2>2. n - 1 \notin P
        BY <2>1
    <2> QED BY <2>1, <2>2
<1>3. IsFiniteSet(C \ {y}) /\ Cardinality(C \ {y}) < Cardinality(C)
    <2> HIDE DEF C
    <2>1. Cardinality(C) \in Nat
        BY <1>1, FS_CardinalityType
    <2>2. IsFiniteSet(C \ {y}) /\ Cardinality(C \ {y}) = Cardinality(C) - 1
        BY <1>1, FS_RemoveElement
    <2> QED BY <2>1, <2>2
<1>4. PICK a \in C, b \in C : a # b /\ f[a] = f[b]
    <2> HIDE DEF C, f
    <2> QED BY <1>1, <1>2, <1>3, FS_PigeonHole
<1> QED BY <1>4

Blob == Event \cup {Torn}

LEMMA Associative == \A a, b, c \in Seq(Blob) : (a \o b) \o c = a \o (b \o c)
<1> TAKE a, b, c \in Seq(Blob)
<1> QED BY ConcatAssociative

-----------------------------------------------------------------------------
(* Files read one after the other.                                         *)

\* FilesUpTo for the files fs.
Cat(fs) ==
    CHOOSE g : g = [t \in Time |-> IF t = 0 THEN fs[0] ELSE g[t - 1] \o fs[t]]

\* The recursive definition has a solution: one for the files up to n is
\* extended by the next file.
LEMMA CatExists ==
    ASSUME NEW fs
    PROVE  \E g : g = [t \in Time |-> IF t = 0 THEN fs[0] ELSE g[t - 1] \o fs[t]]
<1> DEFINE Upto(n, g) ==
              g = [t \in 0 .. n |-> IF t = 0 THEN fs[0] ELSE g[t - 1] \o fs[t]]
           P == {n \in Nat : \E g : Upto(n, g)}
<1>1. 0 \in P
    <2>1. Upto(0, [t \in 0 .. 0 |-> fs[0]])
        OBVIOUS
    <2> QED BY <2>1
<1>2. ASSUME NEW n \in Nat, n \in P PROVE n + 1 \in P
    <2>1. PICK g : Upto(n, g)
        BY <1>2
    <2> DEFINE h == [t \in 0 .. n + 1 |-> IF t = n + 1 THEN g[n] \o fs[n + 1] ELSE g[t]]
    <2>2. ASSUME NEW t \in 0 .. n + 1
          PROVE  h[t] = IF t = 0 THEN fs[0] ELSE h[t - 1] \o fs[t]
        <3>1. CASE t = n + 1
            <4>1. h[t - 1] = g[n] /\ t # 0
                BY <3>1
            <4> QED BY <4>1, <3>1
        <3>2. CASE t # n + 1
            <4>1. t \in 0 .. n /\ h[t] = g[t]
                BY <3>2
            <4>2. g[t] = IF t = 0 THEN fs[0] ELSE g[t - 1] \o fs[t]
                BY <4>1, <2>1
            <4>3. t # 0 => h[t - 1] = g[t - 1]
                BY <4>1
            <4> QED BY <4>1, <4>2, <4>3
        <3> QED BY <3>1, <3>2
    <2>3. h = [t \in 0 .. n + 1 |-> h[t]]
        OBVIOUS
    <2> HIDE DEF h
    <2>4. [t \in 0 .. n + 1 |-> h[t]]
             = [t \in 0 .. n + 1 |-> IF t = 0 THEN fs[0] ELSE h[t - 1] \o fs[t]]
        BY <2>2
    <2>5. Upto(n + 1, h)
        BY <2>3, <2>4
    <2> QED BY <2>5
<1>3. MaxClock \in P
    <2> HIDE DEF P
    <2> QED BY <1>1, <1>2, NatSetInduction, MaxClockAssumption
<1> QED BY <1>3 DEF Time

LEMMA CatDef ==
    ASSUME NEW fs
    PROVE  /\ 0 \in Time /\ Cat(fs)[0] = fs[0]
           /\ \A t \in Time : t # 0 => Cat(fs)[t] = Cat(fs)[t - 1] \o fs[t]
<1>1. Cat(fs) = [t \in Time |-> IF t = 0 THEN fs[0] ELSE Cat(fs)[t - 1] \o fs[t]]
    BY CatExists DEF Cat
<1>2. 0 \in Time
    BY MaxClockAssumption DEF Time
<1> HIDE DEF Cat
<1> QED BY <1>1, <1>2

\* Induction over the seconds of system time.
LEMMA TimeInduction ==
    ASSUME NEW P, 0 \in P, \A t \in Time : t # 0 /\ t - 1 \in P => t \in P
    PROVE  \A t \in Time : t \in P
<1> DEFINE Q == {n \in Nat : n \in Time => n \in P}
<1>1. 0 \in Q
    OBVIOUS
<1>2. ASSUME NEW n \in Nat, n \in Q PROVE n + 1 \in Q
    BY <1>2, MaxClockAssumption DEF Time
<1>3. \A n \in Nat : n \in Q
    <2> HIDE DEF Q
    <2> QED BY <1>1, <1>2, NatSetInduction
<1> QED BY <1>3, MaxClockAssumption DEF Time

LEMMA OnDiskCat == OnDisk = Cat(files)[MaxClock] /\ OnDisk' = Cat(files')[MaxClock]
    BY DEF OnDisk, FilesUpTo, Cat

LEMMA CatType ==
    ASSUME NEW fs \in [Time -> Seq(Blob)]
    PROVE  \A t \in Time : Cat(fs)[t] \in Seq(Blob)
<1> DEFINE P == {t \in Time : Cat(fs)[t] \in Seq(Blob)}
<1>1. 0 \in P
    <2>1. 0 \in Time /\ Cat(fs)[0] = fs[0]
        BY CatDef
    <2> QED BY <2>1
<1>2. ASSUME NEW t \in Time, t # 0, t - 1 \in P PROVE t \in P
    <2>1. Cat(fs)[t] = Cat(fs)[t - 1] \o fs[t]
        BY <1>2, CatDef
    <2>2. Cat(fs)[t - 1] \in Seq(Blob) /\ fs[t] \in Seq(Blob)
        BY <1>2
    <2> QED BY <2>1, <2>2, ConcatProperties
<1>3. \A t \in Time : t \in P
    <2> HIDE DEF P
    <2> QED BY <1>1, <1>2, TimeInduction
<1> QED BY <1>3

\* Files read the same up to the first file that differs.
LEMMA CatAgree ==
    ASSUME NEW fs, NEW gs, NEW n \in Time, \A t \in 0 .. n : fs[t] = gs[t]
    PROVE  Cat(fs)[n] = Cat(gs)[n]
<1> DEFINE P == {t \in Time : t <= n => Cat(fs)[t] = Cat(gs)[t]}
<1>1. 0 \in P
    <2>1. 0 \in Time /\ Cat(fs)[0] = fs[0] /\ Cat(gs)[0] = gs[0]
        BY CatDef
    <2>2. fs[0] = gs[0]
        BY MaxClockAssumption DEF Time
    <2> QED BY <2>1, <2>2
<1>2. ASSUME NEW t \in Time, t # 0, t - 1 \in P PROVE t \in P
    <2>1. Cat(fs)[t] = Cat(fs)[t - 1] \o fs[t] /\ Cat(gs)[t] = Cat(gs)[t - 1] \o gs[t]
        BY <1>2, CatDef
    <2>2. t <= n => fs[t] = gs[t] /\ Cat(fs)[t - 1] = Cat(gs)[t - 1]
        BY <1>2, MaxClockAssumption DEF Time
    <2> QED BY <2>1, <2>2
<1>3. \A t \in Time : t \in P
    <2> HIDE DEF P
    <2> QED BY <1>1, <1>2, TimeInduction
<1> QED BY <1>3, MaxClockAssumption DEF Time

\* Empty files add nothing.
LEMMA CatTail ==
    ASSUME NEW fs \in [Time -> Seq(Blob)], NEW n \in Time,
           \A t \in Time : t > n => fs[t] = <<>>
    PROVE  Cat(fs)[MaxClock] = Cat(fs)[n]
<1> DEFINE P == {t \in Time : t >= n => Cat(fs)[t] = Cat(fs)[n]}
<1>1. 0 \in P
    BY MaxClockAssumption DEF Time
<1>2. ASSUME NEW t \in Time, t # 0, t - 1 \in P PROVE t \in P
    <2>1. CASE t <= n
        BY <2>1, MaxClockAssumption DEF Time
    <2>2. CASE t > n
        <3>1. Cat(fs)[t] = Cat(fs)[t - 1] \o fs[t] /\ fs[t] = <<>>
            BY <1>2, <2>2, CatDef
        <3>2. Cat(fs)[t - 1] = Cat(fs)[n]
            BY <1>2, <2>2, MaxClockAssumption DEF Time
        <3>3. Cat(fs)[n] \in Seq(Blob)
            BY CatType
        <3> QED BY <3>1, <3>2, <3>3, ConcatEmptySeq
    <2> QED BY <2>1, <2>2, MaxClockAssumption DEF Time
<1>3. \A t \in Time : t \in P
    <2> HIDE DEF P
    <2> QED BY <1>1, <1>2, TimeInduction
<1> QED BY <1>3, MaxClockAssumption DEF Time

\* What is appended to the last file that has contents is read last.
LEMMA CatAppend ==
    ASSUME NEW fs \in [Time -> Seq(Blob)], NEW gs \in [Time -> Seq(Blob)],
           NEW k \in Time, NEW s \in Seq(Blob),
           gs[k] = fs[k] \o s, \A t \in Time : t # k => gs[t] = fs[t],
           \A t \in Time : t > k => fs[t] = <<>>
    PROVE  Cat(gs)[MaxClock] = Cat(fs)[MaxClock] \o s
<1>1. Cat(fs)[MaxClock] = Cat(fs)[k]
    BY CatTail
<1>2. \A t \in Time : t > k => gs[t] = <<>>
    BY MaxClockAssumption DEF Time
<1>3. Cat(gs)[MaxClock] = Cat(gs)[k]
    BY <1>2, CatTail
<1>4. Cat(gs)[k] = Cat(fs)[k] \o s
    <2>1. CASE k = 0
        BY <2>1, CatDef
    <2>2. CASE k # 0
        <3>1. k - 1 \in Time /\ \A t \in 0 .. k - 1 : t \in Time /\ t # k
            BY <2>2, MaxClockAssumption DEF Time
        <3>2. Cat(gs)[k - 1] = Cat(fs)[k - 1]
            BY <3>1, CatAgree
        <3>3. Cat(gs)[k] = Cat(fs)[k - 1] \o (fs[k] \o s)
            BY <2>2, <3>2, CatDef
        <3>4. Cat(fs)[k] = Cat(fs)[k - 1] \o fs[k]
            BY <2>2, CatDef
        <3>5. Cat(fs)[k - 1] \in Seq(Blob) /\ fs[k] \in Seq(Blob)
            BY <3>1, CatType
        <3>6. (Cat(fs)[k - 1] \o fs[k]) \o s = Cat(fs)[k - 1] \o (fs[k] \o s)
            BY <3>5, Associative
        <3> QED BY <3>3, <3>4, <3>6
    <2> QED BY <2>1, <2>2
<1> QED BY <1>1, <1>3, <1>4

-----------------------------------------------------------------------------
(* Elements and Importable.                                                *)

LEMMA ElementsConcat ==
    ASSUME NEW a \in Seq(Blob), NEW b \in Seq(Blob)
    PROVE  Elements(a \o b) = Elements(a) \cup Elements(b)
<1>1. /\ Len(a) \in Nat /\ Len(b) \in Nat /\ Len(a \o b) = Len(a) + Len(b)
      /\ \A i \in 1 .. Len(a) + Len(b) :
            (a \o b)[i] = IF i <= Len(a) THEN a[i] ELSE b[i - Len(a)]
    BY ConcatProperties, LenProperties
<1>2. ASSUME NEW x \in Elements(a \o b) PROVE x \in Elements(a) \cup Elements(b)
    <2>1. PICK i \in 1 .. Len(a) + Len(b) : x = (a \o b)[i]
        BY <1>1 DEF Elements
    <2>2. CASE i <= Len(a)
        <3>1. i \in 1 .. Len(a) /\ x = a[i]
            BY <1>1, <2>1, <2>2
        <3> QED BY <3>1 DEF Elements
    <2>3. CASE i > Len(a)
        <3>1. i - Len(a) \in 1 .. Len(b) /\ x = b[i - Len(a)]
            BY <1>1, <2>1, <2>3
        <3> QED BY <3>1 DEF Elements
    <2> QED BY <1>1, <2>2, <2>3
<1>3. ASSUME NEW x \in Elements(a) PROVE x \in Elements(a \o b)
    <2>1. PICK i \in 1 .. Len(a) : x = a[i]
        BY DEF Elements
    <2>2. i \in 1 .. Len(a \o b) /\ x = (a \o b)[i]
        BY <1>1, <2>1
    <2> QED BY <2>2 DEF Elements
<1>4. ASSUME NEW x \in Elements(b) PROVE x \in Elements(a \o b)
    <2>1. PICK i \in 1 .. Len(b) : x = b[i]
        BY DEF Elements
    <2>2. Len(a) + i \in 1 .. Len(a \o b) /\ x = (a \o b)[Len(a) + i]
        BY <1>1, <2>1
    <2> QED BY <2>2 DEF Elements
<1> QED BY <1>2, <1>3, <1>4

LEMMA ElementsEmpty == Elements(<<>>) = {}
    BY DEF Elements

LEMMA ElementsAppend ==
    ASSUME NEW s \in Seq(Event), NEW e \in Event
    PROVE  Elements(Append(s, e)) = Elements(s) \cup {e}
<1>1. Len(Append(s, e)) = Len(s) + 1 /\ Len(s) \in Nat
    BY AppendProperties, LenProperties
<1>2. /\ \A i \in 1 .. Len(s) : Append(s, e)[i] = s[i]
      /\ Append(s, e)[Len(s) + 1] = e
    BY AppendProperties
<1>3. 1 .. Len(s) + 1 = (1 .. Len(s)) \cup {Len(s) + 1}
    BY <1>1
<1> QED BY <1>1, <1>2, <1>3 DEF Elements

\* The elements on disk are those of the files, in whatever order they are
\* read.
LEMMA CatElements ==
    ASSUME NEW fs \in [Time -> Seq(Blob)]
    PROVE  Elements(Cat(fs)[MaxClock]) = UNION {Elements(fs[t]) : t \in Time}
<1> DEFINE P == {t \in Time :
                   Elements(Cat(fs)[t]) = UNION {Elements(fs[u]) : u \in 0 .. t}}
<1>1. 0 \in P
    <2>1. 0 \in Time /\ Cat(fs)[0] = fs[0]
        BY CatDef
    <2>2. 0 .. 0 = {0}
        OBVIOUS
    <2> HIDE DEF Elements
    <2> QED BY <2>1, <2>2
<1>2. ASSUME NEW t \in Time, t # 0, t - 1 \in P PROVE t \in P
    <2>1. Cat(fs)[t] = Cat(fs)[t - 1] \o fs[t]
        BY <1>2, CatDef
    <2>2. Cat(fs)[t - 1] \in Seq(Blob) /\ fs[t] \in Seq(Blob)
        BY <1>2, CatType
    <2>3. Elements(Cat(fs)[t]) = Elements(Cat(fs)[t - 1]) \cup Elements(fs[t])
        BY <2>1, <2>2, ElementsConcat
    <2>4. 0 .. t = (0 .. t - 1) \cup {t}
        BY <1>2, MaxClockAssumption DEF Time
    <2>5. Elements(Cat(fs)[t - 1]) = UNION {Elements(fs[u]) : u \in 0 .. t - 1}
        BY <1>2
    <2> QED BY <2>3, <2>4, <2>5
<1>3. \A t \in Time : t \in P
    <2> HIDE DEF P
    <2> QED BY <1>1, <1>2, TimeInduction
<1> QED BY <1>3, MaxClockAssumption DEF Time

\* Whatever can be imported can be imported without its last events.
LEMMA ImportablePrefix ==
    ASSUME NEW a \in Seq(Blob), NEW b \in Seq(Blob), Importable(a \o b)
    PROVE  Importable(a)
<1>1. /\ Len(a) \in Nat /\ Len(b) \in Nat /\ Len(a \o b) = Len(a) + Len(b)
      /\ a \o b \in Seq(Blob)
      /\ \A i \in 1 .. Len(a) + Len(b) :
            (a \o b)[i] = IF i <= Len(a) THEN a[i] ELSE b[i - Len(a)]
    BY ConcatProperties, LenProperties
<1> SUFFICES ASSUME NEW i \in 1 .. Len(a)
             PROVE  /\ a[i] # Torn
                    /\ Needs(a[i]) \subseteq Elements(SubSeq(a, 1, i - 1))
    BY DEF Importable
<1>2. i \in 1 .. Len(a \o b) /\ (a \o b)[i] = a[i]
    BY <1>1
<1>3. SubSeq(a \o b, 1, i - 1) = SubSeq(a, 1, i - 1)
    <2>1. CASE i = 1
        BY <2>1, SubSeqEmpty
    <2>2. CASE i # 1
        <3>1. 1 \in 1 .. Len(a) /\ i - 1 \in 1 .. Len(a)
            BY <1>1, <2>2
        <3> QED BY <3>1, SubSeqOfConcat1
    <2> QED BY <2>1, <2>2
<1> QED BY <1>2, <1>3 DEF Importable

LEMMA ImportableAppend ==
    ASSUME NEW s \in Seq(Event), NEW e \in Event, Importable(s),
           Needs(e) \subseteq Elements(s)
    PROVE  Importable(Append(s, e))
<1>1. Len(Append(s, e)) = Len(s) + 1 /\ Len(s) \in Nat
    BY AppendProperties, LenProperties
<1>2. /\ \A i \in 1 .. Len(s) : Append(s, e)[i] = s[i]
      /\ Append(s, e)[Len(s) + 1] = e
    BY AppendProperties
<1>3. ASSUME NEW i \in 1 .. Len(s) + 1
      PROVE  SubSeq(Append(s, e), 1, i - 1) = SubSeq(s, 1, i - 1)
    <2>1. \A j \in 1 .. i - 1 : Append(s, e)[j] = s[j] /\ s[j] \in Event
        <3>1. s \in [1 .. Len(s) -> Event]
            BY LenProperties
        <3> QED BY <1>1, <1>2, <3>1
    <2> DEFINE u == SubSeq(Append(s, e), 1, i - 1)
               v == SubSeq(s, 1, i - 1)
    <2>2. i - 1 \in Int /\ 1 \in Int
        BY <1>1
    <2>3. /\ u \in Seq(Event) /\ Len(u) = IF 1 <= i - 1 THEN i - 1 - 1 + 1 ELSE 0
          /\ \A j \in 1 .. i - 1 - 1 + 1 : u[j] = Append(s, e)[1 + j - 1]
        BY <2>1, <2>2, SubSeqProperties
    <2>4. /\ v \in Seq(Event) /\ Len(v) = IF 1 <= i - 1 THEN i - 1 - 1 + 1 ELSE 0
          /\ \A j \in 1 .. i - 1 - 1 + 1 : v[j] = s[1 + j - 1]
        BY <2>1, <2>2, SubSeqProperties
    <2> HIDE DEF u, v
    <2>5. Len(u) = i - 1 /\ Len(v) = i - 1
        BY <1>1, <2>3, <2>4
    <2>6. \A j \in 1 .. i - 1 : u[j] = v[j]
        BY <1>1, <2>1, <2>3, <2>4
    <2>7. u = v
        BY <2>3, <2>4, <2>5, <2>6, SeqEqual
    <2> QED BY <2>7 DEF u, v
<1>4. SubSeq(s, 1, Len(s)) = s
    BY SubSeqFull
<1> SUFFICES ASSUME NEW i \in 1 .. Len(s) + 1
             PROVE  /\ Append(s, e)[i] # Torn
                    /\ Needs(Append(s, e)[i]) \subseteq Elements(SubSeq(s, 1, i - 1))
    BY <1>1, <1>3 DEF Importable
<1>5. CASE i = Len(s) + 1
    <2>1. i - 1 = Len(s) /\ e # Torn
        BY <1>1, <1>5 DEF Event, Torn
    <2> QED BY <1>2, <1>4, <1>5, <2>1
<1>6. CASE i \in 1 .. Len(s)
    BY <1>2, <1>6 DEF Importable
<1> QED BY <1>1, <1>5, <1>6

-----------------------------------------------------------------------------
(* The inductive invariant.                                                *)

Running == phase \in {"serving", "stopping"}

\* Nothing is on its way to a file unless the forum runs.
IdleInv == ~Running => batch = <<>> /\ queue = <<>>

\* append always chooses a file, because the clock is later than Refresh.
CreatedInv == clock > Refresh /\ (batch # <<>> => created # 0)

\* Unless the clock was set back, no file is from the future and none is later
\* than the one the appender writes to: what it writes is read last.
FilesInv ==
    "clock" \notin faults =>
        /\ created <= clock
        /\ \A t \in Time : t > clock => files[t] = <<>>
        /\ Alive /\ created # 0 => \A t \in Time : t > created => files[t] = <<>>

\* While the forum runs.
RunningInv ==
    Running =>
        /\ Importable(state)
        /\ "clock" \notin faults => OnDisk \o batch \o queue = state
        /\ Elements(OnDisk) \cup Elements(batch) \cup Elements(queue) = Elements(state)

\* What a run leaves on disk can be read back.
DiskInv == ~Running /\ faults \cap {"killed", "clock"} = {} => Importable(OnDisk)

StoppingInv == phase = "stopping" => atStop = state

Inv ==
    /\ TypeOK /\ IdleInv /\ CreatedInv /\ FilesInv
    /\ RunningInv /\ DiskInv /\ StoppingInv
    /\ StopLosesNothing /\ NeverRefused

LEMMA InvInit == Init => Inv
<1> SUFFICES ASSUME Init PROVE Inv
    OBVIOUS
<1>1. TypeOK
    <2>1. Refresh + 1 \in Time /\ 0 \in Time /\ 0 \in 0 .. MaxStarts
        BY MaxClockAssumption, RefreshAssumption, MaxStartsAssumption DEF Time
    <2>2. <<>> \in Seq(Event) /\ <<>> \in Seq(Event \cup {Torn})
        OBVIOUS
    <2> QED BY <2>1, <2>2 DEF Init, TypeOK, Phase
<1>2. OnDisk = <<>>
    <2>1. files \in [Time -> Seq(Blob)] /\ 0 \in Time
        BY <1>1, CatDef DEF TypeOK, Blob
    <2>2. \A t \in Time : t > 0 => files[t] = <<>>
        BY DEF Init
    <2>3. Cat(files)[MaxClock] = Cat(files)[0]
        BY <2>1, <2>2, CatTail
    <2>4. Cat(files)[0] = files[0]
        BY CatDef
    <2> QED BY <2>1, <2>3, <2>4, OnDiskCat DEF Init
<1>3. Importable(OnDisk)
    BY <1>2 DEF Importable
<1>4. IdleInv /\ CreatedInv /\ FilesInv
    <2>1. clock > Refresh /\ created <= clock
        BY RefreshAssumption DEF Init
    <2> QED BY <2>1 DEF Init, IdleInv, CreatedInv, FilesInv, Running, Alive
<1>5. RunningInv /\ DiskInv /\ StoppingInv /\ StopLosesNothing /\ NeverRefused
    BY <1>2, <1>3
    DEF Init, RunningInv, DiskInv, StoppingInv, StopLosesNothing, NeverRefused, Running
<1> QED BY <1>1, <1>4, <1>5 DEF Inv

LEMMA EventsAreBlobs == \A s \in Seq(Event) : s \in Seq(Blob)
    BY SeqMonotonic DEF Blob

LEMMA OnDiskType ==
    ASSUME TypeOK
    PROVE  OnDisk \in Seq(Blob)
<1>1. files \in [Time -> Seq(Blob)] /\ MaxClock \in Time
    BY MaxClockAssumption DEF TypeOK, Blob, Time
<1> QED BY <1>1, CatType, OnDiskCat

\* What a write to the current file does to the files and to what is read.
LEMMA WrittenElements ==
    ASSUME files \in [Time -> Seq(Blob)], files' \in [Time -> Seq(Blob)],
           created \in Time, NEW w \in Seq(Blob),
           \A t \in Time : t # created => files'[t] = files[t],
           files'[created] = files[created] \o w
    PROVE  Elements(OnDisk') = Elements(OnDisk) \cup Elements(w)
<1>1. Elements(files'[created]) = Elements(files[created]) \cup Elements(w)
    BY ElementsConcat
<1>2. \A t \in Time :
          Elements(files'[t]) = IF t = created THEN Elements(files[created]) \cup Elements(w)
                                               ELSE Elements(files[t])
    BY <1>1
<1>3. UNION {Elements(files'[t]) : t \in Time}
        = (UNION {Elements(files[t]) : t \in Time}) \cup Elements(w)
    BY <1>2
<1>4. Elements(Cat(files')[MaxClock]) = UNION {Elements(files'[t]) : t \in Time}
    BY CatElements
<1>5. Elements(Cat(files)[MaxClock]) = UNION {Elements(files[t]) : t \in Time}
    BY CatElements
<1> QED BY <1>3, <1>4, <1>5, OnDiskCat

LEMMA WrittenLast ==
    ASSUME files \in [Time -> Seq(Blob)], files' \in [Time -> Seq(Blob)],
           created \in Time, NEW w \in Seq(Blob),
           \A t \in Time : t # created => files'[t] = files[t],
           files'[created] = files[created] \o w,
           \A t \in Time : t > created => files[t] = <<>>
    PROVE  OnDisk' = OnDisk \o w
<1>1. \A fs, gs \in [Time -> Seq(Blob)] : \A k \in Time :
          /\ gs[k] = fs[k] \o w
          /\ \A t \in Time : t # k => gs[t] = fs[t]
          /\ \A t \in Time : t > k => fs[t] = <<>>
          => Cat(gs)[MaxClock] = Cat(fs)[MaxClock] \o w
    BY CatAppend
<1>2. Cat(files')[MaxClock] = Cat(files)[MaxClock] \o w
    BY <1>1
<1> QED BY <1>2, OnDiskCat

LEMMA Written ==
    ASSUME TypeOK, NEW w \in Seq(Blob),
           files' = [files EXCEPT ![created] = @ \o w]
    PROVE  /\ files' \in [Time -> Seq(Blob)]
           /\ \A t \in Time : t # created => files'[t] = files[t]
           /\ files'[created] = files[created] \o w
           /\ Elements(OnDisk') = Elements(OnDisk) \cup Elements(w)
           /\ (\A t \in Time : t > created => files[t] = <<>>)
                 => OnDisk' = OnDisk \o w
           /\ w = <<>> => files' = files /\ OnDisk' = OnDisk
<1>1. files \in [Time -> Seq(Blob)] /\ created \in Time
    BY DEF TypeOK, Blob
<1>2. files[created] \o w \in Seq(Blob)
    BY <1>1, ConcatProperties
<1>3. files' \in [Time -> Seq(Blob)]
    BY <1>1, <1>2
<1>4. \A t \in Time : t # created => files'[t] = files[t]
    BY <1>1
<1>5. files'[created] = files[created] \o w
    BY <1>1
<1>6. Elements(OnDisk') = Elements(OnDisk) \cup Elements(w)
    BY <1>1, <1>3, <1>4, <1>5, WrittenElements
<1>7. (\A t \in Time : t > created => files[t] = <<>>) => OnDisk' = OnDisk \o w
    BY <1>1, <1>3, <1>4, <1>5, WrittenLast
<1>8. ASSUME w = <<>> PROVE files' = files /\ OnDisk' = OnDisk
    <2>1. files[created] \o w = files[created]
        BY <1>1, <1>8, ConcatEmptySeq
    <2>2. files' = files
        BY <1>1, <1>3, <1>4, <1>5, <2>1
    <2> QED BY <2>2, OnDiskCat
<1> QED BY <1>3, <1>4, <1>5, <1>6, <1>7, <1>8

LEMMA TorsoType ==
    ASSUME TypeOK, NEW k \in 0 .. Len(batch), NEW cut \in BOOLEAN
    PROVE  Torso(k, cut) \in Seq(Blob)
<1>1. \A i \in 1 .. k : batch[i] \in Blob
    <2>1. Len(batch) \in Nat /\ batch \in [1 .. Len(batch) -> Event]
        BY LenProperties DEF TypeOK
    <2> QED BY <2>1 DEF Blob
<1>2. SubSeq(batch, 1, k) \in Seq(Blob)
    <2>1. k \in Int /\ 1 \in Int
        BY DEF TypeOK
    <2>2. \A i \in 1 .. k : batch[i] \in Blob
        BY <1>1
    <2> QED BY <2>2, <2>1, SubSeqProperties
<1>3. <<Torn>> \in Seq(Blob) /\ <<>> \in Seq(Blob)
    <2>1. Torn \in Blob
        BY DEF Blob
    <2> QED BY <2>1
<1> QED BY <1>2, <1>3, ConcatProperties DEF Torso

LEMMA SameDisk == files' = files => OnDisk' = OnDisk
    BY OnDiskCat

\* Blobs that can be imported are events.
LEMMA ImportableEvents ==
    ASSUME NEW s \in Seq(Blob), Importable(s)
    PROVE  s \in Seq(Event)
<1>1. Len(s) \in Nat /\ s \in [1 .. Len(s) -> Blob]
    BY LenProperties
<1>2. \A i \in 1 .. Len(s) : s[i] \in Event
    BY <1>1 DEF Importable, Blob
<1>3. s \in [1 .. Len(s) -> Event]
    BY <1>1, <1>2
<1> QED BY <1>1, <1>3, SeqDef

LEMMA CurrentFileType ==
    ASSUME TypeOK
    PROVE  CurrentFile \in Time
    BY DEF TypeOK, CurrentFile

\* The process is gone and w is all that reached the current file.
LEMMA GoneType ==
    ASSUME TypeOK, NEW w \in Seq(Blob), NEW fault \in Fault, Gone(w, fault)
    PROVE  TypeOK'
<1>1. files' \in [Time -> Seq(Blob)]
    BY Written DEF Gone
<1>2. <<>> \in Seq(Event)
    OBVIOUS
<1> QED BY <1>1, <1>2 DEF Gone, TypeOK, Phase, Blob

LEMMA TypeNext == TypeOK /\ [Next]_vars => TypeOK'
<1> SUFFICES ASSUME TypeOK, [Next]_vars PROVE TypeOK'
    OBVIOUS
<1>e. <<>> \in Seq(Event)
    OBVIOUS
<1>1. CASE createCommandHandler
    <2>1. starts' \in 0 .. MaxStarts /\ 0 \in Time
        BY <1>1, MaxClockAssumption, MaxStartsAssumption
        DEF createCommandHandler, TypeOK, Time
    <2> QED BY <1>1, <1>e, <2>1 DEF createCommandHandler, TypeOK, clockVars, Phase
<1>2. CASE importEvents
    <2>1. Importable(OnDisk) => OnDisk \in Seq(Event)
        BY OnDiskType, ImportableEvents
    <2>2. state' \in Seq(Event) /\ phase' \in Phase
        BY <1>2, <2>1 DEF importEvents, TypeOK, Phase
    <2> QED BY <1>2, <2>2 DEF importEvents, TypeOK, clockVars
<1>3. CASE prepareToStop
    BY <1>3 DEF prepareToStop, TypeOK, clockVars, Phase
<1>4. CASE DestroyAppender
    BY <1>4 DEF DestroyAppender, TypeOK, clockVars, Phase
<1>5. CASE Exit
    BY <1>5 DEF Exit, TypeOK, clockVars, Phase
<1>6. ASSUME NEW e \in Event, recordBlob(e) PROVE TypeOK'
    <2>1. state' \in Seq(Event) /\ queue' \in Seq(Event)
        <3>1. state \in Seq(Event) /\ queue \in Seq(Event)
            BY DEF TypeOK
        <3>2. Append(state, e) \in Seq(Event) /\ Append(queue, e) \in Seq(Event)
            BY <3>1, AppendProperties
        <3> QED BY <1>6, <3>2 DEF recordBlob
    <2> QED BY <1>6, <2>1 DEF recordBlob, TypeOK, clockVars
<1>7. CASE append
    <2>1. created' \in Time
        BY <1>7, CurrentFileType DEF append
    <2> QED BY <1>7, <1>e, <2>1 DEF append, TypeOK, clockVars
<1>8. CASE CloseFile
    <2>1. files' \in [Time -> Seq(Blob)]
        <3>1. batch \in Seq(Blob)
            BY EventsAreBlobs DEF TypeOK
        <3> QED BY <1>8, <3>1, Written DEF CloseFile
    <2> QED BY <1>8, <1>e, <2>1 DEF CloseFile, TypeOK, clockVars, Blob
<1>9. CASE appendAfterDestruction
    <2>1. <<>> \in Seq(Blob) /\ "aborted" \in Fault
        BY DEF Fault
    <2> QED BY <1>9, <2>1, GoneType DEF appendAfterDestruction
<1>10. CASE crash
    <2>1. PICK k \in 0 .. Len(batch), cut \in BOOLEAN : Gone(Torso(k, cut), "killed")
        BY <1>10 DEF crash
    <2>2. Torso(k, cut) \in Seq(Blob) /\ "killed" \in Fault
        BY TorsoType DEF Fault
    <2> QED BY <2>1, <2>2, GoneType
<1>11. CASE Tick
    BY <1>11, MaxClockAssumption DEF Tick, TypeOK, Time
<1>12. CASE SetClockBack
    <2>1. clock' \in Time
        BY <1>12, MaxClockAssumption, RefreshAssumption DEF SetClockBack, TypeOK, Time
    <2> QED BY <1>12, <2>1 DEF SetClockBack, TypeOK, Fault
<1>13. CASE UNCHANGED vars
    BY <1>13 DEF vars, TypeOK
<1> QED BY <1>1, <1>2, <1>3, <1>4, <1>5, <1>6, <1>7, <1>8, <1>9, <1>10, <1>11,
           <1>12, <1>13 DEF Next, Collector

LEMMA AppendLast ==
    \A a \in Seq(Blob) : \A q \in Seq(Blob) : \A e \in Event :
        a \o Append(q, e) = Append(a \o q, e)
<1> TAKE a \in Seq(Blob)
<1> TAKE q \in Seq(Blob)
<1> TAKE e \in Event
<1>1. e \in Blob /\ <<e>> \in Seq(Blob) /\ a \o q \in Seq(Blob)
    BY ConcatProperties DEF Blob
<1>2. Append(q, e) = q \o <<e>> /\ Append(a \o q, e) = (a \o q) \o <<e>>
    BY <1>1, AppendIsConcat
<1> QED BY <1>1, <1>2, Associative

\* The files, the batch and the queue are sequences of blobs, and an empty
\* one adds nothing.
LEMMA Pieces ==
    ASSUME TypeOK
    PROVE  /\ OnDisk \in Seq(Blob) /\ batch \in Seq(Blob) /\ queue \in Seq(Blob)
           /\ state \in Seq(Blob)
           /\ OnDisk \o batch \in Seq(Blob) /\ OnDisk \o queue \in Seq(Blob)
           /\ OnDisk \o <<>> = OnDisk
           /\ (OnDisk \o batch) \o <<>> = OnDisk \o batch
           /\ (OnDisk \o queue) \o <<>> = OnDisk \o queue
           /\ Elements(<<>>) = {}
<1>1. OnDisk \in Seq(Blob) /\ batch \in Seq(Blob) /\ queue \in Seq(Blob)
      /\ state \in Seq(Blob)
    BY OnDiskType, EventsAreBlobs DEF TypeOK
<1>2. OnDisk \o batch \in Seq(Blob) /\ OnDisk \o queue \in Seq(Blob)
    BY <1>1, ConcatProperties
<1> QED BY <1>1, <1>2, ConcatEmptySeq, ElementsEmpty

-----------------------------------------------------------------------------
(* Every action keeps the invariant.                                       *)

LEMMA StartKeepsInv == Inv /\ createCommandHandler => Inv'
<1> SUFFICES ASSUME Inv, createCommandHandler PROVE Inv'
    OBVIOUS
<1> USE DEF createCommandHandler, clockVars, Inv
<1>1. TypeOK'
    BY TypeNext DEF Next
<1>2. OnDisk' = OnDisk
    BY SameDisk
<1>3. IdleInv' /\ CreatedInv' /\ RunningInv' /\ DiskInv' /\ StoppingInv'
    BY <1>2 DEF IdleInv, CreatedInv, RunningInv, DiskInv, StoppingInv, Running
<1>4. FilesInv'
    <2>1. 0 <= clock
        BY DEF TypeOK, Time
    <2> QED BY <2>1 DEF FilesInv
<1>5. StopLosesNothing' /\ NeverRefused'
    BY DEF StopLosesNothing, NeverRefused
<1> QED BY <1>1, <1>3, <1>4, <1>5

LEMMA ImportKeepsInv == Inv /\ importEvents => Inv'
<1> SUFFICES ASSUME Inv, importEvents PROVE Inv'
    OBVIOUS
<1> USE DEF importEvents, clockVars, Inv
<1>1. TypeOK'
    BY TypeNext DEF Next
<1>2. OnDisk' = OnDisk
    BY SameDisk
<1>3. batch = <<>> /\ queue = <<>> /\ batch' = <<>> /\ queue' = <<>>
    BY DEF IdleInv, Running
<1>4. CreatedInv' /\ FilesInv'
    BY DEF CreatedInv, FilesInv, Alive
<1>5. IdleInv' /\ DiskInv' /\ StoppingInv'
    BY <1>2, <1>3 DEF IdleInv, DiskInv, StoppingInv, Running
<1>6. RunningInv'
    <2>1. Running' => Importable(OnDisk) /\ state' = OnDisk
        BY DEF Running
    <2>2. OnDisk \o <<>> \o <<>> = OnDisk /\ Elements(<<>>) = {}
        BY Pieces
    <2> QED BY <1>2, <1>3, <2>1, <2>2 DEF RunningInv
<1>7. StopLosesNothing' /\ NeverRefused'
    BY DEF StopLosesNothing, NeverRefused, DiskInv, Running
<1> QED BY <1>1, <1>4, <1>5, <1>6, <1>7

LEMMA RecordKeepsInv ==
    ASSUME NEW e \in Event, Inv, recordBlob(e)
    PROVE  Inv'
<1> USE DEF recordBlob, clockVars, Inv
<1>1. TypeOK'
    BY TypeNext DEF Next
<1>2. OnDisk' = OnDisk
    BY SameDisk
<1>3. CreatedInv' /\ FilesInv'
    BY DEF CreatedInv, FilesInv, Alive
<1>4. IdleInv' /\ DiskInv' /\ StoppingInv' /\ StopLosesNothing' /\ NeverRefused'
    BY DEF IdleInv, DiskInv, StoppingInv, Running, StopLosesNothing, NeverRefused
<1>5. RunningInv'
    <2>1. Running
        BY DEF Running
    <2>2. Importable(state')
        BY <2>1, ImportableAppend DEF RunningInv, TypeOK
    <2>3. "clock" \notin faults => OnDisk \o batch \o queue' = state'
        <3>1. (OnDisk \o batch) \o Append(queue, e) = Append((OnDisk \o batch) \o queue, e)
            BY Pieces, AppendLast
        <3> QED BY <2>1, <3>1 DEF RunningInv
    <2>4. /\ Elements(queue') = Elements(queue) \cup {e}
          /\ Elements(state') = Elements(state) \cup {e}
        BY ElementsAppend DEF TypeOK
    <2>5. Elements(OnDisk) \cup Elements(batch) \cup Elements(queue') = Elements(state')
        BY <2>1, <2>4 DEF RunningInv
    <2> QED BY <1>2, <2>2, <2>3, <2>5 DEF RunningInv
<1> QED BY <1>1, <1>3, <1>4, <1>5

LEMMA StopKeepsInv == Inv /\ (prepareToStop \/ DestroyAppender) => Inv'
<1> SUFFICES ASSUME Inv, prepareToStop \/ DestroyAppender PROVE Inv'
    OBVIOUS
<1> USE DEF prepareToStop, DestroyAppender, clockVars, Inv
<1>1. TypeOK'
    BY TypeNext DEF Next
<1>2. OnDisk' = OnDisk
    BY SameDisk
<1>3. CreatedInv' /\ FilesInv'
    BY DEF CreatedInv, FilesInv, Alive
<1>4. IdleInv' /\ DiskInv' /\ StoppingInv' /\ StopLosesNothing' /\ NeverRefused'
    BY DEF IdleInv, DiskInv, StoppingInv, Running, StopLosesNothing, NeverRefused
<1>5. RunningInv'
    BY <1>2 DEF RunningInv, Running
<1> QED BY <1>1, <1>3, <1>4, <1>5

LEMMA ExitKeepsInv == Inv /\ Exit => Inv'
<1> SUFFICES ASSUME Inv, Exit PROVE Inv'
    OBVIOUS
<1> USE DEF Exit, clockVars, Inv
<1>1. TypeOK'
    BY TypeNext DEF Next
<1>2. OnDisk' = OnDisk
    BY SameDisk
<1>3. CreatedInv' /\ FilesInv'
    BY DEF CreatedInv, FilesInv, Alive
<1>4. IdleInv' /\ RunningInv' /\ StoppingInv' /\ NeverRefused'
    BY DEF IdleInv, RunningInv, StoppingInv, Running, NeverRefused
<1>5. Importable(state) /\ ("clock" \notin faults => OnDisk = state) /\ atStop = state
    <2>1. OnDisk \o <<>> \o <<>> = OnDisk
        BY Pieces
    <2> QED BY <2>1 DEF RunningInv, StoppingInv, Running
<1>6. DiskInv' /\ StopLosesNothing'
    BY <1>2, <1>5 DEF DiskInv, StopLosesNothing
<1> QED BY <1>1, <1>3, <1>4, <1>6

LEMMA AppendKeepsInv == Inv /\ append => Inv'
<1> SUFFICES ASSUME Inv, append PROVE Inv'
    OBVIOUS
<1> USE DEF append, clockVars, Inv
<1>1. TypeOK'
    BY TypeNext DEF Next, Collector
<1>2. OnDisk' = OnDisk
    BY SameDisk
<1>3. Running
    BY DEF IdleInv
<1>4. created' # 0 /\ clock' > Refresh /\ (created <= clock => created' <= clock)
    BY RefreshAssumption DEF CreatedInv, CurrentFile, TypeOK, Time
<1>5. CreatedInv'
    BY <1>4 DEF CreatedInv
<1>6. FilesInv'
    <2>1. created' = clock \/ (created' = created /\ created # 0)
        BY <1>4 DEF CurrentFile
    <2> QED BY <1>4, <2>1 DEF FilesInv, Alive
<1>7. IdleInv' /\ DiskInv' /\ StoppingInv' /\ StopLosesNothing' /\ NeverRefused'
    BY <1>3 DEF IdleInv, DiskInv, StoppingInv, Running, StopLosesNothing, NeverRefused
<1>8. RunningInv'
    <2>1. OnDisk \o <<>> \o queue = OnDisk \o queue \o <<>> /\ Elements(<<>>) = {}
        BY Pieces
    <2> QED BY <1>2, <1>3, <2>1 DEF RunningInv
<1> QED BY <1>1, <1>5, <1>6, <1>7, <1>8

LEMMA CloseKeepsInv == Inv /\ CloseFile => Inv'
<1> SUFFICES ASSUME Inv, CloseFile PROVE Inv'
    OBVIOUS
<1> USE DEF CloseFile, clockVars, Inv
<1>1. TypeOK'
    BY TypeNext DEF Next, Collector
<1>2. Running
    BY DEF IdleInv
<1>3. batch \in Seq(Blob)
    BY Pieces
<1>4. /\ \A t \in Time : t # created => files'[t] = files[t]
      /\ Elements(OnDisk') = Elements(OnDisk) \cup Elements(batch)
      /\ (\A t \in Time : t > created => files[t] = <<>>) => OnDisk' = OnDisk \o batch
    BY <1>3, Written
<1>5. "clock" \notin faults => OnDisk' = OnDisk \o batch
    BY <1>4 DEF FilesInv, CreatedInv
<1>6. CreatedInv'
    BY DEF CreatedInv
<1>7. FilesInv'
    <2>1. created \in Nat /\ clock \in Nat /\ Time \subseteq Nat
        BY DEF TypeOK, Time
    <2> QED BY <1>4, <2>1 DEF FilesInv, Alive
<1>8. IdleInv' /\ DiskInv' /\ StoppingInv' /\ StopLosesNothing' /\ NeverRefused'
    BY <1>2 DEF IdleInv, DiskInv, StoppingInv, Running, StopLosesNothing, NeverRefused
<1>9. RunningInv'
    <2>1. (OnDisk \o batch) \o <<>> = OnDisk \o batch /\ Elements(<<>>) = {}
        BY Pieces
    <2>2. "clock" \notin faults => OnDisk' \o batch' \o queue' = state'
        BY <1>2, <1>5, <2>1 DEF RunningInv
    <2>3. Elements(OnDisk') \cup Elements(batch') \cup Elements(queue') = Elements(state')
        BY <1>2, <1>4, <2>1 DEF RunningInv
    <2> QED BY <1>2, <2>2, <2>3 DEF RunningInv, Running
<1> QED BY <1>1, <1>6, <1>7, <1>8, <1>9

LEMMA GoneKeepsInv ==
    ASSUME Inv, Alive, NEW w \in Seq(Blob), NEW fault, Gone(w, fault),
           \/ fault = "killed"
           \/ fault = "aborted" /\ w = <<>> /\ Running
    PROVE  Inv'
<1> USE DEF Gone, Inv
<1>1. TypeOK'
    BY GoneType DEF Fault
<1>2. \A t \in Time : t # created => files'[t] = files[t]
    BY Written
<1>3. CreatedInv'
    BY DEF CreatedInv
<1>4. FilesInv'
    <2>1. created \in Nat /\ clock \in Nat /\ Time \subseteq Nat
        BY DEF TypeOK, Time
    <2> QED BY <1>2, <2>1 DEF FilesInv, Alive
<1>5. IdleInv' /\ RunningInv' /\ StoppingInv' /\ StopLosesNothing' /\ NeverRefused'
    BY DEF IdleInv, RunningInv, StoppingInv, Running, StopLosesNothing, NeverRefused
<1>6. DiskInv'
    <2>1. CASE fault = "killed"
        BY <2>1 DEF DiskInv
    <2>2. CASE fault = "aborted" /\ w = <<>> /\ Running
        <3>1. OnDisk' = OnDisk
            BY <2>2, Written
        <3>2. "clock" \notin faults => Importable(OnDisk)
            <4>1. SUFFICES ASSUME "clock" \notin faults PROVE Importable(OnDisk)
                OBVIOUS
            <4>2. Importable((OnDisk \o batch) \o queue)
                BY <2>2, <4>1 DEF RunningInv
            <4>3. Importable(OnDisk \o batch)
                BY <4>2, Pieces, ImportablePrefix
            <4> QED BY <4>3, Pieces, ImportablePrefix
        <3> QED BY <3>1, <3>2 DEF DiskInv
    <2> QED BY <2>1, <2>2
<1> QED BY <1>1, <1>3, <1>4, <1>5, <1>6

LEMMA TickKeepsInv == Inv /\ (Tick \/ SetClockBack) => Inv'
<1> SUFFICES ASSUME Inv, Tick \/ SetClockBack PROVE Inv'
    OBVIOUS
<1> USE DEF Tick, SetClockBack, Inv
<1>1. TypeOK'
    BY TypeNext DEF Next
<1>2. OnDisk' = OnDisk
    BY SameDisk
<1>3. CreatedInv' /\ FilesInv'
    <2>1. clock \in Nat /\ created \in Nat /\ \A t \in Time : t \in Nat
        BY DEF TypeOK, Time
    <2>2. CreatedInv'
        BY <2>1, RefreshAssumption DEF CreatedInv
    <2>3. CASE Tick
        <3>1. FilesInv => FilesInv'
            BY <2>1, <2>3 DEF FilesInv, Alive
        <3> QED BY <2>2, <3>1
    <2>4. CASE SetClockBack
        <3>1. FilesInv'
            BY <2>4 DEF FilesInv
        <3> QED BY <2>2, <3>1
    <2> QED BY <2>3, <2>4
<1>4. IdleInv' /\ RunningInv' /\ StoppingInv' /\ StopLosesNothing' /\ NeverRefused'
    BY <1>2 DEF IdleInv, RunningInv, StoppingInv, Running, StopLosesNothing, NeverRefused
<1>5. DiskInv'
    BY <1>2 DEF DiskInv, Running
<1> QED BY <1>1, <1>3, <1>4, <1>5

LEMMA InvNext == Inv /\ [Next]_vars => Inv'
<1> SUFFICES ASSUME Inv, [Next]_vars PROVE Inv'
    OBVIOUS
<1>1. CASE crash
    <2>1. PICK k \in 0 .. Len(batch), cut \in BOOLEAN : Gone(Torso(k, cut), "killed")
        BY <1>1 DEF crash
    <2>2. Torso(k, cut) \in Seq(Blob)
        BY TorsoType DEF Inv
    <2>3. Alive
        BY <1>1 DEF crash
    <2> QED BY <2>1, <2>2, <2>3, GoneKeepsInv
<1>2. CASE appendAfterDestruction
    <2>1. <<>> \in Seq(Blob) /\ Alive /\ Running
        BY <1>2 DEF appendAfterDestruction, Alive, Running
    <2>2. Gone(<<>>, "aborted")
        BY <1>2 DEF appendAfterDestruction
    <2> QED BY <2>1, <2>2, GoneKeepsInv
<1>3. CASE UNCHANGED vars
    <2>1. OnDisk' = OnDisk
        BY <1>3, SameDisk DEF vars
    <2>2. TypeOK' /\ IdleInv' /\ CreatedInv' /\ FilesInv'
        BY <1>3 DEF vars, Inv, TypeOK, IdleInv, CreatedInv, FilesInv, Running, Alive
    <2>3. RunningInv' /\ DiskInv' /\ StoppingInv' /\ StopLosesNothing' /\ NeverRefused'
        BY <1>3, <2>1 DEF vars, Inv, RunningInv, DiskInv, StoppingInv, StopLosesNothing,
                          NeverRefused, Running
    <2> QED BY <2>2, <2>3 DEF Inv
<1> QED BY <1>1, <1>2, <1>3, StartKeepsInv, ImportKeepsInv, RecordKeepsInv,
           StopKeepsInv, ExitKeepsInv, AppendKeepsInv, CloseKeepsInv, TickKeepsInv
        DEF Next, Collector

LEMMA InvAlways == Spec => []Inv
    BY InvInit, InvNext, PTL DEF Spec

-----------------------------------------------------------------------------
(* The theorems.                                                           *)

\* Type correctness: among others, the state rebuilt by importEvents and the
\* queue never hold the torn blob that a kill leaves in a file.
THEOREM TypeCorrect == Spec => []TypeOK
<1>1. Inv => TypeOK
    BY DEF Inv
<1> QED BY <1>1, InvAlways, PTL

\* While the forum serves, files, batch and queue read one after the other
\* are the events of its state, in their order, through any number of stops,
\* crashes and starts, unless the clock was set back.
THEOREM NothingLostTheorem == Spec => []NothingLostWhileServing
<1>1. Inv => NothingLostWhileServing
    BY DEF Inv, RunningInv, Running, NothingLostWhileServing
<1> QED BY <1>1, InvAlways, PTL

\* Whatever the clock did, the events on disk, being written and queued are
\* those of the state that is served.
THEOREM DurableTheorem == Spec => []DurableEventsSurvive
<1>1. Inv => DurableEventsSurvive
    BY DEF Inv, RunningInv, Running, DurableEventsSurvive
<1> QED BY <1>1, InvAlways, PTL

\* An orderly stop in which nothing fails writes all that was recorded.
THEOREM StopTheorem == Spec => []StopLosesNothing
<1>1. Inv => StopLosesNothing
    BY DEF Inv
<1> QED BY <1>1, InvAlways, PTL

\* importEvents only refuses the files after a kill or a clock set back.
THEOREM NeverRefusedTheorem == Spec => []NeverRefused
<1>1. Inv => NeverRefused
    BY DEF Inv
<1> QED BY <1>1, InvAlways, PTL
=============================================================================
