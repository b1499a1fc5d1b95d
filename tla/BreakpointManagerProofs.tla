---------------------- MODULE BreakpointManagerProofs ----------------------
(***************************************************************************)
(* The debugger's tables, for every size of the address space, every edit  *)
(* and every file of every length.  A file is read line by line, so what   *)
(* loading it does is shown by induction over the lines.                   *)
(***************************************************************************)
EXTENDS BreakpointManager, Integers, Functions, SequenceTheorems, FiniteSetTheorems,
        WellFoundedInduction, TLAPS

-----------------------------------------------------------------------------
(***************************************************************************)
(* Induction over the naturals, for a set instead of an operator.          *)
(***************************************************************************)
Less == {p \in Nat \X Nat : p[1] < p[2]}

\* The naturals are well founded.
LEMMA LessWellFounded == IsWellFoundedOn(Less, Nat)
BY NatLessThanWellFounded DEF OpToRel, Less

\* Induction over the naturals, for a set of them.
LEMMA SetInduction ==
  ASSUME NEW S, 0 \in S, \A n \in Nat : n \in S => n + 1 \in S
  PROVE  Nat \subseteq S
<1> DEFINE Missing == Nat \ S
<1>1. SUFFICES ASSUME Missing # {} PROVE FALSE
  OBVIOUS
<1>2. PICK m \in Missing : \A k \in Missing : <<k, m>> \notin Less
  <2>1. Missing \subseteq Nat
    OBVIOUS
  <2> QED
    BY <1>1, <2>1, WFMin, LessWellFounded
<1>3. m \in Nat /\ m # 0 /\ m - 1 \in Nat
  OBVIOUS
<1>4. <<m - 1, m>> \in Less
  BY <1>3 DEF Less
<1>5. m - 1 + 1 \in S
  BY <1>2, <1>3, <1>4
<1> QED
  BY <1>3, <1>5

-----------------------------------------------------------------------------
(***************************************************************************)
(* What load_from_file() computes.                                         *)
(***************************************************************************)
\* g is what the tables are after each of the first n lines.
IsRun(g, p, f, n) ==
  /\ DOMAIN g = 0..n
  /\ g[0] = p
  /\ \A k \in 1..n : g[k] = LoadLine(g[k - 1], f[k])

\* Lines can be loaded one after another, however many there are.
LEMMA RunExists ==
  ASSUME NEW p, NEW f
  PROVE  \A n \in Nat : \E g : g = [k \in 0..n |-> g[k]] /\ IsRun(g, p, f, n)
<1> DEFINE S == {n \in Nat : \E g : g = [k \in 0..n |-> g[k]] /\ IsRun(g, p, f, n)}
<1>1. 0 \in S
  <2> DEFINE g == [k \in 0..0 |-> p]
  <2>1. g = [k \in 0..0 |-> g[k]] /\ IsRun(g, p, f, 0)
    BY DEF IsRun
  <2> QED
    BY <2>1
<1>2. ASSUME NEW n \in Nat, n \in S PROVE n + 1 \in S
  <2>1. PICK g : IsRun(g, p, f, n)
    BY <1>2
  <2> DEFINE h == [k \in 0..(n + 1) |-> IF k = n + 1 THEN LoadLine(g[n], f[n + 1]) ELSE g[k]]
  <2>2. DOMAIN h = 0..(n + 1) /\ h[0] = p /\ h = [k \in 0..(n + 1) |-> h[k]]
    BY <2>1 DEF IsRun
  <2>3. ASSUME NEW k \in 1..(n + 1) PROVE h[k] = LoadLine(h[k - 1], f[k])
    <3>1. k \in 0..(n + 1) /\ k - 1 \in 0..(n + 1) /\ k - 1 # n + 1
      OBVIOUS
    <3>2. CASE k = n + 1
      BY <3>1, <3>2
    <3>3. CASE k # n + 1
      BY <2>1, <3>1, <3>3 DEF IsRun
    <3> QED
      BY <3>2, <3>3
  <2> HIDE DEF h
  <2>4. IsRun(h, p, f, n + 1)
    BY <2>2, <2>3 DEF IsRun
  <2> QED
    BY <2>2, <2>4
<1> HIDE DEF S
<1>3. Nat \subseteq S
  BY <1>1, <1>2, SetInduction
<1> QED
  BY <1>3 DEF S

\* The loaded tables are the last of such a run.
LEMMA LoadRuns ==
  ASSUME NEW p, NEW f, Len(f) \in Nat
  PROVE  \E g : IsRun(g, p, f, Len(f)) /\ LoadLines(p, f) = g[Len(f)]
<1> DEFINE Def(h) == h = [n \in 0..Len(f) |-> IF n = 0 THEN p ELSE LoadLine(h[n - 1], f[n])]
           after == CHOOSE h : Def(h)
<1>1. PICK g : g = [k \in 0..Len(f) |-> g[k]] /\ IsRun(g, p, f, Len(f))
  BY RunExists
<1>2. Def(g)
  BY <1>1 DEF IsRun
<1>3. Def(after)
  BY <1>2
<1>4. LoadLines(p, f) = after[Len(f)]
  BY DEF LoadLines
<1> HIDE DEF after
<1>5. IsRun(after, p, f, Len(f))
  BY <1>3 DEF IsRun
<1> QED
  BY <1>4, <1>5

-----------------------------------------------------------------------------
(***************************************************************************)
(* The engine's tables are the manager's.                                  *)
(***************************************************************************)
\* A table of each kind, of addresses and values that fit their fields.
Table(k) == UNION {[D -> Values(k)] : D \in SUBSET Addrs}
Tables == {t \in [Kinds -> UNION {Table(k) : k \in Kinds}] : \A k \in Kinds : t[k] \in Table(k)}

Mirrored(p) == p.m \in Tables /\ p.e = p.m

\* What a point of each kind carries.
LEMMA ValuesOfKinds ==
  /\ Values("BP") = {Null}
  /\ Values("W") = {Null} \cup 0..(ByteSpace - 1)
  /\ Values("LP") = {Null} \cup Addrs
BY DEF Values

\* The tables and the values in them.
LEMMA TableFacts ==
  /\ Empty \in Tables
  /\ \A t \in Tables, k \in Kinds :
       DOMAIN t[k] \subseteq Addrs /\ \A a \in DOMAIN t[k] : t[k][a] \in Values(k)
<1>1. Empty \in Tables
  <2>1. \A k \in Kinds : None \in [{} -> Values(k)]
    BY DEF None
  <2>2. \A k \in Kinds : None \in Table(k)
    BY <2>1 DEF Table
  <2> QED
    BY <2>2 DEF Empty, Tables
<1>2. ASSUME NEW t \in Tables, NEW k \in Kinds
      PROVE  DOMAIN t[k] \subseteq Addrs /\ \A a \in DOMAIN t[k] : t[k][a] \in Values(k)
  <2>1. t[k] \in Table(k)
    BY DEF Tables
  <2> QED
    BY <2>1 DEF Table
<1> QED
  BY <1>1, <1>2

\* A table with a point set in it is a table.
LEMMA PutKeepsTables ==
  ASSUME NEW t \in Tables, NEW k \in Kinds, NEW a \in Addrs, NEW v \in Values(k)
  PROVE  Put(t, k, a, v) \in Tables
<1> DEFINE D == DOMAIN t[k] \cup {a}
           new == [x \in D |-> IF x = a THEN v ELSE t[k][x]]
<1>1. D \in SUBSET Addrs /\ new \in [D -> Values(k)]
  BY TableFacts
<1>2. new \in Table(k)
  BY <1>1 DEF Table
<1>3. Put(t, k, a, v) = [t EXCEPT ![k] = new]
  BY DEF Put
<1> HIDE DEF new, D
<1> QED
  BY <1>2, <1>3 DEF Tables

\* A table with points removed from it is a table.
LEMMA DropKeepsTables ==
  ASSUME NEW t \in Tables, NEW k \in Kinds, NEW S
  PROVE  Drop(t, k, S) \in Tables
<1> DEFINE D == DOMAIN t[k] \ S
           new == [x \in D |-> t[k][x]]
<1>1. D \in SUBSET Addrs /\ new \in [D -> Values(k)]
  BY TableFacts
<1>2. new \in Table(k)
  BY <1>1 DEF Table
<1>3. Drop(t, k, S) = [t EXCEPT ![k] = new]
  BY DEF Drop
<1> HIDE DEF new, D
<1> QED
  BY <1>2, <1>3 DEF Tables

\* Whatever a line of a file holds, its point fits the table it goes into.
LEMMA LineFits ==
  ASSUME NEW l \in Lines, l.type # "other", l.addr # Bad
  PROVE  l.type \in Kinds /\ l.addr % AddrSpace \in Addrs /\ LineValue(l) \in Values(l.type)
<1> USE ManagerAssumption DEF ManagerAssumption
<1>1. l.type \in Kinds /\ l.addr \in Nat
  BY DEF Lines
<1>2. l.addr % AddrSpace \in Addrs
  BY <1>1 DEF Addrs
<1>3. CASE l.type = "BP" \/ l.val \in {Null, Bad}
  <2>1. LineValue(l) = Null
    BY <1>3 DEF LineValue
  <2> QED
    BY <1>1, <1>2, <2>1, ValuesOfKinds DEF Kinds
<1>4. CASE ~(l.type = "BP" \/ l.val \in {Null, Bad})
  <2>1. l.val \in Nat /\ l.type \in {"W", "LP"}
    BY <1>1, <1>4 DEF Lines, Kinds
  <2>2. LineValue(l) = l.val % (IF l.type = "W" THEN ByteSpace ELSE AddrSpace)
    BY <1>4 DEF LineValue
  <2>3. l.val % ByteSpace \in 0..(ByteSpace - 1) /\ l.val % AddrSpace \in 0..(AddrSpace - 1)
    BY <2>1
  <2> QED
    BY <1>1, <1>2, <2>1, <2>2, <2>3, ValuesOfKinds DEF Addrs
<1> QED
  BY <1>3, <1>4

\* Loading one line keeps the engine in step.
LEMMA LineMirrored ==
  ASSUME NEW p, Mirrored(p), NEW l \in Lines
  PROVE  Mirrored(LoadLine(p, l))
<1>1. CASE LoadLine(p, l) = p
  BY <1>1
<1>2. CASE l.type # "other" /\ l.addr # Bad
           /\ LoadLine(p, l) = SetPoint(p, l.type, l.addr % AddrSpace, LineValue(l))
  <2>1. l.type \in Kinds /\ l.addr % AddrSpace \in Addrs /\ LineValue(l) \in Values(l.type)
    BY <1>2, LineFits
  <2>2. Put(p.m, l.type, l.addr % AddrSpace, LineValue(l)) \in Tables
    BY <2>1, PutKeepsTables DEF Mirrored
  <2> QED
    BY <1>2, <2>2 DEF SetPoint, Mirrored
<1> QED
  BY <1>1, <1>2 DEF LoadLine

\* Loading a file keeps the engine in step.
LEMMA LoadMirrored ==
  ASSUME NEW p, Mirrored(p), NEW n \in Nat, NEW f \in [1..n -> Lines]
  PROVE  Mirrored(LoadLines(p, f))
<1>1. Len(f) = n
  OBVIOUS
<1>2. PICK g : IsRun(g, p, f, n) /\ LoadLines(p, f) = g[n]
  BY <1>1, LoadRuns
<1> DEFINE S == {k \in Nat : k <= n => Mirrored(g[k])}
<1>3. 0 \in S
  BY <1>2 DEF IsRun
<1>4. ASSUME NEW k \in Nat, k \in S PROVE k + 1 \in S
  <2>1. CASE k + 1 <= n
    <3>1. k + 1 \in 1..n /\ k <= n /\ (k + 1) - 1 = k
      BY <2>1
    <3>2. g[k + 1] = LoadLine(g[k], f[k + 1]) /\ f[k + 1] \in Lines /\ Mirrored(g[k])
      BY <1>2, <1>4, <3>1 DEF IsRun
    <3> QED
      BY <3>2, LineMirrored
  <2> QED
    BY <2>1
<1> HIDE DEF S
<1>5. n \in S
  BY <1>3, <1>4, SetInduction
<1> QED
  BY <1>2, <1>5 DEF S

MirrorInv == manager \in Tables /\ engine = manager

\* Every step of the manager keeps the engine in step.
LEMMA MirrorStep == MirrorInv /\ [Next]_vars => MirrorInv'
<1> SUFFICES ASSUME MirrorInv, [Next]_vars PROVE MirrorInv'
  OBVIOUS
<1> DEFINE now == [m |-> manager, e |-> engine]
<1>1. Mirrored(now)
  BY DEF MirrorInv, Mirrored
<1>2. ASSUME NEW k \in Kinds, NEW a \in Addrs, NEW v \in Values(k), Set(k, a, v)
      PROVE  MirrorInv'
  <2>1. manager' = Put(manager, k, a, v) /\ engine' = Put(engine, k, a, v)
    BY <1>2 DEF Set, SetPoint, Becomes
  <2> QED
    BY <2>1, PutKeepsTables DEF MirrorInv
<1>3. ASSUME NEW k \in Kinds, \E a \in Addrs : Clear(k, a) PROVE MirrorInv'
  BY <1>3, DropKeepsTables DEF Clear, MirrorInv
<1>4. ASSUME NEW k \in Kinds, ClearAll(k) PROVE MirrorInv'
  BY <1>4, DropKeepsTables DEF ClearAll, MirrorInv
<1>5. ASSUME NEW n \in 0..MaxLines, NEW f \in [1..n -> Lines], LoadFromFile(f) PROVE MirrorInv'
  <2>1. n \in Nat
    BY ManagerAssumption DEF ManagerAssumption
  <2>2. Mirrored(LoadLines(now, f))
    BY <1>1, <2>1, LoadMirrored
  <2> QED
    BY <1>5, <2>2 DEF LoadFromFile, Becomes, Mirrored, MirrorInv
<1>6. CASE UNCHANGED vars
  BY <1>6 DEF vars, MirrorInv
<1> QED
  BY <1>2, <1>3, <1>4, <1>5, <1>6 DEF Next

\* The engine is in step at the start.
LEMMA MirrorInit == Init => MirrorInv
BY TableFacts DEF Init, MirrorInv

\* The engine stops and logs where the manager says, after any sequence of
\* edits and loads of any files.
THEOREM EngineFollowsManager == Spec => []EngineMirrorsManager
<1>1. MirrorInv => EngineMirrorsManager
  BY TableFacts DEF MirrorInv, EngineMirrorsManager
<1> QED
  BY <1>1, MirrorInit, MirrorStep, PTL DEF Spec

-----------------------------------------------------------------------------
(***************************************************************************)
(* What save_to_file() writes: a line for every point.                     *)
(***************************************************************************)
Increasing(s, n) == \A i, j \in 1..n : i < j => s[i] < s[j]

\* There is an order to iterate in, found one address at a time.
LEMMA OrderExists ==
  ASSUME NEW S \in SUBSET Addrs
  PROVE  IsFiniteSet(S) /\ \E s \in [1..Cardinality(S) -> S] : Increasing(s, Cardinality(S))
<1> DEFINE Below(m) == S \cap 0..(m - 1)
           Ordered(T) == /\ IsFiniteSet(T)
                         /\ \E s \in [1..Cardinality(T) -> T] : Increasing(s, Cardinality(T))
           M == {m \in Nat : Ordered(Below(m))}
<1>1. 0 \in M
  <2>1. Below(0) = {}
    OBVIOUS
  <2>2. Ordered({})
    <3>1. Cardinality({}) = 0 /\ IsFiniteSet({})
      BY FS_EmptySet
    <3>2. [i \in 1..0 |-> i] \in [1..0 -> {}]
      OBVIOUS
    <3> QED
      BY <3>1, <3>2 DEF Increasing
  <2> QED
    BY <2>1, <2>2
<1>2. ASSUME NEW m \in Nat, m \in M PROVE m + 1 \in M
  <2> DEFINE T == Below(m)
  <2>1. CASE m \notin S
    <3>1. Below(m + 1) = T
      BY <2>1
    <3>2. Ordered(T)
      BY <1>2
    <3> HIDE DEF Ordered, Below
    <3> QED
      BY <3>1, <3>2
  <2>2. CASE m \in S
    <3>1. Below(m + 1) = T \cup {m} /\ m \notin T
      BY <2>2
    <3>2. IsFiniteSet(T)
      BY <1>2
    <3> DEFINE n == Cardinality(T)
    <3>3. n \in Nat /\ IsFiniteSet(T \cup {m}) /\ Cardinality(T \cup {m}) = n + 1
      BY <3>1, <3>2, FS_CardinalityType, FS_AddElement
    <3>4. PICK s \in [1..n -> T] : Increasing(s, n)
      BY <1>2
    <3>5. \A i \in 1..n : s[i] \in Nat /\ s[i] < m
      <4>1. \A x \in T : x \in Nat /\ x < m
        OBVIOUS
      <4> HIDE DEF T, n
      <4> QED
        BY <4>1
    <3> HIDE DEF n, T
    <3> DEFINE r == [i \in 1..(n + 1) |-> IF i = n + 1 THEN m ELSE s[i]]
    <3>6. r \in [1..(n + 1) -> T \cup {m}]
      BY <3>3, <3>4
    <3>7. Increasing(r, n + 1)
      <4>1. ASSUME NEW i \in 1..(n + 1), NEW j \in 1..(n + 1), i < j PROVE r[i] < r[j]
        <5>1. i \in 1..n /\ r[i] = s[i]
          BY <3>3, <4>1
        <5>2. CASE j = n + 1
          BY <3>5, <5>1, <5>2
        <5>3. CASE j # n + 1
          <6>1. j \in 1..n /\ r[j] = s[j]
            BY <3>3, <5>3
          <6> QED
            BY <3>4, <4>1, <5>1, <6>1 DEF Increasing
        <5> QED
          BY <5>2, <5>3
      <4> QED
        BY <4>1 DEF Increasing
    <3> HIDE DEF r
    <3>8. Ordered(T \cup {m})
      BY <3>3, <3>6, <3>7
    <3>9. Below(m + 1) = T \cup {m}
      BY <3>1 DEF T
    <3>10. Ordered(Below(m + 1))
      BY <3>8, <3>9
    <3> HIDE DEF Ordered, Below
    <3> QED
      BY <3>10
  <2> QED
    BY <2>1, <2>2
<1> HIDE DEF M
<1>3. AddrSpace \in M
  BY <1>1, <1>2, SetInduction, ManagerAssumption DEF ManagerAssumption
<1>4. Below(AddrSpace) = S
  BY DEF Addrs
<1> QED
  BY <1>3, <1>4 DEF M

\* The order is one of all the addresses.
LEMMA OrderCovers ==
  ASSUME NEW S \in SUBSET Addrs
  PROVE  /\ Cardinality(S) \in Nat /\ InOrder(S) \in [1..Cardinality(S) -> S]
         /\ \A a \in S : \E i \in 1..Cardinality(S) : InOrder(S)[i] = a
<1> DEFINE n == Cardinality(S)
<1>1. IsFiniteSet(S) /\ n \in Nat /\ \E s \in [1..n -> S] : Increasing(s, n)
  BY OrderExists, FS_CardinalityType
<1>2. InOrder(S) \in [1..n -> S] /\ Increasing(InOrder(S), n)
  BY <1>1 DEF InOrder, Increasing
<1> DEFINE s == InOrder(S)
<1> HIDE DEF s, n
<1>3. s \in Injection(1..n, S)
  <2>1. ASSUME NEW i \in 1..n, NEW j \in 1..n, s[i] = s[j] PROVE i = j
    <3>1. s[i] \in Nat /\ s[j] \in Nat
      <4>1. S \subseteq Nat
        BY ManagerAssumption DEF Addrs, ManagerAssumption
      <4> QED
        BY <1>2, <4>1 DEF s
    <3>2. ~(i < j) /\ ~(j < i)
      BY <1>2, <2>1, <3>1 DEF s, Increasing
    <3> QED
      BY <1>1, <3>2
  <2> QED
    BY <1>2, <2>1 DEF s, Injection, IsInjective
<1>4. IsFiniteSet(1..n) /\ Cardinality(1..n) = n
  BY <1>1, FS_Interval
<1>5. s \in Surjection(1..n, S)
  BY <1>1, <1>3, <1>4, FS_Injection DEF n
<1> QED
  BY <1>1, <1>2, <1>5 DEF s, n, Surjection

\* The line of a point, and all the lines of all tables.
PointLine(t, k, a) == [type |-> k, addr |-> a, val |-> t[k][a]]
Points(t) == UNION {{PointLine(t, k, a) : a \in DOMAIN t[k]} : k \in Kinds}

\* A saved kind has one line for each of its points, and no other.
LEMMA TableIsWritten ==
  ASSUME NEW t \in Tables, NEW k \in Kinds
  PROVE  /\ TableLines(t, k) \in Seq(Points(t))
         /\ Range(TableLines(t, k)) = {PointLine(t, k, a) : a \in DOMAIN t[k]}
<1> DEFINE S == DOMAIN t[k]
           n == Cardinality(S)
           order == InOrder(S)
           lines == [i \in 1..n |-> PointLine(t, k, order[i])]
<1>1. /\ n \in Nat /\ order \in [1..n -> S]
      /\ \A a \in S : \E i \in 1..n : order[i] = a
  BY OrderCovers, TableFacts
<1>2. DOMAIN order = 1..n
  BY <1>1
<1>3. TableLines(t, k) = [i \in 1..Len(order) |-> PointLine(t, k, order[i])]
  BY DEF TableLines, PointLine
<1>4. Len(order) = n
  BY <1>1, <1>2
<1>5. TableLines(t, k) = lines
  BY <1>3, <1>4
<1> HIDE DEF n, order
<1>6. \A i \in 1..n : PointLine(t, k, order[i]) \in Points(t)
  BY <1>1 DEF Points
<1>7. lines \in Seq(Points(t))
  BY <1>1, <1>6
<1>8. Range(lines) = {PointLine(t, k, order[i]) : i \in 1..n}
  BY DEF Range
<1>9. Range(lines) = {PointLine(t, k, a) : a \in S}
  BY <1>1, <1>8
<1> QED
  BY <1>5, <1>7, <1>9

\* A saved file has one line for each point, and no other.
LEMMA FileHoldsAll ==
  ASSUME NEW t \in Tables
  PROVE  SaveLines(t) \in Seq(Points(t)) /\ Range(SaveLines(t)) = Points(t)
<1> DEFINE bp == TableLines(t, "BP")
           w == TableLines(t, "W")
           lp == TableLines(t, "LP")
<1>1. bp \in Seq(Points(t)) /\ w \in Seq(Points(t)) /\ lp \in Seq(Points(t))
  BY TableIsWritten DEF Kinds
<1>2. Range(bp) \cup Range(w) \cup Range(lp) = Points(t)
  <2> DEFINE Of(k) == {PointLine(t, k, a) : a \in DOMAIN t[k]}
  <2>1. Range(bp) = Of("BP") /\ Range(w) = Of("W") /\ Range(lp) = Of("LP")
    BY TableIsWritten DEF Kinds
  <2>2. Points(t) = UNION {Of(k) : k \in {"BP", "W", "LP"}}
    BY DEF Points, Kinds
  <2> HIDE DEF Of
  <2> QED
    BY <2>1, <2>2
<1> HIDE DEF bp, w, lp
<1>3. bp \o w \in Seq(Points(t)) /\ Range(bp \o w) = Range(bp) \cup Range(w)
  BY <1>1, RangeConcatenation
<1>4. (bp \o w) \o lp \in Seq(Points(t)) /\ Range((bp \o w) \o lp) = Points(t)
  <2> DEFINE head == bp \o w
  <2> HIDE DEF head
  <2>1. head \in Seq(Points(t)) /\ Range(head) = Range(bp) \cup Range(w)
    BY <1>3 DEF head
  <2>2. head \o lp \in Seq(Points(t)) /\ Range(head \o lp) = Range(head) \cup Range(lp)
    BY <1>1, <2>1, RangeConcatenation
  <2> QED
    BY <1>2, <2>1, <2>2 DEF head
<1> QED
  BY <1>4 DEF SaveLines, bp, w, lp

-----------------------------------------------------------------------------
(***************************************************************************)
(* What load_from_file() makes of it.                                      *)
(***************************************************************************)
\* Tables that hold some of the points of t.
Agree(m, t) ==
  m \in Tables /\ \A k \in Kinds : /\ DOMAIN m[k] \subseteq DOMAIN t[k]
                                   /\ \A a \in DOMAIN m[k] : m[k][a] = t[k][a]

\* Nothing a point is saved with is changed on the way back.
LEMMA PointIsRead ==
  ASSUME NEW t \in Tables, NEW k \in Kinds, NEW a \in DOMAIN t[k]
  PROVE  LET l == PointLine(t, k, a)
         IN  /\ l.type = k /\ l.addr = a /\ l.type # "other" /\ l.addr # Bad
             /\ l.addr % AddrSpace = a /\ LineValue(l) = t[k][a]
<1> USE ManagerAssumption DEF ManagerAssumption
<1> DEFINE v == t[k][a]
           l == PointLine(t, k, a)
<1>1. a \in Addrs /\ v \in Values(k)
  BY TableFacts
<1>2. l.type = k /\ l.addr = a /\ l.val = v
  BY DEF PointLine
<1> HIDE DEF v, l
<1>3. a \in Nat /\ a % AddrSpace = a
  BY <1>1 DEF Addrs
<1>4. LineValue(l) = v
  <2>1. CASE k = "BP"
    BY <1>1, <1>2, <2>1, ValuesOfKinds DEF LineValue
  <2>2. CASE k = "W"
    <3>1. v = Null \/ (v \in Nat /\ v # Bad /\ v # Null /\ v % ByteSpace = v)
      BY <1>1, <2>2, ValuesOfKinds
    <3> QED
      BY <1>2, <2>2, <3>1 DEF LineValue
  <2>3. CASE k = "LP"
    <3>1. v = Null \/ (v \in Nat /\ v # Bad /\ v # Null /\ v % AddrSpace = v)
      BY <1>1, <2>3, ValuesOfKinds DEF Addrs
    <3> QED
      BY <1>2, <2>3, <3>1 DEF LineValue
  <2> QED
    BY <2>1, <2>2, <2>3 DEF Kinds
<1> QED
  BY <1>2, <1>3, <1>4 DEF v, l, Kinds

\* Loading the line of a point sets it as it was saved.
LEMMA PointIsLoaded ==
  ASSUME NEW t \in Tables, NEW p, Agree(p.m, t), NEW l \in Points(t)
  PROVE  /\ Agree(LoadLine(p, l).m, t)
         /\ l.addr \in DOMAIN LoadLine(p, l).m[l.type]
         /\ \A k \in Kinds : DOMAIN p.m[k] \subseteq DOMAIN LoadLine(p, l).m[k]
<1>1. PICK k \in Kinds : \E a \in DOMAIN t[k] : l = PointLine(t, k, a)
  BY DEF Points
<1>2. PICK a \in DOMAIN t[k] : l = PointLine(t, k, a)
  BY <1>1
<1> DEFINE v == t[k][a]
           q == LoadLine(p, l)
<1>3. /\ l.type = k /\ l.addr = a /\ q = SetPoint(p, k, a, v)
      /\ a \in Addrs /\ v \in Values(k)
  BY <1>2, PointIsRead, TableFacts DEF LoadLine
<1> HIDE DEF v, q
<1>4. CASE a \in DOMAIN p.m[k]
  <2>1. q = p
    BY <1>3, <1>4 DEF SetPoint
  <2> QED
    BY <1>3, <1>4, <2>1 DEF q
<1>5. CASE a \notin DOMAIN p.m[k]
  <2>1. q.m = Put(p.m, k, a, v)
    BY <1>3, <1>5 DEF SetPoint
  <2>2. q.m \in Tables
    BY <1>3, <2>1, PutKeepsTables DEF Agree
  <2>3. p.m \in Tables
    BY DEF Agree
  <2> DEFINE new == [x \in DOMAIN p.m[k] \cup {a} |-> IF x = a THEN v ELSE p.m[k][x]]
  <2>4. q.m = [p.m EXCEPT ![k] = new]
    BY <2>1 DEF Put
  <2>5. DOMAIN new = DOMAIN p.m[k] \cup {a} /\ new[a] = v
        /\ \A x \in DOMAIN p.m[k] : x # a => new[x] = p.m[k][x]
    OBVIOUS
  <2> HIDE DEF new
  <2>6. q.m[k] = new /\ \A j \in Kinds : j # k => q.m[j] = p.m[j]
    BY <2>3, <2>4 DEF Tables
  <2>7. ASSUME NEW j \in Kinds
        PROVE  /\ DOMAIN q.m[j] \subseteq DOMAIN t[j] /\ DOMAIN p.m[j] \subseteq DOMAIN q.m[j]
               /\ \A x \in DOMAIN q.m[j] : q.m[j][x] = t[j][x]
    <3>1. CASE j = k
      BY <1>2, <1>5, <2>5, <2>6, <3>1 DEF Agree, v
    <3>2. CASE j # k
      BY <2>6, <3>2 DEF Agree
    <3> QED
      BY <3>1, <3>2
  <2>8. Agree(q.m, t)
    BY <2>2, <2>7 DEF Agree
  <2> QED
    BY <1>3, <2>5, <2>6, <2>7, <2>8 DEF q
<1> QED
  BY <1>4, <1>5

\* What is written is read back: every point, with its value, and no other.
LEMMA FileRestores ==
  ASSUME NEW t \in Tables
  PROVE  LoadLines([m |-> Empty, e |-> Empty], SaveLines(t)).m = t
<1> DEFINE f == SaveLines(t)
           p == [m |-> Empty, e |-> Empty]
           n == Len(f)
<1>1. n \in Nat /\ f \in Seq(Points(t)) /\ \A i \in 1..n : f[i] \in Points(t)
  BY FileHoldsAll
<1>2. PICK g : IsRun(g, p, f, n) /\ LoadLines(p, f) = g[n]
  BY <1>1, LoadRuns
<1>3. \A l \in Points(t) : \E i \in 1..n : f[i] = l
  BY FileHoldsAll, RangeEquality
<1>4. Agree(p.m, t)
  BY TableFacts DEF Agree, Empty, None
<1> HIDE DEF f, p, n
<1> DEFINE Loaded(k) == \A i \in 1..k : f[i].addr \in DOMAIN g[k].m[f[i].type]
           S == {k \in Nat : k <= n => Agree(g[k].m, t) /\ Loaded(k)}
<1>5. 0 \in S
  BY <1>2, <1>4 DEF IsRun
<1>6. ASSUME NEW k \in Nat, k \in S PROVE k + 1 \in S
  <2>1. CASE k + 1 <= n
    <3>1. k + 1 \in 1..n /\ k <= n /\ (k + 1) - 1 = k
      BY <1>1, <2>1
    <3>2. g[k + 1] = LoadLine(g[k], f[k + 1]) /\ f[k + 1] \in Points(t)
          /\ Agree(g[k].m, t) /\ Loaded(k)
      BY <1>1, <1>2, <1>6, <3>1 DEF IsRun
    <3>3. /\ Agree(g[k + 1].m, t)
          /\ f[k + 1].addr \in DOMAIN g[k + 1].m[f[k + 1].type]
          /\ \A j \in Kinds : DOMAIN g[k].m[j] \subseteq DOMAIN g[k + 1].m[j]
      BY <3>2, PointIsLoaded
    <3>4. \A i \in 1..k : f[i].type \in Kinds
      BY <1>1, <3>1 DEF Points, PointLine
    <3>5. Loaded(k + 1)
      BY <3>2, <3>3, <3>4
    <3> QED
      BY <3>3, <3>5
  <2>2. CASE ~(k + 1 <= n)
    BY <2>2
  <2> QED
    BY <2>1, <2>2
<1> HIDE DEF S
<1>7. n \in S
  BY <1>1, <1>5, <1>6, SetInduction
<1>8. Agree(g[n].m, t) /\ Loaded(n)
  BY <1>1, <1>7 DEF S
<1> DEFINE m == g[n].m
<1>9. ASSUME NEW k \in Kinds PROVE m[k] = t[k]
  <2>1. ASSUME NEW a \in DOMAIN t[k] PROVE a \in DOMAIN m[k]
    <3>1. PointLine(t, k, a) \in Points(t)
      BY DEF Points
    <3>2. PICK i \in 1..n : f[i] = PointLine(t, k, a)
      BY <1>3, <3>1
    <3> QED
      BY <1>8, <3>2 DEF PointLine
  <2>2. DOMAIN m[k] = DOMAIN t[k] /\ \A a \in DOMAIN t[k] : m[k][a] = t[k][a]
    BY <1>8, <2>1 DEF Agree
  <2>3. m[k] \in Table(k) /\ t[k] \in Table(k)
    BY <1>8 DEF Agree, Tables
  <2>4. m[k] = [a \in DOMAIN m[k] |-> m[k][a]] /\ t[k] = [a \in DOMAIN t[k] |-> t[k][a]]
    BY <2>3 DEF Table
  <2> QED
    BY <2>2, <2>4
<1>10. m \in Tables
  BY <1>8 DEF Agree
<1> HIDE DEF m
<1>11. m = t
  BY <1>9, <1>10 DEF Tables
<1> QED
  BY <1>2, <1>11 DEF f, p, m

\* A saved file restores every table that edits and loads can make.
THEOREM SavedIsRestored == Spec => []SaveThenLoadRestores
<1>1. MirrorInv => SaveThenLoadRestores
  BY FileRestores DEF MirrorInv, SaveThenLoadRestores
<1> QED
  BY <1>1, MirrorInit, MirrorStep, PTL DEF Spec
=============================================================================
