--------------------------- MODULE CassetteProofs ---------------------------
(***************************************************************************)
(* The serial ULA's count of carrier bits and the ACIA's carrier flag say  *)
(* the same, a tape is played bit by bit, and a machine that is set up for *)
(* a well-made tape receives the bytes on it, for every lock threshold,    *)
(* tape, format and use of the machine.  The sound of a tape is given by   *)
(* its chunks and played from its segments: that the two agree, and that a *)
(* well-made tape can be read cell by cell, is shown by induction over the *)
(* chunks; that the receiver is in step with the cells, over the steps.    *)
(***************************************************************************)
EXTENDS CassetteLoad, SequenceTheorems, WellFoundedInduction, TLAPS

-----------------------------------------------------------------------------
(***************************************************************************)
(* The lock and the carrier.                                               *)
(***************************************************************************)

\* What the two are.
LockType == lock \in Nat /\ carrier \in BOOLEAN

\* Kept by every step.
LockInv == LockType /\ LockMeansCarrier

\* What the CPU does at the ACIA leaves the carrier alone.
LEMMA RegistersKeepCarrier ==
  /\ MasterReset => UNCHANGED carrier
  /\ ReadStatus => UNCHANGED carrier
  /\ ReadRdr => UNCHANGED carrier
  /\ \A c : WriteControl(c) => UNCHANGED carrier
  /\ \A b : RxClock(b) => UNCHANGED carrier
  /\ \A r : SelectInput(r) => UNCHANGED carrier
BY DEF MasterReset, ReadStatus, ReadRdr, WriteControl, RxClock, SelectInput, ClearCts, RaiseCts,
       vars

\* The two agree when they are both reset.
LEMMA ZeroIsNoLock == ~(0 >= LockThreshold)
BY CassetteAssumption DEF CassetteAssumption

\* Power on: no lock and no carrier.
LEMMA LockInit == LoadInit => LockInv
<1> SUFFICES ASSUME LoadInit PROVE LockInv
  OBVIOUS
<1>1. lock = 0 /\ ~carrier /\ carrier \in BOOLEAN
  BY DEF LoadInit, CInit, Init
<1> QED
  BY <1>1, ZeroIsNoLock DEF LockInv, LockType, LockMeansCarrier

\* A bit of carrier counted, or a bit without one.
LEMMA CountKeepsLock == LockInv /\ CountCarrier => LockInv'
<1> SUFFICES ASSUME LockInv, CountCarrier PROVE LockInv'
  OBVIOUS
<1>1. /\ LockThreshold \in Nat \ {0} /\ lock \in Nat /\ carrier \in BOOLEAN
      /\ carrier <=> lock >= LockThreshold
  BY CassetteAssumption DEF CassetteAssumption, LockInv, LockType, LockMeansCarrier
<1>2. CASE HasCarrier
  <2>1. lock' = IF lock > LockThreshold THEN lock ELSE lock + 1
    BY <1>2 DEF CountCarrier
  <2>2. CASE lock + 1 = LockThreshold /\ ~carrier
    <3>1. carrier' = TRUE
      BY <1>2, <2>2 DEF CountCarrier, ApplyCarrier
    <3> QED
      BY <1>1, <2>1, <2>2, <3>1 DEF LockInv, LockType, LockMeansCarrier
  <2>3. CASE ~(lock + 1 = LockThreshold /\ ~carrier)
    <3>1. carrier' = carrier
      BY <1>2, <2>3 DEF CountCarrier, vars
    <3> QED
      BY <1>1, <2>1, <2>3, <3>1 DEF LockInv, LockType, LockMeansCarrier
  <2> QED
    BY <2>2, <2>3
<1>3. CASE ~HasCarrier
  <2>1. lock' = 0
    BY <1>3 DEF CountCarrier
  <2>2. ~carrier' /\ carrier' \in BOOLEAN
    <3>1. CASE lock >= LockThreshold /\ carrier
      BY <1>3, <3>1 DEF CountCarrier, DropCarrier
    <3>2. CASE ~(lock >= LockThreshold /\ carrier)
      BY <1>1, <1>3, <3>2 DEF CountCarrier, vars
    <3> QED
      BY <3>1, <3>2
  <2> QED
    BY <2>1, <2>2, ZeroIsNoLock DEF LockInv, LockType, LockMeansCarrier
<1> QED
  BY <1>2, <1>3

\* A tick of the receiver.
LEMMA TickKeepsLock == LockInv /\ RxTick => LockInv'
<1> SUFFICES ASSUME LockInv, RxTick PROVE LockInv'
  OBVIOUS
<1>1. CASE TapeAdvances
  BY <1>1, CountKeepsLock DEF RxTick
<1>2. CASE ~TapeAdvances
  BY <1>2 DEF RxTick, vars, LockInv, LockType, LockMeansCarrier
<1> QED
  BY <1>1, <1>2

\* A motor that stops takes both with it, or, in RS423 mode, neither.
LEMMA MotorKeepsLock == LockInv /\ SwitchMotor => LockInv'
<1> SUFFICES ASSUME LockInv, SwitchMotor PROVE LockInv'
  OBVIOUS
<1>1. CASE stage = "motorOff" /\ ~scr.rs423
  <2>1. lock' = 0 /\ (DropCarrier \/ (~carrier /\ UNCHANGED vars))
    BY <1>1 DEF SwitchMotor
  <2>2. ~carrier' /\ carrier' \in BOOLEAN
    <3>1. CASE DropCarrier
      BY <3>1 DEF DropCarrier
    <3>2. CASE ~carrier /\ UNCHANGED vars
      BY <3>2 DEF vars, LockInv, LockType
    <3> QED
      BY <2>1, <3>1, <3>2
  <2> QED
    BY <2>1, <2>2, ZeroIsNoLock DEF LockInv, LockType, LockMeansCarrier
<1>2. CASE ~(stage = "motorOff" /\ ~scr.rs423)
  BY <1>2 DEF SwitchMotor, vars, LockInv, LockType, LockMeansCarrier
<1> QED
  BY <1>1, <1>2

\* Everything else leaves the lock and the carrier.
LEMMA OthersKeepLock ==
  ASSUME LockInv,
         \/ \E t : LoadTape(t)
         \/ \E v : WriteScr(v)
         \/ ClockReceiver
         \/ UNCHANGED ulaVars /\ (MasterReset \/ ReadStatus \/ ReadRdr \/ \E c : WriteControl(c))
         \/ Divide
         \/ UNCHANGED cvars
  PROVE  LockInv'
<1>1. UNCHANGED <<lock, carrier>>
  BY RegistersKeepCarrier DEF LoadTape, WriteScr, ClockReceiver, Divide, ulaVars, cvars, vars
<1> QED
  BY <1>1 DEF LockInv, LockType, LockMeansCarrier

\* Every step keeps the lock and the carrier together.
LEMMA LoadKeepsLock == LockInv /\ [LoadNext]_loadVars => LockInv'
<1> SUFFICES ASSUME LockInv, [LoadNext]_loadVars PROVE LockInv'
  OBVIOUS
<1>1. CASE FreeTick
  BY <1>1, TickKeepsLock DEF FreeTick, Tick
<1>2. CASE FreeClock
  BY <1>2, OthersKeepLock DEF FreeClock
<1>3. CASE FreeMotor
  BY <1>3, MotorKeepsLock DEF FreeMotor
<1>4. CASE FreeUse
  BY <1>4, OthersKeepLock DEF FreeUse, Insert, Register
<1>5. CASE Setup
  BY <1>5, OthersKeepLock DEF Setup, Insert
<1>6. CASE Playing
  BY <1>6, OthersKeepLock, TickKeepsLock DEF Playing, Tick
<1>7. CASE UNCHANGED loadVars
  BY <1>7, OthersKeepLock DEF loadVars
<1>8. CASE FreeDivide
  BY <1>8, OthersKeepLock DEF FreeDivide
<1> QED
  BY <1>1, <1>2, <1>3, <1>4, <1>5, <1>6, <1>7, <1>8 DEF LoadNext

\* The ACIA has a carrier exactly while the serial ULA is locked on to one: the
\* five places that count or flag a carrier never leave the two apart.
THEOREM LockIsTrue == LoadSpec => []LockMeansCarrier
<1>1. LockInv => LockMeansCarrier
  BY DEF LockInv
<1> QED
  BY <1>1, LockInit, LoadKeepsLock, PTL DEF LoadSpec

-----------------------------------------------------------------------------
(***************************************************************************)
(* Induction over the naturals, for a set instead of an operator.          *)
(***************************************************************************)
Less == {p \in Nat \X Nat : p[1] < p[2]}

\* The naturals are well founded.
LEMMA LessWellFounded == IsWellFoundedOn(Less, Nat)
BY NatLessThanWellFounded DEF OpToRel, Less

\* Induction over the naturals, for a set of them.
LEMMA SetInduction ==
  ASSUME NEW S, 0 \in S, \A n \in Nat : n \in S => n + 1 \in S
  PROVE  Nat \subseteq S
<1> DEFINE Missing == Nat \ S
<1>1. SUFFICES ASSUME Missing # {} PROVE FALSE
  OBVIOUS
<1>2. PICK m \in Missing : \A k \in Missing : <<k, m>> \notin Less
  <2>1. Missing \subseteq Nat
    OBVIOUS
  <2> QED
    BY <1>1, <2>1, WFMin, LessWellFounded
<1>3. m \in Nat /\ m # 0 /\ m - 1 \in Nat
  OBVIOUS
<1>4. <<m - 1, m>> \in Less
  BY <1>3 DEF Less
<1>5. m - 1 + 1 \in S
  BY <1>2, <1>3, <1>4
<1> QED
  BY <1>3, <1>5

-----------------------------------------------------------------------------
(***************************************************************************)
(* Sequences joined into one: what it is element by element.               *)
(***************************************************************************)
\* Concatenation, under a name that the provers do not look into.
Join(s, t) == s \o t

\* g is the flattening of the first k sequences of S, for every k.
IsFlat(g, S, n) ==
  /\ DOMAIN g = 1..n
  /\ n > 0 => g[1] = S[1]
  /\ \A k \in 2..n : g[k] = Join(g[k - 1], S[k])

\* Any number of sequences has a flattening.
LEMMA FlatExists ==
  ASSUME NEW S
  PROVE  \A n \in Nat : \E g : g = [k \in 1..n |-> g[k]] /\ IsFlat(g, S, n)
<1> DEFINE N == {n \in Nat : \E g : g = [k \in 1..n |-> g[k]] /\ IsFlat(g, S, n)}
<1>1. 0 \in N
  <2> DEFINE g == [k \in 1..0 |-> <<>>]
  <2>1. g = [k \in 1..0 |-> g[k]] /\ IsFlat(g, S, 0)
    BY DEF IsFlat
  <2> QED
    BY <2>1
<1>2. ASSUME NEW n \in Nat, n \in N PROVE n + 1 \in N
  <2>1. PICK g : g = [k \in 1..n |-> g[k]] /\ IsFlat(g, S, n)
    BY <1>2
  <2> DEFINE h == [k \in 1..(n + 1) |-> IF k = n + 1 THEN IF n = 0 THEN S[1] ELSE Join(g[n], S[n + 1])
                                        ELSE g[k]]
  <2>2. DOMAIN h = 1..(n + 1) /\ h = [k \in 1..(n + 1) |-> h[k]]
    OBVIOUS
  <2>3. h[1] = S[1]
    BY <2>1 DEF IsFlat
  <2>4. ASSUME NEW k \in 2..(n + 1) PROVE h[k] = Join(h[k - 1], S[k])
    <3>1. k - 1 \in 1..(n + 1) /\ k \in 1..(n + 1) /\ k - 1 # n + 1
      OBVIOUS
    <3>2. CASE k = n + 1
      <4>1. k - 1 = n /\ n # 0 /\ h[k - 1] = g[n] /\ h[k] = Join(g[n], S[n + 1])
        BY <3>1, <3>2
      <4> QED
        BY <3>2, <4>1
    <3>3. CASE k # n + 1
      <4>1. k \in 2..n /\ h[k] = g[k] /\ h[k - 1] = g[k - 1]
        BY <3>1, <3>3
      <4> QED
        BY <2>1, <4>1 DEF IsFlat
    <3> QED
      BY <3>2, <3>3
  <2> HIDE DEF h
  <2>5. IsFlat(h, S, n + 1)
    BY <2>2, <2>3, <2>4 DEF IsFlat
  <2> QED
    BY <2>2, <2>5
<1> HIDE DEF N
<1>3. Nat \subseteq N
  BY <1>1, <1>2, SetInduction
<1> QED
  BY <1>3 DEF N

\* FlattenSeq joins the sequences one by one.
LEMMA FlattenIsFlat ==
  ASSUME NEW S, Len(S) \in Nat \ {0}
  PROVE  \E g : IsFlat(g, S, Len(S)) /\ FlattenSeq(S) = g[Len(S)]
<1> DEFINE Def(h) == h = [i \in 1..Len(S) |-> IF i = 1 THEN S[i] ELSE Join(h[i - 1], S[i])]
           flatten == CHOOSE h : Def(h)
<1>1. PICK g : g = [k \in 1..Len(S) |-> g[k]] /\ IsFlat(g, S, Len(S))
  BY FlatExists
<1>2. Def(g)
  <2>1. ASSUME NEW i \in 1..Len(S) PROVE g[i] = IF i = 1 THEN S[i] ELSE Join(g[i - 1], S[i])
    <3>1. CASE i = 1
      BY <1>1, <3>1 DEF IsFlat
    <3>2. CASE i # 1
      <4>1. i \in 2..Len(S)
        BY <3>2
      <4> QED
        BY <1>1, <3>2, <4>1 DEF IsFlat
    <3> QED
      BY <3>1, <3>2
  <2> QED
    BY <1>1, <2>1, Zenon
<1>3. Def(flatten)
  BY <1>2
<1>4. FlattenSeq(S) = flatten[Len(S)]
  BY Zenon DEF FlattenSeq, Join
<1> HIDE DEF flatten
<1>5. IsFlat(flatten, S, Len(S))
  BY <1>3 DEF IsFlat
<1> QED
  BY <1>4, <1>5

\* Two flattenings agree as far as the sequences do.
LEMMA FlatIsUnique ==
  ASSUME NEW S, NEW T, NEW g, NEW h, NEW n \in Nat, NEW m \in Nat, n <= m,
         IsFlat(g, S, n), IsFlat(h, T, m), \A k \in 1..n : S[k] = T[k]
  PROVE  \A k \in 1..n : g[k] = h[k]
<1> DEFINE N == {k \in Nat : k + 1 \in 1..n => g[k + 1] = h[k + 1]}
<1>1. 0 \in N
  BY DEF IsFlat
<1>2. ASSUME NEW k \in Nat, k \in N PROVE k + 1 \in N
  <2> SUFFICES ASSUME k + 1 + 1 \in 1..n PROVE g[k + 1 + 1] = h[k + 1 + 1]
    OBVIOUS
  <2>1. k + 1 + 1 \in 2..n /\ k + 1 + 1 \in 2..m /\ k + 1 \in 1..n /\ k + 1 + 1 - 1 = k + 1
    OBVIOUS
  <2>2. g[k + 1 + 1] = Join(g[k + 1], S[k + 1 + 1]) /\ h[k + 1 + 1] = Join(h[k + 1], T[k + 1 + 1])
    BY <2>1 DEF IsFlat
  <2> QED
    BY <1>2, <2>1, <2>2
<1> HIDE DEF N
<1>3. Nat \subseteq N
  BY <1>1, <1>2, SetInduction
<1> SUFFICES ASSUME NEW k \in 1..n PROVE g[k] = h[k]
  OBVIOUS
<1>4. k - 1 \in Nat /\ k - 1 + 1 = k
  OBVIOUS
<1> QED
  BY <1>3, <1>4 DEF N

\* Nothing is flattened to nothing.
LEMMA FlattenEmpty == FlattenSeq(<<>>) = <<>>
BY DEF FlattenSeq

\* One sequence is flattened to itself.
LEMMA FlattenOne == ASSUME NEW V, NEW s \in Seq(V) PROVE FlattenSeq(<<s>>) = s
<1>1. Len(<<s>>) = 1 /\ <<s>>[1] = s /\ Len(<<s>>) \in Nat \ {0}
  OBVIOUS
<1>2. PICK g : IsFlat(g, <<s>>, Len(<<s>>)) /\ FlattenSeq(<<s>>) = g[Len(<<s>>)]
  BY <1>1, FlattenIsFlat, Zenon
<1> QED
  BY <1>1, <1>2 DEF IsFlat

\* A sequence more is joined to the end.
LEMMA FlattenAppend ==
  ASSUME NEW V, NEW S \in Seq(Seq(V)), NEW s \in Seq(V)
  PROVE  FlattenSeq(Append(S, s)) = FlattenSeq(S) \o s
<1> DEFINE T == Append(S, s)
           n == Len(S)
<1>1. n \in Nat /\ Len(T) = n + 1 /\ T[n + 1] = s /\ \A k \in 1..n : T[k] = S[k]
  BY AppendProperties
<1> HIDE DEF T, n
<1>2. PICK h : IsFlat(h, T, n + 1) /\ FlattenSeq(T) = h[n + 1]
  BY <1>1, FlattenIsFlat
<1>3. CASE n = 0
  <2>1. S = <<>>
    BY <1>3 DEF n
  <2>2. FlattenSeq(T) = s
    BY <1>1, <1>2, <1>3 DEF IsFlat
  <2> QED
    BY <2>1, <2>2, FlattenEmpty, ConcatEmptySeq DEF T
<1>4. CASE n > 0
  <2>1. PICK g : IsFlat(g, S, n) /\ FlattenSeq(S) = g[n]
    BY <1>1, <1>4, FlattenIsFlat DEF n
  <2>2. n \in 1..n /\ n + 1 \in Nat /\ n <= n + 1 /\ n + 1 \in 2..(n + 1) /\ n + 1 - 1 = n
    BY <1>1, <1>4
  <2>3. \A k \in 1..n : S[k] = T[k]
    BY <1>1
  <2>4. \A k \in 1..n : g[k] = h[k]
    BY <1>1, <1>2, <2>1, <2>2, <2>3, FlatIsUnique
  <2>5. h[n + 1] = Join(h[n], T[n + 1])
    <3>1. \A k \in 2..(n + 1) : h[k] = Join(h[k - 1], T[k])
      BY <1>2 DEF IsFlat
    <3> QED
      BY <2>2, <3>1
  <2> QED
    BY <1>1, <1>2, <2>1, <2>2, <2>4, <2>5, Zenon DEF T, Join
<1> QED
  BY <1>1, <1>3, <1>4

\* Every element of the whole is one of a part, at the part's place.
LaidOut(off, whole, parts) ==
  /\ off \in [1..(Len(parts) + 1) -> Nat]
  /\ off[1] = 0 /\ off[Len(parts) + 1] = Len(whole)
  /\ \A k \in 1..Len(parts) :
       /\ off[k + 1] = off[k] + Len(parts[k])
       /\ \A j \in 1..Len(parts[k]) : off[k] + j <= Len(whole) /\ whole[off[k] + j] = parts[k][j]

\* The flattening holds every sequence, one after the other.
LEMMA FlattenLaysOut ==
  ASSUME NEW V, NEW S \in Seq(Seq(V))
  PROVE  FlattenSeq(S) \in Seq(V) /\ \E off : LaidOut(off, FlattenSeq(S), S)
<1> DEFINE Good(T) == FlattenSeq(T) \in Seq(V) /\ \E off : LaidOut(off, FlattenSeq(T), T)
           N == {n \in Nat : \A T \in Seq(Seq(V)) : Len(T) = n => Good(T)}
<1>1. 0 \in N
  <2> SUFFICES ASSUME NEW T \in Seq(Seq(V)), Len(T) = 0 PROVE Good(T)
    OBVIOUS
  <2>1. T = <<>> /\ FlattenSeq(T) = <<>>
    BY FlattenEmpty
  <2>2. LaidOut([k \in 1..1 |-> 0], <<>>, <<>>)
    BY DEF LaidOut
  <2>3. <<>> \in Seq(V) /\ \E off : LaidOut(off, <<>>, <<>>)
    BY <2>2
  <2> QED
    BY <2>1, <2>3
<1>2. ASSUME NEW n \in Nat, n \in N PROVE n + 1 \in N
  <2> SUFFICES ASSUME NEW T \in Seq(Seq(V)), Len(T) = n + 1 PROVE Good(T)
    OBVIOUS
  <2>1. PICK F \in Seq(Seq(V)), s \in Seq(V) : T = Append(F, s)
    <3>1. T # <<>>
      OBVIOUS
    <3> QED
      BY <3>1, SequenceEmptyOrAppend, Zenon
  <2>2. Len(F) = n /\ T[n + 1] = s /\ \A k \in 1..n : T[k] = F[k] /\ T[k] \in Seq(V)
    BY <2>1, AppendProperties
  <2>3. FlattenSeq(F) \in Seq(V) /\ FlattenSeq(T) = FlattenSeq(F) \o s
    BY <1>2, <2>1, <2>2, FlattenAppend
  <2>4. PICK off : LaidOut(off, FlattenSeq(F), F)
    BY <1>2, <2>2
  <2> DEFINE w == FlattenSeq(F)
             whole == FlattenSeq(T)
             new == [k \in 1..(n + 2) |-> IF k = n + 2 THEN off[n + 1] + Len(s) ELSE off[k]]
  <2>5. /\ whole \in Seq(V) /\ Len(w) \in Nat /\ Len(s) \in Nat
        /\ Len(whole) = Len(w) + Len(s)
        /\ \A i \in 1..Len(w) : whole[i] = w[i]
        /\ \A i \in 1..Len(s) : whole[Len(w) + i] = s[i]
    BY <2>3, ConcatProperties
  <2> HIDE DEF w, whole
  <2>6. /\ off \in [1..(n + 1) -> Nat]
        /\ off[1] = 0 /\ off[n + 1] = Len(w)
        /\ \A k \in 1..n :
             /\ off[k + 1] = off[k] + Len(T[k])
             /\ \A j \in 1..Len(T[k]) : off[k] + j <= Len(w) /\ w[off[k] + j] = T[k][j]
    <3>1. /\ off \in [1..(Len(F) + 1) -> Nat]
          /\ off[1] = 0 /\ off[Len(F) + 1] = Len(w)
          /\ \A k \in 1..Len(F) :
               /\ off[k + 1] = off[k] + Len(F[k])
               /\ \A j \in 1..Len(F[k]) : off[k] + j <= Len(w) /\ w[off[k] + j] = F[k][j]
      BY <2>4 DEF LaidOut, w
    <3>2. ASSUME NEW k \in 1..n
          PROVE  /\ off[k + 1] = off[k] + Len(T[k])
                 /\ \A j \in 1..Len(T[k]) : off[k] + j <= Len(w) /\ w[off[k] + j] = T[k][j]
      <4>1. T[k] = F[k] /\ k \in 1..Len(F)
        BY <2>2
      <4> QED
        BY <3>1, <4>1
    <3> QED
      BY <2>2, <3>1, <3>2
  <2>7. /\ new \in [1..(n + 2) -> Nat] /\ new[1] = 0 /\ new[n + 2] = Len(whole)
        /\ \A k \in 1..(n + 1) : new[k] = off[k]
    BY <2>5, <2>6
  <2> HIDE DEF new
  <2>8. ASSUME NEW k \in 1..(n + 1)
        PROVE  /\ new[k + 1] = new[k] + Len(T[k])
               /\ \A j \in 1..Len(T[k]) :
                    new[k] + j <= Len(whole) /\ whole[new[k] + j] = T[k][j]
    <3>1. CASE k = n + 1
      <4>1. T[k] = s /\ new[k] = Len(w) /\ new[k + 1] = Len(w) + Len(s)
        BY <2>2, <2>5, <2>6, <2>7, <3>1
      <4> QED
        BY <2>5, <4>1
    <3>2. CASE k # n + 1
      <4>1. k \in 1..n /\ k + 1 \in 1..(n + 1)
        BY <3>2
      <4>2. new[k] = off[k] /\ new[k + 1] = off[k + 1] /\ off[k] \in Nat
        BY <2>6, <2>7, <4>1
      <4>3. Len(T[k]) \in Nat
        BY <2>2, <4>1
      <4>4. \A j \in 1..Len(T[k]) :
              off[k] + j \in 1..Len(w) /\ off[k] + j <= Len(whole) /\ w[off[k] + j] = T[k][j]
        <5> SUFFICES ASSUME NEW j \in 1..Len(T[k])
                     PROVE  /\ off[k] + j \in 1..Len(w) /\ off[k] + j <= Len(whole)
                            /\ w[off[k] + j] = T[k][j]
          OBVIOUS
        <5>1. off[k] + j <= Len(w) /\ w[off[k] + j] = T[k][j]
          BY <2>6, <4>1
        <5>2. j \in Nat /\ j >= 1
          BY <4>3
        <5> QED
          BY <2>5, <4>2, <5>1, <5>2
      <4> QED
        BY <2>5, <2>6, <4>1, <4>2, <4>4
    <3> QED
      BY <3>1, <3>2
  <2>9. LaidOut(new, whole, T)
    <3>1. Len(T) = n + 1 /\ Len(T) + 1 = n + 2
      OBVIOUS
    <3> QED
      BY <2>7, <2>8, <3>1 DEF LaidOut
  <2> QED
    BY <2>5, <2>9 DEF whole
<1> HIDE DEF N
<1>3. Nat \subseteq N
  BY <1>1, <1>2, SetInduction
<1>4. Len(S) \in N
  BY <1>3
<1> QED
  BY <1>4 DEF N

-----------------------------------------------------------------------------
(***************************************************************************)
(* What segments sound like.                                               *)
(***************************************************************************)
Samples == [bit : {0, 1}, carrier : BOOLEAN]

Segment ==
  {s \in [kind : {"DATA", "CARRIER", "GAP"}, bits : Seq({0, 1}), count : Nat] : SegmentSize(s) > 0}

MarkSound(kind, n) == [i \in 1..n |-> [bit |-> 1, carrier |-> (kind # "GAP")]]

SegmentSound(s) == IF s.kind = "DATA" THEN Sound(s.bits) ELSE MarkSound(s.kind, s.count)

SoundOf(segs) == FlattenSeq([i \in DOMAIN segs |-> SegmentSound(segs[i])])

\* Every bit sounds as itself, with a carrier.
LEMMA BitsSound ==
  ASSUME NEW b \in Seq({0, 1})
  PROVE  /\ Sound(b) \in Seq(Samples) /\ Len(Sound(b)) = Len(b) /\ DOMAIN Sound(b) = 1..Len(b)
         /\ \A j \in 1..Len(b) : Sound(b)[j] = [bit |-> b[j], carrier |-> TRUE]
<1>1. Sound(b) = [i \in 1..Len(b) |-> [bit |-> b[i], carrier |-> TRUE]]
  BY DEF Sound
<1>2. \A i \in 1..Len(b) : [bit |-> b[i], carrier |-> TRUE] \in Samples
  BY DEF Samples
<1> QED
  BY <1>1, <1>2

\* A tone and a silence last as long as they say.
LEMMA MarksSound ==
  ASSUME NEW kind, NEW n \in Nat
  PROVE  MarkSound(kind, n) \in Seq(Samples) /\ Len(MarkSound(kind, n)) = n
<1>1. [bit |-> 1, carrier |-> (kind # "GAP")] \in Samples
  BY DEF Samples
<1> QED
  BY <1>1 DEF MarkSound

\* A segment sounds for as many bits as it has.
LEMMA SegmentHasSound ==
  ASSUME NEW s \in Segment
  PROVE  /\ SegmentSound(s) \in Seq(Samples)
         /\ Len(SegmentSound(s)) = SegmentSize(s)
         /\ SegmentSize(s) \in Nat \ {0}
         /\ \A j \in 1..SegmentSize(s) :
              SegmentSound(s)[j] = [bit |-> IF s.kind = "DATA" THEN s.bits[j] ELSE 1,
                                    carrier |-> (s.kind # "GAP")]
<1>1. s.kind \in {"DATA", "CARRIER", "GAP"} /\ s.bits \in Seq({0, 1}) /\ s.count \in Nat
      /\ SegmentSize(s) > 0
  BY DEF Segment
<1>2. CASE s.kind = "DATA"
  <2>1. SegmentSound(s) = Sound(s.bits) /\ SegmentSize(s) = Len(s.bits)
    BY <1>2 DEF SegmentSound, SegmentSize
  <2>2. (s.kind # "GAP") = TRUE
    BY <1>2
  <2>3. \A j \in 1..SegmentSize(s) : SegmentSound(s)[j] = [bit |-> s.bits[j], carrier |-> TRUE]
    BY <1>1, <2>1, BitsSound
  <2>4. \A j \in 1..SegmentSize(s) :
          [bit |-> IF s.kind = "DATA" THEN s.bits[j] ELSE 1, carrier |-> (s.kind # "GAP")]
            = [bit |-> s.bits[j], carrier |-> TRUE]
    BY <1>2, <2>2, Zenon
  <2>5. SegmentSound(s) \in Seq(Samples) /\ Len(SegmentSound(s)) = SegmentSize(s)
        /\ SegmentSize(s) \in Nat \ {0}
    BY <1>1, <2>1, BitsSound
  <2> QED
    BY <2>3, <2>4, <2>5, Zenon
<1>3. CASE s.kind # "DATA"
  <2>1. SegmentSound(s) = MarkSound(s.kind, s.count) /\ SegmentSize(s) = s.count
    BY <1>3 DEF SegmentSound, SegmentSize
  <2>2. \A j \in 1..SegmentSize(s) :
          SegmentSound(s)[j] = [bit |-> 1, carrier |-> (s.kind # "GAP")]
    BY <2>1, Zenon DEF MarkSound
  <2>3. \A j \in 1..SegmentSize(s) :
          [bit |-> IF s.kind = "DATA" THEN s.bits[j] ELSE 1, carrier |-> (s.kind # "GAP")]
            = [bit |-> 1, carrier |-> (s.kind # "GAP")]
    BY <1>3, Zenon
  <2>4. SegmentSound(s) \in Seq(Samples) /\ Len(SegmentSound(s)) = SegmentSize(s)
        /\ SegmentSize(s) \in Nat \ {0}
    BY <1>1, <2>1, MarksSound
  <2> QED
    BY <2>2, <2>3, <2>4, Zenon
<1> QED
  BY <1>2, <1>3

\* The sounds of the segments are sequences of samples.
LEMMA SoundsAreSequences ==
  ASSUME NEW segs \in Seq(Segment)
  PROVE  [i \in DOMAIN segs |-> SegmentSound(segs[i])] \in Seq(Seq(Samples))
<1>1. \A i \in 1..Len(segs) : SegmentSound(segs[i]) \in Seq(Samples)
  BY SegmentHasSound
<1> QED
  BY <1>1

\* No segments, no sound.
LEMMA SoundOfNothing == SoundOf(<<>>) = <<>>
<1>1. [i \in DOMAIN <<>> |-> SegmentSound(<<>>[i])] = <<>>
  OBVIOUS
<1> QED
  BY <1>1, FlattenEmpty DEF SoundOf

\* A segment more sounds after the others.
LEMMA SoundOfAppend ==
  ASSUME NEW segs \in Seq(Segment), NEW s \in Segment
  PROVE  /\ SoundOf(segs) \in Seq(Samples)
         /\ SoundOf(Append(segs, s)) = SoundOf(segs) \o SegmentSound(s)
<1> DEFINE all(q) == [i \in DOMAIN q |-> SegmentSound(q[i])]
<1>1. SegmentSound(s) \in Seq(Samples) /\ all(segs) \in Seq(Seq(Samples))
  BY SegmentHasSound, SoundsAreSequences
<1>2. Append(segs, s) \in Seq(Segment)
  OBVIOUS
<1>3. all(Append(segs, s)) = Append(all(segs), SegmentSound(s))
  <2>1. all(Append(segs, s)) \in Seq(Seq(Samples))
    BY <1>2, SoundsAreSequences
  <2>2. Append(all(segs), SegmentSound(s)) \in Seq(Seq(Samples))
    BY <1>1
  <2>3. Len(all(Append(segs, s))) = Len(segs) + 1 /\ Len(all(segs)) = Len(segs)
        /\ Len(Append(all(segs), SegmentSound(s))) = Len(segs) + 1
    OBVIOUS
  <2>4. \A i \in 1..(Len(segs) + 1) :
          all(Append(segs, s))[i] = Append(all(segs), SegmentSound(s))[i]
    OBVIOUS
  <2> QED
    BY <2>1, <2>2, <2>3, <2>4, SeqEqual
<1>4. FlattenSeq(all(segs)) \in Seq(Samples)
  BY <1>1, FlattenLaysOut
<1> QED
  BY <1>1, <1>3, <1>4, FlattenAppend DEF SoundOf

-----------------------------------------------------------------------------
(***************************************************************************)
(* Bytes in frames.                                                        *)
(***************************************************************************)
LEMMA Division ==
  ASSUME NEW m \in Nat \ {0}, NEW i \in Nat
  PROVE  /\ i \div m \in Nat /\ i % m \in 0..(m - 1)
         /\ i = (i \div m) * m + (i % m)
         /\ \A n \in Nat : i < m * n => i \div m < n
<1>1. i \div m \in Nat /\ i % m \in 0..(m - 1) /\ i = (i \div m) * m + (i % m)
  OBVIOUS
<1>2. ASSUME NEW n \in Nat, NEW q \in Nat, q * m < m * n PROVE q < n
  BY <1>2
<1>3. ASSUME NEW n \in Nat, i < m * n PROVE i \div m < n
  BY <1>1, <1>2, <1>3
<1> QED
  BY <1>1, <1>3

\* A framed byte is a start bit, its bits and a stop bit.
LEMMA FramedByte ==
  ASSUME NEW b \in Byte
  PROVE  /\ Framed(b) \in Seq({0, 1}) /\ Len(Framed(b)) = ByteBits + 2
         /\ \A r \in 0..(ByteBits + 1) :
              Framed(b)[r + 1] = IF r = 0 THEN 0 ELSE IF r = ByteBits + 1 THEN 1 ELSE b[r]
<1> DEFINE body == [i \in 1..ByteBits |-> b[i]]
<1>1. ByteBits \in Nat \ {0}
  BY TapeAssumption DEF TapeAssumption
<1>2. body \in Seq({0, 1}) /\ Len(body) = ByteBits /\ \A i \in 1..ByteBits : body[i] = b[i]
  BY <1>1 DEF Byte
<1> HIDE DEF body
<1>3. <<0>> \in Seq({0, 1}) /\ <<1>> \in Seq({0, 1})
  OBVIOUS
<1> DEFINE head == <<0>> \o body
<1>4. /\ head \in Seq({0, 1}) /\ Len(head) = ByteBits + 1
      /\ head[1] = 0 /\ \A i \in 1..ByteBits : head[i + 1] = b[i]
  BY <1>1, <1>2, <1>3, ConcatProperties
<1> HIDE DEF head
<1>5. Framed(b) = head \o <<1>>
  BY Zenon DEF Framed, head, body
<1>6. /\ head \o <<1>> \in Seq({0, 1}) /\ Len(head \o <<1>>) = ByteBits + 2
      /\ (head \o <<1>>)[ByteBits + 2] = 1
      /\ \A i \in 1..(ByteBits + 1) : (head \o <<1>>)[i] = head[i]
  BY <1>1, <1>3, <1>4, ConcatProperties
<1> QED
  BY <1>1, <1>4, <1>5, <1>6

\* The frames of expand_8n1(), one after the other, have every bit where a count
\* over the whole puts it.
LEMMA FramesInLine ==
  ASSUME NEW bytes \in Seq(Byte)
  PROVE  /\ Expand8n1(bytes) \in Seq({0, 1})
         /\ Len(Expand8n1(bytes)) = (ByteBits + 2) * Len(bytes)
         /\ \A i \in 1..((ByteBits + 2) * Len(bytes)) : Expand8n1(bytes)[i] = FrameBit(bytes, i)
<1> DEFINE M == ByteBits + 2
           n == Len(bytes)
           S == [i \in DOMAIN bytes |-> Framed(bytes[i])]
           line == Expand8n1(bytes)
<1>1. M \in Nat \ {0} /\ ByteBits \in Nat /\ n \in Nat
  BY TapeAssumption DEF TapeAssumption
<1>2. /\ S \in Seq(Seq({0, 1})) /\ Len(S) = n
      /\ \A i \in 1..n : bytes[i] \in Byte /\ S[i] = Framed(bytes[i]) /\ Len(S[i]) = M
  BY FramedByte
<1>3. line = FlattenSeq(S)
  BY DEF Expand8n1
<1>4. line \in Seq({0, 1}) /\ \E off : LaidOut(off, line, S)
  BY <1>2, <1>3, FlattenLaysOut
<1> HIDE DEF M, n, S, line
<1>5. PICK off : LaidOut(off, line, S)
  BY <1>4
<1>6. /\ off[1] = 0 /\ off[n + 1] = Len(line)
      /\ \A k \in 1..n : off[k + 1] = off[k] + M
                         /\ \A j \in 1..M : line[off[k] + j] = S[k][j]
  BY <1>2, <1>5 DEF LaidOut
<1> DEFINE N == {k \in Nat : k <= n => off[k + 1] = k * M}
<1>7. 0 \in N
  BY <1>1, <1>6
<1>8. ASSUME NEW k \in Nat, k \in N PROVE k + 1 \in N
  <2> SUFFICES ASSUME k + 1 <= n PROVE off[k + 1 + 1] = (k + 1) * M
    OBVIOUS
  <2>1. k + 1 \in 1..n /\ off[k + 1] = k * M
    BY <1>1, <1>8
  <2>2. off[k + 1 + 1] = off[k + 1] + M
    BY <1>6, <2>1
  <2>3. (k + 1) * M = k * M + M
    BY <1>1
  <2> QED
    BY <2>1, <2>2, <2>3
<1> HIDE DEF N
<1>9. Nat \subseteq N
  BY <1>7, <1>8, SetInduction
<1>10. \A k \in 0..n : off[k + 1] = k * M
  BY <1>1, <1>9 DEF N
<1>11. Len(line) = M * n
  BY <1>1, <1>6, <1>10
<1>12. ASSUME NEW i \in 1..(M * n) PROVE line[i] = FrameBit(bytes, i)
  <2> DEFINE q == (i - 1) \div M
             r == (i - 1) % M
  <2>1. i - 1 \in Nat /\ i - 1 < M * n
    BY <1>1
  <2>2. q \in Nat /\ r \in 0..(M - 1) /\ i - 1 = q * M + r /\ q < n
    BY <1>1, <2>1, Division
  <2>3. FrameBit(bytes, i) = IF r = 0 THEN 0 ELSE IF r = ByteBits + 1 THEN 1 ELSE bytes[q + 1][r]
    BY DEF FrameBit, M
  <2> HIDE DEF q, r
  <2>4. q + 1 \in 1..n /\ q \in 0..n /\ r + 1 \in 1..M /\ r \in 0..(ByteBits + 1)
    BY <1>1, <2>2 DEF M
  <2>5. off[q + 1] = q * M
    BY <1>10, <2>4
  <2>6. q * M \in Nat
    BY <1>1, <2>2
  <2>7. i = off[q + 1] + (r + 1)
    BY <2>2, <2>5, <2>6
  <2>8. line[i] = S[q + 1][r + 1]
    BY <1>6, <2>4, <2>7
  <2>9. S[q + 1] = Framed(bytes[q + 1]) /\ bytes[q + 1] \in Byte
    BY <1>2, <2>4
  <2> QED
    BY <2>3, <2>4, <2>8, <2>9, FramedByte
<1> QED
  BY <1>4, <1>11, <1>12 DEF M, n, line

\* The expanded bytes sound like the frames of the chunk.
LEMMA FramesAreExpanded ==
  ASSUME NEW bytes \in Seq(Byte)
  PROVE  Expand8n1(bytes) \in Seq({0, 1}) /\ Sound(Expand8n1(bytes)) = Frames(bytes)
<1> DEFINE e == Expand8n1(bytes)
           m == (ByteBits + 2) * Len(bytes)
           f == [k \in 1..m |-> FrameBit(bytes, k)]
<1>1. e \in Seq({0, 1}) /\ Len(e) = m /\ \A i \in 1..m : e[i] = FrameBit(bytes, i)
  BY FramesInLine
<1>2. e = [k \in 1..m |-> FrameBit(bytes, k)]
  <2>1. e = [k \in 1..m |-> e[k]]
    BY <1>1
  <2> HIDE DEF e, m
  <2> QED
    BY <1>1, <2>1
<1> QED
  BY <1>1, <1>2, Zenon DEF Frames

-----------------------------------------------------------------------------
(***************************************************************************)
(* A tape's segments sound like its chunks.                                *)
(***************************************************************************)
\* What more a piece of a tape brings, after any segments.
Brings(piece, sound) ==
  \A segs \in Seq(Segment) :
    segs \o piece \in Seq(Segment) /\ SoundOf(segs \o piece) = SoundOf(segs) \o sound

\* Nothing brings nothing.
LEMMA NothingBrings == Brings(<<>>, <<>>)
<1> SUFFICES ASSUME NEW segs \in Seq(Segment)
             PROVE  segs \o <<>> \in Seq(Segment) /\ SoundOf(segs \o <<>>) = SoundOf(segs) \o <<>>
  BY DEF Brings
<1>1. SoundOf(segs) \in Seq(Samples)
  BY SoundsAreSequences, FlattenLaysOut DEF SoundOf
<1> QED
  BY <1>1, ConcatEmptySeq

\* A segment brings its sound.
LEMMA OneBrings == ASSUME NEW s \in Segment PROVE Brings(<<s>>, SegmentSound(s))
<1> SUFFICES ASSUME NEW segs \in Seq(Segment)
             PROVE  /\ segs \o <<s>> \in Seq(Segment)
                    /\ SoundOf(segs \o <<s>>) = SoundOf(segs) \o SegmentSound(s)
  BY DEF Brings
<1>1. segs \o <<s>> = Append(segs, s)
  BY AppendIsConcat
<1>2. Append(segs, s) \in Seq(Segment)
  BY AppendProperties
<1> QED
  BY <1>1, <1>2, SoundOfAppend, Zenon

\* A piece after another brings its sound after the other.
LEMMA TwoBring ==
  ASSUME NEW p \in Seq(Segment), NEW q \in Seq(Segment),
         NEW x \in Seq(Samples), NEW y \in Seq(Samples), Brings(p, x), Brings(q, y)
  PROVE  Brings(p \o q, x \o y)
<1> SUFFICES ASSUME NEW segs \in Seq(Segment)
             PROVE  /\ segs \o (p \o q) \in Seq(Segment)
                    /\ SoundOf(segs \o (p \o q)) = SoundOf(segs) \o (x \o y)
  BY DEF Brings
<1>1. (segs \o p) \o q = segs \o (p \o q)
  BY ConcatAssociative
<1>2. segs \o p \in Seq(Segment) /\ SoundOf(segs \o p) = SoundOf(segs) \o x
  BY Zenon DEF Brings
<1>3. (segs \o p) \o q \in Seq(Segment) /\ SoundOf((segs \o p) \o q) = SoundOf(segs \o p) \o y
  BY <1>2, Zenon DEF Brings
<1>4. SoundOf(segs) \in Seq(Samples)
  BY SoundsAreSequences, FlattenLaysOut DEF SoundOf
<1>5. (SoundOf(segs) \o x) \o y = SoundOf(segs) \o (x \o y)
  BY <1>4, ConcatAssociative
<1> QED
  BY <1>1, <1>2, <1>3, <1>5, Zenon

\* A tone or a gap, if it has any length.
LEMMA MarksBring ==
  ASSUME NEW kind \in {"CARRIER", "GAP"}, NEW n \in Nat
  PROVE  /\ Marks(kind, n) \in Seq(Segment)
         /\ Brings(Marks(kind, n), MarkSound(kind, n))
<1>1. CASE n = 0
  <2>1. Marks(kind, n) = <<>> /\ MarkSound(kind, n) = <<>>
    BY <1>1 DEF Marks, MarkSound
  <2> QED
    BY <2>1, NothingBrings
<1>2. CASE n > 0
  <2> DEFINE s == [kind |-> kind, bits |-> <<>>, count |-> n]
  <2>1. s \in Segment
    BY <1>2 DEF Segment, SegmentSize
  <2>2. SegmentSound(s) = MarkSound(kind, n)
    BY DEF SegmentSound
  <2>3. Marks(kind, n) = <<s>>
    BY <1>2 DEF Marks
  <2> HIDE DEF s
  <2> QED
    BY <2>1, <2>2, <2>3, OneBrings
<1> QED
  BY <1>1, <1>2

\* Bits, if there are any.
LEMMA DataBrings ==
  ASSUME NEW b \in Seq({0, 1})
  PROVE  Data(b) \in Seq(Segment) /\ Brings(Data(b), Sound(b))
<1>1. CASE b = <<>>
  <2>1. Data(b) = <<>> /\ Sound(b) = <<>>
    BY <1>1 DEF Data, Sound
  <2> QED
    BY <2>1, NothingBrings
<1>2. CASE b # <<>>
  <2> DEFINE s == [kind |-> "DATA", bits |-> b, count |-> 0]
  <2>1. Len(b) > 0
    BY <1>2
  <2>2. s \in Segment
    BY <2>1 DEF Segment, SegmentSize
  <2>3. SegmentSound(s) = Sound(b)
    BY DEF SegmentSound
  <2>4. Data(b) = <<s>>
    BY <1>2 DEF Data
  <2> HIDE DEF s
  <2> QED
    BY <2>2, <2>3, <2>4, OneBrings
<1> QED
  BY <1>1, <1>2

\* Silence and tone are marks.
LEMMA MarksByName ==
  ASSUME NEW n \in Nat
  PROVE  MarkSound("CARRIER", n) = Tone(n) /\ MarkSound("GAP", n) = Silence(n)
<1>1. ("CARRIER" # "GAP") = TRUE /\ ("GAP" # "GAP") = FALSE
  OBVIOUS
<1> QED
  BY <1>1, Zenon DEF MarkSound, Tone, Silence

\* The segments of a chunk bring the sound of the chunk.
LEMMA ChunkBrings ==
  ASSUME NEW c \in Chunk
  PROVE  /\ SegmentsOf(c) \in Seq(Segment) /\ ChunkSound(c) \in Seq(Samples)
         /\ Brings(SegmentsOf(c), ChunkSound(c))
<1>1. CASE c \in [kind : {"tone", "gap"}, count : Nat]
  <2>1. CASE c.kind = "tone"
    <3>1. SegmentsOf(c) = Marks("CARRIER", c.count) /\ ChunkSound(c) = Tone(c.count)
          /\ c.count \in Nat
      BY <1>1, <2>1 DEF SegmentsOf, ChunkSound
    <3> QED
      BY <3>1, MarksBring, MarksByName, MarksSound
  <2>2. CASE c.kind = "gap"
    <3>1. SegmentsOf(c) = Marks("GAP", c.count) /\ ChunkSound(c) = Silence(c.count)
          /\ c.count \in Nat
      BY <1>1, <2>2 DEF SegmentsOf, ChunkSound
    <3> QED
      BY <3>1, MarksBring, MarksByName, MarksSound
  <2> QED
    BY <1>1, <2>1, <2>2
<1>2. CASE c \in [kind : {"toneWithByte"}, pre : Nat, post : Nat]
  <2> DEFINE byte == <<DummyByte>>
             m1 == Marks("CARRIER", c.pre)
             d  == Data(Expand8n1(byte))
             m2 == Marks("CARRIER", c.post)
  <2>1. c.kind = "toneWithByte" /\ c.pre \in Nat /\ c.post \in Nat
    BY <1>2
  <2>2. SegmentsOf(c) = m1 \o d \o m2 /\ ChunkSound(c) = Tone(c.pre) \o Frames(byte) \o Tone(c.post)
    BY <2>1 DEF SegmentsOf, ChunkSound
  <2>3. byte \in Seq(Byte)
    BY TapeAssumption DEF TapeAssumption
  <2>4. Expand8n1(byte) \in Seq({0, 1}) /\ Sound(Expand8n1(byte)) = Frames(byte)
    BY <2>3, FramesAreExpanded
  <2>5. d \in Seq(Segment) /\ Brings(d, Frames(byte)) /\ Frames(byte) \in Seq(Samples)
    BY <2>4, DataBrings, BitsSound
  <2>6. /\ m1 \in Seq(Segment) /\ Brings(m1, Tone(c.pre)) /\ Tone(c.pre) \in Seq(Samples)
        /\ m2 \in Seq(Segment) /\ Brings(m2, Tone(c.post)) /\ Tone(c.post) \in Seq(Samples)
    BY <2>1, MarksBring, MarksByName, MarksSound
  <2> HIDE DEF m1, d, m2, byte
  <2>7. /\ m1 \o d \in Seq(Segment) /\ Tone(c.pre) \o Frames(byte) \in Seq(Samples)
        /\ Brings(m1 \o d, Tone(c.pre) \o Frames(byte))
    BY <2>5, <2>6, TwoBring, ConcatProperties
  <2>8. /\ m1 \o d \o m2 \in Seq(Segment)
        /\ Tone(c.pre) \o Frames(byte) \o Tone(c.post) \in Seq(Samples)
        /\ Brings(m1 \o d \o m2, Tone(c.pre) \o Frames(byte) \o Tone(c.post))
    BY <2>6, <2>7, TwoBring, ConcatProperties
  <2> QED
    BY <2>2, <2>8
<1>3. CASE c \in [kind : {"data"}, bytes : Seq(Byte)]
  <2>1. SegmentsOf(c) = Data(Expand8n1(c.bytes)) /\ ChunkSound(c) = Frames(c.bytes)
        /\ c.bytes \in Seq(Byte)
    BY <1>3 DEF SegmentsOf, ChunkSound
  <2>2. Expand8n1(c.bytes) \in Seq({0, 1}) /\ Sound(Expand8n1(c.bytes)) = Frames(c.bytes)
    BY <2>1, FramesAreExpanded
  <2> QED
    BY <2>1, <2>2, DataBrings, BitsSound
<1>4. CASE c \in [kind : {"raw"}, bits : Seq({0, 1})]
  <2>1. SegmentsOf(c) = Data(c.bits) /\ ChunkSound(c) = Sound(c.bits) /\ c.bits \in Seq({0, 1})
    BY <1>4 DEF SegmentsOf, ChunkSound
  <2> QED
    BY <2>1, DataBrings, BitsSound
<1>5. CASE c \in [kind : {"other"}]
  <2>1. SegmentsOf(c) = <<>> /\ ChunkSound(c) = <<>>
    BY <1>5 DEF SegmentsOf, ChunkSound
  <2> QED
    BY <2>1, NothingBrings
<1> QED
  BY <1>1, <1>2, <1>3, <1>4, <1>5 DEF Chunk

\* The segments of a tape sound like its chunks, one after the other.
LEMMA SegmentsSoundAsChunks ==
  ASSUME NEW t \in Seq(Chunk)
  PROVE  /\ BuildSegments(t) \in Seq(Segment)
         /\ SoundOf(BuildSegments(t)) = FlattenSeq([i \in DOMAIN t |-> ChunkSound(t[i])])
         /\ FlattenSeq([i \in DOMAIN t |-> ChunkSound(t[i])]) \in Seq(Samples)
<1> DEFINE segs(u) == [i \in DOMAIN u |-> SegmentsOf(u[i])]
           sounds(u) == [i \in DOMAIN u |-> ChunkSound(u[i])]
           Good(u) == /\ BuildSegments(u) \in Seq(Segment)
                      /\ SoundOf(BuildSegments(u)) = FlattenSeq(sounds(u))
           N == {n \in Nat : \A u \in Seq(Chunk) : Len(u) = n => Good(u)}
<1>1. \A u \in Seq(Chunk) : segs(u) \in Seq(Seq(Segment)) /\ sounds(u) \in Seq(Seq(Samples))
  <2> SUFFICES ASSUME NEW u \in Seq(Chunk)
               PROVE  segs(u) \in Seq(Seq(Segment)) /\ sounds(u) \in Seq(Seq(Samples))
    OBVIOUS
  <2>1. \A i \in 1..Len(u) : u[i] \in Chunk
    OBVIOUS
  <2>2. \A i \in 1..Len(u) :
          SegmentsOf(u[i]) \in Seq(Segment) /\ ChunkSound(u[i]) \in Seq(Samples)
    BY <2>1, ChunkBrings
  <2>3. DOMAIN u = 1..Len(u) /\ Len(u) \in Nat
    OBVIOUS
  <2> QED
    BY <2>2, <2>3
<1>2. 0 \in N
  <2> SUFFICES ASSUME NEW u \in Seq(Chunk), Len(u) = 0 PROVE Good(u)
    OBVIOUS
  <2>1. segs(u) = <<>> /\ sounds(u) = <<>>
    OBVIOUS
  <2>2. BuildSegments(u) = <<>> /\ FlattenSeq(sounds(u)) = <<>>
    BY <2>1, FlattenEmpty DEF BuildSegments
  <2> QED
    BY <2>2, SoundOfNothing
<1>3. ASSUME NEW n \in Nat, n \in N PROVE n + 1 \in N
  <2> SUFFICES ASSUME NEW u \in Seq(Chunk), Len(u) = n + 1 PROVE Good(u)
    OBVIOUS
  <2>1. PICK v \in Seq(Chunk), c \in Chunk : u = Append(v, c)
    <3>1. u # <<>>
      OBVIOUS
    <3> QED
      BY <3>1, SequenceEmptyOrAppend, Zenon
  <2>2. Len(v) = n /\ u[n + 1] = c /\ \A k \in 1..n : u[k] = v[k]
    BY <2>1, AppendProperties
  <2>3. Good(v)
    BY <1>3, <2>2
  <2>4. SegmentsOf(c) \in Seq(Segment) /\ ChunkSound(c) \in Seq(Samples)
        /\ Brings(SegmentsOf(c), ChunkSound(c))
    BY ChunkBrings
  <2>5. segs(u) = Append(segs(v), SegmentsOf(c))
    <3>1. segs(u) \in Seq(Seq(Segment)) /\ Append(segs(v), SegmentsOf(c)) \in Seq(Seq(Segment))
      BY <1>1, <2>4, AppendProperties
    <3>2. Len(segs(u)) = n + 1 /\ Len(segs(v)) = n /\ Len(Append(segs(v), SegmentsOf(c))) = n + 1
      BY <2>2
    <3>3. \A i \in 1..(n + 1) : segs(u)[i] = Append(segs(v), SegmentsOf(c))[i]
      BY <2>1, <2>2
    <3> QED
      BY <3>1, <3>2, <3>3, SeqEqual
  <2>6. sounds(u) = Append(sounds(v), ChunkSound(c))
    <3>1. sounds(u) \in Seq(Seq(Samples)) /\ Append(sounds(v), ChunkSound(c)) \in Seq(Seq(Samples))
      BY <1>1, <2>4, AppendProperties
    <3>2. Len(sounds(u)) = n + 1 /\ Len(sounds(v)) = n /\ Len(Append(sounds(v), ChunkSound(c))) = n + 1
      BY <2>2
    <3>3. \A i \in 1..(n + 1) : sounds(u)[i] = Append(sounds(v), ChunkSound(c))[i]
      BY <2>1, <2>2
    <3> QED
      BY <3>1, <3>2, <3>3, SeqEqual
  <2>7. BuildSegments(v) = FlattenSeq(segs(v)) /\ BuildSegments(u) = FlattenSeq(segs(u))
    BY Zenon DEF BuildSegments
  <2>8. segs(v) \in Seq(Seq(Segment)) /\ sounds(v) \in Seq(Seq(Samples))
    BY <1>1
  <2> HIDE DEF segs, sounds
  <2>9. FlattenSeq(segs(u)) = FlattenSeq(segs(v)) \o SegmentsOf(c)
    BY <2>4, <2>5, <2>8, FlattenAppend
  <2>10. FlattenSeq(sounds(u)) = FlattenSeq(sounds(v)) \o ChunkSound(c)
    BY <2>4, <2>6, <2>8, FlattenAppend
  <2> QED
    BY <2>3, <2>4, <2>7, <2>9, <2>10, Zenon DEF Brings
<1> HIDE DEF N
<1>4. Nat \subseteq N
  BY <1>2, <1>3, SetInduction
<1>5. Good(t)
  BY <1>4 DEF N
<1>6. FlattenSeq(sounds(t)) \in Seq(Samples)
  BY <1>1, FlattenLaysOut
<1> QED
  BY <1>5, <1>6

-----------------------------------------------------------------------------
(***************************************************************************)
(* The place on the tape.                                                  *)
(***************************************************************************)
\* Where the segments begin.
OffsetsOf(segs) ==
  CHOOSE off : LaidOut(off, SoundOf(segs), [i \in DOMAIN segs |-> SegmentSound(segs[i])])

\* The places of the segments: each sounds from its offset to the next.
LEMMA SegmentPlaces ==
  ASSUME NEW segs \in Seq(Segment)
  PROVE  /\ OffsetsOf(segs)[1] = 0
         /\ OffsetsOf(segs)[Len(segs) + 1] = Len(SoundOf(segs))
         /\ Len(SoundOf(segs)) \in Nat
         /\ \A k \in 1..Len(segs) :
              /\ OffsetsOf(segs)[k] \in Nat
              /\ OffsetsOf(segs)[k + 1] = OffsetsOf(segs)[k] + SegmentSize(segs[k])
              /\ \A j \in 1..SegmentSize(segs[k]) :
                   /\ OffsetsOf(segs)[k] + j <= Len(SoundOf(segs))
                   /\ SoundOf(segs)[OffsetsOf(segs)[k] + j]
                        = [bit |-> IF segs[k].kind = "DATA" THEN segs[k].bits[j] ELSE 1,
                           carrier |-> (segs[k].kind # "GAP")]
<1> DEFINE parts == [i \in DOMAIN segs |-> SegmentSound(segs[i])]
           whole == SoundOf(segs)
           off == OffsetsOf(segs)
<1>1. parts \in Seq(Seq(Samples)) /\ whole = FlattenSeq(parts)
  BY SoundsAreSequences DEF SoundOf
<1>2. Len(parts) = Len(segs) /\ \A k \in 1..Len(segs) : parts[k] = SegmentSound(segs[k])
  OBVIOUS
<1> HIDE DEF parts
<1>3. whole \in Seq(Samples) /\ \E o : LaidOut(o, whole, parts)
  BY <1>1, FlattenLaysOut
<1>4. LaidOut(off, whole, parts)
  BY <1>3, Zenon DEF OffsetsOf, parts
<1> HIDE DEF whole, off
<1>5. /\ off \in [1..(Len(segs) + 1) -> Nat] /\ off[1] = 0 /\ off[Len(segs) + 1] = Len(whole)
      /\ \A k \in 1..Len(segs) :
           /\ off[k + 1] = off[k] + Len(parts[k])
           /\ \A j \in 1..Len(parts[k]) : off[k] + j <= Len(whole) /\ whole[off[k] + j] = parts[k][j]
  BY <1>2, <1>4 DEF LaidOut
<1>6. ASSUME NEW k \in 1..Len(segs)
      PROVE  /\ off[k] \in Nat
             /\ off[k + 1] = off[k] + SegmentSize(segs[k])
             /\ \A j \in 1..SegmentSize(segs[k]) :
                  /\ off[k] + j <= Len(whole)
                  /\ whole[off[k] + j]
                       = [bit |-> IF segs[k].kind = "DATA" THEN segs[k].bits[j] ELSE 1,
                          carrier |-> (segs[k].kind # "GAP")]
  <2>1. segs[k] \in Segment /\ k \in 1..(Len(segs) + 1)
    OBVIOUS
  <2>2. /\ Len(parts[k]) = SegmentSize(segs[k])
        /\ \A j \in 1..SegmentSize(segs[k]) :
             parts[k][j] = [bit |-> IF segs[k].kind = "DATA" THEN segs[k].bits[j] ELSE 1,
                            carrier |-> (segs[k].kind # "GAP")]
    BY <1>2, <2>1, SegmentHasSound, Zenon
  <2>3. off[k] \in Nat /\ off[k + 1] = off[k] + Len(parts[k])
        /\ \A j \in 1..Len(parts[k]) : off[k] + j <= Len(whole) /\ whole[off[k] + j] = parts[k][j]
    BY <1>5, <2>1
  <2> QED
    BY <2>2, <2>3, Zenon
<1>7. Len(whole) \in Nat
  BY <1>3
<1> QED
  BY <1>5, <1>6, <1>7 DEF whole, off

\* What has been played is what lies before the place, and the place is inside
\* a segment or behind the last.
PlaceInv ==
  /\ tape \in Seq(Chunk)
  /\ segments = BuildSegments(tape)
  /\ segIdx \in 1..(Len(segments) + 1)
  /\ bitPos \in Nat
  /\ IF EndOfTape THEN bitPos = 0 ELSE bitPos < SegmentSize(segments[segIdx])
  /\ played = OffsetsOf(segments)[segIdx] + bitPos

\* A tape at its beginning.
LEMMA TapeStarts ==
  ASSUME NEW t \in Seq(Chunk)
  PROVE  /\ BuildSegments(t) \in Seq(Segment) /\ Len(BuildSegments(t)) \in Nat
         /\ OffsetsOf(BuildSegments(t))[1] = 0
         /\ Len(BuildSegments(t)) >= 1 => SegmentSize(BuildSegments(t)[1]) > 0
<1>1. BuildSegments(t) \in Seq(Segment)
  BY SegmentsSoundAsChunks
<1>2. Len(BuildSegments(t)) >= 1 => BuildSegments(t)[1] \in Segment
  BY <1>1
<1> QED
  BY <1>1, <1>2, SegmentPlaces, SegmentHasSound

\* No tape has no place.
LEMMA PlaceInit == LoadInit => PlaceInv
<1> SUFFICES ASSUME LoadInit PROVE PlaceInv
  OBVIOUS
<1>1. tape = <<>> /\ played = 0 /\ segments = <<>> /\ segIdx = 1 /\ bitPos = 0
  BY DEF LoadInit, CInit, NoTape
<1>2. <<>> \in Seq(Chunk) /\ BuildSegments(<<>>) = <<>>
  <2>1. [i \in DOMAIN <<>> |-> SegmentsOf(<<>>[i])] = <<>>
    OBVIOUS
  <2> QED
    BY <2>1, FlattenEmpty DEF BuildSegments
<1>3. OffsetsOf(<<>>)[1] = 0
  BY <1>2, TapeStarts
<1>4. EndOfTape /\ segIdx \in 1..(Len(segments) + 1)
  BY <1>1 DEF EndOfTape
<1> QED
  BY <1>1, <1>2, <1>3, <1>4 DEF PlaceInv

\* A tape that is inserted begins at its beginning.
LEMMA InsertPlaces ==
  ASSUME NEW t \in Seq(Chunk), Insert(t)
  PROVE  PlaceInv'
<1> DEFINE built == BuildSegments(t)
<1>1. /\ segments' = built /\ segIdx' = 1 /\ bitPos' = 0 /\ played' = 0 /\ tape' = t
  BY DEF Insert, LoadTape, InsertTape
<1>2. /\ Len(built) \in Nat /\ OffsetsOf(built)[1] = 0
      /\ Len(built) >= 1 => SegmentSize(built[1]) > 0
  BY TapeStarts
<1> HIDE DEF built
<1>3. IF EndOfTape' THEN TRUE ELSE Len(built) >= 1
  BY <1>1, <1>2 DEF EndOfTape
<1>4. IF EndOfTape' THEN bitPos' = 0 ELSE bitPos' < SegmentSize(segments'[segIdx'])
  BY <1>1, <1>2, <1>3
<1>5. segIdx' \in 1..(Len(segments') + 1) /\ played' = OffsetsOf(segments')[segIdx'] + bitPos'
  BY <1>1, <1>2
<1> QED
  BY <1>1, <1>4, <1>5 DEF PlaceInv, built

\* One more bit: it is the next one, and the place moves behind it.
LEMMA NextBitIsNext ==
  ASSUME PlaceInv, NextBit
  PROVE  /\ BitOnTape \in {0, 1}
         /\ [bit |-> BitOnTape, carrier |-> lastCarrier']
              = IF played < Len(TapeSound) THEN TapeSound[played + 1]
                ELSE [bit |-> 1, carrier |-> FALSE]
         /\ UNCHANGED tape /\ played' = (IF played < Len(TapeSound) THEN played + 1 ELSE played)
              => PlaceInv'
<1> DEFINE seg == segments[segIdx]
           off == OffsetsOf(segments)
<1>1. segments \in Seq(Segment) /\ TapeSound = SoundOf(segments)
  BY SegmentsSoundAsChunks DEF PlaceInv, TapeSound
<1>2. segments' = segments
  BY DEF NextBit
<1>3. CASE EndOfTape
  <2>1. segIdx = Len(segments) + 1 /\ bitPos = 0
    BY <1>1, <1>3 DEF PlaceInv, EndOfTape
  <2>2. played = Len(TapeSound) /\ Len(TapeSound) \in Nat
    BY <1>1, <2>1, SegmentPlaces DEF PlaceInv
  <2>3. BitOnTape = 1 /\ lastCarrier' = FALSE /\ UNCHANGED <<segments, segIdx, bitPos>>
    BY <1>3 DEF BitOnTape, NextBit
  <2>4. UNCHANGED tape /\ played' = played => PlaceInv'
    BY <2>3 DEF PlaceInv, EndOfTape
  <2>5. [bit |-> BitOnTape, carrier |-> lastCarrier'] = [bit |-> 1, carrier |-> FALSE]
    BY <2>3, Zenon
  <2>6. ~(played < Len(TapeSound)) /\ BitOnTape \in {0, 1}
    BY <2>2, <2>3
  <2> QED
    BY <2>4, <2>5, <2>6, Zenon
<1>4. CASE ~EndOfTape
  <2>1. segIdx \in 1..Len(segments) /\ bitPos \in Nat /\ bitPos < SegmentSize(seg)
        /\ played = off[segIdx] + bitPos
    BY <1>1, <1>4 DEF PlaceInv, EndOfTape
  <2>2. seg \in Segment /\ SegmentSize(seg) \in Nat /\ bitPos + 1 \in 1..SegmentSize(seg)
    BY <1>1, <2>1, SegmentHasSound
  <2>3. /\ off[segIdx] \in Nat /\ off[segIdx + 1] = off[segIdx] + SegmentSize(seg)
        /\ off[segIdx] + (bitPos + 1) <= Len(TapeSound) /\ Len(TapeSound) \in Nat
    BY <1>1, <2>1, <2>2, SegmentPlaces
  <2>4. TapeSound[off[segIdx] + (bitPos + 1)]
          = [bit |-> IF seg.kind = "DATA" THEN seg.bits[bitPos + 1] ELSE 1,
             carrier |-> (seg.kind # "GAP")]
    BY <1>1, <2>1, <2>2, SegmentPlaces
  <2> HIDE DEF off
  <2>5. played < Len(TapeSound) /\ played + 1 = off[segIdx] + (bitPos + 1) /\ played \in Nat
    BY <2>1, <2>3
  <2>6. BitOnTape = (IF seg.kind = "DATA" THEN seg.bits[bitPos + 1] ELSE 1)
        /\ lastCarrier' = (seg.kind # "GAP")
    BY <1>4, Zenon DEF BitOnTape, NextBit
  <2>7. [bit |-> BitOnTape, carrier |-> lastCarrier'] = TapeSound[played + 1]
    BY <2>5, <2>6, <2>4, Zenon
  <2>8. BitOnTape \in {0, 1}
    <3>1. seg.kind = "DATA" => seg.bits \in Seq({0, 1}) /\ SegmentSize(seg) = Len(seg.bits)
      BY <2>2 DEF Segment, SegmentSize
    <3>2. seg.kind = "DATA" => seg.bits[bitPos + 1] \in {0, 1}
      BY <2>2, <3>1
    <3> QED
      BY <2>6, <3>2
  <2>9. ASSUME UNCHANGED tape, played' = played + 1 PROVE PlaceInv'
    <3>1. CASE bitPos + 1 >= SegmentSize(seg)
      <4>1. segIdx' = segIdx + 1 /\ bitPos' = 0
        BY <1>4, <3>1 DEF NextBit
      <4>2. segIdx' \in 1..(Len(segments') + 1) /\ bitPos' \in Nat
        BY <1>1, <1>2, <2>1, <4>1
      <4>3. played' = off[segIdx'] + bitPos'
        BY <2>1, <2>2, <2>3, <2>9, <3>1, <4>1
      <4>4. ~EndOfTape' => segments'[segIdx'] \in Segment
        BY <1>1, <1>2, <2>1, <4>1 DEF EndOfTape
      <4>5. ~EndOfTape' => bitPos' < SegmentSize(segments'[segIdx'])
        BY <4>1, <4>4, SegmentHasSound
      <4> QED
        BY <1>2, <2>9, <4>1, <4>2, <4>3, <4>5 DEF PlaceInv, off
    <3>2. CASE ~(bitPos + 1 >= SegmentSize(seg))
      <4>1. segIdx' = segIdx /\ bitPos' = bitPos + 1
        BY <1>4, <3>2 DEF NextBit
      <4>2. segIdx' \in 1..(Len(segments') + 1) /\ bitPos' \in Nat
        BY <1>1, <1>2, <2>1, <4>1
      <4>3. played' = off[segIdx'] + bitPos'
        BY <2>1, <2>3, <2>9, <4>1
      <4>4. bitPos' < SegmentSize(segments'[segIdx']) /\ ~EndOfTape'
        BY <1>2, <1>4, <2>1, <2>2, <3>2, <4>1 DEF EndOfTape
      <4> QED
        BY <1>2, <2>9, <4>2, <4>3, <4>4 DEF PlaceInv, off
    <3> QED
      BY <3>1, <3>2
  <2> QED
    BY <2>5, <2>7, <2>8, <2>9
<1> QED
  BY <1>3, <1>4

\* What is not on the tape's way leaves the place, and the bit the receiver reads.
TapeInv == PlaceInv /\ rxBit \in {0, 1}

\* A step that leaves the tape alone.
LEMMA OthersKeepPlace ==
  TapeInv /\ UNCHANGED <<tapeVars, rxBit, tape, played>> => TapeInv'
BY DEF TapeInv, PlaceInv, tapeVars, EndOfTape

\* A tick of the port.
LEMMA TickKeepsPlace == TapeInv /\ Tick /\ UNCHANGED tape => TapeInv'
<1> SUFFICES ASSUME TapeInv, Tick, UNCHANGED tape PROVE TapeInv'
  OBVIOUS
<1>1. CASE ~TapeAdvances
  <2>1. UNCHANGED <<tapeVars, rxBit, played>>
    BY <1>1 DEF Tick, RxTick, BitRead
  <2> QED
    BY <2>1, OthersKeepPlace
<1>2. CASE TapeAdvances /\ ~port.motor
  <2>1. UNCHANGED <<tapeVars, tape, played>> /\ rxBit' = 1
    BY <1>2 DEF Tick, RxTick, BitRead, RxData, MoveTape
  <2> QED
    BY <2>1 DEF TapeInv, PlaceInv, tapeVars, EndOfTape
<1>3. CASE TapeAdvances /\ port.motor
  <2>1. NextBit /\ rxBit' = BitOnTape
        /\ played' = (IF played < Len(TapeSound) THEN played + 1 ELSE played)
    BY <1>3 DEF Tick, RxTick, BitRead, RxData, MoveTape
  <2> QED
    BY <2>1, NextBitIsNext DEF TapeInv
<1> QED
  BY <1>1, <1>2, <1>3

\* Every step of the machine keeps the place on the tape.
LEMMA LoadKeepsPlace == TapeInv /\ [LoadNext]_loadVars => TapeInv'
<1> SUFFICES ASSUME TapeInv, [LoadNext]_loadVars PROVE TapeInv'
  OBVIOUS
<1> USE DEF ulaVars
<1>1. ASSUME NEW t \in Tapes \cup Recordings, Insert(t) PROVE TapeInv'
  <2>1. t \in Seq(Chunk)
    BY CassetteAssumption, RecordingsAssumption DEF CassetteAssumption, RecordingsAssumption
  <2>2. rxBit' = rxBit
    BY <1>1 DEF Insert, LoadTape
  <2> QED
    BY <1>1, <2>1, <2>2, InsertPlaces DEF TapeInv
<1>2. CASE FreeTick
  BY <1>2, TickKeepsPlace DEF FreeTick
<1>3. CASE FreeClock
  BY <1>3, OthersKeepPlace DEF FreeClock, ClockReceiver
<1>4. CASE FreeMotor
  BY <1>4, OthersKeepPlace DEF FreeMotor, SwitchMotor
<1>5. CASE FreeUse
  BY <1>1, <1>5, OthersKeepPlace DEF FreeUse, WriteScr, Register
<1>6. CASE Setup
  BY <1>1, <1>6, OthersKeepPlace DEF Setup, WriteScr
<1>7. CASE Playing
  BY <1>7, TickKeepsPlace, OthersKeepPlace DEF Playing, ClockReceiver, Divide
<1>8. CASE UNCHANGED loadVars
  BY <1>8, OthersKeepPlace DEF loadVars, cvars
<1>9. CASE FreeDivide
  BY <1>9, OthersKeepPlace DEF FreeDivide, Divide
<1> QED
  BY <1>2, <1>3, <1>4, <1>5, <1>6, <1>7, <1>8, <1>9 DEF LoadNext

\* Every tape, of any chunks and any length, is played bit by bit from beginning
\* to end, whatever is done to the machine on the way.
THEOREM TapeIsPlayed == LoadSpec => PlaysTheTape
<1>1. LoadInit => TapeInv
  BY PlaceInit DEF TapeInv, LoadInit, CInit
<1>2. TapeInv /\ [LoadNext]_loadVars
        => [RxTick /\ BitRead => [bit |-> rxBit', carrier |-> lastCarrier']
                = IF played < Len(TapeSound) THEN TapeSound[played + 1]
                  ELSE [bit |-> 1, carrier |-> FALSE]]_loadVars
  <2> SUFFICES ASSUME TapeInv, RxTick, BitRead
               PROVE  [bit |-> rxBit', carrier |-> lastCarrier']
                        = IF played < Len(TapeSound) THEN TapeSound[played + 1]
                          ELSE [bit |-> 1, carrier |-> FALSE]
    OBVIOUS
  <2>1. NextBit /\ rxBit' = BitOnTape
    BY DEF RxTick, BitRead, RxData, MoveTape
  <2> QED
    BY <2>1, NextBitIsNext, Zenon DEF TapeInv
<1> QED
  BY <1>1, <1>2, LoadKeepsPlace, PTL DEF LoadSpec, PlaysTheTape

\* The chip in the machine is the chip: what is proved of the ACIA alone holds
\* while tapes are played.
THEOREM MachineHasTheChip == LoadSpec => Spec
<1>1. LoadInit => Init /\ TapeInv
  BY PlaceInit DEF TapeInv, LoadInit, CInit
<1>2. TapeInv /\ [LoadNext]_loadVars => [Next]_vars
  <2> SUFFICES ASSUME TapeInv, [LoadNext]_loadVars PROVE [Next]_vars
    OBVIOUS
  <2>1. ClockReceiver => [Next]_vars
    BY DEF ClockReceiver, Next, SerialUla, TapeInv
  <2>2. SwitchMotor => [Next]_vars
    BY DEF SwitchMotor, Next, SerialUla
  <2>3. ASSUME NEW v, WriteScr(v) PROVE [Next]_vars
    BY <2>3 DEF WriteScr, SelectInput, Next, SerialUla
  <2>4. RxTick => [Next]_vars
    BY DEF RxTick, CountCarrier, Next, SerialUla
  <2>5. MasterReset \/ ReadStatus \/ ReadRdr \/ (\E c \in ControlWords : WriteControl(c)) => Next
    BY DEF Next, Cpu
  <2>6. ASSUME NEW t, Insert(t) PROVE UNCHANGED vars
    BY <2>6 DEF Insert, LoadTape
  <2>7. CASE FreeTick
    BY <2>4, <2>7 DEF FreeTick, Tick
  <2>8. CASE FreeClock \/ FreeMotor
    BY <2>1, <2>2, <2>8 DEF FreeClock, FreeMotor
  <2>9. CASE FreeUse
    BY <2>3, <2>5, <2>6, <2>9 DEF FreeUse, Register
  <2>10. CASE Setup
    BY <2>3, <2>5, <2>6, <2>10 DEF Setup
  <2>11. CASE Playing
    BY <2>1, <2>4, <2>5, <2>11 DEF Playing, Tick, Divide
  <2>12. CASE UNCHANGED loadVars
    BY <2>12 DEF loadVars, cvars
  <2>13. CASE FreeDivide
    BY <2>13 DEF FreeDivide, Divide
  <2> QED
    BY <2>7, <2>8, <2>9, <2>10, <2>11, <2>12, <2>13 DEF LoadNext
<1> QED
  BY <1>1, <1>2, LoadKeepsPlace, PTL DEF LoadSpec, Spec

-----------------------------------------------------------------------------
(***************************************************************************)
(* Where the bytes are on a well-recorded tape.                            *)
(***************************************************************************)
\* The sound and the bytes on any tape, the chunks in order.
SoundOn(t) == FlattenSeq([i \in DOMAIN t |-> ChunkSound(t[i])])

BytesIn(c) == IF c.kind = "data" THEN c.bytes ELSE <<>>
BytesOn(t) == FlattenSeq([i \in DOMAIN t |-> BytesIn(t[i])])

\* The condition WellRecorded on any tape.
WellMade(t) ==
  \A i \in DOMAIN t :
    /\ t[i].kind \in {"tone", "gap", "data"}
    /\ t[i].kind = "data" => /\ i > 1 /\ t[i - 1].kind = "tone"
                             /\ t[i - 1].count >= LockThreshold

\* The cells of a frame: 0 is the start bit.  A cell that is in no frame is a mark.
StopBit == ByteBits + 1
Mark    == ByteBits + 2

\* The bit in a cell of a byte's frame, and the byte that is over after the cell.
CellBit(a, byte) == IF a = 0 THEN 0 ELSE IF a <= ByteBits THEN byte[a] ELSE 1
Ended(a) == IF a = StopBit THEN 1 ELSE 0

\* Cell b, with e bytes before it, may come after cell a with d.
Follows(a, d, b, e) ==
  IF a <= ByteBits THEN b = a + 1 /\ e = d ELSE b \in {0, Mark} /\ e = d + Ended(a)

\* There has been a carrier for long enough at bit k to be locked on to.
Locked(sound, k) == k > LockThreshold /\ \A j \in (k - LockThreshold)..k : sound[j].carrier

\* A reading of a tape: for each bit its cell and the number of bytes before it.
Reads(at, done, sound, bytes) ==
  /\ at \in [0..Len(sound) -> 0..Mark] /\ done \in [0..Len(sound) -> Nat]
  /\ at[0] = Mark /\ done[0] = 0
  /\ \A k \in 1..Len(sound) : sound[k].bit = CellBit(at[k], bytes[done[k] + 1])
  /\ \A k \in 0..(Len(sound) - 1) : Follows(at[k], done[k], at[k + 1], done[k + 1])
  /\ at[Len(sound)] > ByteBits /\ done[Len(sound)] + Ended(at[Len(sound)]) = Len(bytes)
  /\ \A k \in 1..Len(sound) : at[k] # Mark => Locked(sound, k) /\ done[k] < Len(bytes)

\* A tape that ends in a leader ends with a carrier.
EndsInLeader(t, sound) ==
  t # <<>> /\ t[Len(t)].kind = "tone" /\ t[Len(t)].count >= LockThreshold
    => /\ Len(sound) >= LockThreshold
       /\ \A j \in (Len(sound) - LockThreshold + 1)..Len(sound) : sound[j].carrier

\* One sequence is another with a piece at its end.
Extends(whole, first, piece) ==
  /\ Len(whole) = Len(first) + Len(piece)
  /\ \A i \in 1..Len(first) : whole[i] = first[i]
  /\ \A i \in 1..Len(piece) : whole[Len(first) + i] = piece[i]

\* What the end of a concatenation is.
LEMMA ConcatExtends ==
  ASSUME NEW V, NEW s \in Seq(V), NEW u \in Seq(V)
  PROVE  Extends(s \o u, s, u)
BY ConcatProperties DEF Extends

\* A chunk has a sequence of bytes.
LEMMA BytesInChunk == ASSUME NEW c \in Chunk PROVE BytesIn(c) \in Seq(Byte)
BY DEF BytesIn, Chunk

\* A tape's sound and bytes, chunk after chunk.
LEMMA TapeGrows ==
  ASSUME NEW t \in Seq(Chunk), NEW c \in Chunk
  PROVE  /\ SoundOn(t) \in Seq(Samples) /\ SoundOn(Append(t, c)) \in Seq(Samples)
         /\ BytesOn(t) \in Seq(Byte) /\ BytesOn(Append(t, c)) \in Seq(Byte)
         /\ ChunkSound(c) \in Seq(Samples) /\ BytesIn(c) \in Seq(Byte)
         /\ Extends(SoundOn(Append(t, c)), SoundOn(t), ChunkSound(c))
         /\ Extends(BytesOn(Append(t, c)), BytesOn(t), BytesIn(c))
<1> DEFINE sounds(u) == [i \in DOMAIN u |-> ChunkSound(u[i])]
           bytes(u) == [i \in DOMAIN u |-> BytesIn(u[i])]
           u == Append(t, c)
           n == Len(t)
<1>1. /\ u \in Seq(Chunk) /\ n \in Nat /\ Len(u) = n + 1 /\ u[n + 1] = c
      /\ \A k \in 1..n : u[k] = t[k]
  BY AppendProperties
<1>2. \A v \in Seq(Chunk) : /\ sounds(v) \in Seq(Seq(Samples)) /\ Len(sounds(v)) = Len(v)
                            /\ bytes(v) \in Seq(Seq(Byte)) /\ Len(bytes(v)) = Len(v)
                            /\ \A i \in 1..Len(v) : /\ sounds(v)[i] = ChunkSound(v[i])
                                                    /\ bytes(v)[i] = BytesIn(v[i])
  <2> SUFFICES ASSUME NEW v \in Seq(Chunk)
               PROVE  /\ sounds(v) \in Seq(Seq(Samples)) /\ Len(sounds(v)) = Len(v)
                      /\ bytes(v) \in Seq(Seq(Byte)) /\ Len(bytes(v)) = Len(v)
                      /\ \A i \in 1..Len(v) : /\ sounds(v)[i] = ChunkSound(v[i])
                                              /\ bytes(v)[i] = BytesIn(v[i])
    OBVIOUS
  <2>1. \A i \in 1..Len(v) : ChunkSound(v[i]) \in Seq(Samples) /\ BytesIn(v[i]) \in Seq(Byte)
    <3>1. \A i \in 1..Len(v) : v[i] \in Chunk
      OBVIOUS
    <3> QED
      BY <3>1, ChunkBrings, BytesInChunk
  <2>2. DOMAIN v = 1..Len(v) /\ Len(v) \in Nat
    OBVIOUS
  <2> QED
    BY <2>1, <2>2
<1>3. ChunkSound(c) \in Seq(Samples) /\ BytesIn(c) \in Seq(Byte)
  BY ChunkBrings, BytesInChunk
<1>4. sounds(u) = Append(sounds(t), ChunkSound(c))
  <2>1. sounds(u) \in Seq(Seq(Samples)) /\ Append(sounds(t), ChunkSound(c)) \in Seq(Seq(Samples))
    BY <1>1, <1>2, <1>3, AppendProperties
  <2>2. Len(sounds(u)) = n + 1 /\ Len(sounds(t)) = n /\ Len(Append(sounds(t), ChunkSound(c))) = n + 1
    BY <1>1
  <2>3. \A i \in 1..(n + 1) : sounds(u)[i] = Append(sounds(t), ChunkSound(c))[i]
    BY <1>1
  <2> QED
    BY <2>1, <2>2, <2>3, SeqEqual
<1>5. bytes(u) = Append(bytes(t), BytesIn(c))
  <2>1. bytes(u) \in Seq(Seq(Byte)) /\ Append(bytes(t), BytesIn(c)) \in Seq(Seq(Byte))
    BY <1>1, <1>2, <1>3, AppendProperties
  <2>2. Len(bytes(u)) = n + 1 /\ Len(bytes(t)) = n /\ Len(Append(bytes(t), BytesIn(c))) = n + 1
    BY <1>1
  <2>3. \A i \in 1..(n + 1) : bytes(u)[i] = Append(bytes(t), BytesIn(c))[i]
    BY <1>1
  <2> QED
    BY <2>1, <2>2, <2>3, SeqEqual
<1>6. /\ sounds(t) \in Seq(Seq(Samples)) /\ bytes(t) \in Seq(Seq(Byte))
      /\ sounds(u) \in Seq(Seq(Samples)) /\ bytes(u) \in Seq(Seq(Byte))
  BY <1>1, <1>2
<1>7. /\ SoundOn(t) = FlattenSeq(sounds(t)) /\ SoundOn(u) = FlattenSeq(sounds(u))
      /\ BytesOn(t) = FlattenSeq(bytes(t)) /\ BytesOn(u) = FlattenSeq(bytes(u))
  BY Zenon DEF SoundOn, BytesOn
<1> HIDE DEF sounds, bytes, u
<1>8. /\ FlattenSeq(sounds(u)) = FlattenSeq(sounds(t)) \o ChunkSound(c)
      /\ FlattenSeq(bytes(u)) = FlattenSeq(bytes(t)) \o BytesIn(c)
  BY <1>3, <1>4, <1>5, <1>6, FlattenAppend
<1>9. /\ SoundOn(t) \in Seq(Samples) /\ SoundOn(u) \in Seq(Samples)
      /\ BytesOn(t) \in Seq(Byte) /\ BytesOn(u) \in Seq(Byte)
  BY <1>6, <1>7, FlattenLaysOut
<1>10. Extends(SoundOn(u), SoundOn(t), ChunkSound(c)) /\ Extends(BytesOn(u), BytesOn(t), BytesIn(c))
  BY <1>3, <1>7, <1>8, <1>9, ConcatExtends
<1> QED
  BY <1>3, <1>9, <1>10 DEF u

\* A prefix of a well-made tape is one.
LEMMA WellMadePrefix ==
  ASSUME NEW t \in Seq(Chunk), NEW c \in Chunk, WellMade(Append(t, c))
  PROVE  /\ WellMade(t) /\ c.kind \in {"tone", "gap", "data"}
         /\ c.kind = "data" => /\ t # <<>> /\ t[Len(t)].kind = "tone"
                               /\ t[Len(t)].count >= LockThreshold
<1> DEFINE u == Append(t, c)
           n == Len(t)
<1>1. /\ n \in Nat /\ DOMAIN u = 1..(n + 1) /\ u[n + 1] = c /\ DOMAIN t = 1..n
      /\ \A k \in 1..n : u[k] = t[k]
  BY AppendProperties
<1> HIDE DEF u, n
<1>2. \A i \in 1..(n + 1) :
        /\ u[i].kind \in {"tone", "gap", "data"}
        /\ u[i].kind = "data" => /\ i > 1 /\ u[i - 1].kind = "tone"
                                 /\ u[i - 1].count >= LockThreshold
  BY <1>1 DEF WellMade, u
<1>3. WellMade(t)
  <2> SUFFICES ASSUME NEW i \in 1..n
               PROVE  /\ t[i].kind \in {"tone", "gap", "data"}
                      /\ t[i].kind = "data" => /\ i > 1 /\ t[i - 1].kind = "tone"
                                               /\ t[i - 1].count >= LockThreshold
    BY <1>1 DEF WellMade
  <2>1. i \in 1..(n + 1) /\ u[i] = t[i] /\ (i > 1 => u[i - 1] = t[i - 1])
    BY <1>1
  <2> QED
    BY <1>2, <2>1
<1>4. c.kind \in {"tone", "gap", "data"}
      /\ (c.kind = "data" => n + 1 > 1 /\ u[n].kind = "tone" /\ u[n].count >= LockThreshold)
  <2>1. n + 1 \in 1..(n + 1) /\ n + 1 - 1 = n
    BY <1>1
  <2> QED
    BY <1>1, <1>2, <2>1
<1>5. n + 1 > 1 => t # <<>> /\ u[n] = t[n]
  BY <1>1 DEF n
<1> QED
  BY <1>3, <1>4, <1>5 DEF n

\* Quotient and remainder are unique.
LEMMA DivisionIsUnique ==
  ASSUME NEW m \in Nat \ {0}, NEW q \in Nat, NEW r \in 0..(m - 1), NEW i \in Nat, i = q * m + r
  PROVE  i \div m = q /\ i % m = r
<1> DEFINE p == i \div m
           s == i % m
<1>1. p \in Nat /\ s \in 0..(m - 1) /\ i = p * m + s
  BY Division
<1> HIDE DEF p, s
<1>2. ASSUME NEW a \in Nat, NEW b \in Nat, NEW c \in 0..(m - 1), NEW d \in 0..(m - 1),
             a * m + c = b * m + d
      PROVE  ~(a < b)
  <2> SUFFICES ASSUME a < b PROVE FALSE
    OBVIOUS
  <2>1. PICK e \in Nat : b = a + 1 + e
    <3>1. b - a - 1 \in Nat /\ b = a + 1 + (b - a - 1)
      OBVIOUS
    <3> QED
      BY <3>1
  <2>2. b * m = a * m + m + e * m
    BY <2>1
  <2>3. e * m \in Nat /\ a * m \in Nat
    OBVIOUS
  <2> QED
    BY <1>2, <2>2, <2>3
<1>3. p = q
  BY <1>1, <1>2
<1> QED
  BY <1>1, <1>3 DEF p, s

\* What a cell and the number of bytes before it are, counted over a block.
LEMMA CellsOfBlock ==
  ASSUME NEW i \in Nat
  PROVE  /\ ByteBits \in Nat \ {0} /\ i % Mark \in 0..StopBit /\ i \div Mark \in Nat
         /\ IF i % Mark = StopBit
            THEN (i + 1) % Mark = 0 /\ (i + 1) \div Mark = i \div Mark + 1
            ELSE (i + 1) % Mark = (i % Mark) + 1 /\ (i + 1) \div Mark = i \div Mark
<1>1. ByteBits \in Nat \ {0}
  BY TapeAssumption DEF TapeAssumption
<1> DEFINE q == i \div Mark
           r == i % Mark
<1>2. Mark \in Nat \ {0} /\ Mark - 1 = StopBit
  BY <1>1 DEF Mark, StopBit
<1>3. q \in Nat /\ r \in 0..StopBit /\ i = q * Mark + r
  BY <1>2, Division
<1> HIDE DEF q, r
<1> DEFINE j == i + 1
<1>4. j \in Nat
  OBVIOUS
<1> HIDE DEF j
<1>5. ASSUME NEW y \in Nat, NEW z \in 0..(Mark - 1), j = y * Mark + z
      PROVE  j \div Mark = y /\ j % Mark = z
  BY <1>2, <1>4, <1>5, DivisionIsUnique
<1>6. CASE r = StopBit
  <2>1. j = (q + 1) * Mark + 0
    <3>1. (q + 1) * Mark = q * Mark + Mark /\ q * Mark \in Nat
      BY <1>2, <1>3
    <3> QED
      BY <1>2, <1>3, <1>6, <3>1 DEF j
  <2>2. q + 1 \in Nat /\ 0 \in 0..(Mark - 1)
    BY <1>2, <1>3
  <2>3. j \div Mark = q + 1 /\ j % Mark = 0
    BY <1>5, <2>1, <2>2
  <2> QED
    BY <1>1, <1>3, <1>6, <2>3 DEF q, r, j
<1>7. CASE r # StopBit
  <2>1. j = q * Mark + (r + 1) /\ r + 1 \in 0..(Mark - 1)
    <3>1. q * Mark \in Nat
      BY <1>2, <1>3
    <3> QED
      BY <1>2, <1>3, <1>7, <3>1 DEF j
  <2>2. j \div Mark = q /\ j % Mark = r + 1
    BY <1>3, <1>5, <2>1
  <2> QED
    BY <1>1, <1>3, <1>7, <2>2 DEF q, r, j
<1> QED
  BY <1>6, <1>7

\* The last cell of a block.
LEMMA BlockEnds ==
  ASSUME NEW n \in Nat \ {0}
  PROVE  /\ Mark * n \in Nat \ {0}
         /\ (Mark * n - 1) % Mark = StopBit /\ (Mark * n - 1) \div Mark = n - 1
<1>1. Mark \in Nat \ {0} /\ StopBit \in 0..(Mark - 1) /\ Mark - 1 = StopBit
  BY TapeAssumption DEF TapeAssumption, Mark, StopBit
<1>2. Mark * n = (n - 1) * Mark + Mark /\ (n - 1) * Mark \in Nat
  BY <1>1
<1>3. Mark * n - 1 \in Nat /\ Mark * n - 1 = (n - 1) * Mark + StopBit /\ n - 1 \in Nat
  BY <1>1, <1>2
<1> QED
  BY <1>1, <1>2, <1>3, DivisionIsUnique

\* A tone, a silence and a block, cell by cell.
LEMMA ChunkCells ==
  ASSUME NEW c \in Chunk, c.kind \in {"tone", "gap", "data"}
  PROVE  /\ c.kind # "data" => BytesIn(c) = <<>>
                                /\ \A i \in 1..Len(ChunkSound(c)) : ChunkSound(c)[i].bit = 1
         /\ c.kind = "tone" => /\ c.count \in Nat /\ Len(ChunkSound(c)) = c.count
                               /\ \A i \in 1..c.count : ChunkSound(c)[i].carrier
         /\ c.kind = "data" =>
              /\ c.bytes \in Seq(Byte) /\ BytesIn(c) = c.bytes
              /\ Len(ChunkSound(c)) = Mark * Len(c.bytes)
              /\ \A i \in 1..(Mark * Len(c.bytes)) :
                   /\ ChunkSound(c)[i].carrier
                   /\ ChunkSound(c)[i].bit
                        = CellBit((i - 1) % Mark, c.bytes[((i - 1) \div Mark) + 1])
<1>1. CASE c.kind = "tone"
  <2>1. c.count \in Nat /\ ChunkSound(c) = Tone(c.count) /\ BytesIn(c) = <<>>
    BY <1>1 DEF Chunk, ChunkSound, BytesIn
  <2> QED
    BY <1>1, <2>1 DEF Tone
<1>2. CASE c.kind = "gap"
  <2>1. c.count \in Nat /\ ChunkSound(c) = Silence(c.count) /\ BytesIn(c) = <<>>
    BY <1>2 DEF Chunk, ChunkSound, BytesIn
  <2> QED
    BY <1>2, <2>1 DEF Silence
<1>3. CASE c.kind = "data"
  <2>1. c.bytes \in Seq(Byte) /\ ChunkSound(c) = Frames(c.bytes) /\ BytesIn(c) = c.bytes
    BY <1>3 DEF Chunk, ChunkSound, BytesIn
  <2> DEFINE e == Expand8n1(c.bytes)
             m == Mark * Len(c.bytes)
  <2>2. e \in Seq({0, 1}) /\ Len(e) = m /\ \A i \in 1..m : e[i] = FrameBit(c.bytes, i)
    BY <2>1, FramesInLine DEF Mark
  <2>3. ChunkSound(c) = Sound(e)
    BY <2>1, FramesAreExpanded
  <2> HIDE DEF e, m
  <2>4. Len(Sound(e)) = m /\ \A i \in 1..m : Sound(e)[i] = [bit |-> FrameBit(c.bytes, i), carrier |-> TRUE]
    BY <2>2, BitsSound
  <2>5. ASSUME NEW i \in 1..m
        PROVE  FrameBit(c.bytes, i) = CellBit((i - 1) % Mark, c.bytes[((i - 1) \div Mark) + 1])
    <3>1. m \in Nat
      BY <2>2
    <3>2. (i - 1) % Mark \in 0..StopBit /\ ByteBits \in Nat
      BY <3>1, CellsOfBlock
    <3>3. FrameBit(c.bytes, i)
            = IF (i - 1) % Mark = 0 THEN 0
              ELSE IF (i - 1) % Mark = ByteBits + 1 THEN 1
              ELSE c.bytes[((i - 1) \div Mark) + 1][(i - 1) % Mark]
      BY DEF FrameBit, Mark
    <3> QED
      BY <3>2, <3>3 DEF CellBit, StopBit
  <2>6. \A i \in 1..m : Sound(e)[i].carrier /\ Sound(e)[i].bit = FrameBit(c.bytes, i)
    BY <2>4
  <2> QED
    BY <1>3, <2>1, <2>3, <2>4, <2>5, <2>6 DEF m
<1> QED
  BY <1>1, <1>2, <1>3

\* What a reading says of the first n bits.
ReadsTo(at, done, n, sound, bytes) ==
  /\ \A k \in 0..n : at[k] \in 0..Mark /\ done[k] \in Nat
  /\ \A k \in 1..n : sound[k].bit = CellBit(at[k], bytes[done[k] + 1])
  /\ \A k \in 1..n : at[k] # Mark => Locked(sound, k) /\ done[k] < Len(bytes)

\* It still holds when the tape goes on.
LEMMA ReadingStays ==
  ASSUME NEW sound \in Seq(Samples), NEW bytes \in Seq(Byte),
         NEW whole \in Seq(Samples), NEW all \in Seq(Byte), NEW at, NEW done,
         Reads(at, done, sound, bytes),
         NEW piece \in Seq(Samples), NEW block \in Seq(Byte),
         Extends(whole, sound, piece), Extends(all, bytes, block)
  PROVE  ReadsTo(at, done, Len(sound), whole, all)
<1>1. ByteBits \in Nat \ {0} /\ LockThreshold \in Nat
  BY TapeAssumption, CassetteAssumption DEF TapeAssumption, CassetteAssumption
<1>2. /\ Len(sound) \in Nat /\ Len(bytes) \in Nat /\ Len(all) \in Nat /\ Len(bytes) <= Len(all)
      /\ \A i \in 1..Len(sound) : whole[i] = sound[i]
      /\ \A i \in 1..Len(bytes) : all[i] = bytes[i]
  BY DEF Extends
<1>3. \A k \in 0..Len(sound) : at[k] \in 0..Mark /\ done[k] \in Nat
  BY DEF Reads
<1>4. \A k \in 1..Len(sound) :
        /\ sound[k].bit = CellBit(at[k], bytes[done[k] + 1])
        /\ at[k] # Mark => Locked(sound, k) /\ done[k] < Len(bytes)
  BY DEF Reads
<1>5. ASSUME NEW k \in 1..Len(sound)
      PROVE  /\ whole[k].bit = CellBit(at[k], all[done[k] + 1])
             /\ at[k] # Mark => Locked(whole, k) /\ done[k] < Len(all)
  <2>1. k \in 0..Len(sound) /\ at[k] \in 0..Mark /\ done[k] \in Nat
    BY <1>2, <1>3
  <2>2. /\ whole[k].bit = CellBit(at[k], bytes[done[k] + 1])
        /\ at[k] # Mark => Locked(sound, k) /\ done[k] < Len(bytes)
    BY <1>2, <1>4
  <2>3. CASE at[k] = Mark
    <3>1. \A b : CellBit(at[k], b) = 1
      BY <1>1, <2>3 DEF CellBit, Mark
    <3> QED
      BY <1>2, <2>2, <2>3, <3>1
  <2>4. CASE at[k] # Mark
    <3>1. done[k] + 1 \in 1..Len(bytes) /\ done[k] < Len(all)
      BY <1>2, <2>1, <2>2, <2>4
    <3>2. Locked(whole, k)
      <4>1. k > LockThreshold /\ \A j \in (k - LockThreshold)..k : sound[j].carrier
        BY <2>2, <2>4 DEF Locked
      <4>2. \A j \in (k - LockThreshold)..k : j \in 1..Len(sound)
        BY <1>1, <1>2, <4>1
      <4> QED
        BY <1>2, <4>1, <4>2 DEF Locked
    <3> QED
      BY <1>2, <2>2, <3>1, <3>2
  <2> QED
    BY <2>3, <2>4
<1> QED
  BY <1>3, <1>5 DEF ReadsTo

\* Marks at the end of a tape.
LEMMA MarksAreRead ==
  ASSUME NEW sound \in Seq(Samples), NEW bytes \in Seq(Byte),
         NEW whole \in Seq(Samples), NEW all \in Seq(Byte), NEW at, NEW done,
         Reads(at, done, sound, bytes),
         NEW piece \in Seq(Samples), Extends(whole, sound, piece), Extends(all, bytes, <<>>),
         \A i \in 1..Len(piece) : piece[i].bit = 1
  PROVE  \E a, d : Reads(a, d, whole, all)
<1> DEFINE n == Len(sound)
           m == Len(piece)
           a == [k \in 0..Len(whole) |-> IF k <= n THEN at[k] ELSE Mark]
           d == [k \in 0..Len(whole) |-> IF k <= n THEN done[k] ELSE Len(all)]
<1>1. /\ n \in Nat /\ m \in Nat /\ Len(whole) = n + m /\ Len(all) = Len(bytes) /\ Len(all) \in Nat
      /\ \A i \in 1..n : whole[i] = sound[i]
      /\ \A i \in 1..m : whole[n + i] = piece[i]
      /\ \A i \in 1..Len(bytes) : all[i] = bytes[i]
  BY DEF Extends
<1>2. /\ ByteBits \in Nat \ {0}
      /\ \A k \in 0..n : at[k] \in 0..Mark /\ done[k] \in Nat
      /\ \A k \in 1..n : whole[k].bit = CellBit(at[k], all[done[k] + 1])
      /\ \A k \in 1..n : at[k] # Mark => Locked(whole, k) /\ done[k] < Len(all)
  <2>1. <<>> \in Seq(Byte)
    OBVIOUS
  <2>2. ReadsTo(at, done, Len(sound), whole, all)
    BY <2>1, ReadingStays
  <2> QED
    BY <2>2, TapeAssumption DEF ReadsTo, TapeAssumption
<1>3. /\ at[0] = Mark /\ done[0] = 0
      /\ \A k \in 0..(n - 1) : Follows(at[k], done[k], at[k + 1], done[k + 1])
      /\ at[n] > ByteBits /\ done[n] + Ended(at[n]) = Len(all)
  BY <1>1 DEF Reads
<1> HIDE DEF n, m
<1>4. /\ a \in [0..Len(whole) -> 0..Mark] /\ d \in [0..Len(whole) -> Nat]
      /\ \A k \in 0..n : a[k] = at[k] /\ d[k] = done[k]
      /\ \A k \in (n + 1)..Len(whole) : a[k] = Mark /\ d[k] = Len(all)
  <2>1. \A k \in 0..Len(whole) : k <= n => k \in 0..n
    BY <1>1
  <2>2. Mark \in 0..Mark
    BY <1>2 DEF Mark
  <2> QED
    BY <1>1, <1>2, <2>1, <2>2
<1> HIDE DEF a, d
<1>5. a[0] = Mark /\ d[0] = 0
  BY <1>1, <1>3, <1>4
<1>6. ASSUME NEW k \in 1..Len(whole)
      PROVE  /\ whole[k].bit = CellBit(a[k], all[d[k] + 1])
             /\ a[k] # Mark => Locked(whole, k) /\ d[k] < Len(all)
  <2>1. CASE k <= n
    <3>1. k \in 1..n /\ k \in 0..n
      BY <1>1, <2>1
    <3> QED
      BY <1>2, <1>4, <3>1
  <2>2. CASE ~(k <= n)
    <3>1. k \in (n + 1)..Len(whole) /\ k - n \in 1..m /\ n + (k - n) = k
      BY <1>1, <2>2
    <3>2. whole[k].bit = 1 /\ a[k] = Mark
      <4>1. whole[n + (k - n)] = piece[k - n]
        BY <1>1, <3>1
      <4>2. piece[k - n].bit = 1
        BY <3>1 DEF m
      <4> QED
        BY <1>4, <3>1, <4>1, <4>2
    <3>3. \A b : CellBit(Mark, b) = 1
      BY <1>2 DEF CellBit, Mark
    <3> QED
      BY <3>2, <3>3
  <2> QED
    BY <2>1, <2>2
<1>7. ASSUME NEW k \in 0..(Len(whole) - 1) PROVE Follows(a[k], d[k], a[k + 1], d[k + 1])
  <2>1. CASE k < n
    <3>1. k \in 0..(n - 1) /\ k \in 0..n /\ k + 1 \in 0..n
      BY <1>1, <2>1
    <3> QED
      BY <1>3, <1>4, <3>1
  <2>2. CASE k = n
    <3>1. k \in 0..n /\ k + 1 \in (n + 1)..Len(whole)
      BY <1>1, <2>2
    <3>2. a[k] > ByteBits /\ a[k] \in 0..Mark /\ d[k] + Ended(a[k]) = Len(all)
      BY <1>2, <1>3, <1>4, <2>2, <3>1
    <3>3. a[k + 1] = Mark /\ d[k + 1] = Len(all)
      BY <1>4, <3>1
    <3>4. ~(a[k] <= ByteBits)
      BY <1>2, <3>2 DEF Mark
    <3> QED
      BY <3>2, <3>3, <3>4 DEF Follows
  <2>3. CASE k > n
    <3>1. k \in (n + 1)..Len(whole) /\ k + 1 \in (n + 1)..Len(whole)
      BY <1>1, <2>3
    <3>2. a[k] = Mark /\ d[k] = Len(all) /\ a[k + 1] = Mark /\ d[k + 1] = Len(all)
      BY <1>4, <3>1
    <3>3. ~(Mark <= ByteBits) /\ Ended(Mark) = 0
      BY <1>2 DEF Mark, Ended, StopBit
    <3> QED
      BY <1>1, <3>2, <3>3 DEF Follows
  <2> QED
    BY <1>1, <2>1, <2>2, <2>3
<1>8. a[Len(whole)] > ByteBits /\ d[Len(whole)] + Ended(a[Len(whole)]) = Len(all)
  <2>1. CASE m = 0
    <3>1. Len(whole) = n /\ n \in 0..n
      BY <1>1, <2>1
    <3> QED
      BY <1>3, <1>4, <3>1
  <2>2. CASE m # 0
    <3>1. Len(whole) \in (n + 1)..Len(whole)
      BY <1>1, <2>2
    <3>2. a[Len(whole)] = Mark /\ d[Len(whole)] = Len(all)
      BY <1>4, <3>1
    <3>3. Mark > ByteBits /\ Ended(Mark) = 0
      BY <1>2 DEF Mark, Ended, StopBit
    <3> QED
      BY <1>1, <3>2, <3>3
  <2> QED
    BY <2>1, <2>2
<1>9. Reads(a, d, whole, all)
  BY <1>4, <1>5, <1>6, <1>7, <1>8 DEF Reads
<1> QED
  BY <1>9

\* The cells of a block of bytes.
BlockSounds(piece, block) ==
  /\ Len(piece) = Mark * Len(block)
  /\ \A i \in 1..Len(piece) :
       /\ piece[i].carrier
       /\ piece[i].bit = CellBit((i - 1) % Mark, block[((i - 1) \div Mark) + 1])

\* A block after a leader.
LEMMA BlockIsRead ==
  ASSUME NEW sound \in Seq(Samples), NEW bytes \in Seq(Byte),
         NEW whole \in Seq(Samples), NEW all \in Seq(Byte), NEW at, NEW done,
         Reads(at, done, sound, bytes),
         NEW piece \in Seq(Samples), NEW block \in Seq(Byte), Len(block) # 0,
         Extends(whole, sound, piece), Extends(all, bytes, block),
         BlockSounds(piece, block),
         Len(sound) >= LockThreshold,
         \A j \in (Len(sound) - LockThreshold + 1)..Len(sound) : sound[j].carrier
  PROVE  \E a, d : Reads(a, d, whole, all)
<1> DEFINE n == Len(sound)
           m == Len(piece)
           z == Len(bytes)
           R == [i \in Nat |-> i % Mark]
           Q == [i \in Nat |-> i \div Mark]
           a == [k \in 0..Len(whole) |-> IF k <= n THEN at[k] ELSE R[k - n - 1]]
           d == [k \in 0..Len(whole) |-> IF k <= n THEN done[k] ELSE z + Q[k - n - 1]]
<1>1. /\ n \in Nat /\ m \in Nat /\ Len(whole) = n + m /\ z \in Nat /\ Len(block) \in Nat \ {0}
      /\ Len(all) = z + Len(block)
      /\ \A i \in 1..n : whole[i] = sound[i]
      /\ \A i \in 1..m : whole[n + i] = piece[i]
      /\ \A i \in 1..z : all[i] = bytes[i]
      /\ \A i \in 1..Len(block) : all[z + i] = block[i]
  BY DEF Extends
<1>2. /\ ByteBits \in Nat \ {0}
      /\ \A k \in 0..n : at[k] \in 0..Mark /\ done[k] \in Nat
      /\ \A k \in 1..n : whole[k].bit = CellBit(at[k], all[done[k] + 1])
      /\ \A k \in 1..n : at[k] # Mark => Locked(whole, k) /\ done[k] < Len(all)
  <2>1. ReadsTo(at, done, Len(sound), whole, all)
    BY ReadingStays
  <2> QED
    BY <2>1, TapeAssumption DEF ReadsTo, TapeAssumption
<1>3. /\ at[0] = Mark /\ done[0] = 0
      /\ \A k \in 0..(n - 1) : Follows(at[k], done[k], at[k + 1], done[k + 1])
      /\ at[n] > ByteBits /\ done[n] + Ended(at[n]) = z
  BY <1>1 DEF Reads
<1>4. /\ Mark \in Nat \ {0} /\ StopBit \in Nat /\ ByteBits \in Nat
      /\ Mark = StopBit + 1 /\ StopBit = ByteBits + 1
  BY <1>2 DEF Mark, StopBit
<1>5. /\ m \in Nat \ {0} /\ R[m - 1] = StopBit /\ Q[m - 1] = Len(block) - 1
      /\ R[0] = 0 /\ Q[0] = 0
      /\ \A i \in 1..m : piece[i].carrier /\ piece[i].bit = CellBit(R[i - 1], block[Q[i - 1] + 1])
  <2>1. /\ m = Mark * Len(block) /\ m \in Nat \ {0}
        /\ (m - 1) % Mark = StopBit /\ (m - 1) \div Mark = Len(block) - 1
    BY <1>1, BlockEnds DEF BlockSounds
  <2>2. 0 % Mark = 0 /\ 0 \div Mark = 0
    <3>1. /\ 0 \div Mark \in Nat /\ 0 % Mark \in Nat /\ 0 = (0 \div Mark) * Mark + (0 % Mark)
          /\ 0 \div Mark < 1
      BY <1>4, Division
    <3> QED
      BY <1>4, <3>1
  <2>3. m - 1 \in Nat /\ 0 \in Nat /\ \A i \in 1..m : i - 1 \in Nat
    BY <2>1
  <2>4. R[m - 1] = StopBit /\ Q[m - 1] = Len(block) - 1 /\ R[0] = 0 /\ Q[0] = 0
    BY <2>1, <2>2, <2>3
  <2>5. ASSUME NEW i \in 1..m
        PROVE  piece[i].carrier /\ piece[i].bit = CellBit(R[i - 1], block[Q[i - 1] + 1])
    <3>1. piece[i].carrier
          /\ piece[i].bit = CellBit((i - 1) % Mark, block[((i - 1) \div Mark) + 1])
      BY DEF BlockSounds
    <3>2. R[i - 1] = (i - 1) % Mark /\ Q[i - 1] = (i - 1) \div Mark
      BY <2>3, Zenon
    <3> QED
      BY <3>1, <3>2, Zenon
  <2> QED
    BY <2>1, <2>4, <2>5
<1>6. /\ \A i \in Nat : /\ R[i] \in 0..StopBit /\ Q[i] \in Nat
                        /\ IF R[i] = StopBit THEN R[i + 1] = 0 /\ Q[i + 1] = Q[i] + 1
                           ELSE R[i + 1] = R[i] + 1 /\ Q[i + 1] = Q[i]
      /\ \A i \in 0..(m - 1) : Q[i] < Len(block)
  <2>1. ASSUME NEW i \in Nat
        PROVE  /\ R[i] \in 0..StopBit /\ Q[i] \in Nat
               /\ IF R[i] = StopBit THEN R[i + 1] = 0 /\ Q[i + 1] = Q[i] + 1
                  ELSE R[i + 1] = R[i] + 1 /\ Q[i + 1] = Q[i]
    <3>1. i + 1 \in Nat
      OBVIOUS
    <3>2. R[i] = i % Mark /\ Q[i] = i \div Mark /\ R[i + 1] = (i + 1) % Mark
          /\ Q[i + 1] = (i + 1) \div Mark
      BY <3>1, Zenon
    <3> HIDE DEF R, Q
    <3>3. /\ i % Mark \in 0..StopBit /\ i \div Mark \in Nat
          /\ IF i % Mark = StopBit
             THEN (i + 1) % Mark = 0 /\ (i + 1) \div Mark = i \div Mark + 1
             ELSE (i + 1) % Mark = (i % Mark) + 1 /\ (i + 1) \div Mark = i \div Mark
      BY CellsOfBlock
    <3> QED
      BY <3>2, <3>3, Zenon
  <2>2. ASSUME NEW i \in 0..(m - 1) PROVE Q[i] < Len(block)
    <3>1. i \in Nat /\ i < Mark * Len(block)
      BY <1>1, <1>5 DEF BlockSounds
    <3>2. i \div Mark < Len(block)
      BY <1>1, <1>4, <3>1, Division
    <3> QED
      BY <3>1, <3>2
  <2> QED
    BY <2>1, <2>2
<1> HIDE DEF n, m, z, R, Q
<1>7. /\ n \in Nat /\ m \in Nat \ {0} /\ z \in Nat /\ Len(whole) = n + m
      /\ Len(block) \in Nat \ {0} /\ Len(all) = z + Len(block)
  BY <1>1, <1>5
<1>8. /\ a \in [0..Len(whole) -> 0..Mark] /\ d \in [0..Len(whole) -> Nat]
      /\ \A k \in 0..n : a[k] = at[k] /\ d[k] = done[k]
      /\ \A k \in (n + 1)..Len(whole) :
           a[k] = R[k - n - 1] /\ d[k] = z + Q[k - n - 1]
  <2>1. \A k \in 0..Len(whole) : k <= n => k \in 0..n
    BY <1>1
  <2>2. \A k \in 0..Len(whole) : ~(k <= n) => k - n - 1 \in 0..(m - 1)
    BY <1>1
  <2>3. \A k \in 0..Len(whole) : IF k <= n THEN at[k] \in 0..Mark /\ done[k] \in Nat
          ELSE R[k - n - 1] \in 0..Mark /\ z + Q[k - n - 1] \in Nat
    <3> SUFFICES ASSUME NEW k \in 0..Len(whole)
                 PROVE  IF k <= n THEN at[k] \in 0..Mark /\ done[k] \in Nat
                        ELSE R[k - n - 1] \in 0..Mark /\ z + Q[k - n - 1] \in Nat
      OBVIOUS
    <3>1. CASE k <= n
      BY <1>2, <2>1, <3>1
    <3>2. CASE ~(k <= n)
      <4>1. R[k - n - 1] \in 0..StopBit /\ Q[k - n - 1] \in Nat
        BY <1>6, <2>2, <3>2
      <4> QED
        BY <1>4, <1>7, <3>2, <4>1
    <3> QED
      BY <3>1, <3>2
  <2>4. (\A k \in 0..n : k \in 0..Len(whole) /\ k <= n)
        /\ (\A k \in (n + 1)..Len(whole) : k \in 0..Len(whole) /\ ~(k <= n))
    BY <1>1
  <2> QED
    BY <2>3, <2>4
<1> HIDE DEF a, d
<1>9. \A k \in (n + 1)..Len(whole) : a[k] = R[k - n - 1] /\ d[k] = z + Q[k - n - 1]
  BY <1>8
<1>10. a[0] = Mark /\ d[0] = 0
  <2>1. 0 \in 0..n
    BY <1>7
  <2> QED
    BY <1>3, <1>8, <2>1
<1>11. ASSUME NEW k \in 1..Len(whole)
       PROVE  /\ whole[k].bit = CellBit(a[k], all[d[k] + 1])
              /\ a[k] # Mark => Locked(whole, k) /\ d[k] < Len(all)
  <2>1. CASE k <= n
    <3>1. k \in 1..n /\ k \in 0..n
      BY <1>1, <2>1
    <3> QED
      BY <1>2, <1>8, <3>1
  <2>2. CASE ~(k <= n)
    <3> DEFINE i == k - n - 1
               q == Q[i]
    <3>1. k \in (n + 1)..Len(whole) /\ k - n \in 1..m /\ n + (k - n) = k /\ i \in 0..(m - 1)
          /\ k - n - 1 = i
      BY <1>1, <2>2
    <3>2. q \in Nat /\ q < Len(block) /\ R[i] \in 0..StopBit
      <4>1. i \in Nat
        BY <3>1
      <4> QED
        BY <1>6, <3>1, <4>1
    <3>3. a[k] = R[i] /\ d[k] = z + q
      BY <1>8, <3>1
    <3>4. whole[k] = piece[k - n]
      BY <1>1, <3>1
    <3>5. piece[k - n].bit = CellBit(R[i], block[q + 1])
      <4>1. piece[k - n].bit = CellBit(R[k - n - 1], block[Q[k - n - 1] + 1])
        BY <1>5, <3>1
      <4> QED
        BY <3>1, <4>1
    <3> HIDE DEF q, i
    <3>6. q + 1 \in 1..Len(block) /\ z + q + 1 = z + (q + 1) /\ d[k] < Len(all)
      BY <1>1, <3>2, <3>3
    <3>7. all[d[k] + 1] = block[q + 1]
      BY <1>1, <3>3, <3>6
    <3>8. Locked(whole, k)
      <4>1. LockThreshold \in Nat
        BY CassetteAssumption DEF CassetteAssumption
      <4>2. k > LockThreshold
        BY <1>1, <2>2, <4>1 DEF n
      <4>3. ASSUME NEW j \in (k - LockThreshold)..k PROVE whole[j].carrier
        <5>1. CASE j <= n
          <6>1. j \in (n - LockThreshold + 1)..n /\ j \in 1..n
            BY <1>1, <2>2, <4>1, <4>2, <5>1
          <6> QED
            BY <1>1, <6>1 DEF n
        <5>2. CASE ~(j <= n)
          <6>1. j - n \in 1..m /\ n + (j - n) = j
            BY <1>1, <4>1, <5>2
          <6>2. whole[n + (j - n)] = piece[j - n]
            BY <1>1, <6>1
          <6> QED
            BY <1>5, <6>1, <6>2
        <5> QED
          BY <5>1, <5>2
      <4> QED
        BY <4>2, <4>3 DEF Locked
    <3> QED
      BY <3>3, <3>4, <3>5, <3>6, <3>7, <3>8
  <2> QED
    BY <2>1, <2>2
<1>12. ASSUME NEW k \in 0..(Len(whole) - 1) PROVE Follows(a[k], d[k], a[k + 1], d[k + 1])
  <2>1. CASE k < n
    <3>1. k \in 0..(n - 1) /\ k \in 0..n /\ k + 1 \in 0..n
      BY <1>1, <2>1
    <3> QED
      BY <1>3, <1>8, <3>1
  <2>2. CASE k = n
    <3>1. k \in 0..n /\ k + 1 \in (n + 1)..Len(whole) /\ k + 1 - n - 1 = 0
      BY <1>1, <2>2
    <3>2. a[k] > ByteBits /\ a[k] \in 0..Mark /\ d[k] + Ended(a[k]) = z
      BY <1>2, <1>3, <1>8, <2>2, <3>1
    <3>3. a[k + 1] = 0 /\ d[k + 1] = z
      <4> DEFINE j == k + 1
      <4>1. j \in (n + 1)..Len(whole)
        BY <3>1
      <4> HIDE DEF j
      <4>2. a[j] = R[j - n - 1] /\ d[j] = z + Q[j - n - 1]
        BY <1>9, <4>1
      <4> QED
        BY <1>5, <1>7, <3>1, <4>2 DEF j
    <3>4. ~(a[k] <= ByteBits)
      BY <1>2, <3>2 DEF Mark
    <3> QED
      BY <3>2, <3>3, <3>4 DEF Follows
  <2>3. CASE k > n
    <3> DEFINE i == k - n - 1
    <3>1. /\ k \in (n + 1)..Len(whole) /\ k + 1 \in (n + 1)..Len(whole)
          /\ i \in Nat /\ k + 1 - n - 1 = i + 1
      BY <1>7, <2>3
    <3>2. /\ a[k] = R[i] /\ d[k] = z + Q[i]
          /\ a[k + 1] = R[i + 1] /\ d[k + 1] = z + Q[i + 1]
      <4> DEFINE j == k + 1
      <4>1. j \in (n + 1)..Len(whole)
        BY <3>1
      <4> HIDE DEF j
      <4>2. a[j] = R[j - n - 1] /\ d[j] = z + Q[j - n - 1]
        BY <1>9, <4>1
      <4>3. a[k] = R[i] /\ d[k] = z + Q[i]
        BY <1>9, <3>1
      <4>4. j - n - 1 = i + 1
        BY <1>7 DEF j
      <4>5. a[j] = R[i + 1] /\ d[j] = z + Q[i + 1]
        BY <4>2, <4>4, Zenon
      <4> QED
        BY <4>3, <4>5, Zenon DEF j
    <3>3. /\ R[i] \in 0..StopBit /\ Q[i] \in Nat
          /\ IF R[i] = StopBit THEN R[i + 1] = 0 /\ Q[i + 1] = Q[i] + 1
             ELSE R[i + 1] = R[i] + 1 /\ Q[i + 1] = Q[i]
      BY <1>6, <3>1
    <3> HIDE DEF i
    <3>4. CASE R[i] = StopBit
      <4>1. a[k + 1] = 0 /\ a[k] = StopBit /\ d[k + 1] = z + (Q[i] + 1)
        BY <3>2, <3>3, <3>4, Zenon
      <4>2. ~(a[k] <= ByteBits) /\ Ended(a[k]) = 1
        BY <1>4, <4>1 DEF Ended
      <4>3. d[k + 1] = d[k] + 1
        BY <1>7, <3>2, <3>3, <4>1
      <4> QED
        BY <4>1, <4>2, <4>3 DEF Follows
    <3>5. CASE R[i] # StopBit
      <4>1. a[k + 1] = a[k] + 1 /\ d[k + 1] = d[k]
        BY <3>2, <3>3, <3>5, Zenon
      <4>2. a[k] <= ByteBits
        BY <1>4, <3>2, <3>3, <3>5
      <4> QED
        BY <4>1, <4>2 DEF Follows
    <3> QED
      BY <3>4, <3>5
  <2> QED
    BY <1>1, <2>1, <2>2, <2>3
<1>13. a[Len(whole)] > ByteBits /\ d[Len(whole)] + Ended(a[Len(whole)]) = Len(all)
  <2>1. Len(whole) \in (n + 1)..Len(whole) /\ Len(whole) - n - 1 = m - 1
    BY <1>1, <1>5
  <2>2. a[Len(whole)] = StopBit /\ d[Len(whole)] = z + (Len(block) - 1)
    BY <1>5, <1>9, <2>1, Zenon
  <2> QED
    BY <1>4, <1>7, <2>2 DEF Ended
<1>14. Reads(a, d, whole, all)
  BY <1>8, <1>10, <1>11, <1>12, <1>13 DEF Reads
<1> QED
  BY <1>14

\* One chunk more keeps a leader at the end, or puts one there.
LEMMA LeaderStays ==
  ASSUME NEW t \in Seq(Chunk), NEW c \in Chunk, c.kind \in {"tone", "gap", "data"}
  PROVE  EndsInLeader(Append(t, c), SoundOn(Append(t, c)))
<1> DEFINE u == Append(t, c)
           sound == SoundOn(t)
           whole == SoundOn(u)
           piece == ChunkSound(c)
<1>1. u[Len(u)] = c /\ LockThreshold \in Nat
  BY CassetteAssumption, AppendProperties DEF CassetteAssumption
<1>2. sound \in Seq(Samples) /\ whole \in Seq(Samples) /\ piece \in Seq(Samples)
      /\ Extends(whole, sound, piece)
  BY TapeGrows
<1> HIDE DEF u, sound, whole, piece
<1> SUFFICES ASSUME c.kind = "tone", c.count >= LockThreshold
             PROVE  /\ Len(whole) >= LockThreshold
                    /\ \A j \in (Len(whole) - LockThreshold + 1)..Len(whole) : whole[j].carrier
  BY <1>1 DEF EndsInLeader, u, whole
<1>3. c.count \in Nat /\ Len(piece) = c.count /\ \A i \in 1..c.count : piece[i].carrier
  BY ChunkCells DEF piece
<1>4. Len(sound) \in Nat /\ Len(whole) = Len(sound) + c.count
      /\ \A i \in 1..c.count : whole[Len(sound) + i] = piece[i]
  BY <1>2, <1>3 DEF Extends
<1>5. ASSUME NEW j \in (Len(whole) - LockThreshold + 1)..Len(whole) PROVE whole[j].carrier
  <2>1. j - Len(sound) \in 1..c.count /\ Len(sound) + (j - Len(sound)) = j
    BY <1>1, <1>3, <1>4
  <2>2. whole[Len(sound) + (j - Len(sound))] = piece[j - Len(sound)]
    BY <1>4, <2>1
  <2> QED
    BY <1>3, <2>1, <2>2
<1> QED
  BY <1>1, <1>3, <1>4, <1>5

\* Every well-made tape can be read, bit by bit: by induction over its chunks.
LEMMA TapeIsRead ==
  ASSUME NEW t \in Seq(Chunk), WellMade(t)
  PROVE  \E at, done : Reads(at, done, SoundOn(t), BytesOn(t))
<1> DEFINE Good(u) == /\ EndsInLeader(u, SoundOn(u))
                      /\ \E at, done : Reads(at, done, SoundOn(u), BytesOn(u))
           N == {n \in Nat : \A u \in Seq(Chunk) : Len(u) = n /\ WellMade(u) => Good(u)}
<1>1. 0 \in N
  <2> SUFFICES ASSUME NEW u \in Seq(Chunk), Len(u) = 0 PROVE Good(u)
    OBVIOUS
  <2>1. u = <<>> /\ [i \in DOMAIN u |-> ChunkSound(u[i])] = <<>>
        /\ [i \in DOMAIN u |-> BytesIn(u[i])] = <<>>
    OBVIOUS
  <2>2. SoundOn(u) = <<>> /\ BytesOn(u) = <<>>
    BY <2>1, FlattenEmpty DEF SoundOn, BytesOn
  <2>3. EndsInLeader(u, SoundOn(u))
    BY <2>1 DEF EndsInLeader
  <2>4. Reads([k \in 0..0 |-> Mark], [k \in 0..0 |-> 0], <<>>, <<>>)
    <3>1. ByteBits \in Nat
      BY TapeAssumption DEF TapeAssumption
    <3>2. Mark \in 0..Mark /\ Mark > ByteBits /\ Ended(Mark) = 0
      BY <3>1 DEF Mark, Ended, StopBit
    <3>3. Len(<<>>) = 0
      OBVIOUS
    <3> QED
      BY <3>2, <3>3 DEF Reads
  <2> QED
    BY <2>2, <2>3, <2>4
<1>2. ASSUME NEW n \in Nat, n \in N PROVE n + 1 \in N
  <2> SUFFICES ASSUME NEW u \in Seq(Chunk), Len(u) = n + 1, WellMade(u) PROVE Good(u)
    OBVIOUS
  <2>1. PICK v \in Seq(Chunk), c \in Chunk : u = Append(v, c)
    <3>1. u # <<>>
      OBVIOUS
    <3> QED
      BY <3>1, SequenceEmptyOrAppend, Zenon
  <2>2. Len(v) = n
    BY <2>1, AppendProperties
  <2>3. /\ WellMade(v) /\ c.kind \in {"tone", "gap", "data"}
        /\ c.kind = "data" => /\ v # <<>> /\ v[Len(v)].kind = "tone"
                              /\ v[Len(v)].count >= LockThreshold
    BY <2>1, WellMadePrefix
  <2>4. Good(v)
    BY <1>2, <2>2, <2>3
  <2> DEFINE sound == SoundOn(v)
             bytes == BytesOn(v)
             whole == SoundOn(u)
             all == BytesOn(u)
             piece == ChunkSound(c)
  <2>5. /\ sound \in Seq(Samples) /\ whole \in Seq(Samples) /\ piece \in Seq(Samples)
        /\ bytes \in Seq(Byte) /\ all \in Seq(Byte) /\ BytesIn(c) \in Seq(Byte)
        /\ Extends(whole, sound, piece) /\ Extends(all, bytes, BytesIn(c))
    BY <2>1, TapeGrows
  <2>6. EndsInLeader(u, SoundOn(u))
    BY <2>1, <2>3, LeaderStays
  <2>7. PICK at, done : Reads(at, done, sound, bytes)
    BY <2>4
  <2>8. EndsInLeader(v, sound)
    BY <2>4
  <2> HIDE DEF sound, bytes, whole, all, piece
  <2>9. CASE c.kind # "data"
    <3>1. BytesIn(c) = <<>> /\ \A i \in 1..Len(piece) : piece[i].bit = 1
      BY <2>3, <2>9, ChunkCells DEF piece
    <3>2. \E a, d : Reads(a, d, whole, all)
      BY <2>5, <2>7, <3>1, MarksAreRead
    <3> QED
      BY <2>6, <3>2 DEF whole, all
  <2>10. CASE c.kind = "data"
    <3> DEFINE block == c.bytes
    <3>1. /\ block \in Seq(Byte) /\ BytesIn(c) = block /\ Len(piece) = Mark * Len(block)
          /\ BlockSounds(piece, block)
      BY <2>3, <2>10, ChunkCells DEF piece, BlockSounds
    <3>2. /\ Len(sound) >= LockThreshold
          /\ \A j \in (Len(sound) - LockThreshold + 1)..Len(sound) : sound[j].carrier
      BY <2>3, <2>8, <2>10 DEF EndsInLeader
    <3> HIDE DEF block
    <3>3. CASE Len(block) = 0
      <4>1. block = <<>>
        BY <3>1, <3>3
      <4>2. Len(piece) = 0
        <5>1. Mark \in Nat
          BY TapeAssumption DEF TapeAssumption, Mark
        <5> QED
          BY <3>1, <3>3, <5>1
      <4>3. \A i \in 1..Len(piece) : piece[i].bit = 1
        BY <4>2
      <4>4. Extends(all, bytes, <<>>)
        BY <2>5, <3>1, <4>1
      <4>5. \E a, d : Reads(a, d, whole, all)
        BY <2>5, <2>7, <4>3, <4>4, MarksAreRead
      <4> QED
        BY <2>6, <4>5 DEF whole, all
    <3>4. CASE Len(block) # 0
      <4>1. Extends(all, bytes, block)
        BY <2>5, <3>1
      <4>2. \E a, d : Reads(a, d, whole, all)
        BY <2>5, <2>7, <3>1, <3>2, <3>4, <4>1, BlockIsRead
      <4> QED
        BY <2>6, <4>2 DEF whole, all
    <3> QED
      BY <3>3, <3>4
  <2> QED
    BY <2>9, <2>10
<1> HIDE DEF N
<1>3. Nat \subseteq N
  BY <1>1, <1>2, SetInduction
<1>4. Len(t) \in N
  BY <1>3
<1> QED
  BY <1>4 DEF N

-----------------------------------------------------------------------------
(***************************************************************************)
(* The receiver on the tape.                                               *)
(***************************************************************************)
\* The cell of each bit of the tape in the player, and the bytes before it.
ReadingOf(t) == CHOOSE r : Reads(r[1], r[2], SoundOn(t), BytesOn(t))
At     == ReadingOf(tape)[1]
Before == ReadingOf(tape)[2]

\* The clock of a cell after which the receiver has sampled it, the clocks of the
\* cell that it has had, the cell it hears, the cell it sampled last and the byte
\* on the tape.
Confirm == IF ctl.div = 1 THEN 1 ELSE IF ctl.div <= 3 THEN 2 ELSE ctl.div \div 2
Heard   == IF stage = "clock" THEN counter ELSE counter + 1
Line    == IF lock > 0 THEN At[played] ELSE Mark
Sampled == IF Heard >= Confirm THEN Line ELSE Line - 1
Current == TapeBytes[Before[played] + 1]

\* The receiver counts its clocks from the sample to the next.
Clocked ==
  ctl.div > 1 => rx.clocks = IF Heard >= Confirm THEN Heard - Confirm
                             ELSE Heard - Confirm + ctl.div

\* How far the machine is set up.
SetupInv ==
  /\ setup \in {"free", "reset", "control", "motor", "tape", "done"}
  /\ setup # "free" => rx \in Receiver
  /\ setup \notin {"free", "done"} =>
       /\ stage = "idle" /\ counter = 0 /\ rxBit = 1 /\ lock = 0 /\ got = <<>>
       /\ ~carrier /\ ~port.present /\ rx.state = "IDLE"
  /\ setup \in {"motor", "tape", "done"} =>
       ctl.div \in Nat \ {0} /\ ctl.word = LongWord /\ ctl.parity = 0
  /\ setup = "tape" => scr.motor
  /\ setup = "done" => /\ port.motor /\ stage \in {"idle", "clock"}
                       /\ counter \in 0..(ctl.div - 1)

\* The serial ULA has counted the carrier bits there were, and is locked on in
\* every cell of a frame, which is on the line.
LineInv ==
  /\ lock = 0 => At[played] > ByteBits /\ (At[played] = StopBit => played = Len(TapeSound))
  /\ played < Len(TapeSound) => \A m \in 0..LockThreshold :
       m <= played /\ (\A j \in (played - m + 1)..played : TapeSound[j].carrier) => lock >= m
  /\ Line # Mark => lock >= LockThreshold
  /\ rxBit = CellBit(Line, Current)

\* The receiver is in step with the cells.
RxInv ==
  /\ ~carrier => rx.state = "IDLE"
  /\ rx.state \in {"IDLE", "START", "DATA", "STOP"}
  /\ rx.state = "IDLE" => \/ Line = Mark
                          \/ Line = StopBit /\ Heard >= Confirm
                          \/ Line = 0 /\ Heard = 0
  /\ rx.state = "START" => Line = 0 /\ Heard \in 1..(Confirm - 1) /\ rx.clocks = Heard
  /\ rx.state = "DATA" =>
       /\ Clocked /\ Line \in 0..ByteBits /\ Sampled \in 0..(ByteBits - 1) /\ rx.count = Sampled
       /\ \A i \in 1..LongWord : rx.shift[i] = IF i <= Sampled THEN Current[i] ELSE 0
  /\ rx.state = "STOP" =>
       Clocked /\ Line \in {ByteBits, StopBit} /\ Sampled = ByteBits /\ rx.shift = Current

\* The stop bit on the line has been sampled, or will not be.
StopTaken == At[played] = StopBit /\ (lock = 0 \/ Heard >= Confirm)

\* The characters received so far are the bytes so far.
GotInv ==
  /\ got \in Seq([char : Word, stop : {0, 1}])
  /\ Len(got) = IF StopTaken THEN Before[played] + 1 ELSE Before[played]
  /\ Len(got) <= Len(TapeBytes)
  /\ \A i \in 1..Len(got) : got[i] = [char |-> TapeBytes[i], stop |-> 1]

\* The machine loads a well-made tape.
Loading == setup = "done" /\ WellRecorded

\* What holds while it does.
Received == LineInv /\ RxInv /\ GotInv

\* Kept by every step, and with it what the CPU received.
LoadInv == TapeInv /\ LockInv /\ SetupInv /\ (Loading => Received)

-----------------------------------------------------------------------------
\* The sizes of a frame.
LEMMA FrameSizes ==
  /\ ByteBits \in Nat \ {0} /\ LongWord = ByteBits /\ StopBit = ByteBits + 1 /\ Mark = ByteBits + 2
  /\ LockThreshold \in Nat \ {0} /\ Byte = Word
  /\ CountModulus \in Nat /\ CountModulus > ByteBits
BY TapeAssumption, CassetteAssumption, AciaAssumption
   DEF TapeAssumption, CassetteAssumption, AciaAssumption, StopBit, Mark, Byte, Word

\* The tape in the player, by the names used here.
LEMMA TapeByName ==
  /\ TapeSound = SoundOn(tape) /\ TapeBytes = BytesOn(tape) /\ (WellRecorded <=> WellMade(tape))
BY Zenon DEF TapeSound, SoundOn, TapeBytes, BytesOn, BytesIn, WellRecorded, WellMade

\* A well-made tape has its reading.
LEMMA ReadingIsOne ==
  ASSUME NEW t \in Seq(Chunk), WellMade(t)
  PROVE  /\ Reads(ReadingOf(t)[1], ReadingOf(t)[2], SoundOn(t), BytesOn(t))
         /\ SoundOn(t) \in Seq(Samples) /\ BytesOn(t) \in Seq(Byte)
<1>1. PICK at, done : Reads(at, done, SoundOn(t), BytesOn(t))
  BY TapeIsRead
<1>2. \E r : Reads(r[1], r[2], SoundOn(t), BytesOn(t))
  <2>1. Reads(<<at, done>>[1], <<at, done>>[2], SoundOn(t), BytesOn(t))
    BY <1>1
  <2> QED
    BY <2>1, Zenon
<1>3. Reads(ReadingOf(t)[1], ReadingOf(t)[2], SoundOn(t), BytesOn(t))
  BY <1>2, Zenon DEF ReadingOf
<1>4. [kind |-> "other"] \in Chunk
  BY DEF Chunk
<1>5. SoundOn(t) \in Seq(Samples) /\ BytesOn(t) \in Seq(Byte)
  BY <1>4, TapeGrows
<1> QED
  BY <1>3, <1>5

\* The place on a tape that is read.
LEMMA PlayedFacts ==
  ASSUME TapeInv, WellRecorded
  PROVE  /\ Reads(At, Before, TapeSound, TapeBytes)
         /\ TapeSound \in Seq(Samples) /\ TapeBytes \in Seq(Byte)
         /\ played \in 0..Len(TapeSound) /\ (EndOfTape <=> played = Len(TapeSound))
         /\ At[played] \in 0..Mark /\ Before[played] \in Nat
         /\ At[played] # Mark =>
              /\ played > 0 /\ Locked(TapeSound, played)
              /\ Before[played] < Len(TapeBytes) /\ Current \in Word
<1>1. tape \in Seq(Chunk) /\ WellMade(tape)
  BY TapeByName DEF TapeInv, PlaceInv
<1>2. /\ Reads(At, Before, TapeSound, TapeBytes)
      /\ TapeSound \in Seq(Samples) /\ TapeBytes \in Seq(Byte)
  BY <1>1, ReadingIsOne, TapeByName DEF At, Before
<1>3. Len(TapeSound) \in Nat /\ Len(TapeBytes) \in Nat
  BY <1>2
<1>4. played \in 0..Len(TapeSound) /\ (EndOfTape <=> played = Len(TapeSound))
  <2> DEFINE off == OffsetsOf(segments)
  <2>1. segments \in Seq(Segment) /\ TapeSound = SoundOf(segments)
    BY SegmentsSoundAsChunks DEF TapeInv, PlaceInv, TapeSound
  <2>2. CASE EndOfTape
    <3>1. segIdx = Len(segments) + 1 /\ bitPos = 0
      BY <2>1, <2>2 DEF TapeInv, PlaceInv, EndOfTape
    <3>2. played = Len(TapeSound)
      BY <1>3, <2>1, <3>1, SegmentPlaces DEF TapeInv, PlaceInv
    <3> QED
      BY <1>3, <2>2, <3>2
  <2>3. CASE ~EndOfTape
    <3>1. segIdx \in 1..Len(segments) /\ bitPos \in Nat /\ bitPos < SegmentSize(segments[segIdx])
          /\ played = off[segIdx] + bitPos
      BY <2>1, <2>3 DEF TapeInv, PlaceInv, EndOfTape
    <3>2. SegmentSize(segments[segIdx]) \in Nat /\ bitPos + 1 \in 1..SegmentSize(segments[segIdx])
      BY <2>1, <3>1, SegmentHasSound
    <3>3. off[segIdx] \in Nat /\ off[segIdx] + (bitPos + 1) <= Len(TapeSound)
      BY <2>1, <3>1, <3>2, SegmentPlaces
    <3> HIDE DEF off
    <3>4. played \in Nat /\ played < Len(TapeSound)
      BY <1>3, <3>1, <3>3
    <3> QED
      BY <1>3, <2>3, <3>4
  <2> QED
    BY <2>2, <2>3
<1>5. At[played] \in 0..Mark /\ Before[played] \in Nat /\ At[0] = Mark
      /\ \A k \in 1..Len(TapeSound) :
           At[k] # Mark => Locked(TapeSound, k) /\ Before[k] < Len(TapeBytes)
  BY <1>2, <1>4 DEF Reads
<1>6. ASSUME At[played] # Mark
      PROVE  /\ played > 0 /\ Locked(TapeSound, played)
             /\ Before[played] < Len(TapeBytes) /\ Current \in Word
  <2>1. played \in 1..Len(TapeSound)
    BY <1>3, <1>4, <1>5, <1>6
  <2>2. Locked(TapeSound, played) /\ Before[played] < Len(TapeBytes)
    BY <1>5, <1>6, <2>1
  <2>3. Before[played] + 1 \in 1..Len(TapeBytes)
    BY <1>3, <1>5, <2>2
  <2>4. Current \in Word
    BY <1>2, <2>3, FrameSizes DEF Current
  <2> QED
    BY <2>1, <2>2, <2>4
<1> QED
  BY <1>2, <1>4, <1>5, <1>6

\* The numbers of clocks.
LEMMA ClockFacts ==
  ASSUME SetupInv, setup = "done"
  PROVE  /\ ctl.div \in Nat \ {0} /\ counter \in 0..(ctl.div - 1) /\ stage \in {"idle", "clock"}
         /\ Confirm \in 1..ctl.div /\ Heard \in 0..ctl.div
         /\ ctl.div = 1 => Confirm = 1
         /\ ctl.div > 1 => Confirm >= 2
         /\ ctl.word = ByteBits /\ ctl.parity = 0 /\ rx \in Receiver
<1>1. /\ ctl.div \in Nat \ {0} /\ counter \in 0..(ctl.div - 1) /\ stage \in {"idle", "clock"}
      /\ ctl.word = ByteBits /\ ctl.parity = 0 /\ rx \in Receiver
  BY FrameSizes DEF SetupInv
<1>2. /\ Confirm \in 1..ctl.div
      /\ ctl.div = 1 => Confirm = 1
      /\ ctl.div > 1 => Confirm >= 2
  BY <1>1 DEF Confirm
<1>3. Heard \in 0..ctl.div
  BY <1>1 DEF Heard
<1> QED
  BY <1>1, <1>2, <1>3

\* What the receiver hears.
LEMMA LineFacts ==
  ASSUME TapeInv, LockInv, Loading, LineInv
  PROVE  /\ lock \in Nat /\ (carrier <=> lock >= LockThreshold) /\ Line \in 0..Mark
         /\ Line # Mark => /\ Line = At[played] /\ lock > 0 /\ carrier
                           /\ Current \in Word /\ Before[played] < Len(TapeBytes)
         /\ rxBit = CellBit(Line, Current) /\ Before[played] \in Nat /\ Len(TapeBytes) \in Nat
<1>1. /\ At[played] \in 0..Mark /\ Before[played] \in Nat /\ TapeBytes \in Seq(Byte)
      /\ At[played] # Mark => Before[played] < Len(TapeBytes) /\ Current \in Word
  BY PlayedFacts DEF Loading
<1>2. lock \in Nat /\ (carrier <=> lock >= LockThreshold) /\ LockThreshold \in Nat \ {0}
  BY FrameSizes DEF LockInv, LockType, LockMeansCarrier
<1>3. Line \in 0..Mark /\ (Line # Mark => Line = At[played])
  BY <1>1, FrameSizes DEF Line
<1>4. Line # Mark => lock > 0 /\ lock >= LockThreshold
  BY <1>2 DEF LineInv
<1> QED
  BY <1>1, <1>2, <1>3, <1>4 DEF LineInv

\* A clock of the receiver is one more clock of the cell on the line.
LEMMA ClockIsHeard ==
  ASSUME LoadInv, Loading, stage = "clock", stage' = "idle",
         UNCHANGED <<tapeVars, ulaVars, tape, played, ctl>>
  PROVE  /\ Heard \in 0..(ctl.div - 1) /\ Heard' = Heard + 1
         /\ Line' = Line /\ Current' = Current /\ Confirm' = Confirm
         /\ At' = At /\ Before' = Before /\ TapeBytes' = TapeBytes /\ TapeSound' = TapeSound
         /\ Heard + 1 = Confirm => Sampled = Line - 1 /\ Sampled' = Line
         /\ Heard + 1 # Confirm => Sampled' = Sampled
         /\ LineInv'
<1>1. /\ ctl.div \in Nat \ {0} /\ counter \in 0..(ctl.div - 1) /\ Confirm \in 1..ctl.div
  BY ClockFacts DEF LoadInv, Loading
<1>2. counter' = counter /\ lock' = lock /\ rxBit' = rxBit /\ played' = played
  BY DEF ulaVars
<1>3. Heard = counter /\ Heard' = counter + 1
  BY <1>2 DEF Heard
<1>4. /\ At' = At /\ Before' = Before /\ TapeBytes' = TapeBytes /\ TapeSound' = TapeSound
      /\ Confirm' = Confirm
  BY DEF At, Before, TapeBytes, TapeSound, Confirm
<1>5. Line' = Line /\ Current' = Current
  BY <1>2, <1>4 DEF Line, Current
<1>6. Line \in 0..Mark
  BY LineFacts DEF LoadInv, Received
<1>7. /\ Heard + 1 = Confirm => Sampled = Line - 1 /\ Sampled' = Line
      /\ Heard + 1 # Confirm => Sampled' = Sampled
  BY <1>1, <1>3, <1>4, <1>5, <1>6 DEF Sampled
<1>8. LineInv'
  BY <1>2, <1>4, <1>5 DEF LineInv, LoadInv, Received
<1> QED
  BY <1>1, <1>3, <1>4, <1>5, <1>7, <1>8

\* The receiver samples at the same clock of every cell.
LEMMA SampleTime ==
  ASSUME SetupInv, setup = "done", stage = "clock", Clocked
  PROVE  SampleNow <=> Heard + 1 = Confirm
<1>1. /\ ctl.div \in Nat \ {0} /\ counter \in 0..(ctl.div - 1) /\ Confirm \in 1..ctl.div
      /\ Heard = counter
  BY ClockFacts DEF Heard
<1>2. CASE ctl.div = 1
  BY <1>1, <1>2 DEF SampleNow
<1>3. CASE ctl.div # 1
  <2>1. rx.clocks = IF Heard >= Confirm THEN Heard - Confirm ELSE Heard - Confirm + ctl.div
    BY <1>1, <1>3 DEF Clocked
  <2>2. SampleNow <=> rx.clocks + 1 >= ctl.div
    BY <1>3 DEF SampleNow
  <2> QED
    BY <1>1, <2>1, <2>2
<1> QED
  BY <1>2, <1>3

\* No character is complete: what was received stays.
LEMMA GotStays ==
  ASSUME GotInv, got' = got, At' = At, Before' = Before, played' = played,
         TapeBytes' = TapeBytes, StopTaken' <=> StopTaken
  PROVE  GotInv'
BY DEF GotInv

\* The receiver waits for the start bit, and then for its middle.
LEMMA HuntStep ==
  ASSUME LoadInv, Loading, stage = "clock", stage' = "idle", got' = got,
         UNCHANGED <<tapeVars, ulaVars, tape, played, ctl, carrier>>, carrier,
         rx.state \in {"IDLE", "START"}, rx' = HuntForStart(rxBit)
  PROVE  Received'
<1>1. /\ Heard \in 0..(ctl.div - 1) /\ Heard' = Heard + 1 /\ LineInv'
      /\ Line' = Line /\ Current' = Current /\ Confirm' = Confirm
      /\ At' = At /\ Before' = Before /\ TapeBytes' = TapeBytes
      /\ Heard + 1 = Confirm => Sampled' = Line
  BY ClockIsHeard
<1>2. /\ LineInv /\ RxInv /\ GotInv /\ SetupInv /\ TapeInv /\ LockInv /\ setup = "done"
  BY DEF LoadInv, Received, Loading
<1>3. /\ ctl.div \in Nat \ {0} /\ Confirm \in 1..ctl.div /\ rx \in Receiver
      /\ ctl.div = 1 => Confirm = 1
      /\ ctl.div > 1 => Confirm >= 2
      /\ played' = played /\ lock' = lock
  BY <1>2, ClockFacts DEF ulaVars
<1>4. /\ Line \in 0..Mark /\ (Line # Mark => Line = At[played] /\ lock > 0)
      /\ lock \in Nat /\ rxBit = CellBit(Line, Current)
  BY <1>2, LineFacts
<1>5. ByteBits \in Nat \ {0} /\ LongWord = ByteBits /\ StopBit = ByteBits + 1 /\ Mark = ByteBits + 2
  BY FrameSizes
<1>6. GotInv'
  <2>1. At[played] = StopBit /\ lock # 0 => Line = StopBit
    BY <1>4 DEF Line
  <2>2. Line = StopBit => Heard >= Confirm
    BY <1>2, <1>5 DEF RxInv
  <2>3. Heard >= Confirm => Heard' >= Confirm'
    BY <1>1, <1>3
  <2>4. StopTaken' <=> StopTaken
    BY <1>1, <1>3, <2>1, <2>2, <2>3 DEF StopTaken
  <2> QED
    BY <1>1, <1>2, <1>3, <2>4, GotStays
<1>7. Line = 0 <=> rxBit = 0
  <2>1. Line \in {0, StopBit, Mark}
    BY <1>2 DEF RxInv
  <2> QED
    BY <1>4, <1>5, <2>1 DEF CellBit
<1>8. rxBit \in {0, 1}
  BY <1>2 DEF TapeInv
<1>9. CASE rxBit = 1
  <2>1. rx.state = "IDLE" /\ Line \in {StopBit, Mark} /\ (Line = StopBit => Heard >= Confirm)
    BY <1>2, <1>5, <1>7, <1>9 DEF RxInv
  <2>2. rx' = rx
    BY <1>9, <2>1 DEF HuntForStart
  <2>3. Line' = StopBit => Heard' >= Confirm'
    BY <1>1, <1>3, <2>1
  <2>4. RxInv'
    BY <1>1, <2>1, <2>2, <2>3 DEF RxInv
  <2> QED
    BY <1>1, <1>6, <2>4 DEF Received
<1>10. CASE rxBit # 1
  <2>1. /\ Line = 0
        /\ rx.state = "IDLE" => Heard = 0
        /\ rx.state = "START" => Heard \in 1..(Confirm - 1) /\ rx.clocks = Heard
    BY <1>2, <1>5, <1>7, <1>8, <1>10 DEF RxInv
  <2>2. ASSUME NEW n \in {0, 1}, rx' = BeginCharacter(n), Heard + 1 = Confirm,
               ctl.div > 1 => n = 0
        PROVE  Received'
    <3>1. /\ rx'.shift = Zero /\ rx'.count = 0 /\ rx'.clocks = n /\ rx'.state = "DATA"
      BY <1>3, <2>2 DEF BeginCharacter, Receiver
    <3>2. Sampled' = 0 /\ Line' = 0
      BY <1>1, <2>1, <2>2
    <3>3. Clocked'
      BY <1>1, <1>3, <2>2, <3>1 DEF Clocked
    <3>4. \A i \in 1..LongWord : rx'.shift[i] = 0
      BY <3>1 DEF Zero
    <3>5. \A i \in 1..LongWord : ~(i <= 0)
      BY <1>5
    <3>6. 0 \in 0..ByteBits /\ 0 \in 0..(ByteBits - 1)
      BY <1>5
    <3>7. RxInv'
      BY <3>1, <3>2, <3>3, <3>4, <3>5, <3>6 DEF RxInv
    <3> QED
      BY <1>1, <1>6, <3>7 DEF Received
  <2>3. ASSUME NEW n \in Nat, rx' = [rx EXCEPT !.clocks = n, !.state = "START"],
               n = Heard + 1, Heard + 1 # Confirm
        PROVE  Received'
    <3>1. rx'.clocks = n /\ rx'.state = "START"
      BY <1>3, <2>3 DEF Receiver
    <3>2. Heard' \in 1..(Confirm' - 1)
      <4>1. rx.state = "IDLE" => 2 <= Confirm
        BY <1>3, <2>1, <2>3
      <4> QED
        BY <1>1, <1>3, <2>1, <2>3, <4>1
    <3>3. RxInv'
      BY <1>1, <2>1, <2>3, <3>1, <3>2 DEF RxInv
    <3> QED
      BY <1>1, <1>6, <3>3 DEF Received
  <2>4. CASE rx.state = "IDLE"
    <3>1. CASE ctl.div = 1
      <4>1. rx' = BeginCharacter(1)
        BY <1>10, <2>4, <3>1 DEF HuntForStart
      <4>2. Heard + 1 = Confirm
        BY <1>3, <2>1, <2>4, <3>1
      <4> QED
        BY <2>2, <3>1, <4>1, <4>2
    <3>2. CASE ctl.div # 1
      <4>1. rx' = [rx EXCEPT !.clocks = 1, !.state = "START"]
        BY <1>10, <2>4, <3>2 DEF HuntForStart
      <4>2. Heard + 1 = 1 /\ Confirm # 1
        BY <1>3, <2>1, <2>4, <3>2
      <4> QED
        BY <2>3, <4>1, <4>2
    <3> QED
      BY <3>1, <3>2
  <2>5. CASE rx.state = "START"
    <3>1. rx.clocks = Heard /\ Heard \in 1..(Confirm - 1) /\ ctl.div > 1
      BY <1>3, <2>1, <2>5
    <3>2. Heard + 1 >= ctl.div \div 2 <=> Heard + 1 = Confirm
      BY <1>3, <3>1 DEF Confirm
    <3>3. CASE Heard + 1 = Confirm
      <4>1. rx' = BeginCharacter(0)
        BY <1>10, <2>5, <3>1, <3>2, <3>3 DEF HuntForStart
      <4> QED
        BY <2>2, <3>3, <4>1
    <3>4. CASE Heard + 1 # Confirm
      <4>1. rx' = [rx EXCEPT !.clocks = @ + 1]
        BY <1>10, <2>5, <3>1, <3>2, <3>4 DEF HuntForStart
      <4>2. rx' = [rx EXCEPT !.clocks = Heard + 1, !.state = "START"]
        BY <1>3, <2>5, <3>1, <4>1 DEF Receiver
      <4>3. Heard + 1 \in Nat
        BY <3>1
      <4> QED
        BY <2>3, <3>4, <4>2, <4>3
    <3> QED
      BY <3>3, <3>4
  <2> QED
    BY <2>4, <2>5
<1> QED
  BY <1>9, <1>10

\* The receiver counts the clocks between two samples.
LEMMA WaitStep ==
  ASSUME LoadInv, Loading, stage = "clock", stage' = "idle", got' = got,
         UNCHANGED <<tapeVars, ulaVars, tape, played, ctl, carrier>>, carrier,
         rx.state \in {"DATA", "STOP"}, ~SampleNow, rx' = [rx EXCEPT !.clocks = @ + 1]
  PROVE  Received'
<1>1. /\ LineInv /\ RxInv /\ GotInv /\ SetupInv /\ TapeInv /\ LockInv /\ setup = "done"
  BY DEF LoadInv, Received, Loading
<1>2. Clocked
  BY <1>1 DEF RxInv
<1>3. Heard + 1 # Confirm
  BY <1>1, <1>2, SampleTime
<1>4. /\ Heard \in 0..(ctl.div - 1) /\ Heard' = Heard + 1 /\ LineInv'
      /\ Line' = Line /\ Current' = Current /\ Confirm' = Confirm
      /\ At' = At /\ Before' = Before /\ TapeBytes' = TapeBytes
      /\ Sampled' = Sampled
  BY <1>3, ClockIsHeard
<1>5. /\ ctl.div \in Nat \ {0} /\ Confirm \in 1..ctl.div /\ rx \in Receiver
      /\ played' = played /\ lock' = lock /\ Heard \in Nat
  BY <1>1, ClockFacts DEF ulaVars
<1>6. /\ rx'.state = rx.state /\ rx'.shift = rx.shift /\ rx'.count = rx.count
      /\ rx'.clocks = rx.clocks + 1
  BY <1>5 DEF Receiver
<1>7. Clocked'
  <2>1. ctl.div > 1 => rx.clocks = IF Heard >= Confirm THEN Heard - Confirm
                                   ELSE Heard - Confirm + ctl.div
    BY <1>2 DEF Clocked
  <2>2. ctl'.div = ctl.div
    OBVIOUS
  <2>3. ctl.div > 1 => rx'.clocks = IF Heard + 1 >= Confirm THEN Heard + 1 - Confirm
                                    ELSE Heard + 1 - Confirm + ctl.div
    <3>1. CASE Heard >= Confirm
      BY <1>5, <1>6, <2>1, <3>1
    <3>2. CASE ~(Heard >= Confirm)
      BY <1>3, <1>5, <1>6, <2>1, <3>2
    <3> QED
      BY <3>1, <3>2
  <2> QED
    BY <1>4, <1>5, <2>2, <2>3 DEF Clocked
<1>8. RxInv'
  BY <1>1, <1>4, <1>6, <1>7 DEF RxInv
<1>9. GotInv'
  <2>1. Line \in 0..StopBit /\ (Line = StopBit => Heard < Confirm)
    BY <1>1, <1>5, FrameSizes DEF RxInv, Sampled
  <2>2. Line = At[played] /\ lock > 0 /\ lock \in Nat
    BY <1>1, <2>1, LineFacts, FrameSizes
  <2>3. At[played] = StopBit => ~(Heard >= Confirm) /\ ~(Heard' >= Confirm')
    BY <1>3, <1>4, <1>5, <2>1, <2>2
  <2>4. StopTaken' <=> StopTaken
    BY <1>4, <1>5, <2>2, <2>3 DEF StopTaken
  <2> QED
    BY <1>1, <1>4, <1>5, <2>4, GotStays
<1> QED
  BY <1>4, <1>8, <1>9 DEF Received

\* Two words with the same bits are the same.
LEMMA WordsEqual ==
  ASSUME NEW v \in Word, NEW w \in Word, \A i \in 1..LongWord : v[i] = w[i]
  PROVE  v = w
<1>1. v = [i \in 1..LongWord |-> v[i]] /\ w = [i \in 1..LongWord |-> w[i]]
  BY Zenon DEF Word
<1> QED
  BY <1>1, Zenon

\* A data bit is sampled.
LEMMA DataStep ==
  ASSUME LoadInv, Loading, stage = "clock", stage' = "idle", got' = got,
         UNCHANGED <<tapeVars, ulaVars, tape, played, ctl, carrier>>, carrier,
         rx.state = "DATA", SampleNow, ReceiveData(rxBit)
  PROVE  Received'
<1>1. /\ LineInv /\ RxInv /\ GotInv /\ SetupInv /\ TapeInv /\ LockInv /\ setup = "done"
  BY DEF LoadInv, Received, Loading
<1>2. /\ Clocked /\ Line \in 0..ByteBits /\ Sampled \in 0..(ByteBits - 1) /\ rx.count = Sampled
      /\ \A i \in 1..LongWord : rx.shift[i] = IF i <= Sampled THEN Current[i] ELSE 0
  BY <1>1 DEF RxInv
<1>3. Heard + 1 = Confirm
  BY <1>1, <1>2, SampleTime
<1>4. /\ Heard \in 0..(ctl.div - 1) /\ Heard' = Heard + 1 /\ LineInv'
      /\ Line' = Line /\ Current' = Current /\ Confirm' = Confirm
      /\ At' = At /\ Before' = Before /\ TapeBytes' = TapeBytes
      /\ Sampled = Line - 1 /\ Sampled' = Line
  BY <1>3, ClockIsHeard
<1>5. /\ ctl.div \in Nat \ {0} /\ Confirm \in 1..ctl.div /\ rx \in Receiver
      /\ ctl.word = ByteBits /\ ctl.parity = 0
      /\ played' = played /\ lock' = lock /\ Heard \in Nat
  BY <1>1, ClockFacts DEF ulaVars
<1>6. /\ ByteBits \in Nat \ {0} /\ LongWord = ByteBits /\ StopBit = ByteBits + 1 /\ Mark = ByteBits + 2
      /\ CountModulus \in Nat /\ CountModulus > ByteBits
  BY FrameSizes
<1>7. Line \in 1..ByteBits
  BY <1>2, <1>4, <1>6
<1>8. /\ rxBit = Current[Line] /\ Current \in Word /\ Line = At[played] /\ lock > 0 /\ lock \in Nat
  BY <1>1, <1>6, <1>7, LineFacts DEF CellBit
<1>9. /\ rx.count = Line - 1 /\ rx.count < LongWord /\ rx.count + 1 = Line
      /\ (rx.count + 1) % CountModulus = Line
  BY <1>2, <1>4, <1>6, <1>7
<1> DEFINE word == [rx.shift EXCEPT ![Line] = IF rxBit = 1 THEN 1 ELSE @]
<1>10. rx' = [rx EXCEPT !.shift = word, !.count = Line,
                        !.parity = IF ctl.parity # 0 THEN (@ + rxBit) % 2 ELSE @,
                        !.clocks = IF ctl.div = 1 /\ Line # ctl.word THEN @ ELSE 0,
                        !.state = IF Line # ctl.word THEN "DATA"
                                  ELSE IF ctl.parity # 0 THEN "PARITY" ELSE "STOP"]
  BY <1>9, Zenon DEF ReceiveData, ShiftIn
<1>11. /\ rx'.shift = word /\ rx'.count = Line
       /\ ctl.div > 1 => rx'.clocks = 0
       /\ rx'.state = IF Line # ByteBits THEN "DATA" ELSE "STOP"
  BY <1>5, <1>10 DEF Receiver
<1>12. Clocked'
  BY <1>3, <1>4, <1>5, <1>11 DEF Clocked
<1>13. rx.shift \in [1..LongWord -> {0, 1}] /\ Line \in 1..LongWord
  BY <1>5, <1>6, <1>7 DEF Receiver, Word
<1>14. \A i \in 1..LongWord : rx'.shift[i] = IF i <= Line THEN Current[i] ELSE 0
  <2> SUFFICES ASSUME NEW i \in 1..LongWord
               PROVE  rx'.shift[i] = IF i <= Line THEN Current[i] ELSE 0
    OBVIOUS
  <2>1. rx'.shift[i] = IF i = Line THEN (IF rxBit = 1 THEN 1 ELSE rx.shift[i]) ELSE rx.shift[i]
    BY <1>11, <1>13
  <2>2. rx.shift[i] = IF i <= Line - 1 THEN Current[i] ELSE 0
    BY <1>2, <1>4
  <2>3. rxBit \in {0, 1}
    BY <1>1 DEF TapeInv
  <2>4. CASE i = Line
    BY <1>7, <1>8, <2>1, <2>2, <2>3, <2>4
  <2>5. CASE i # Line
    BY <1>6, <1>7, <2>1, <2>2, <2>5
  <2> QED
    BY <2>4, <2>5
<1>15. GotInv'
  <2>1. At[played] # StopBit
    BY <1>6, <1>7, <1>8
  <2>2. StopTaken' <=> StopTaken
    BY <1>4, <1>5, <2>1 DEF StopTaken
  <2> QED
    BY <1>1, <1>4, <1>5, <2>2, GotStays
<1>16. RxInv'
  <2>1. CASE Line # ByteBits
    <3>1. Line \in 0..(ByteBits - 1) /\ Line \in 0..ByteBits /\ rx'.state = "DATA"
      BY <1>6, <1>7, <1>11, <2>1
    <3> QED
      BY <1>4, <1>11, <1>12, <1>14, <3>1 DEF RxInv
  <2>2. CASE Line = ByteBits
    <3>1. rx'.shift \in Word
      BY <1>11, <1>13 DEF Word
    <3>2. \A i \in 1..LongWord : rx'.shift[i] = Current[i]
      BY <1>6, <1>14, <2>2
    <3>3. rx'.shift = Current
      BY <1>8, <3>1, <3>2, WordsEqual
    <3>4. rx'.state = "STOP"
      BY <1>11, <2>2
    <3> QED
      BY <1>4, <1>12, <2>2, <3>3, <3>4 DEF RxInv
  <2> QED
    BY <2>1, <2>2
<1> QED
  BY <1>4, <1>15, <1>16 DEF Received

\* The stop bit is sampled, and the character is the byte on the tape.
LEMMA StopStep ==
  ASSUME LoadInv, Loading, stage = "clock", stage' = "idle",
         UNCHANGED <<tapeVars, ulaVars, tape, played, ctl, carrier>>, carrier,
         rx.state = "STOP", SampleNow, rx'.state = "IDLE",
         got' = Append(got, [char |-> rx.shift, stop |-> rxBit])
  PROVE  Received'
<1>1. /\ LineInv /\ RxInv /\ GotInv /\ SetupInv /\ TapeInv /\ LockInv /\ setup = "done"
  BY DEF LoadInv, Received, Loading
<1>2. Clocked /\ Line \in {ByteBits, StopBit} /\ Sampled = ByteBits /\ rx.shift = Current
  BY <1>1 DEF RxInv
<1>3. Heard + 1 = Confirm
  BY <1>1, <1>2, SampleTime
<1>4. /\ Heard \in 0..(ctl.div - 1) /\ Heard' = Heard + 1 /\ LineInv'
      /\ Line' = Line /\ Current' = Current /\ Confirm' = Confirm
      /\ At' = At /\ Before' = Before /\ TapeBytes' = TapeBytes
      /\ Sampled = Line - 1
  BY <1>3, ClockIsHeard
<1>5. /\ ctl.div \in Nat \ {0} /\ Confirm \in 1..ctl.div
      /\ played' = played /\ lock' = lock /\ Heard \in Nat
  BY <1>1, ClockFacts DEF ulaVars
<1>6. ByteBits \in Nat \ {0} /\ StopBit = ByteBits + 1 /\ Mark = ByteBits + 2
  BY FrameSizes
<1>7. Line = StopBit
  BY <1>2, <1>4, <1>6
<1>8. /\ rxBit = 1 /\ Line = At[played] /\ lock > 0 /\ lock \in Nat /\ Current \in Word
      /\ Before[played] < Len(TapeBytes) /\ Before[played] \in Nat /\ Len(TapeBytes) \in Nat
  BY <1>1, <1>6, <1>7, LineFacts DEF CellBit
<1>9. RxInv'
  BY <1>3, <1>4, <1>5, <1>7 DEF RxInv
<1>10. ~StopTaken /\ StopTaken'
  <2>1. ~(Heard >= Confirm) /\ Heard' >= Confirm'
    BY <1>3, <1>4, <1>5
  <2> QED
    BY <1>4, <1>5, <1>7, <1>8, <2>1 DEF StopTaken
<1>11. GotInv'
  <2> DEFINE last == [char |-> rx.shift, stop |-> rxBit]
             n == Before[played]
  <2>1. got \in Seq([char : Word, stop : {0, 1}]) /\ Len(got) = n
        /\ \A i \in 1..Len(got) : got[i] = [char |-> TapeBytes[i], stop |-> 1]
    BY <1>1, <1>10 DEF GotInv
  <2>2. last \in [char : Word, stop : {0, 1}] /\ last = [char |-> TapeBytes[n + 1], stop |-> 1]
    BY <1>2, <1>8 DEF Current
  <2>3. n \in Nat /\ n < Len(TapeBytes) /\ Len(TapeBytes) \in Nat
    BY <1>8
  <2>4. got' = Append(got, last)
    OBVIOUS
  <2> HIDE DEF last, n
  <2>5. /\ got' \in Seq([char : Word, stop : {0, 1}]) /\ Len(got') = n + 1
        /\ \A i \in 1..(n + 1) : got'[i] = [char |-> TapeBytes[i], stop |-> 1]
    BY <2>1, <2>2, <2>3, <2>4, AppendProperties
  <2>6. Before'[played'] = n
    BY <1>4, <1>5 DEF n
  <2> QED
    BY <1>4, <1>10, <2>3, <2>5, <2>6 DEF GotInv
<1> QED
  BY <1>4, <1>9, <1>11 DEF Received

\* A clock without a carrier moves nothing.
LEMMA QuietClock ==
  ASSUME LoadInv, Loading, stage = "clock", stage' = "idle", got' = got,
         UNCHANGED <<tapeVars, ulaVars, tape, played, ctl, carrier, rx>>, ~carrier
  PROVE  Received'
<1>1. /\ LineInv /\ RxInv /\ GotInv /\ SetupInv /\ TapeInv /\ LockInv /\ setup = "done"
  BY DEF LoadInv, Received, Loading
<1>2. /\ LineInv' /\ Line' = Line
      /\ At' = At /\ Before' = Before /\ TapeBytes' = TapeBytes
      /\ played' = played /\ lock' = lock
  BY ClockIsHeard DEF ulaVars
<1>3. Line = Mark /\ lock \in Nat
  BY <1>1, LineFacts
<1>4. rx.state = "IDLE" /\ rx' = rx /\ carrier' = carrier
  BY <1>1 DEF RxInv
<1>5. RxInv'
  BY <1>2, <1>3, <1>4 DEF RxInv
<1>6. lock # 0 => At[played] # StopBit
  BY <1>3, FrameSizes DEF Line
<1>7. StopTaken' <=> StopTaken
  BY <1>2, <1>6 DEF StopTaken
<1>8. GotInv'
  BY <1>1, <1>2, <1>7, GotStays
<1> QED
  BY <1>2, <1>5, <1>8 DEF Received

\* A data bit leaves the receiver a receiver.
LEMMA DataTyped ==
  ASSUME rx \in Receiver, NEW b \in {0, 1}, ReceiveData(b)
  PROVE  rx' \in Receiver
<1>1. CountModulus \in Nat \ {0} /\ LongWord \in Nat
  BY AciaAssumption DEF AciaAssumption
<1>2. (rx.count + 1) % CountModulus \in Counts /\ rx.shift \in Word /\ rx.parity \in {0, 1}
  BY <1>1 DEF Receiver, Counts
<1>3. PICK word \in ShiftIn(b) :
        rx' = [rx EXCEPT !.shift = word, !.count = (rx.count + 1) % CountModulus,
                         !.parity = IF ctl.parity # 0 THEN (@ + b) % 2 ELSE @,
                         !.clocks = IF ctl.div = 1 /\ (rx.count + 1) % CountModulus # ctl.word
                                    THEN @ ELSE 0,
                         !.state = IF (rx.count + 1) % CountModulus # ctl.word THEN "DATA"
                                   ELSE IF ctl.parity # 0 THEN "PARITY" ELSE "STOP"]
  BY DEF ReceiveData
<1>4. word \in Word
  BY <1>2 DEF ShiftIn, Word
<1>5. (IF ctl.parity # 0 THEN (rx.parity + b) % 2 ELSE rx.parity) \in {0, 1}
  BY <1>2
<1> DEFINE n == (rx.count + 1) % CountModulus
           p == IF ctl.parity # 0 THEN (rx.parity + b) % 2 ELSE rx.parity
<1>6. n \in Counts /\ p \in {0, 1}
  BY <1>2, <1>5
<1> HIDE DEF n, p
<1>7. rx' = [rx EXCEPT !.shift = word, !.count = n, !.parity = p,
                       !.clocks = IF ctl.div = 1 /\ n # ctl.word THEN @ ELSE 0,
                       !.state = IF n # ctl.word THEN "DATA"
                                 ELSE IF ctl.parity # 0 THEN "PARITY" ELSE "STOP"]
  BY <1>3, Zenon DEF n, p
<1> QED
  BY <1>4, <1>6, <1>7 DEF Receiver, RxStates

\* A clock leaves the receiver a receiver.
LEMMA ClockTyped ==
  ASSUME rx \in Receiver, NEW b \in {0, 1}, RxClock(b)
  PROVE  rx' \in Receiver
<1>1. /\ Zero \in Word /\ 0 \in Counts
      /\ RxStates = {"IDLE", "START", "DATA", "PARITY", "STOP"}
  BY AciaAssumption DEF AciaAssumption, Zero, Word, Counts, RxStates
<1>2. /\ rx.clocks \in Nat /\ rx.shift \in Word /\ rx.state \in RxStates
  BY DEF Receiver
<1> DEFINE n == rx.clocks + 1
<1>3. n \in Nat
  BY <1>2
<1>4. CASE rx.state \in {"IDLE", "START"}
  <2>1. \A m \in Nat : BeginCharacter(m) \in Receiver
    BY <1>1 DEF BeginCharacter, Receiver
  <2>2. [rx EXCEPT !.clocks = 1, !.state = "START"] \in Receiver
    BY <1>1 DEF Receiver
  <2>3. rx' = HuntForStart(b)
    BY <1>4 DEF RxClock
  <2> HIDE DEF n
  <2>4. [rx EXCEPT !.clocks = n, !.state = "IDLE"] \in Receiver
        /\ [rx EXCEPT !.clocks = n] \in Receiver
    BY <1>1, <1>3 DEF Receiver
  <2> QED
    BY <2>1, <2>2, <2>3, <2>4 DEF HuntForStart, n
<1>5. CASE rx.state \notin {"IDLE", "START"} /\ ~SampleNow
  <2>1. rx' = [rx EXCEPT !.clocks = n]
    BY <1>5 DEF RxClock
  <2> HIDE DEF n
  <2> QED
    BY <1>3, <2>1 DEF Receiver
<1>6. CASE rx.state = "DATA" /\ SampleNow
  BY <1>6, DataTyped DEF RxClock
<1>7. CASE rx.state = "PARITY" /\ SampleNow
  <2>1. ReceiveParity(b)
    BY <1>7 DEF RxClock
  <2> DEFINE wrong == b # (IF ctl.parity = 1 THEN 1 - rx.parity ELSE rx.parity)
  <2>2. rx' = [rx EXCEPT !.parityError = wrong, !.clocks = 0, !.state = "STOP"]
    BY <2>1 DEF ReceiveParity
  <2>3. wrong \in BOOLEAN
    OBVIOUS
  <2> HIDE DEF wrong
  <2> QED
    BY <1>1, <2>2, <2>3 DEF Receiver
<1>8. CASE rx.state = "STOP" /\ SampleNow
  <2> DEFINE c == IF ctl.div = 1 THEN rx.clocks ELSE 0
             r == [rx EXCEPT !.clocks = c, !.state = "IDLE"]
  <2>1. c \in Nat
    BY <1>2
  <2>2. \/ rx' = [r EXCEPT !.overrunPending = TRUE]
        \/ rx' = [r EXCEPT !.data = rx.shift, !.full = TRUE]
    BY <1>8 DEF RxClock, ReceiveStop
  <2> HIDE DEF c
  <2>3. r \in Receiver
    BY <1>1, <2>1 DEF Receiver
  <2> HIDE DEF r
  <2> QED
    BY <1>2, <2>2, <2>3 DEF Receiver
<1> QED
  BY <1>1, <1>2, <1>4, <1>5, <1>6, <1>7, <1>8

\* A clock leaves the machine set up.
LEMMA ClockSetup ==
  ASSUME SetupInv, setup = "done", ClockReceiver, rxBit \in {0, 1}, UNCHANGED setup
  PROVE  SetupInv'
<1>1. /\ stage' = "idle" /\ UNCHANGED <<scr, port, counter>>
      /\ ctl' = ctl
      /\ rx' = rx \/ RxClock(rxBit)
  BY DEF ClockReceiver, RxClock, vars, ulaVars
<1>2. rx' \in Receiver
  BY <1>1, ClockTyped DEF SetupInv
<1> QED
  BY <1>1, <1>2 DEF SetupInv

\* Every clock of the receiver.
LEMMA ClockStep ==
  ASSUME LoadInv, Loading, ClockReceiver,
         got' = IF Completes THEN Append(got, [char |-> rx.shift, stop |-> rxBit]) ELSE got,
         UNCHANGED <<setup, tape, played>>
  PROVE  Received'
<1>1. /\ stage = "clock" /\ stage' = "idle"
      /\ UNCHANGED <<tapeVars, ulaVars, tape, played, ctl, carrier>>
  BY DEF ClockReceiver, RxClock, vars
<1>2. RxInv /\ rx \in Receiver
  BY DEF LoadInv, Received, Loading, SetupInv
<1>3. CASE ~carrier
  <2>1. rx' = rx /\ got' = got
    BY <1>3 DEF ClockReceiver, RxClock, vars, Completes
  <2> QED
    BY <1>1, <1>3, <2>1, QuietClock
<1>4. CASE carrier
  <2>1. RxClock(rxBit)
    BY <1>4 DEF ClockReceiver
  <2>2. CASE rx.state \in {"IDLE", "START"}
    <3>1. rx' = HuntForStart(rxBit) /\ got' = got
      BY <2>1, <2>2 DEF RxClock, Completes
    <3> QED
      BY <1>1, <1>4, <2>2, <3>1, HuntStep
  <2>3. CASE rx.state \in {"DATA", "STOP"} /\ ~SampleNow
    <3>1. rx' = [rx EXCEPT !.clocks = @ + 1] /\ got' = got
      BY <2>1, <2>3 DEF RxClock, Completes
    <3> QED
      BY <1>1, <1>4, <2>3, <3>1, WaitStep
  <2>4. CASE rx.state = "DATA" /\ SampleNow
    <3>1. ReceiveData(rxBit) /\ got' = got
      BY <2>1, <2>4 DEF RxClock, Completes
    <3> QED
      BY <1>1, <1>4, <2>4, <3>1, DataStep
  <2>5. CASE rx.state = "STOP" /\ SampleNow
    <3>1. ReceiveStop(rxBit) /\ Completes
      BY <1>1, <1>4, <2>1, <2>5 DEF RxClock, Completes
    <3>2. rx'.state = "IDLE"
      BY <1>2, <3>1 DEF ReceiveStop, Receiver
    <3>3. got' = Append(got, [char |-> rx.shift, stop |-> rxBit])
      BY <3>1
    <3> QED
      BY <1>1, <1>4, <2>5, <3>2, <3>3, StopStep
  <2> QED
    BY <1>2, <2>2, <2>3, <2>4, <2>5 DEF RxInv
<1> QED
  BY <1>3, <1>4

\* The CPU at the registers does not disturb the receiver.
LEMMA RegisterStep ==
  ASSUME LoadInv, Loading, stage = "idle", ReadStatus \/ ReadRdr,
         UNCHANGED <<tapeVars, ulaVars, stage, got, played, setup, tape>>
  PROVE  SetupInv' /\ Received'
<1>1. /\ LineInv /\ RxInv /\ GotInv /\ SetupInv /\ setup = "done" /\ rx \in Receiver
  BY DEF LoadInv, Received, Loading, SetupInv
<1>2. ctl' = ctl /\ carrier' = carrier
  BY DEF ReadStatus, ReadRdr
<1>3. /\ rx' \in Receiver /\ rx'.state = rx.state /\ rx'.clocks = rx.clocks
      /\ rx'.count = rx.count /\ rx'.shift = rx.shift
  <2>1. CASE ReadStatus
    BY <1>1, <2>1 DEF ReadStatus
  <2>2. CASE ReadRdr
    BY <1>1, <2>2 DEF ReadRdr, Receiver
  <2> QED
    BY <2>1, <2>2
<1>4. stage' = stage /\ counter' = counter /\ lock' = lock /\ rxBit' = rxBit /\ played' = played
      /\ got' = got /\ port' = port /\ scr' = scr /\ setup' = setup
  BY DEF ulaVars
<1>5. /\ At' = At /\ Before' = Before /\ TapeBytes' = TapeBytes /\ TapeSound' = TapeSound
      /\ Confirm' = Confirm
  BY <1>2 DEF At, Before, TapeBytes, TapeSound, Confirm
<1>6. Line' = Line /\ Current' = Current /\ Heard' = Heard
  BY <1>4, <1>5 DEF Line, Current, Heard
<1>7. Sampled' = Sampled /\ (StopTaken' <=> StopTaken)
  BY <1>4, <1>5, <1>6 DEF Sampled, StopTaken
<1>8. Clocked' <=> Clocked
  BY <1>2, <1>3, <1>5, <1>6 DEF Clocked
<1>9. LineInv'
  BY <1>1, <1>4, <1>5, <1>6 DEF LineInv
<1>10. RxInv'
  BY <1>1, <1>2, <1>3, <1>5, <1>6, <1>7, <1>8 DEF RxInv
<1>11. GotInv'
  BY <1>1, <1>4, <1>5, <1>7, GotStays
<1>12. SetupInv'
  BY <1>1, <1>2, <1>3, <1>4 DEF SetupInv
<1> QED
  BY <1>9, <1>10, <1>11, <1>12 DEF Received

\* A tick between two bits of the tape.
LEMMA WaitingTick ==
  ASSUME LoadInv, Loading, RxTick, ~TapeAdvances, UNCHANGED <<got, played, setup, tape>>
  PROVE  SetupInv' /\ Received'
<1>1. /\ LineInv /\ RxInv /\ GotInv /\ SetupInv /\ setup = "done" /\ rx \in Receiver
  BY DEF LoadInv, Received, Loading, SetupInv
<1>2. /\ stage = "idle" /\ stage' = "clock" /\ counter' = counter + 1
      /\ UNCHANGED <<vars, tapeVars, rxBit, lock, scr, port>>
  BY DEF RxTick
<1>3. ctl' = ctl /\ carrier' = carrier /\ rx' = rx
  BY <1>2 DEF vars
<1>4. ctl.div \in Nat \ {0} /\ counter \in 0..(ctl.div - 1) /\ counter + 1 \in 0..(ctl.div - 1)
  BY <1>1, ClockFacts DEF TapeAdvances
<1>5. /\ At' = At /\ Before' = Before /\ TapeBytes' = TapeBytes /\ TapeSound' = TapeSound
      /\ Confirm' = Confirm
  BY <1>3 DEF At, Before, TapeBytes, TapeSound, Confirm
<1>6. Line' = Line /\ Current' = Current /\ Heard' = Heard
  BY <1>2, <1>5 DEF Line, Current, Heard
<1>7. Sampled' = Sampled /\ (StopTaken' <=> StopTaken)
  BY <1>2, <1>5, <1>6 DEF Sampled, StopTaken
<1>8. Clocked' <=> Clocked
  BY <1>3, <1>5, <1>6 DEF Clocked
<1>9. LineInv'
  BY <1>1, <1>2, <1>5, <1>6 DEF LineInv
<1>10. RxInv'
  BY <1>1, <1>3, <1>5, <1>6, <1>7, <1>8 DEF RxInv
<1>11. GotInv'
  BY <1>1, <1>5, <1>7, GotStays
<1>12. SetupInv'
  BY <1>1, <1>2, <1>3, <1>4 DEF SetupInv
<1> QED
  BY <1>9, <1>10, <1>11, <1>12 DEF Received

\* The receiver when the carrier is lost.
Silenced ==
  [rx EXCEPT !.full = FALSE, !.overrunPending = FALSE, !.overrun = FALSE,
             !.state = "IDLE", !.count = 0, !.clocks = 0]

\* A bit of the tape is read: what the serial ULA and the carrier do then.
LEMMA BitIsCounted ==
  ASSUME LockInv, SetupInv, setup = "done", RxTick, TapeAdvances
  PROVE  /\ stage = "idle" /\ stage' = "clock" /\ counter' = 0 /\ rxBit' = BitOnTape /\ NextBit
         /\ scr' = scr /\ port' = port /\ ctl' = ctl /\ Confirm' = Confirm
         /\ Heard = ctl.div /\ Heard' = 0
         /\ lastCarrier' => /\ lock' = (IF lock > LockThreshold THEN lock ELSE lock + 1)
                            /\ rx' = rx /\ (carrier => carrier')
         /\ ~lastCarrier' => /\ lock' = 0
                             /\ ~carrier' /\ rx' = (IF carrier THEN Silenced ELSE rx)
<1>1. port.motor /\ ctl.div \in Nat \ {0} /\ counter \in 0..(ctl.div - 1)
  BY ClockFacts DEF SetupInv
<1>2. /\ stage = "idle" /\ stage' = "clock" /\ counter' = 0 /\ rxBit' = BitOnTape /\ NextBit
      /\ CountCarrier /\ scr' = scr /\ port' = port
  BY <1>1 DEF RxTick, RxData, MoveTape
<1>3. lock \in Nat /\ LockThreshold \in Nat \ {0} /\ (carrier <=> lock >= LockThreshold)
      /\ carrier \in BOOLEAN
  BY FrameSizes DEF LockInv, LockType, LockMeansCarrier
<1>4. HasCarrier <=> lastCarrier'
  BY <1>1 DEF HasCarrier
<1>5. counter + 1 = ctl.div /\ Heard = ctl.div /\ Heard' = 0
  BY <1>1, <1>2 DEF TapeAdvances, Heard
<1>6. CASE lastCarrier'
  <2>1. /\ lock' = (IF lock > LockThreshold THEN lock ELSE lock + 1)
        /\ ApplyCarrier \/ UNCHANGED vars
    BY <1>2, <1>4, <1>6 DEF CountCarrier
  <2>2. rx' = rx /\ ctl' = ctl /\ (carrier => carrier')
    BY <2>1 DEF ApplyCarrier, vars
  <2>3. Confirm' = Confirm
    BY <2>2 DEF Confirm
  <2> QED
    BY <1>2, <1>5, <1>6, <2>1, <2>2, <2>3
<1>7. CASE ~lastCarrier'
  <2>1. lock' = 0 /\ IF carrier THEN DropCarrier ELSE UNCHANGED vars
    BY <1>2, <1>3, <1>4, <1>7 DEF CountCarrier
  <2>2. ctl' = ctl
    BY <2>1 DEF DropCarrier, vars
  <2>3. Confirm' = Confirm
    BY <2>2 DEF Confirm
  <2>4. ~carrier' /\ rx' = (IF carrier THEN Silenced ELSE rx)
    BY <2>1 DEF DropCarrier, Silenced, vars
  <2> QED
    BY <1>2, <1>5, <1>7, <2>1, <2>2, <2>3, <2>4
<1> QED
  BY <1>6, <1>7

\* When the next bit is read, the cell before it has been taken.
LEMMA CellIsTaken ==
  ASSUME TapeInv, LockInv, SetupInv, Loading, Received, Heard = ctl.div
  PROVE  /\ rx.state \in {"IDLE", "DATA", "STOP"}
         /\ rx.state = "IDLE" => At[played] > ByteBits
         /\ rx.state = "DATA" => Line \in 0..(ByteBits - 1) /\ Sampled = Line /\ carrier
         /\ rx.state = "STOP" => Line = ByteBits /\ Sampled = Line /\ carrier
         /\ Len(got) = Before[played] + Ended(At[played])
         /\ Heard >= Confirm
<1>1. /\ ctl.div \in Nat \ {0} /\ Confirm \in 1..ctl.div
      /\ LineInv /\ RxInv /\ GotInv /\ setup = "done"
  BY ClockFacts DEF Loading, Received
<1>2. /\ lock \in Nat /\ Line \in 0..Mark
      /\ Line # Mark => Line = At[played] /\ lock > 0 /\ carrier
      /\ Before[played] \in Nat
  BY <1>1, LineFacts
<1>3. ByteBits \in Nat \ {0} /\ StopBit = ByteBits + 1 /\ Mark = ByteBits + 2
  BY FrameSizes
<1>4. At[played] \in 0..Mark
  BY PlayedFacts DEF Loading
<1>5. Heard >= Confirm /\ Heard # 0 /\ Sampled = Line
  BY <1>1 DEF Sampled
<1>6. rx.state # "START"
  BY <1>1, <1>5 DEF RxInv
<1>7. ASSUME rx.state = "IDLE" PROVE At[played] > ByteBits
  <2>1. CASE lock = 0
    BY <1>1, <2>1 DEF LineInv
  <2>2. CASE lock # 0
    <3>1. Line \in {Mark, StopBit} /\ Line = At[played]
      BY <1>1, <1>2, <1>5, <1>7, <2>2 DEF RxInv, Line
    <3> QED
      BY <1>3, <3>1
  <2> QED
    BY <2>1, <2>2
<1>8. rx.state = "DATA" => Line \in 0..(ByteBits - 1) /\ carrier
  BY <1>1, <1>2, <1>3, <1>5 DEF RxInv
<1>9. rx.state = "STOP" => Line = ByteBits /\ carrier
  BY <1>1, <1>2, <1>3, <1>5 DEF RxInv
<1>10. Len(got) = Before[played] + Ended(At[played])
  <2>1. StopTaken <=> At[played] = StopBit
    BY <1>5 DEF StopTaken
  <2> QED
    BY <1>1, <1>2, <2>1 DEF GotInv, Ended
<1> QED
  BY <1>1, <1>5, <1>6, <1>7, <1>8, <1>9, <1>10 DEF RxInv

\* A step of the reading of the tape.
LEMMA ReadingSteps ==
  ASSUME TapeInv, Loading, played < Len(TapeSound)
  PROVE  LET k == played + 1
         IN  /\ k \in 1..Len(TapeSound) /\ At[k] \in 0..Mark /\ Before[k] \in Nat
             /\ TapeSound[k].bit = CellBit(At[k], TapeBytes[Before[k] + 1])
             /\ Follows(At[played], Before[played], At[k], Before[k])
             /\ At[k] # Mark => Locked(TapeSound, k)
<1> DEFINE k == played + 1
<1>1. /\ Reads(At, Before, TapeSound, TapeBytes) /\ TapeSound \in Seq(Samples)
      /\ played \in 0..Len(TapeSound)
  BY PlayedFacts DEF Loading
<1>2. Len(TapeSound) \in Nat
  BY <1>1
<1>3. k \in 1..Len(TapeSound) /\ k \in 0..Len(TapeSound) /\ played \in 0..(Len(TapeSound) - 1)
  BY <1>1, <1>2
<1>4. Follows(At[played], Before[played], At[played + 1], Before[played + 1])
  BY <1>1, <1>3 DEF Reads
<1> HIDE DEF k
<1>5. /\ At[k] \in 0..Mark /\ Before[k] \in Nat
      /\ TapeSound[k].bit = CellBit(At[k], TapeBytes[Before[k] + 1])
      /\ At[k] # Mark => Locked(TapeSound, k)
  BY <1>1, <1>3 DEF Reads
<1> QED
  BY <1>3, <1>4, <1>5 DEF k

\* The carrier has been counted up to the next bit.
LEMMA LockGrows ==
  ASSUME TapeInv, LockInv, Loading, LineInv, NEW k, k = played + 1,
         IF TapeSound[k].carrier
         THEN lock' = (IF lock > LockThreshold THEN lock ELSE lock + 1) ELSE lock' = 0
  PROVE  /\ played < Len(TapeSound) =>
              \A m \in 0..LockThreshold :
                m <= k /\ (\A j \in (k - m + 1)..k : TapeSound[j].carrier) => lock' >= m
         /\ played < Len(TapeSound) /\ Locked(TapeSound, k)
              => TapeSound[k].carrier /\ lock' >= LockThreshold
<1>1. played \in Nat /\ Len(TapeSound) \in Nat /\ k \in Nat
  BY PlayedFacts DEF Loading
<1>2. LockThreshold \in Nat \ {0} /\ lock \in Nat
  BY FrameSizes DEF LockInv, LockType
<1> SUFFICES ASSUME played < Len(TapeSound)
             PROVE  /\ \A m \in 0..LockThreshold :
                         m <= k /\ (\A j \in (k - m + 1)..k : TapeSound[j].carrier) => lock' >= m
                    /\ Locked(TapeSound, k) => TapeSound[k].carrier /\ lock' >= LockThreshold
  OBVIOUS
<1>3. \A m \in 0..LockThreshold :
        m <= played /\ (\A j \in (played - m + 1)..played : TapeSound[j].carrier) => lock >= m
  BY DEF LineInv
<1>4. ASSUME NEW m \in 0..LockThreshold, m <= k, \A j \in (k - m + 1)..k : TapeSound[j].carrier
      PROVE  lock' >= m
  <2>1. CASE m = 0
    BY <1>2, <2>1
  <2>2. CASE m # 0
    <3>1. m - 1 \in 0..LockThreshold /\ m - 1 <= played /\ m \in Nat
      BY <1>1, <1>2, <1>4, <2>2
    <3>2. TapeSound[k].carrier
      <4>1. k \in (k - m + 1)..k
        BY <1>1, <2>2, <3>1
      <4> QED
        BY <1>4, <4>1
    <3>3. \A j \in (played - (m - 1) + 1)..played : TapeSound[j].carrier
      <4>1. \A j \in (played - (m - 1) + 1)..played : j \in (k - m + 1)..k
        BY <1>1, <3>1
      <4> QED
        BY <1>4, <4>1
    <3>4. lock >= m - 1
      <4> DEFINE n == m - 1
      <4>1. n \in 0..LockThreshold /\ n <= played
            /\ \A j \in (played - n + 1)..played : TapeSound[j].carrier
        BY <3>1, <3>3
      <4> HIDE DEF n
      <4>2. lock >= n
        BY <1>3, <4>1
      <4> QED
        BY <4>2 DEF n
    <3>5. lock' = (IF lock > LockThreshold THEN lock ELSE lock + 1)
      BY <3>2
    <3> QED
      BY <1>2, <3>1, <3>4, <3>5
  <2> QED
    BY <2>1, <2>2
<1>5. ASSUME Locked(TapeSound, k) PROVE TapeSound[k].carrier /\ lock' >= LockThreshold
  <2>1. k > LockThreshold /\ \A j \in (k - LockThreshold)..k : TapeSound[j].carrier
    BY <1>5 DEF Locked
  <2>2. k \in (k - LockThreshold)..k
    BY <1>1, <1>2
  <2>3. TapeSound[k].carrier
    BY <2>1, <2>2
  <2>4. LockThreshold \in 0..LockThreshold /\ LockThreshold <= played
    BY <1>1, <1>2, <2>1
  <2>5. \A j \in (played - LockThreshold + 1)..played : TapeSound[j].carrier
    <3>1. \A j \in (played - LockThreshold + 1)..played : j \in (k - LockThreshold)..k
      BY <1>1, <1>2
    <3> QED
      BY <2>1, <3>1
  <2>6. lock >= LockThreshold
    BY <1>3, <2>4, <2>5
  <2> QED
    BY <1>2, <2>3, <2>6
<1> QED
  BY <1>4, <1>5

\* The next cell of the tape comes on the line.
LEMMA NextCell ==
  ASSUME LoadInv, Loading, RxTick, TapeAdvances, played < Len(TapeSound), played' = played + 1,
         UNCHANGED <<got, setup, tape>>
  PROVE  Received'
<1> DEFINE k == played + 1
<1>1. /\ LineInv /\ RxInv /\ GotInv /\ SetupInv /\ TapeInv /\ LockInv /\ setup = "done"
      /\ Received
  BY DEF LoadInv, Received, Loading
<1>2. /\ stage' = "clock" /\ counter' = 0 /\ rxBit' = BitOnTape /\ NextBit
      /\ ctl' = ctl /\ Confirm' = Confirm /\ Heard = ctl.div /\ Heard' = 0
      /\ lastCarrier' => /\ lock' = (IF lock > LockThreshold THEN lock ELSE lock + 1)
                         /\ rx' = rx /\ (carrier => carrier')
      /\ ~lastCarrier' => /\ lock' = 0
                          /\ ~carrier' /\ rx' = (IF carrier THEN Silenced ELSE rx)
  BY <1>1, BitIsCounted
<1>3. /\ At' = At /\ Before' = Before /\ TapeBytes' = TapeBytes /\ TapeSound' = TapeSound
  BY DEF At, Before, TapeBytes, TapeSound
<1>4. [bit |-> BitOnTape, carrier |-> lastCarrier'] = TapeSound[k]
  BY <1>1, <1>2, NextBitIsNext DEF TapeInv
<1>5. TapeSound[k].bit = rxBit' /\ TapeSound[k].carrier = lastCarrier'
  <2>1. rxBit' = BitOnTape
    BY <1>2
  <2>2. [bit |-> BitOnTape, carrier |-> lastCarrier'].bit = BitOnTape
        /\ [bit |-> BitOnTape, carrier |-> lastCarrier'].carrier = lastCarrier'
    BY Zenon
  <2> QED
    BY <1>4, <2>1, <2>2, Zenon
<1>6. /\ k \in 1..Len(TapeSound) /\ At[k] \in 0..Mark /\ Before[k] \in Nat
      /\ TapeSound[k].bit = CellBit(At[k], TapeBytes[Before[k] + 1])
      /\ Follows(At[played], Before[played], At[k], Before[k])
      /\ At[k] # Mark => Locked(TapeSound, k)
  BY <1>1, ReadingSteps
<1> HIDE DEF k
<1>7. IF TapeSound[k].carrier
      THEN lock' = (IF lock > LockThreshold THEN lock ELSE lock + 1) ELSE lock' = 0
  BY <1>2, <1>5, Zenon
<1>8. /\ \A m \in 0..LockThreshold :
           m <= k /\ (\A j \in (k - m + 1)..k : TapeSound[j].carrier) => lock' >= m
      /\ Locked(TapeSound, k) => lastCarrier' /\ lock' >= LockThreshold
  <2>1. k = played + 1
    BY DEF k
  <2>2. /\ \A m \in 0..LockThreshold :
              m <= k /\ (\A j \in (k - m + 1)..k : TapeSound[j].carrier) => lock' >= m
        /\ Locked(TapeSound, k) => TapeSound[k].carrier /\ lock' >= LockThreshold
    BY <1>1, <1>7, <2>1, LockGrows
  <2>3. TapeSound[k].carrier => lastCarrier'
    BY <1>5, Zenon
  <2>4. Locked(TapeSound, k) => lastCarrier'
    BY <2>2, <2>3
  <2> QED
    BY <2>2, <2>4
<1>9. /\ ByteBits \in Nat \ {0} /\ StopBit = ByteBits + 1 /\ Mark = ByteBits + 2
      /\ LongWord = ByteBits /\ LockThreshold \in Nat \ {0}
  BY FrameSizes
<1>10. played' = k /\ lock \in Nat /\ lock' \in Nat /\ ctl.div \in Nat \ {0} /\ Confirm \in 1..ctl.div
  <2>1. lock \in Nat
    BY <1>1 DEF LockInv, LockType
  <2>2. lock' \in Nat
    BY <1>2, <2>1
  <2> QED
    BY <1>1, <2>1, <2>2, ClockFacts DEF k
<1>11. /\ Line' = (IF lock' > 0 THEN At[k] ELSE Mark) /\ Current' = TapeBytes[Before[k] + 1]
       /\ At[k] # Mark => lastCarrier' /\ lock' >= LockThreshold /\ Line' = At[k]
  <2>1. Line' = (IF lock' > 0 THEN At[k] ELSE Mark) /\ Current' = TapeBytes[Before[k] + 1]
    BY <1>3, <1>10 DEF Line, Current
  <2> QED
    BY <1>6, <1>8, <1>9, <1>10, <2>1
<1>12. Sampled' = Line' - 1
  BY <1>2, <1>10 DEF Sampled
<1>13. LineInv'
  <2>1. lock' = 0 => At[k] = Mark
    BY <1>9, <1>10, <1>11
  <2>2. CellBit(Line', Current') = rxBit'
    <3>1. CASE At[k] = Mark
      <4>1. Line' = Mark
        BY <1>11, <3>1
      <4> QED
        BY <1>5, <1>6, <1>9, <3>1, <4>1 DEF CellBit
    <3>2. CASE At[k] # Mark
      BY <1>5, <1>6, <1>11, <3>2
    <3> QED
      BY <3>1, <3>2
  <2>3. Line' # Mark => lock' >= LockThreshold
    BY <1>11
  <2>4. \A m \in 0..LockThreshold :
          m <= played' /\ (\A j \in (played' - m + 1)..played' : TapeSound'[j].carrier) => lock' >= m
    BY <1>3, <1>8, <1>10, Zenon
  <2>5. lock' = 0 => At'[played'] > ByteBits /\ (At'[played'] = StopBit => played' = Len(TapeSound'))
    BY <1>3, <1>9, <1>10, <2>1
  <2> QED
    BY <2>2, <2>3, <2>4, <2>5 DEF LineInv
<1>14. /\ rx.state \in {"IDLE", "DATA", "STOP"}
       /\ rx.state = "IDLE" => At[played] > ByteBits
       /\ rx.state = "DATA" => Line \in 0..(ByteBits - 1) /\ Sampled = Line /\ carrier
       /\ rx.state = "STOP" => Line = ByteBits /\ Sampled = Line /\ carrier
       /\ Len(got) = Before[played] + Ended(At[played])
       /\ Heard >= Confirm
  BY <1>1, <1>2, CellIsTaken
<1>15. rx \in Receiver
  BY <1>1 DEF SetupInv
<1>16. GotInv'
  <2>1. ~(Heard' >= Confirm') /\ (lock' = 0 => At[k] = Mark)
    BY <1>2, <1>9, <1>10, <1>11
  <2>2. ~StopTaken'
    BY <1>3, <1>9, <1>10, <2>1 DEF StopTaken
  <2>3. Len(got) = Before[k]
    <3>1. At[played] \in 0..Mark /\ Before[played] \in Nat
      BY <1>1, PlayedFacts DEF Loading
    <3> QED
      BY <1>6, <1>9, <1>14, <3>1 DEF Follows, Ended
  <2> QED
    BY <1>1, <1>3, <1>10, <2>2, <2>3 DEF GotInv
<1>17. CASE rx.state = "IDLE"
  <2>1. At[k] \in {0, Mark}
    <3>1. At[played] \in 0..Mark
      BY <1>1, PlayedFacts DEF Loading
    <3> QED
      BY <1>6, <1>9, <1>14, <1>17, <3>1 DEF Follows
  <2>2. Line' \in {0, Mark}
    BY <1>11, <2>1
  <2>3. rx'.state = "IDLE"
    BY <1>2, <1>15, <1>17 DEF Receiver, Silenced
  <2>4. RxInv'
    BY <1>2, <2>2, <2>3 DEF RxInv
  <2> QED
    BY <1>13, <1>16, <2>4 DEF Received
<1>18. CASE rx.state \in {"DATA", "STOP"}
  <2>1. Line \in 0..ByteBits /\ Sampled = Line /\ carrier
    BY <1>9, <1>14, <1>18
  <2>2. At[played] = Line
    BY <1>1, <1>9, <2>1, LineFacts
  <2>3. At[k] = Line + 1 /\ Before[k] = Before[played]
    BY <1>6, <1>9, <2>1, <2>2 DEF Follows
  <2>4. lastCarrier' /\ Line' = Line + 1
    BY <1>9, <1>11, <2>1, <2>3
  <2>5. rx' = rx /\ carrier'
    BY <1>2, <2>1, <2>4
  <2>6. Current' = Current /\ Sampled' = Sampled
    BY <1>11, <1>12, <2>1, <2>3, <2>4 DEF Current
  <2>7. ASSUME Clocked PROVE Clocked'
    <3>1. ctl'.div > 1 => rx'.clocks = ctl.div - Confirm
      BY <1>2, <1>10, <1>14, <2>5, <2>7 DEF Clocked
    <3>2. ~(Heard' >= Confirm') /\ Heard' - Confirm' + ctl'.div = ctl.div - Confirm
      BY <1>2, <1>10
    <3> QED
      BY <3>1, <3>2 DEF Clocked
  <2>8. RxInv'
    <3>1. CASE rx.state = "DATA"
      <4>1. Clocked /\ Sampled \in 0..(ByteBits - 1) /\ rx.count = Sampled
            /\ \A i \in 1..LongWord : rx.shift[i] = IF i <= Sampled THEN Current[i] ELSE 0
        BY <1>1, <3>1 DEF RxInv
      <4>2. Line' \in 0..ByteBits
        BY <1>9, <1>14, <2>4, <3>1
      <4>3. rx'.state = "DATA"
        BY <2>5, <3>1
      <4> QED
        BY <2>5, <2>6, <2>7, <4>1, <4>2, <4>3 DEF RxInv
    <3>2. CASE rx.state = "STOP"
      <4>1. Clocked /\ Sampled = ByteBits /\ rx.shift = Current
        BY <1>1, <3>2 DEF RxInv
      <4>2. Line' = StopBit
        BY <1>9, <1>14, <2>4, <3>2
      <4>3. rx'.state = "STOP"
        BY <2>5, <3>2
      <4> QED
        BY <2>5, <2>6, <2>7, <4>1, <4>2, <4>3 DEF RxInv
    <3> QED
      BY <1>18, <3>1, <3>2
  <2> QED
    BY <1>13, <1>16, <2>8 DEF Received
<1> QED
  BY <1>14, <1>17, <1>18

\* There is no cell after the last: the line is idle.
LEMMA TapeRunsOut ==
  ASSUME LoadInv, Loading, RxTick, TapeAdvances, ~(played < Len(TapeSound)), played' = played,
         UNCHANGED <<got, setup, tape>>
  PROVE  Received'
<1>1. /\ LineInv /\ RxInv /\ GotInv /\ SetupInv /\ TapeInv /\ LockInv /\ setup = "done"
      /\ Received
  BY DEF LoadInv, Received, Loading
<1>2. /\ rxBit' = BitOnTape /\ NextBit /\ Heard = ctl.div
      /\ ~lastCarrier' => /\ lock' = 0
                          /\ ~carrier' /\ rx' = (IF carrier THEN Silenced ELSE rx)
  BY <1>1, BitIsCounted
<1>3. /\ At' = At /\ Before' = Before /\ TapeBytes' = TapeBytes /\ TapeSound' = TapeSound
  BY DEF At, Before, TapeBytes, TapeSound
<1>4. [bit |-> BitOnTape, carrier |-> lastCarrier'] = [bit |-> 1, carrier |-> FALSE]
  BY <1>1, <1>2, NextBitIsNext DEF TapeInv
<1>5. rxBit' = 1 /\ ~lastCarrier'
  <2>1. BitOnTape = 1 /\ lastCarrier' = FALSE
    <3>1. [bit |-> BitOnTape, carrier |-> lastCarrier'].bit = BitOnTape
          /\ [bit |-> BitOnTape, carrier |-> lastCarrier'].carrier = lastCarrier'
          /\ [bit |-> 1, carrier |-> FALSE].bit = 1
          /\ [bit |-> 1, carrier |-> FALSE].carrier = FALSE
      BY Zenon
    <3> QED
      BY <1>4, <3>1, Zenon
  <2> QED
    BY <1>2, <2>1
<1>6. rx \in Receiver /\ ByteBits \in Nat \ {0} /\ StopBit = ByteBits + 1 /\ Mark = ByteBits + 2
  BY <1>1, FrameSizes DEF SetupInv
<1>7. lock' = 0 /\ ~carrier' /\ rx'.state = "IDLE"
  <2>1. CASE carrier
    BY <1>2, <1>5, <1>6, <2>1 DEF Receiver, Silenced
  <2>2. CASE ~carrier
    <3>1. rx.state = "IDLE"
      BY <1>1, <2>2 DEF RxInv
    <3> QED
      BY <1>2, <1>5, <2>2, <3>1
  <2> QED
    BY <2>1, <2>2
<1>8. Line' = Mark
  BY <1>7 DEF Line
<1>9. /\ played = Len(TapeSound) /\ At[played] > ByteBits /\ At[played] \in 0..Mark
      /\ Before[played] \in Nat
  <2>1. /\ played \in 0..Len(TapeSound) /\ TapeSound \in Seq(Samples)
        /\ Reads(At, Before, TapeSound, TapeBytes)
        /\ At[played] \in 0..Mark /\ Before[played] \in Nat
    BY <1>1, PlayedFacts DEF Loading
  <2>2. played = Len(TapeSound)
    BY <2>1
  <2>3. At[Len(TapeSound)] > ByteBits
    BY <2>1 DEF Reads
  <2> QED
    BY <2>1, <2>2, <2>3
<1>10. LineInv'
  BY <1>3, <1>5, <1>6, <1>7, <1>8, <1>9 DEF LineInv, CellBit
<1>11. RxInv'
  BY <1>7, <1>8 DEF RxInv
<1>12. GotInv'
  <2>1. Len(got) = Before[played] + Ended(At[played])
    BY <1>1, <1>2, CellIsTaken
  <2>2. StopTaken' <=> At[played] = StopBit
    BY <1>3, <1>7 DEF StopTaken
  <2>3. Len(got) = IF StopTaken' THEN Before[played] + 1 ELSE Before[played]
    BY <1>9, <2>1, <2>2 DEF Ended
  <2> QED
    BY <1>1, <1>3, <2>3 DEF GotInv
<1> QED
  BY <1>10, <1>11, <1>12 DEF Received

\* A tick in which a bit of the tape is read leaves the machine set up.
LEMMA ReadingTickSetup ==
  ASSUME SetupInv, LockInv, setup = "done", RxTick, TapeAdvances, UNCHANGED <<got, setup>>
  PROVE  SetupInv'
<1>1. /\ stage' = "clock" /\ counter' = 0 /\ scr' = scr /\ port' = port /\ ctl' = ctl
      /\ rx' = rx \/ rx' = Silenced
  BY BitIsCounted
<1>2. rx \in Receiver /\ ctl.div \in Nat \ {0}
  BY DEF SetupInv
<1>3. rx' \in Receiver
  <2>1. "IDLE" \in RxStates /\ 0 \in Counts
    BY AciaAssumption DEF AciaAssumption, RxStates, Counts
  <2>2. Silenced \in Receiver
    BY <1>2, <2>1 DEF Silenced, Receiver
  <2> QED
    BY <1>1, <1>2, <2>2
<1>4. counter' \in 0..(ctl'.div - 1)
  BY <1>1, <1>2
<1> QED
  BY <1>1, <1>3, <1>4 DEF SetupInv

\* A step that touches neither chip nor tape, as while the divider counts.
LEMMA QuietStep ==
  ASSUME LoadInv, UNCHANGED <<vars, tapeVars, ulaVars, stage, setup, tape, played, got>>
  PROVE  SetupInv' /\ (Loading' => Received')
<1>1. /\ UNCHANGED <<setup, tape, played, got, stage, scr, port, counter, rxBit, lock>>
      /\ UNCHANGED <<ctl, rx, carrier>>
  BY DEF vars, ulaVars
<1>2. /\ At' = At /\ Before' = Before /\ TapeBytes' = TapeBytes /\ TapeSound' = TapeSound
      /\ Confirm' = Confirm /\ (WellRecorded' <=> WellRecorded)
  BY <1>1 DEF At, Before, TapeBytes, TapeSound, Confirm, WellRecorded
<1>3. Line' = Line /\ Current' = Current /\ Heard' = Heard
  BY <1>1, <1>2 DEF Line, Current, Heard
<1>4. Sampled' = Sampled /\ (StopTaken' <=> StopTaken)
  BY <1>1, <1>2, <1>3 DEF Sampled, StopTaken
<1>5. Clocked' <=> Clocked
  BY <1>1, <1>2, <1>3 DEF Clocked
<1>6. LineInv => LineInv'
  BY <1>1, <1>2, <1>3 DEF LineInv
<1>7. RxInv => RxInv'
  BY <1>1, <1>2, <1>3, <1>4, <1>5 DEF RxInv
<1>8. GotInv => GotInv'
  BY <1>1, <1>2, <1>4, GotStays
<1>9. Loading' <=> Loading
  BY <1>1, <1>2 DEF Loading
<1>10. SetupInv'
  BY <1>1 DEF SetupInv, LoadInv
<1> QED
  BY <1>6, <1>7, <1>8, <1>9, <1>10 DEF LoadInv, Received

\* A step while a tape is loaded.
LEMMA PlayingStep ==
  ASSUME LoadInv, Playing
  PROVE  SetupInv' /\ (Loading' => Received')
<1>1. setup = "done" /\ setup' = setup /\ tape' = tape /\ SetupInv /\ LockInv /\ TapeInv
  BY DEF Playing, LoadInv
<1>2. WellRecorded' <=> WellRecorded
  BY <1>1 DEF WellRecorded
<1>3. CASE Tick /\ UNCHANGED got
  <2>1. RxTick /\ played' = (IF BitRead /\ played < Len(TapeSound) THEN played + 1 ELSE played)
    BY <1>3 DEF Tick
  <2>2. BitRead <=> TapeAdvances
    BY <1>1 DEF SetupInv, BitRead
  <2>3. SetupInv'
    <3>1. CASE TapeAdvances
      BY <1>1, <1>3, <2>1, <3>1, ReadingTickSetup
    <3>2. CASE ~TapeAdvances
      <4>1. /\ stage = "idle" /\ stage' = "clock" /\ counter' = counter + 1
            /\ UNCHANGED <<vars, scr, port>>
        BY <2>1, <3>2 DEF RxTick
      <4>2. counter + 1 \in 0..(ctl.div - 1) /\ ctl' = ctl /\ rx' = rx
        BY <1>1, <3>2, <4>1, ClockFacts DEF TapeAdvances, vars
      <4> QED
        BY <1>1, <4>1, <4>2 DEF SetupInv
    <3> QED
      BY <3>1, <3>2
  <2>4. ASSUME Loading PROVE Received'
    <3>1. CASE ~TapeAdvances
      BY <1>1, <1>3, <2>1, <2>2, <2>4, <3>1, WaitingTick
    <3>2. CASE TapeAdvances /\ played < Len(TapeSound)
      BY <1>1, <1>3, <2>1, <2>2, <2>4, <3>2, NextCell
    <3>3. CASE TapeAdvances /\ ~(played < Len(TapeSound))
      BY <1>1, <1>3, <2>1, <2>2, <2>4, <3>3, TapeRunsOut
    <3> QED
      BY <3>1, <3>2, <3>3
  <2> QED
    BY <1>1, <1>2, <2>3, <2>4 DEF Loading
<1>4. CASE /\ ClockReceiver
           /\ got' = IF Completes THEN Append(got, [char |-> rx.shift, stop |-> rxBit]) ELSE got
           /\ UNCHANGED played
  <2>1. ASSUME Loading PROVE Received'
    BY <1>1, <1>4, <2>1, ClockStep
  <2>2. SetupInv'
    BY <1>1, <1>4, ClockSetup DEF TapeInv
  <2> QED
    BY <1>1, <1>2, <2>1, <2>2 DEF Loading
<1>5. CASE stage = "idle" /\ (ReadStatus \/ ReadRdr)
           /\ UNCHANGED <<tapeVars, ulaVars, divider, stage, got, played>>
  <2>1. ASSUME Loading PROVE SetupInv' /\ Received'
    BY <1>1, <1>5, <2>1, RegisterStep
  <2>2. SetupInv'
    <3>1. rx \in Receiver
      BY <1>1 DEF SetupInv
    <3>2. rx' \in Receiver /\ ctl' = ctl
      BY <1>5, <3>1 DEF ReadStatus, ReadRdr, Receiver
    <3> QED
      BY <1>1, <1>5, <3>2 DEF SetupInv, ulaVars
  <2> QED
    BY <1>1, <1>2, <2>1, <2>2 DEF Loading
<1>6. CASE Divide /\ UNCHANGED <<got, played>>
  BY <1>1, <1>6, QuietStep DEF Divide
<1> QED
  BY <1>3, <1>4, <1>5, <1>6 DEF Playing

\* The machine at power on.
LEMMA SetupInit == LoadInit => SetupInv /\ ~Loading
<1> SUFFICES ASSUME LoadInit PROVE SetupInv /\ ~Loading
  OBVIOUS
<1>1. /\ setup \in {"free", "reset"} /\ got = <<>> /\ stage = "idle" /\ counter = 0 /\ rxBit = 1
      /\ lock = 0 /\ carrier = FALSE /\ port = [present |-> FALSE, motor |-> FALSE]
      /\ rx = UnusedReceiver
  BY DEF LoadInit, CInit, Init
<1>2. UnusedReceiver \in Receiver /\ UnusedReceiver.state = "IDLE"
  BY AciaAssumption DEF AciaAssumption, UnusedReceiver, Receiver, Zero, Word, Counts, RxStates
<1>3. port.present = FALSE
  BY <1>1
<1> QED
  BY <1>1, <1>2, <1>3 DEF SetupInv, Loading

\* A machine that is used freely is never a machine that loads.
LEMMA FreeStep ==
  ASSUME LoadInv, FreeTick \/ FreeDivide \/ FreeClock \/ FreeMotor \/ FreeUse
  PROVE  SetupInv' /\ ~Loading'
<1>1. setup = "free" /\ setup' = "free"
  BY DEF FreeTick, FreeDivide, FreeClock, FreeMotor, FreeUse
<1> QED
  BY <1>1 DEF SetupInv, Loading

\* The tape is inserted at its beginning, into a machine that is set up.
LEMMA InsertStep ==
  ASSUME LoadInv, TapeInv', LockInv', setup = "tape", setup' = "done", NEW t, Insert(t), got' = got
  PROVE  SetupInv' /\ (Loading' => Received')
<1>1. /\ stage = "idle" /\ counter = 0 /\ rxBit = 1 /\ lock = 0 /\ got = <<>>
      /\ ~carrier /\ rx.state = "IDLE" /\ scr.motor /\ rx \in Receiver
      /\ ctl.div \in Nat \ {0} /\ ctl.word = LongWord /\ ctl.parity = 0
  BY DEF LoadInv, SetupInv
<1>2. /\ UNCHANGED <<vars, scr, counter, rxBit, lock, stage>> /\ played' = 0
      /\ port' = [present |-> TRUE, motor |-> scr.motor]
  BY DEF Insert, LoadTape
<1>3. rx' = rx /\ ctl' = ctl /\ carrier' = carrier
  BY <1>2 DEF vars
<1>4. SetupInv'
  <2>1. port'.motor
    BY <1>1, <1>2
  <2>2. counter' \in 0..(ctl'.div - 1)
    BY <1>1, <1>2, <1>3
  <2> QED
    BY <1>1, <1>2, <1>3, <2>1, <2>2 DEF SetupInv
<1>5. ASSUME Loading' PROVE Received'
  <2>1. /\ Reads(At, Before, TapeSound, TapeBytes)' /\ (TapeBytes \in Seq(Byte))'
    BY <1>5, PlayedFacts, PTL DEF Loading
  <2>2. At'[0] = Mark /\ Before'[0] = 0 /\ Len(TapeBytes') \in Nat
    BY <2>1 DEF Reads
  <2>3. Line' = Mark
    BY <1>1, <1>2 DEF Line
  <2>4. ByteBits \in Nat \ {0} /\ StopBit = ByteBits + 1 /\ Mark = ByteBits + 2
        /\ LockThreshold \in Nat \ {0}
    BY FrameSizes
  <2>5. LineInv'
    <3>1. \A m \in 0..LockThreshold : m <= 0 => 0 >= m
      BY <2>4
    <3>2. At'[0] > ByteBits /\ At'[0] # StopBit /\ CellBit(Mark, Current') = 1
      BY <2>2, <2>4 DEF CellBit
    <3> QED
      BY <1>1, <1>2, <2>3, <2>4, <3>1, <3>2 DEF LineInv
  <2>6. RxInv'
    BY <1>1, <1>2, <1>3, <2>3 DEF RxInv
  <2>7. GotInv'
    <3>1. ~StopTaken'
      BY <1>2, <2>2, <2>4 DEF StopTaken
    <3>2. got' = <<>> /\ Len(<<>>) = 0
      BY <1>1
    <3> QED
      BY <1>2, <2>2, <3>1, <3>2 DEF GotInv
  <2> QED
    BY <2>5, <2>6, <2>7 DEF Received
<1> QED
  BY <1>4, <1>5

\* The other steps of setting up.
LEMMA SetupStep ==
  ASSUME LoadInv, Setup, setup # "tape"
  PROVE  SetupInv' /\ ~Loading'
<1>1. /\ stage = "idle" /\ counter = 0 /\ rxBit = 1 /\ lock = 0 /\ got = <<>>
      /\ ~carrier /\ ~port.present /\ rx.state = "IDLE" /\ rx \in Receiver
      /\ setup \in {"motor", "tape", "done"} =>
           ctl.div \in Nat \ {0} /\ ctl.word = LongWord /\ ctl.parity = 0
  BY DEF LoadInv, SetupInv, Setup
<1>2. CASE setup = "reset" /\ MasterReset /\ setup' = "control"
           /\ UNCHANGED <<tapeVars, ulaVars, divider, stage, tape, played>> /\ got' = got
  <2>1. carrier' = carrier
        /\ rx' = [rx EXCEPT !.full = FALSE, !.data = Zero, !.shift = Zero, !.parity = 0,
                            !.count = 0, !.overrunPending = FALSE, !.overrun = FALSE,
                            !.state = "IDLE"]
    BY <1>2 DEF MasterReset
  <2>2. Zero \in Word /\ 0 \in Counts /\ "IDLE" \in RxStates
    BY AciaAssumption DEF AciaAssumption, Zero, Word, Counts, RxStates
  <2>3. rx' \in Receiver /\ rx'.state = "IDLE"
    BY <1>1, <2>1, <2>2 DEF Receiver
  <2> QED
    BY <1>1, <1>2, <2>1, <2>3 DEF SetupInv, Loading, ulaVars
<1>3. CASE setup = "control" /\ (\E c \in ControlWords : c.word \in {4, 5} /\ WriteControl(c))
           /\ setup' = "motor"
           /\ UNCHANGED <<tapeVars, ulaVars, divider, stage, tape, played>> /\ got' = got
  <2>1. PICK c \in ControlWords : c.word \in {4, 5} /\ WriteControl(c)
    BY <1>3
  <2>2. ctl' = Protocol(c) /\ carrier' = carrier /\ rx' = rx
    BY <2>1 DEF WriteControl
  <2>3. c.div \in Nat \ {0}
    BY AciaAssumption DEF AciaAssumption, Control
  <2>4. Protocol(c).div = c.div /\ Protocol(c).word = LongWord /\ Protocol(c).parity = 0
    BY <2>1 DEF Protocol
  <2> QED
    BY <1>1, <1>3, <2>2, <2>3, <2>4 DEF SetupInv, Loading, ulaVars
<1>4. CASE setup = "motor" /\ WriteScr([motor |-> TRUE, rs423 |-> FALSE]) /\ setup' = "tape"
           /\ UNCHANGED <<tape, played>> /\ got' = got
  <2>1. /\ scr' = [motor |-> TRUE, rs423 |-> FALSE] /\ stage' = "idle"
        /\ UNCHANGED <<tapeVars, port, counter, rxBit, lock>>
        /\ ClearCts \/ UNCHANGED vars
    BY <1>1, <1>4 DEF WriteScr, SelectInput
  <2>2. ctl' = ctl /\ rx' = rx /\ carrier' = carrier
    BY <2>1 DEF ClearCts, vars
  <2> QED
    BY <1>1, <1>4, <2>1, <2>2 DEF SetupInv, Loading
<1> QED
  BY <1>2, <1>3, <1>4 DEF Setup

\* Every step keeps the receiver in step with the tape.
LEMMA LoadStep == LoadInv /\ [LoadNext]_loadVars => LoadInv'
<1> SUFFICES ASSUME LoadInv, [LoadNext]_loadVars PROVE LoadInv'
  OBVIOUS
<1>1. TapeInv' /\ LockInv'
  BY LoadKeepsPlace, LoadKeepsLock DEF LoadInv
<1>2. SetupInv' /\ (Loading' => Received')
  <2>1. CASE FreeTick \/ FreeDivide \/ FreeClock \/ FreeMotor \/ FreeUse
    BY <2>1, FreeStep
  <2>2. CASE Setup /\ setup # "tape"
    BY <2>2, SetupStep
  <2>3. CASE Setup /\ setup = "tape"
    <3>1. PICK t \in Recordings : Insert(t)
      BY <2>3 DEF Setup
    <3>2. setup' = "done" /\ got' = got
      BY <2>3 DEF Setup
    <3> QED
      BY <1>1, <2>3, <3>1, <3>2, InsertStep
  <2>4. CASE Playing
    BY <2>4, PlayingStep
  <2>5. CASE UNCHANGED loadVars
    BY <2>5, QuietStep DEF loadVars, cvars
  <2> QED
    BY <2>1, <2>2, <2>3, <2>4, <2>5 DEF LoadNext
<1> QED
  BY <1>1, <1>2 DEF LoadInv

\* A sequence that agrees with another as far as it goes is a prefix of it.
LEMMA PrefixByElements ==
  ASSUME NEW V, NEW s \in Seq(V), NEW t \in Seq(V), Len(s) <= Len(t),
         \A i \in 1..Len(s) : s[i] = t[i]
  PROVE  /\ IsPrefix(s, t)
         /\ Len(s) = Len(t) => s = t
<1>1. Len(s) \in Nat /\ Len(t) \in Nat
  OBVIOUS
<1>2. SubSeq(s, 1, Len(s)) = SubSeq(t, 1, Len(s))
  <2>1. SubSeq(s, 1, Len(s)) \in Seq(V) /\ SubSeq(t, 1, Len(s)) \in Seq(V)
    BY <1>1
  <2>2. Len(SubSeq(s, 1, Len(s))) = Len(s) /\ Len(SubSeq(t, 1, Len(s))) = Len(s)
    BY <1>1
  <2>3. \A i \in 1..Len(s) : SubSeq(s, 1, Len(s))[i] = s[i] /\ SubSeq(t, 1, Len(s))[i] = t[i]
    BY <1>1
  <2> QED
    BY <2>1, <2>2, <2>3, SeqEqual
<1>3. Len(s) = Len(t) => s = t
  BY SeqEqual
<1> QED
  BY <1>2, <1>3 DEF IsPrefix

\* The receiver in step is a faithful load.
LEMMA InStepIsFaithful == LoadInv => LoadIsFaithful
<1> SUFFICES ASSUME LoadInv, setup = "done", WellRecorded PROVE LoadIsFaithful
  BY DEF LoadIsFaithful
<1> DEFINE bytes == [i \in DOMAIN TapeBytes |-> [char |-> TapeBytes[i], stop |-> 1]]
           V == [char : Word, stop : {0, 1}]
<1>1. LineInv /\ GotInv /\ TapeInv /\ LockInv /\ Loading
  BY DEF LoadInv, Received, Loading
<1>2. /\ Reads(At, Before, TapeSound, TapeBytes) /\ TapeBytes \in Seq(Byte) /\ Byte = Word
      /\ EndOfTape <=> played = Len(TapeSound)
      /\ Before[played] \in Nat /\ At[played] \in 0..Mark
  BY <1>1, PlayedFacts, FrameSizes
<1>3. bytes \in Seq(V) /\ Len(bytes) = Len(TapeBytes)
      /\ \A i \in 1..Len(TapeBytes) : bytes[i] = [char |-> TapeBytes[i], stop |-> 1]
  <2>1. DOMAIN TapeBytes = 1..Len(TapeBytes) /\ Len(TapeBytes) \in Nat
        /\ \A i \in 1..Len(TapeBytes) : TapeBytes[i] \in Word
    BY <1>2
  <2> QED
    BY <2>1
<1>4. got \in Seq(V) /\ Len(got) <= Len(bytes) /\ \A i \in 1..Len(got) : got[i] = bytes[i]
  <2>1. /\ got \in Seq(V) /\ Len(got) <= Len(TapeBytes)
        /\ \A i \in 1..Len(got) : got[i] = [char |-> TapeBytes[i], stop |-> 1]
    BY <1>1 DEF GotInv
  <2>2. \A i \in 1..Len(got) : i \in 1..Len(TapeBytes)
    BY <1>2, <2>1
  <2> QED
    BY <1>3, <2>1, <2>2
<1> HIDE DEF bytes, V
<1>5. IsPrefix(got, bytes) /\ (Len(got) = Len(bytes) => got = bytes)
  BY <1>4, <1>3, PrefixByElements
<1>6. ASSUME TapeOver PROVE Len(got) = Len(bytes)
  <2>1. ~carrier /\ played = Len(TapeSound)
    BY <1>2, <1>6 DEF TapeOver
  <2>2. Before[played] + Ended(At[played]) = Len(TapeBytes)
    BY <1>2, <2>1 DEF Reads
  <2>3. Line = Mark /\ lock \in Nat
    BY <1>1, <2>1, LineFacts
  <2>4. Mark # StopBit
    BY FrameSizes
  <2>5. CASE At[played] = StopBit
    <3>1. StopTaken /\ Ended(At[played]) = 1
      BY <2>3, <2>4, <2>5 DEF StopTaken, Line, Ended
    <3> QED
      BY <1>1, <1>2, <1>3, <2>2, <3>1 DEF GotInv
  <2>6. CASE At[played] # StopBit
    <3>1. ~StopTaken /\ Ended(At[played]) = 0
      BY <2>6 DEF StopTaken, Ended
    <3> QED
      BY <1>1, <1>2, <1>3, <2>2, <3>1 DEF GotInv
  <2> QED
    BY <2>5, <2>6
<1> QED
  BY <1>5, <1>6, Zenon DEF LoadIsFaithful, bytes

\* Every recording, of any blocks, leaders and gaps and any length, is loaded
\* byte for byte with any clock divisor and lock threshold.
THEOREM LoadsAreFaithful == LoadSpec => []LoadIsFaithful
<1>1. LoadInit => LoadInv
  BY SetupInit, PlaceInit, LockInit DEF LoadInv, TapeInv, LoadInit, CInit
<1> QED
  BY <1>1, LoadStep, InStepIsFaithful, PTL DEF LoadSpec
=============================================================================
