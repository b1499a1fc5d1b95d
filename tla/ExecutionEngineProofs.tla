----------------------- MODULE ExecutionEngineProofs -----------------------
(***************************************************************************)
(* Breakpoints and watches of the execution engine, for every set of       *)
(* addresses, cells and values, and the history, which implements          *)
(* RecentInstructions for every capacity and every set of records.         *)
(***************************************************************************)
EXTENDS ExecutionEngine, TLAPS

\* The control state and the tables are of their types; the history's part is
\* HistoryTypeCorrect, below.
EngineTypeOK ==
  /\ pc \in Addrs
  /\ mem \in [Cells -> Vals]
  /\ DOMAIN watches \subseteq Cells
  /\ watches \in [DOMAIN watches -> Watch]
  /\ held \in [Cells -> SUBSET Vals]

\* Refreshing keeps the watches and their triggers.
LEMMA RefreshType ==
  ASSUME EngineTypeOK, NEW m \in [Cells -> Vals], NEW S
  PROVE  /\ DOMAIN Refresh(watches, m, S) = DOMAIN watches
         /\ Refresh(watches, m, S) \in [DOMAIN watches -> Watch]
         /\ \A c \in DOMAIN watches :
              /\ Refresh(watches, m, S)[c].trigger = watches[c].trigger
              /\ Refresh(watches, m, S)[c].shadow = IF c \in S THEN m[c] ELSE watches[c].shadow
  BY DEF EngineTypeOK, Refresh, Watch

\* What an iteration of run() does to the watches.
LEMMA IterationWatches ==
  ASSUME EngineTypeOK, NEW m \in [Cells -> Vals],
         \/ WatchesQuiet(m)
         \/ \E c \in DOMAIN watches, S \in SUBSET DOMAIN watches : WatchTriggers(c, S, m)
  PROVE  /\ DOMAIN watches' = DOMAIN watches
         /\ watches' \in [DOMAIN watches -> Watch]
         /\ \A c \in DOMAIN watches : watches'[c].shadow \in {m[c], watches[c].shadow}
<1>1. PICK S : watches' = Refresh(watches, m, S)
  BY DEF WatchesQuiet, WatchTriggers
<1>2. QED
  BY <1>1, RefreshType

\* Every step of the engine keeps its types.
LEMMA EngineTypeStep ==
  EngineTypeOK /\ [Next]_vars => EngineTypeOK'
<1> SUFFICES ASSUME EngineTypeOK, [Next]_vars PROVE EngineTypeOK'
  OBVIOUS
<1>1. ASSUME NEW a \in Addrs, NEW m \in [Cells -> Vals], Instruction(a, m)
      PROVE  /\ pc' \in Addrs /\ mem' \in [Cells -> Vals]
             /\ held' \in [Cells -> SUBSET Vals]
  BY <1>1 DEF EngineTypeOK, Instruction, Write
<1>2. CASE EnterRun
  BY <1>2 DEF EngineTypeOK, EnterRun, board, tables
<1>3. CASE RunPaused
  BY <1>1, <1>3 DEF EngineTypeOK, RunPaused, tables
<1>4. CASE RunStops
  BY <1>1, <1>4 DEF EngineTypeOK, RunStops, tables
<1>5. CASE RunWatchStops
  BY <1>1, <1>5, IterationWatches DEF EngineTypeOK, RunWatchStops
<1>6. CASE RunContinues
  BY <1>1, <1>6, IterationWatches DEF EngineTypeOK, RunContinues
<1>7. CASE StepInstruction
  BY <1>1, <1>7 DEF EngineTypeOK, StepInstruction, tables
<1>8. CASE StepOut \/ Pause \/ Resume
  BY <1>8 DEF EngineTypeOK, StepOut, Pause, Resume, board, tables, ghosts
<1>9. CASE Reset
  BY <1>9 DEF EngineTypeOK, Reset, tables, ghosts
<1>10. CASE \E a \in Addrs : AddBreakpoint(a) \/ RemoveBreakpoint(a)
  BY <1>10 DEF EngineTypeOK, AddBreakpoint, RemoveBreakpoint, board, ghosts
<1>11. ASSUME NEW c \in Cells, NEW t \in Vals \cup {AnyValue}, AddWatch(c, t)
       PROVE  EngineTypeOK'
  BY <1>11 DEF EngineTypeOK, AddWatch, Watch, board
<1>12. ASSUME NEW c \in Cells, RemoveWatch(c) PROVE EngineTypeOK'
  BY <1>12 DEF EngineTypeOK, RemoveWatch, board
<1>13. ASSUME NEW c \in Cells, NEW v \in Vals, LoadCode(c, v) PROVE EngineTypeOK'
  <2>1. [mem EXCEPT ![c] = v] \in [Cells -> Vals]
    BY DEF EngineTypeOK
  <2>2. QED
    BY <1>13, <2>1 DEF EngineTypeOK, LoadCode, Write, tables
<1>14. CASE UNCHANGED vars
  BY <1>14 DEF EngineTypeOK, vars, board, tables, ghosts
<1>15. QED
  BY <1>2, <1>3, <1>4, <1>5, <1>6, <1>7, <1>8, <1>9, <1>10, <1>11, <1>12,
     <1>13, <1>14 DEF Next

\* The types of the engine are invariant.
LEMMA EngineTypeInvariant == Spec => []EngineTypeOK
<1>1. Init => EngineTypeOK
  BY DEF Init, EngineTypeOK
<1>2. QED
  BY <1>1, EngineTypeStep, PTL DEF Spec

-----------------------------------------------------------------------------
\* Every step keeps a run from passing a breakpoint.
LEMMA BreakpointStep ==
  RunPassesNoBreakpoint /\ [Next]_vars => RunPassesNoBreakpoint'
<1> SUFFICES ASSUME RunPassesNoBreakpoint, [Next]_vars PROVE RunPassesNoBreakpoint'
  OBVIOUS
<1> USE DEF RunPassesNoBreakpoint
<1>1. CASE EnterRun
  BY <1>1 DEF EnterRun
<1>2. CASE RunPaused \/ RunStops \/ RunWatchStops
  BY <1>2 DEF RunPaused, RunStops, RunWatchStops
<1>3. CASE RunContinues
  BY <1>3 DEF RunContinues, Instruction, StopAt
<1>4. CASE StepInstruction \/ Reset
  BY <1>4 DEF StepInstruction, Reset, control
<1>5. CASE StepOut \/ Pause \/ Resume
  BY <1>5 DEF StepOut, Pause, Resume, board, tables, ghosts
<1>6. ASSUME NEW a \in Addrs, AddBreakpoint(a) PROVE RunPassesNoBreakpoint'
  BY <1>6 DEF AddBreakpoint, board, control
<1>7. ASSUME NEW a \in Addrs, RemoveBreakpoint(a) PROVE RunPassesNoBreakpoint'
  BY <1>7 DEF RemoveBreakpoint, board, control, ghosts
<1>8. ASSUME NEW c \in Cells,
             \/ \E t \in Vals \cup {AnyValue} : AddWatch(c, t)
             \/ RemoveWatch(c)
             \/ \E v \in Vals : LoadCode(c, v)
      PROVE  RunPassesNoBreakpoint'
  BY <1>8 DEF AddWatch, RemoveWatch, LoadCode, board, control, tables
<1>9. CASE UNCHANGED vars
  BY <1>9 DEF vars, board, control, tables, ghosts
<1>10. QED
  BY <1>1, <1>2, <1>3, <1>4, <1>5, <1>6, <1>7, <1>8, <1>9 DEF Next

\* run() never executes an instruction at a breakpoint that was set when it
\* last looked, except the one it starts with.
THEOREM BreakpointsStop == Spec => []RunPassesNoBreakpoint
<1>1. Init => RunPassesNoBreakpoint
  BY DEF Init, RunPassesNoBreakpoint
<1>2. QED
  BY <1>1, BreakpointStep, PTL DEF Spec

-----------------------------------------------------------------------------
\* Every step reports the watches it triggers.
LEMMA UnreportedStep ==
  EngineTypeOK /\ NothingUnreported /\ [Next]_vars => NothingUnreported'
<1> SUFFICES ASSUME EngineTypeOK, NothingUnreported, [Next]_vars PROVE NothingUnreported'
  OBVIOUS
<1> USE DEF NothingUnreported
<1>1. CASE EnterRun
  BY <1>1 DEF EnterRun
<1>2. CASE RunPaused \/ RunStops \/ RunWatchStops
  BY <1>2 DEF RunPaused, RunStops, RunWatchStops
<1>3. CASE RunContinues
  <2>1. PICK m \in [Cells -> Vals] : mem' = m /\ WatchesQuiet(m)
    BY <1>3 DEF RunContinues, Instruction, Write
  <2>2. watches' = Refresh(watches, m, DOMAIN watches)
    BY <2>1 DEF WatchesQuiet
  <2>3. \A c \in DOMAIN watches' : watches'[c].shadow = mem'[c]
    BY <2>1, <2>2, RefreshType
  <2>4. QED
    BY <2>3
<1>4. CASE StepInstruction \/ Reset
  BY <1>4 DEF StepInstruction, Reset, control
<1>5. CASE StepOut \/ Pause \/ Resume
  BY <1>5 DEF StepOut, Pause, Resume, board, tables, ghosts
<1>6. CASE \E a \in Addrs : AddBreakpoint(a) \/ RemoveBreakpoint(a)
  <2>1. UNCHANGED <<mem, inRun, watches, first, poked>>
    BY <1>6 DEF AddBreakpoint, RemoveBreakpoint, board, control, ghosts
  <2>2. QED
    BY <2>1
<1>7. ASSUME NEW c \in Cells, NEW t \in Vals \cup {AnyValue}, AddWatch(c, t)
      PROVE  NothingUnreported'
  BY <1>7 DEF AddWatch, EngineTypeOK, board, control
<1>8. ASSUME NEW c \in Cells, RemoveWatch(c) PROVE NothingUnreported'
  BY <1>8 DEF RemoveWatch, board, control
<1>9. ASSUME NEW c \in Cells, NEW v \in Vals, LoadCode(c, v) PROVE NothingUnreported'
  BY <1>9 DEF LoadCode, Write, EngineTypeOK, control, tables
<1>10. CASE UNCHANGED vars
  BY <1>10 DEF vars, board, control, tables, ghosts
<1>11. QED
  BY <1>1, <1>2, <1>3, <1>4, <1>5, <1>6, <1>7, <1>8, <1>9, <1>10 DEF Next

\* Between two instructions of run() no watch has anything to report, except
\* what load_code() has just written.
THEOREM WatchesAreCurrent == Spec => []NothingUnreported
<1>1. Init => NothingUnreported
  BY DEF Init, NothingUnreported
<1>2. QED
  BY <1>1, EngineTypeInvariant, UnreportedStep, PTL DEF Spec

-----------------------------------------------------------------------------
\* A shadow is a value its cell held while it was watched, and so is the value
\* in memory.
ShadowHeld ==
  \A c \in DOMAIN watches : watches[c].shadow \in held[c] /\ mem[c] \in held[c]

\* Every step keeps the shadows among the values held.
LEMMA ShadowStep ==
  EngineTypeOK /\ ShadowHeld /\ [Next]_vars => ShadowHeld'
<1> SUFFICES ASSUME EngineTypeOK, ShadowHeld, [Next]_vars PROVE ShadowHeld'
  OBVIOUS
<1> USE DEF ShadowHeld
<1>1. ASSUME NEW m \in [Cells -> Vals], Write(m)
      PROVE  \A c \in DOMAIN watches : /\ held[c] \subseteq held'[c]
                                       /\ m[c] \in held'[c]
                                       /\ mem'[c] \in held'[c]
  BY <1>1 DEF Write, EngineTypeOK
<1>2. CASE RunPaused \/ RunStops \/ StepInstruction
  BY <1>1, <1>2 DEF RunPaused, RunStops, StepInstruction, Instruction, tables
<1>3. CASE RunWatchStops \/ RunContinues
  <2>1. PICK m \in [Cells -> Vals] :
          /\ Write(m)
          /\ \/ WatchesQuiet(m)
             \/ \E c \in DOMAIN watches, S \in SUBSET DOMAIN watches : WatchTriggers(c, S, m)
    BY <1>3 DEF RunWatchStops, RunContinues, Instruction
  <2>2. QED
    BY <1>1, <2>1, IterationWatches
<1>4. CASE EnterRun \/ Reset
  BY <1>4 DEF EnterRun, Reset, board, tables, ghosts
<1>5. CASE StepOut \/ Pause \/ Resume
  BY <1>5 DEF StepOut, Pause, Resume, board, tables, ghosts
<1>6. CASE \E a \in Addrs : AddBreakpoint(a) \/ RemoveBreakpoint(a)
  BY <1>6 DEF AddBreakpoint, RemoveBreakpoint, board, control, ghosts
<1>7. ASSUME NEW c \in Cells, NEW t \in Vals \cup {AnyValue}, AddWatch(c, t)
      PROVE  ShadowHeld'
  BY <1>7 DEF AddWatch, EngineTypeOK, board
<1>8. ASSUME NEW c \in Cells, RemoveWatch(c) PROVE ShadowHeld'
  BY <1>8 DEF RemoveWatch, EngineTypeOK, board
<1>9. ASSUME NEW c \in Cells, NEW v \in Vals, LoadCode(c, v) PROVE ShadowHeld'
  <2>1. [mem EXCEPT ![c] = v] \in [Cells -> Vals]
    BY DEF EngineTypeOK
  <2>2. QED
    BY <1>1, <1>9, <2>1 DEF LoadCode, tables
<1>10. CASE UNCHANGED vars
  BY <1>10 DEF vars, board, tables, ghosts
<1>11. QED
  BY <1>2, <1>3, <1>4, <1>5, <1>6, <1>7, <1>8, <1>9, <1>10 DEF Next

\* The shadows are always among the values held.
LEMMA ShadowInvariant == Spec => []ShadowHeld
<1>1. Init => ShadowHeld
  BY DEF Init, ShadowHeld
<1>2. QED
  BY <1>1, EngineTypeInvariant, ShadowStep, PTL DEF Spec

\* Every report of a watch is true.
THEOREM ReportsAreTrue == Spec => WatchReportIsTrue
<1> DEFINE True == RunWatchStops =>
              LET r == lastTrigger' IN
                /\ r.old \in held[r.cell]
                /\ r.new = mem'[r.cell]
                /\ r.old # r.new
                /\ watches[r.cell].trigger \in {AnyValue, r.new}
<1>1. ShadowHeld /\ [Next]_vars => [True]_vars
  <2> SUFFICES ASSUME ShadowHeld, RunWatchStops PROVE True
    OBVIOUS
  <2>1. PICK m \in [Cells -> Vals], c \in DOMAIN watches, S \in SUBSET DOMAIN watches :
          mem' = m /\ WatchTriggers(c, S, m)
    BY DEF RunWatchStops, Instruction, Write
  <2>2. /\ lastTrigger' = [cell |-> c, old |-> watches[c].shadow, new |-> m[c]]
        /\ m[c] # watches[c].shadow
        /\ watches[c].trigger \in {AnyValue, m[c]}
    BY <2>1 DEF WatchTriggers, Triggered, Changed
  <2>3. QED
    BY <2>1, <2>2 DEF ShadowHeld
<1>2. QED
  BY <1>1, ShadowInvariant, PTL DEF Spec, WatchReportIsTrue

-----------------------------------------------------------------------------
(***************************************************************************)
(* The ring buffer, whatever the records are.                              *)
(***************************************************************************)
USE CapacityAssumption DEF CapacityAssumption

\* Indices wrap round at most once.
LEMMA WrapAround ==
  ASSUME NEW k \in 0..(2 * Capacity - 1)
  PROVE  /\ k < Capacity => k % Capacity = k
         /\ k >= Capacity => k % Capacity = k - Capacity
<1>1. k < Capacity => k % Capacity = k
  OBVIOUS
<1>2. k >= Capacity => k % Capacity = k - Capacity
  BY SMTT(30)
<1>3. QED
  BY <1>1, <1>2

\* The head moves to the next slot, and from the last one to the first.
LEMMA NextHead ==
  ASSUME NEW h \in 0..(Capacity - 1)
  PROVE  (h + 1) % Capacity = IF h + 1 < Capacity THEN h + 1 ELSE 0
<1>1. h + 1 \in 0..(2 * Capacity - 1)
  OBVIOUS
<1>2. QED
  BY <1>1, WrapAround

\* A function on 1..n is a sequence of length n.
LEMMA FunctionIsSeq ==
  ASSUME NEW S, NEW n \in Nat, NEW f \in [1..n -> S]
  PROVE  f \in Seq(S) /\ Len(f) = n
  OBVIOUS

-----------------------------------------------------------------------------
(***************************************************************************)
(* Until the buffer is full the records occupy 0..count-1 and the head is  *)
(* just behind them; afterwards every slot holds a record.                 *)
(***************************************************************************)
RingOK(b, h, n) ==
  /\ b \in [0..(Capacity - 1) -> Records \cup {Blank}]
  /\ h \in 0..(Capacity - 1)
  /\ n \in 0..Capacity
  /\ n < Capacity => h = n
  /\ \A i \in 0..(n - 1) : b[i] \in Records

HistoryInv == RingOK(buf, head, count)

\* The slots in use hold records, and the head is behind the last of them
\* until the buffer is full; so the indices and the count stay in range.
THEOREM HistoryInvariant == HistorySpec => []HistoryInv
<1>1. HistoryInit => HistoryInv
  BY DEF HistoryInit, HistoryInv, RingOK
<1>2. HistoryInv /\ [HistoryNext]_historyVars => HistoryInv'
  <2> SUFFICES ASSUME HistoryInv, [HistoryNext]_historyVars PROVE HistoryInv'
    OBVIOUS
  <2> USE DEF HistoryInv, RingOK
  <2>1. ASSUME NEW r \in Records, Record(r) PROVE HistoryInv'
    <3>1. head' = IF head + 1 < Capacity THEN head + 1 ELSE 0
      BY <2>1, NextHead DEF Record
    <3>2. /\ buf' \in [0..(Capacity - 1) -> Records \cup {Blank}]
          /\ head' \in 0..(Capacity - 1)
          /\ count' \in 0..Capacity
      BY <2>1, <3>1 DEF Record
    <3>3. count' < Capacity => head' = count'
      BY <2>1, <3>1 DEF Record
    <3>4. \A i \in 0..(count' - 1) : buf'[i] \in Records
      BY <2>1 DEF Record
    <3>5. QED
      BY <3>2, <3>3, <3>4
  <2>2. CASE UNCHANGED historyVars
    BY <2>2 DEF historyVars
  <2>3. QED
    BY <2>1, <2>2 DEF HistoryNext
<1>3. QED
  BY <1>1, <1>2, PTL DEF HistorySpec

\* The indices and the count stay in range.
THEOREM HistoryTypeCorrect == HistorySpec => []HistoryTypeOK
<1>1. HistoryInv => HistoryTypeOK
  BY DEF HistoryInv, RingOK, HistoryTypeOK
<1>2. QED
  BY <1>1, HistoryInvariant, PTL

-----------------------------------------------------------------------------
(***************************************************************************)
(* instruction_history() as a function of the three variables.             *)
(***************************************************************************)
Start(h, n) == IF n < Capacity THEN 0 ELSE h

ListOf(b, h, n) == [i \in 1..n |-> b[(Start(h, n) + i - 1) % Capacity]]

\* The element at i of the list that starts in slot s of a buffer b.
At(b, s, i) == IF s + i - 1 < Capacity THEN b[s + i - 1] ELSE b[s + i - 1 - Capacity]

\* instruction_history() reads the start slot and the ones after it, round
\* the end of the buffer.
LEMMA ReadSlot ==
  ASSUME NEW b, NEW s \in 0..(Capacity - 1), NEW i \in 1..Capacity
  PROVE  b[(s + i - 1) % Capacity] = At(b, s, i)
<1>1. s + i - 1 \in 0..(2 * Capacity - 1)
  OBVIOUS
<1>2. CASE s + i - 1 < Capacity
  <2>1. (s + i - 1) % Capacity = s + i - 1
    BY <1>1, <1>2, WrapAround
  <2>2. QED
    BY <1>2, <2>1 DEF At
<1>3. CASE s + i - 1 >= Capacity
  <2>1. (s + i - 1) % Capacity = s + i - 1 - Capacity
    BY <1>1, <1>3, WrapAround
  <2>2. ~(s + i - 1 < Capacity)
    BY <1>1, <1>3
  <2>3. QED
    BY <2>1, <2>2 DEF At
<1>4. QED
  BY <1>1, <1>2, <1>3

\* It returns a sequence of n records.
LEMMA ListShape ==
  ASSUME NEW b, NEW h, NEW n, RingOK(b, h, n)
  PROVE  /\ ListOf(b, h, n) \in Seq(Records)
         /\ Len(ListOf(b, h, n)) = n
         /\ \A i \in 1..n : ListOf(b, h, n)[i] = At(b, Start(h, n), i)
<1> DEFINE s == Start(h, n)
           L == ListOf(b, h, n)
<1>1. s \in 0..(Capacity - 1) /\ (n < Capacity => s = 0)
  BY DEF RingOK, Start
<1>2. n \in 0..Capacity /\ \A j \in 0..(n - 1) : b[j] \in Records
  BY DEF RingOK
<1> HIDE DEF s
<1>3. \A i \in 1..n : L[i] = At(b, s, i)
  <2> SUFFICES ASSUME NEW i \in 1..n PROVE L[i] = At(b, s, i)
    OBVIOUS
  <2>1. L[i] = b[(s + i - 1) % Capacity] /\ i \in 1..Capacity
    BY <1>2 DEF ListOf, s
  <2>2. QED
    BY <1>1, <2>1, ReadSlot
<1>4. \A i \in 1..n : At(b, s, i) \in Records
  BY <1>1, <1>2 DEF At
<1>5. L \in [1..n -> Records]
  BY <1>2, <1>3, <1>4 DEF ListOf
<1> HIDE DEF L
<1>6. L \in Seq(Records) /\ Len(L) = n
  BY <1>2, <1>5, FunctionIsSeq
<1>7. QED
  BY <1>3, <1>6 DEF s, L

\* The step from (b, h, n) to (c, g, m) that records r.
Recorded(b, h, n, c, g, m, r) ==
  /\ c = [b EXCEPT ![h] = r]
  /\ g = (h + 1) % Capacity
  /\ m = IF n < Capacity THEN n + 1 ELSE n

\* Recording r appends it to the list, after dropping the oldest record when
\* the buffer is full.
LEMMA RingStep ==
  ASSUME NEW b, NEW h, NEW n, RingOK(b, h, n),
         NEW c, NEW g, NEW m, RingOK(c, g, m),
         NEW r \in Records, Recorded(b, h, n, c, g, m, r)
  PROVE  ListOf(c, g, m) = IF n < Capacity THEN Append(ListOf(b, h, n), r)
                                           ELSE Append(Tail(ListOf(b, h, n)), r)
<1> DEFINE L == ListOf(b, h, n)
           M == ListOf(c, g, m)
<1>1. /\ L \in Seq(Records) /\ Len(L) = n
      /\ \A i \in 1..n : L[i] = At(b, Start(h, n), i)
  BY ListShape
<1>2. /\ M \in Seq(Records) /\ Len(M) = m
      /\ \A i \in 1..m : M[i] = At(c, Start(g, m), i)
  BY ListShape
<1>3. /\ h \in 0..(Capacity - 1) /\ n \in 0..Capacity
      /\ n < Capacity => h = n
      /\ g = IF h + 1 < Capacity THEN h + 1 ELSE 0
      /\ m = IF n < Capacity THEN n + 1 ELSE n
      /\ c[h] = r
      /\ \A j \in 0..(Capacity - 1) : j # h => c[j] = b[j]
  BY NextHead DEF RingOK, Recorded
<1> HIDE DEF L, M
<1>4. CASE n < Capacity
  <2> DEFINE A == Append(L, r)
  <2>1. m = n + 1 /\ Start(h, n) = 0 /\ Start(g, m) = 0
    BY <1>3, <1>4 DEF Start
  <2>2. A \in Seq(Records) /\ Len(A) = n + 1
    BY <1>1, <1>3
  <2>3. ASSUME NEW i \in 1..(n + 1) PROVE M[i] = A[i]
    <3>1. M[i] = c[i - 1]
      BY <1>2, <1>3, <1>4, <2>1 DEF At
    <3>2. CASE i = n + 1
      <4>1. A[i] = r
        BY <1>1, <1>3, <3>2
      <4>2. i - 1 = h
        BY <1>3, <1>4, <3>2
      <4>3. QED
        BY <1>3, <3>1, <4>1, <4>2
    <3>3. CASE i \in 1..n
      <4>1. A[i] = L[i]
        BY <1>1, <1>3, <3>3
      <4>2. L[i] = b[i - 1]
        BY <1>1, <1>3, <1>4, <2>1, <3>3 DEF At
      <4>3. i - 1 \in 0..(Capacity - 1) /\ i - 1 # h
        BY <1>3, <1>4, <3>3
      <4>4. QED
        BY <1>3, <3>1, <4>1, <4>2, <4>3
    <3>4. i = n + 1 \/ i \in 1..n
      BY <1>3
    <3>5. QED
      BY <3>2, <3>3, <3>4
  <2>4. M = A
    <3> HIDE DEF A
    <3>1. QED
      BY <1>2, <2>1, <2>2, <2>3
  <2>5. QED
    BY <1>4, <2>4 DEF L, M
<1>5. CASE n = Capacity
  <2> DEFINE A == Append(Tail(L), r)
  <2>1. m = Capacity /\ Start(h, n) = h /\ Start(g, m) = g
    BY <1>3, <1>5 DEF Start
  <2>2. A \in Seq(Records) /\ Len(A) = Capacity
    BY <1>1, <1>5
  <2>3. ASSUME NEW i \in 1..Capacity PROVE M[i] = A[i]
    <3>1. M[i] = At(c, g, i)
      BY <1>2, <2>1
    <3>2. CASE i = Capacity
      <4>1. A[i] = r
        BY <1>1, <1>5, <3>2
      <4>2. At(c, g, i) = c[h]
        <5>1. CASE h + 1 < Capacity
          <6>1. g + i - 1 - Capacity = h /\ ~(g + i - 1 < Capacity)
            BY <1>3, <3>2, <5>1
          <6>2. QED
            BY <6>1 DEF At
        <5>2. CASE h + 1 = Capacity
          <6>1. g + i - 1 = h /\ g + i - 1 < Capacity
            BY <1>3, <3>2, <5>2
          <6>2. QED
            BY <6>1 DEF At
        <5>3. QED
          BY <1>3, <5>1, <5>2
      <4>3. QED
        BY <1>3, <3>1, <4>1, <4>2
    <3>3. CASE i \in 1..(Capacity - 1)
      <4>1. A[i] = L[i + 1]
        BY <1>1, <1>5, <3>3
      <4>2. L[i + 1] = At(b, h, i + 1)
        BY <1>1, <1>5, <2>1, <3>3
      <4>3. At(b, h, i + 1) = At(c, g, i)
        <5>1. CASE h + i < Capacity
          <6>1. /\ g + i - 1 = h + i /\ h + (i + 1) - 1 = h + i
                /\ h + i \in 0..(Capacity - 1) /\ h + i # h
            BY <1>3, <3>3, <5>1
          <6>2. QED
            BY <1>3, <5>1, <6>1 DEF At
        <5>2. CASE h + i >= Capacity /\ h + 1 < Capacity
          <6>1. /\ g + i - 1 - Capacity = h + i - Capacity
                /\ h + (i + 1) - 1 - Capacity = h + i - Capacity
                /\ ~(g + i - 1 < Capacity) /\ ~(h + (i + 1) - 1 < Capacity)
                /\ h + i - Capacity \in 0..(Capacity - 1) /\ h + i - Capacity # h
            BY <1>3, <3>3, <5>2
          <6>2. QED
            BY <1>3, <6>1 DEF At
        <5>3. CASE h + 1 = Capacity
          <6>1. /\ g + i - 1 = i - 1 /\ g + i - 1 < Capacity
                /\ h + (i + 1) - 1 - Capacity = i - 1
                /\ ~(h + (i + 1) - 1 < Capacity)
                /\ i - 1 \in 0..(Capacity - 1) /\ i - 1 # h
            BY <1>3, <3>3, <5>3
          <6>2. QED
            BY <1>3, <6>1 DEF At
        <5>4. QED
          BY <1>3, <3>3, <5>1, <5>2, <5>3
      <4>4. QED
        BY <3>1, <4>1, <4>2, <4>3
    <3>4. i = Capacity \/ i \in 1..(Capacity - 1)
      OBVIOUS
    <3>5. QED
      BY <3>2, <3>3, <3>4
  <2>4. M = A
    <3> HIDE DEF A
    <3>1. QED
      BY <1>2, <2>1, <2>2, <2>3
  <2>5. ~(n < Capacity)
    BY <1>5
  <2>6. QED
    BY <2>4, <2>5, Zenon DEF L, M
<1>6. QED
  BY <1>3, <1>4, <1>5

-----------------------------------------------------------------------------
\* The ring buffer, read back by instruction_history(), implements the list of
\* the last Capacity records.
THEOREM Implements == HistorySpec => ImplementsRecent
<1>1. HistoryInit => Recent!Init
  BY DEF HistoryInit, Recent!Init, InstructionList
<1>2. HistoryInv /\ HistoryInv' /\ [HistoryNext]_historyVars
        => [Recent!Next]_InstructionList
  <2> SUFFICES ASSUME HistoryInv, HistoryInv', [HistoryNext]_historyVars
               PROVE  [Recent!Next]_InstructionList
    OBVIOUS
  <2>1. ASSUME NEW r \in Records, Record(r) PROVE Recent!Next
    <3>1. InstructionList = ListOf(buf, head, count)
      BY DEF InstructionList, OldestSlot, ListOf, Start
    <3>2. InstructionList' = ListOf(buf', head', count')
      BY DEF InstructionList, OldestSlot, ListOf, Start
    <3>3. RingOK(buf, head, count) /\ RingOK(buf', head', count')
      BY DEF HistoryInv
    <3>4. ListOf(buf', head', count') =
            IF count < Capacity THEN Append(ListOf(buf, head, count), r)
                                ELSE Append(Tail(ListOf(buf, head, count)), r)
      <4>1. Recorded(buf, head, count, buf', head', count', r)
        BY <2>1 DEF Record, Recorded
      <4>2. QED
        BY <3>3, <4>1, RingStep
    <3>5. Len(InstructionList) = count
      BY <3>1, <3>3, ListShape
    <3>6. Recent!Remember(r)
      BY <3>1, <3>2, <3>4, <3>5 DEF Recent!Remember
    <3>7. QED
      BY <3>6 DEF Recent!Next
  <2>2. CASE UNCHANGED historyVars
    BY <2>2 DEF historyVars, InstructionList, OldestSlot
  <2>3. QED
    BY <2>1, <2>2 DEF HistoryNext
<1>3. QED
  BY <1>1, <1>2, HistoryInvariant, PTL DEF HistorySpec, ImplementsRecent, Recent!Spec

-----------------------------------------------------------------------------
\* The engine records one instruction at a time, and nothing else it does
\* touches the buffer.
LEMMA EngineRecords == Spec => HistorySpec
<1>1. Init => HistoryInit
  BY DEF Init
<1>2. [Next]_vars => [HistoryNext]_historyVars
  <2> SUFFICES ASSUME [Next]_vars PROVE [HistoryNext]_historyVars
    OBVIOUS
  <2>1. ASSUME NEW a \in Addrs, NEW m, Instruction(a, m) PROVE HistoryNext
    BY <2>1, EngineAssumption DEF EngineAssumption, Instruction, HistoryNext
  <2>2. CASE RunPaused \/ RunStops \/ RunWatchStops \/ RunContinues \/ StepInstruction
    BY <2>1, <2>2 DEF RunPaused, RunStops, RunWatchStops, RunContinues, StepInstruction
  <2>3. CASE EnterRun \/ StepOut \/ Pause \/ Resume \/ Reset
    BY <2>3 DEF EnterRun, StepOut, Pause, Resume, Reset
  <2>4. CASE \E a \in Addrs : AddBreakpoint(a) \/ RemoveBreakpoint(a)
    BY <2>4 DEF AddBreakpoint, RemoveBreakpoint
  <2>5. CASE \E c \in Cells : \/ \E t \in Vals \cup {AnyValue} : AddWatch(c, t)
                              \/ RemoveWatch(c)
                              \/ \E v \in Vals : LoadCode(c, v)
    BY <2>5 DEF AddWatch, RemoveWatch, LoadCode
  <2>6. CASE UNCHANGED vars
    BY <2>6 DEF vars
  <2> QED
    BY <2>2, <2>3, <2>4, <2>5, <2>6 DEF Next
<1> QED
  BY <1>1, <1>2, PTL DEF Spec, HistorySpec

\* What the debugger reads back of a running, stepped, paused or reset engine
\* is the list of the last instructions.
THEOREM EngineShowsRecent == Spec => ImplementsRecent
BY EngineRecords, Implements, PTL
=============================================================================
