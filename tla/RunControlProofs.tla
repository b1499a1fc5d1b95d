-------------------------- MODULE RunControlProofs --------------------------
(***************************************************************************)
(* Type correctness, PauseLatency and PauseHolds of RunControl, for every  *)
(* bound MaxOps on the user's operations.                                  *)
(***************************************************************************)
EXTENDS RunControl, TLAPS

\* Every step keeps the three counters natural numbers, and ops within its
\* bound: a paused signal is delivered only after it was queued.
LEMMA CountersStep == CountersOK /\ [Next]_vars => CountersOK'
<1> SUFFICES ASSUME CountersOK, [Next]_vars PROVE CountersOK'
  OBVIOUS
<1> USE MaxOpsAssumption DEF MaxOpsAssumption, CountersOK, atomics, uiVars, SetState
<1>1. CASE Worker
  BY <1>1 DEF Worker, BoardReset, WorkerResume, LoopTest, ExchangeReset, IsPaused, EnterRun,
     BeginInstruction, EndInstruction, CheckPaused, CheckStepOut, CheckBreakpoint,
     CheckWatches, StorePaused, EmitPaused
<1>2. CASE Slot
  BY <1>2 DEF Slot, StepTick, StepStore, StepOutStore, Pause1, Pause2
<1>3. CASE User
  BY <1>3 DEF User, UserOp, ClickStep, ClickStepOut, ClickRun, ClickPause, PressBreak, Stop
<1>4. CASE DeliverPaused
  BY <1>4 DEF DeliverPaused
<1>5. CASE MainReturns \/ UNCHANGED vars
  BY <1>5 DEF MainReturns, vars
<1>6. QED
  BY <1>1, <1>2, <1>3, <1>4, <1>5 DEF Next, Terminated

\* Every step keeps the two flags and the two button states Boolean.
LEMMA FlagsStep == FlagsOK /\ [Next]_vars => FlagsOK'
<1> SUFFICES ASSUME FlagsOK, [Next]_vars PROVE FlagsOK'
  OBVIOUS
<1> USE DEF FlagsOK, atomics, uiVars, ShowPaused, ShowRunning
<1>1. CASE Worker
  BY <1>1, Zenon DEF Worker, BoardReset, WorkerResume, LoopTest, ExchangeReset, IsPaused,
     EnterRun, BeginInstruction, EndInstruction, CheckPaused, CheckStepOut, CheckBreakpoint,
     CheckWatches, StorePaused, EmitPaused
<1>2. CASE Slot
  BY <1>2, Zenon DEF Slot, StepTick, StepStore, StepOutStore, Pause1, Pause2
<1>3. CASE User
  BY <1>3, Zenon DEF User, ClickStep, ClickStepOut, ClickRun, ClickPause, PressBreak, Stop
<1>4. CASE DeliverPaused \/ MainReturns \/ UNCHANGED vars
  BY <1>4, Zenon DEF DeliverPaused, MainReturns, vars
<1>5. QED
  BY <1>1, <1>2, <1>3, <1>4 DEF Next, Terminated

\* Every step leaves the engine in one of its three states and each thread at
\* a place of its code.
LEMMA PlacesStep == PlacesOK /\ [Next]_vars => PlacesOK'
<1> SUFFICES ASSUME PlacesOK, [Next]_vars PROVE PlacesOK'
  OBVIOUS
<1> USE DEF PlacesOK, States, WorkerPCs, UiPCs, atomics, uiVars, SetState
<1>1. CASE Worker
  BY <1>1 DEF Worker, Goto, BoardReset, WorkerResume, LoopTest, ExchangeReset, IsPaused,
     EnterRun, BeginInstruction, EndInstruction, CheckPaused, CheckStepOut, CheckBreakpoint,
     CheckWatches, StorePaused, EmitPaused
<1>2. CASE Slot
  BY <1>2 DEF Slot, StepTick, StepStore, StepOutStore, Pause1, Pause2, PauseReturns
<1>3. CASE User
  BY <1>3 DEF User, UserOp, ClickStep, ClickStepOut, ClickRun, ClickPause, PressBreak, Stop,
     CallPause
<1>4. CASE DeliverPaused \/ MainReturns \/ UNCHANGED vars
  BY <1>4 DEF DeliverPaused, MainReturns, vars
<1>5. QED
  BY <1>1, <1>2, <1>3, <1>4 DEF Next, Terminated

\* RunControl is type correct: in particular the queue of paused signals is
\* never drained below empty and each thread is always at a known place.
THEOREM TypeCorrect == Spec => []TypeOK
<1>1. Init => TypeOK
  <2>1. Init => CountersOK
    BY MaxOpsAssumption DEF MaxOpsAssumption, Init, CountersOK
  <2>2. Init => FlagsOK
    BY Zenon DEF Init, FlagsOK
  <2>3. Init => PlacesOK
    BY DEF Init, PlacesOK, States, WorkerPCs, UiPCs
  <2>4. QED
    BY <2>1, <2>2, <2>3 DEF TypeOK
<1>2. TypeOK /\ [Next]_vars => TypeOK'
  BY CountersStep, FlagsStep, PlacesStep DEF TypeOK
<1>3. QED
  BY <1>1, <1>2, PTL DEF Spec

-----------------------------------------------------------------------------
(***************************************************************************)
(* PauseLatency.  The worker is late by one instruction only between that  *)
(* instruction and its next look at state_, so it is never late where it   *)
(* could begin another one.                                                *)
(***************************************************************************)
LatencyInv ==
  /\ late \in 0..1
  /\ state # "PAUSED" => late = 0
  /\ late = 1 => wpc \notin {"run", "check_out", "check_breakpoint", "check_watches",
                            "store_paused"}

\* Every step keeps the worker at most one instruction late.
LEMMA LatencyStep == TypeOK /\ LatencyInv /\ [Next]_vars => LatencyInv'
<1> SUFFICES ASSUME TypeOK, LatencyInv, [Next]_vars PROVE LatencyInv'
  OBVIOUS
<1> USE DEF TypeOK, PlacesOK, States, LatencyInv, atomics, uiVars, SetState
<1>1. CASE Worker
  <2> USE DEF Goto
  <2>1. CASE BoardReset \/ LoopTest \/ ExchangeReset \/ EndInstruction \/ EmitPaused
    BY <2>1 DEF BoardReset, LoopTest, ExchangeReset, EndInstruction, EmitPaused
  <2>2. CASE WorkerResume
    BY <2>2 DEF WorkerResume
  <2>3. CASE IsPaused \/ CheckPaused
    BY <2>3 DEF IsPaused, CheckPaused
  <2>4. CASE EnterRun \/ CheckWatches
    BY <2>4 DEF EnterRun, CheckWatches, BeginInstruction
  <2>5. CASE CheckStepOut \/ CheckBreakpoint
    BY <2>5 DEF CheckStepOut, CheckBreakpoint
  <2>6. CASE StorePaused
    BY <2>6 DEF StorePaused
  <2>7. QED
    BY <1>1, <2>1, <2>2, <2>3, <2>4, <2>5, <2>6 DEF Worker
<1>2. CASE Slot
  BY <1>2 DEF Slot, StepTick, StepStore, StepOutStore, Pause1, Pause2
<1>3. CASE User
  BY <1>3 DEF User, ClickStep, ClickStepOut, ClickRun, ClickPause, PressBreak, Stop
<1>4. CASE DeliverPaused \/ MainReturns \/ UNCHANGED vars
  BY <1>4 DEF DeliverPaused, MainReturns, vars
<1>5. QED
  BY <1>1, <1>2, <1>3, <1>4 DEF Next, Terminated

\* However the two threads interleave, and however often the user clicks, the
\* worker begins at most one instruction after the engine was paused.
THEOREM PauseIsPrompt == Spec => []PauseLatency
<1>1. Init => LatencyInv
  BY DEF Init, LatencyInv
<1>2. LatencyInv => PauseLatency
  BY DEF LatencyInv, PauseLatency
<1>3. QED
  BY <1>1, <1>2, LatencyStep, TypeCorrect, PTL DEF Spec

-----------------------------------------------------------------------------
(***************************************************************************)
(* PauseHolds.  While the user's last wish is a halt no reset is under     *)
(* way, so the worker cannot resume() by itself; and when pause() goes on  *)
(* to its second compare-exchange, state_ cannot come back to RUNNING.     *)
(***************************************************************************)
HaltInv ==
  intent = "halt" =>
    /\ ~ResetInFlight
    /\ upc \in {"idle", "pause1", "pause2"}
    /\ upc # "idle" => caller = "pause"
    /\ upc = "pause2" => state # "RUNNING"
    /\ upc = "idle" => state = "PAUSED"

\* Every step keeps the user's halt.
LEMMA HaltStep == TypeOK /\ HaltInv /\ [Next]_vars => HaltInv'
<1> SUFFICES ASSUME TypeOK, HaltInv, [Next]_vars PROVE HaltInv'
  OBVIOUS
<1> USE DEF TypeOK, PlacesOK, States, HaltInv, ResetInFlight, atomics, uiVars, SetState
<1>1. CASE Worker
  <2> USE DEF Goto
  <2>1. CASE BoardReset \/ LoopTest \/ IsPaused \/ EndInstruction \/ CheckPaused
    BY <2>1 DEF BoardReset, LoopTest, IsPaused, EndInstruction, CheckPaused
  <2>2. CASE WorkerResume \/ StorePaused \/ EmitPaused
    BY <2>2 DEF WorkerResume, StorePaused, EmitPaused
  <2>3. CASE EnterRun \/ CheckWatches
    BY <2>3 DEF EnterRun, CheckWatches, BeginInstruction
  <2>4. CASE CheckStepOut \/ CheckBreakpoint
    BY <2>4 DEF CheckStepOut, CheckBreakpoint
  <2>5. CASE ExchangeReset
    BY <2>5 DEF ExchangeReset
  <2>6. QED
    BY <1>1, <2>1, <2>2, <2>3, <2>4, <2>5 DEF Worker
<1>2. CASE Slot
  BY <1>2 DEF Slot, StepTick, StepStore, StepOutStore, Pause1, Pause2, PauseReturns
<1>3. CASE User
  BY <1>3 DEF User, UserOp, ClickStep, ClickStepOut, ClickRun, ClickPause, PressBreak, Stop,
     CallPause
<1>4. CASE DeliverPaused \/ MainReturns \/ UNCHANGED vars
  BY <1>4 DEF DeliverPaused, MainReturns, vars
<1>5. QED
  BY <1>1, <1>2, <1>3, <1>4 DEF Next, Terminated

\* A pause or a single step with no reset under way stops the machine until
\* the user's next operation.
THEOREM PauseIsKept == Spec => []PauseHolds
<1>1. Init => HaltInv
  BY DEF Init, HaltInv
<1>2. HaltInv => PauseHolds
  BY DEF HaltInv, PauseHolds
<1>3. QED
  BY <1>1, <1>2, HaltStep, TypeCorrect, PTL DEF Spec
=============================================================================
