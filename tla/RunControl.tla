---------------------------- MODULE RunControl ----------------------------
(***************************************************************************)
(* Who runs the emulated machine, and when it stops.                       *)
(*                                                                         *)
(* Two threads share one ExecutionEngine.  The worker thread is            *)
(* BeebWorker::start_beeb(): it polls three atomics (done_,                *)
(* reset_requested_ and the engine's state_) and, while the engine is not  *)
(* paused, runs instructions in ExecutionEngine::run().  The UI thread is  *)
(* the Qt event loop: the debugger's buttons, BREAK and closing the        *)
(* application are connected with Qt::DirectConnection (main.cc), so the   *)
(* slots pause(), step(), step_out(), run(), do_break() and stop() execute *)
(* on the UI thread while the worker is somewhere in its loop.             *)
(*                                                                         *)
(* One action is one access to an atomic, plus the thread-local work up to *)
(* the next one.  What an instruction does is left out: whether the        *)
(* step-out target, a breakpoint or a watch is hit after it is a free      *)
(* choice (module ExecutionEngine models those).                           *)
(***************************************************************************)
EXTENDS Naturals

CONSTANT MaxOps  \* bound on the number of user operations (clicks, BREAKs)

ASSUME MaxOpsAssumption == MaxOps \in Nat

VARIABLES
  state,           \* engine state_: an atomic
  done,            \* BeebWorker::done_: an atomic
  resetRequested,  \* BeebWorker::reset_requested_: an atomic
  wpc,             \* where the worker thread is in start_beeb() / run()
  upc,             \* where the UI thread is in a slot; "idle" in the event loop
  caller,          \* which slot called pause(); "none" outside it
  canGo,           \* Step, Step out and Run are enabled (always together)
  canPause,        \* Pause is enabled
  pausedEvents,    \* queued BeebWorker::paused signals not yet delivered
  ops,             \* user operations so far (bound)
  late,            \* history: instructions (2: or more) the worker began since the engine is PAUSED
  intent           \* history: what the user last asked for, "halt" (with no
                   \* reset under way), "break", or "other"

atomics == <<state, done, resetRequested>>
uiVars  == <<upc, caller, canGo, canPause, ops>>
vars == <<state, done, resetRequested, wpc, upc, caller, canGo, canPause,
          pausedEvents, ops, late, intent>>

States == {"PAUSED", "STEPPING_OUT", "RUNNING"}

WorkerPCs == {"reset", "resume", "loop", "exchange", "is_paused", "run", "tick",
              "check_paused", "check_out", "check_breakpoint", "check_watches",
              "store_paused", "emit_paused", "finished"}

\* The worker is inside ExecutionEngine::run().
InRun == wpc \in {"run", "tick", "check_paused", "check_out", "check_breakpoint",
                  "check_watches", "store_paused"}

UiPCs == {"idle", "step_tick", "step_store", "step_out_store",
          "pause1", "pause2", "stopped", "gone"}

\* A reset is wanted or under way: the worker will call resume() by itself.
ResetInFlight == resetRequested \/ wpc \in {"reset", "resume"}

(***************************************************************************)
(* start_beeb() begins with board().reset(); resume(), the same two calls  *)
(* a requested reset makes.  A QAction is enabled when it is created.      *)
(***************************************************************************)
Init ==
  /\ state = "PAUSED"
  /\ done = FALSE
  /\ resetRequested = FALSE
  /\ wpc = "reset"
  /\ upc = "idle"
  /\ caller = "none"
  /\ canGo = TRUE
  /\ canPause = TRUE
  /\ pausedEvents = 0
  /\ ops = 0
  /\ late = 0
  /\ intent = "other"

\* A store to state_, or a successful compare-exchange on it.
SetState(s) ==
  /\ state' = s
  /\ late' = IF s = "PAUSED" THEN late ELSE 0

-----------------------------------------------------------------------------
(***************************************************************************)
(* The worker thread.                                                      *)
(***************************************************************************)

\* Once main() has returned, the process and its threads are gone.
Goto(from, to) ==
  /\ upc # "gone"
  /\ wpc = from
  /\ wpc' = to

\* engine_->board().reset()
BoardReset ==
  /\ Goto("reset", "resume")
  /\ UNCHANGED <<atomics, uiVars, pausedEvents, late, intent>>

\* ExecutionEngine::resume(): compare-exchange PAUSED -> RUNNING.
WorkerResume ==
  /\ Goto("resume", "loop")
  /\ IF state = "PAUSED" THEN SetState("RUNNING") ELSE UNCHANGED <<state, late>>
  /\ UNCHANGED <<done, resetRequested, uiVars, pausedEvents, intent>>

\* while (!done_) ...; emit finished()
LoopTest ==
  /\ Goto("loop", IF done THEN "finished" ELSE "exchange")
  /\ UNCHANGED <<atomics, uiVars, pausedEvents, late, intent>>

\* if (reset_requested_.exchange(false)) { reset; resume; continue; }
ExchangeReset ==
  /\ Goto("exchange", IF resetRequested THEN "reset" ELSE "is_paused")
  /\ resetRequested' = FALSE
  /\ UNCHANGED <<state, done, uiVars, pausedEvents, late, intent>>

\* Variant of IsPaused: only RUNNING is run, STEPPING_OUT is taken for paused.
IsPausedUnlessRunning ==
  /\ Goto("is_paused", IF state = "RUNNING" THEN "run" ELSE "loop")
  /\ UNCHANGED <<atomics, uiVars, pausedEvents, late, intent>>

\* if (engine_->is_paused()) { msleep(10); continue; }
IsPaused ==
  /\ Goto("is_paused", IF state = "PAUSED" THEN "loop" ELSE "run")
  /\ UNCHANGED <<atomics, uiVars, pausedEvents, late, intent>>

\* The worker begins an instruction: at the top of run(), or again after
\* the checks of the previous one have all failed.
BeginInstruction(from) ==
  /\ Goto(from, "tick")
  /\ late' = IF state # "PAUSED" THEN 0 ELSE IF late < 2 THEN late + 1 ELSE late
  /\ UNCHANGED <<atomics, uiVars, pausedEvents, intent>>

EnterRun == BeginInstruction("run")

\* tick_one_instruction() and fire_callback() return.
EndInstruction ==
  /\ Goto("tick", "check_paused")
  /\ UNCHANGED <<atomics, uiVars, pausedEvents, late, intent>>

\* Variant of CheckPaused: run() does not look for an external pause.
CheckPausedOmitted ==
  /\ Goto("check_paused", "check_out")
  /\ UNCHANGED <<atomics, uiVars, pausedEvents, late, intent>>

\* if (state_.load() == PAUSED) break;
CheckPaused ==
  /\ Goto("check_paused", IF state = "PAUSED" THEN "emit_paused" ELSE "check_out")
  /\ UNCHANGED <<atomics, uiVars, pausedEvents, late, intent>>

\* if (state_.load() == STEPPING_OUT && address == step_out_target_) ...
CheckStepOut ==
  /\ \E hit \in BOOLEAN :
       Goto("check_out", IF state = "STEPPING_OUT" /\ hit THEN "store_paused"
                                                          ELSE "check_breakpoint")
  /\ UNCHANGED <<atomics, uiVars, pausedEvents, late, intent>>

\* if (is_breakpoint(address)) ...
CheckBreakpoint ==
  /\ \E hit \in BOOLEAN :
       Goto("check_breakpoint", IF hit THEN "store_paused" ELSE "check_watches")
  /\ UNCHANGED <<atomics, uiVars, pausedEvents, late, intent>>

\* auto triggered = check_watches(); if (triggered) ... else the next instruction
CheckWatches ==
  \/ /\ Goto("check_watches", "store_paused")
     /\ UNCHANGED <<atomics, uiVars, pausedEvents, late, intent>>
  \/ BeginInstruction("check_watches")

\* state_.store(PAUSED); break;
StorePaused ==
  /\ Goto("store_paused", "emit_paused")
  /\ SetState("PAUSED")
  /\ UNCHANGED <<done, resetRequested, uiVars, pausedEvents, intent>>

\* emit_cpu_state(); emit paused(): queued for the UI thread.
EmitPaused ==
  /\ Goto("emit_paused", "loop")
  /\ pausedEvents' = pausedEvents + 1
  /\ UNCHANGED <<atomics, uiVars, late, intent>>

Worker ==
  \/ BoardReset \/ WorkerResume \/ LoopTest \/ ExchangeReset \/ IsPaused
  \/ EnterRun \/ EndInstruction \/ CheckPaused \/ CheckStepOut
  \/ CheckBreakpoint \/ CheckWatches \/ StorePaused \/ EmitPaused

-----------------------------------------------------------------------------
(***************************************************************************)
(* The UI thread.  It takes the next event only when it is idle.           *)
(***************************************************************************)

\* A user operation, within the bound.
UserOp ==
  /\ upc = "idle"
  /\ ops < MaxOps
  /\ ops' = ops + 1

\* do_step(), do_step_out() and do_run() disable the three and enable Pause.
ShowRunning == canGo' = FALSE /\ canPause' = TRUE
ShowPaused  == canGo' = TRUE /\ canPause' = FALSE

\* DebuggerWindow::do_step -> BeebWorker::step -> step_instruction()
\* begins to tick the board on the UI thread.
ClickStep ==
  /\ UserOp
  /\ canGo
  /\ ShowRunning
  /\ upc' = "step_tick"
  /\ intent' = "other"
  /\ UNCHANGED <<atomics, wpc, caller, pausedEvents, late>>

\* ... finishes the instruction,
StepTick ==
  /\ upc = "step_tick"
  /\ upc' = "step_store"
  /\ UNCHANGED <<atomics, wpc, caller, canGo, canPause, ops, pausedEvents, late, intent>>

\* ... and stores PAUSED; emit paused() is a direct call, on this same thread.
StepStore ==
  /\ upc = "step_store"
  /\ upc' = "idle"
  /\ SetState("PAUSED")
  /\ ShowPaused
  /\ intent' = IF ResetInFlight THEN "other" ELSE "halt"
  /\ UNCHANGED <<done, resetRequested, wpc, caller, ops, pausedEvents>>

\* DebuggerWindow::do_step_out -> ExecutionEngine::step_out(): load state_,
\* return unless PAUSED, read the return address from the stack,
ClickStepOut ==
  /\ UserOp
  /\ canGo
  /\ ShowRunning
  /\ upc' = IF state = "PAUSED" THEN "step_out_store" ELSE "idle"
  /\ intent' = "other"
  /\ UNCHANGED <<atomics, wpc, caller, pausedEvents, late>>

\* ... then store STEPPING_OUT.
StepOutStore ==
  /\ upc = "step_out_store"
  /\ upc' = "idle"
  /\ SetState("STEPPING_OUT")
  /\ UNCHANGED <<done, resetRequested, wpc, caller, canGo, canPause, ops, pausedEvents,
                 intent>>

\* DebuggerWindow::do_run -> BeebWorker::run -> resume()
ClickRun ==
  /\ UserOp
  /\ canGo
  /\ ShowRunning
  /\ IF state = "PAUSED" THEN SetState("RUNNING") ELSE UNCHANGED <<state, late>>
  /\ intent' = "other"
  /\ UNCHANGED <<done, resetRequested, wpc, upc, caller, pausedEvents>>

\* A slot calls ExecutionEngine::pause().
CallPause(slot) ==
  /\ upc' = "pause1"
  /\ caller' = slot

\* DebuggerWindow::do_pause -> BeebWorker::pause
ClickPause ==
  /\ UserOp
  /\ canPause
  /\ ShowPaused
  /\ CallPause("pause")
  /\ intent' = IF ResetInFlight THEN "other" ELSE "halt"
  /\ UNCHANGED <<atomics, wpc, pausedEvents, late>>

\* Variant of PressBreak: the reset is requested but run() is not interrupted.
PressBreakNoPause ==
  /\ UserOp
  /\ resetRequested' = TRUE
  /\ intent' = "break"
  /\ UNCHANGED <<state, done, wpc, upc, caller, canGo, canPause, pausedEvents, late>>

\* CrtWindow::break_pressed -> do_break(): request a reset, then pause().
PressBreak ==
  /\ UserOp
  /\ resetRequested' = TRUE
  /\ CallPause("break")
  /\ intent' = "break"
  /\ UNCHANGED <<state, done, wpc, canGo, canPause, pausedEvents, late>>

\* Variant of Stop: done_ is set but run() is not interrupted.
StopNoPause ==
  /\ upc = "idle"
  /\ done' = TRUE
  /\ upc' = "stopped"
  /\ intent' = "other"
  /\ UNCHANGED <<state, resetRequested, wpc, caller, canGo, canPause, ops, pausedEvents, late>>

\* QApplication::exec() returns and main() calls stop(): done_, then pause().
Stop ==
  /\ upc = "idle"
  /\ done' = TRUE
  /\ CallPause("stop")
  /\ intent' = "other"
  /\ UNCHANGED <<state, resetRequested, wpc, canGo, canPause, ops, pausedEvents, late>>

\* pause() returns: to the event loop, or to main() after stop().
PauseReturns ==
  /\ upc' = IF caller = "stop" THEN "stopped" ELSE "idle"
  /\ caller' = "none"

\* pause(), first compare-exchange: RUNNING -> PAUSED, return if it succeeds.
Pause1 ==
  /\ upc = "pause1"
  /\ \/ /\ state = "RUNNING"
        /\ SetState("PAUSED")
        /\ PauseReturns
     \/ /\ state # "RUNNING"
        /\ upc' = "pause2"
        /\ UNCHANGED <<state, late, caller>>
  /\ UNCHANGED <<done, resetRequested, wpc, canGo, canPause, ops, pausedEvents, intent>>

\* Variant of Pause2: pause() gives up after the first compare-exchange.
Pause2Omitted ==
  /\ upc = "pause2"
  /\ PauseReturns
  /\ UNCHANGED <<atomics, wpc, canGo, canPause, ops, pausedEvents, late, intent>>

\* pause(), second compare-exchange: STEPPING_OUT -> PAUSED.
Pause2 ==
  /\ upc = "pause2"
  /\ PauseReturns
  /\ IF state = "STEPPING_OUT" THEN SetState("PAUSED") ELSE UNCHANGED <<state, late>>
  /\ UNCHANGED <<done, resetRequested, wpc, canGo, canPause, ops, pausedEvents, intent>>

\* DebuggerWindow::paused(), delivered from the event queue.
DeliverPaused ==
  /\ upc = "idle"
  /\ pausedEvents > 0
  /\ pausedEvents' = pausedEvents - 1
  /\ ShowPaused
  /\ UNCHANGED <<atomics, wpc, upc, caller, ops, late, intent>>

\* main() returns: beeb_worker is destroyed and the process exits.
MainReturns ==
  /\ upc = "stopped"
  /\ upc' = "gone"
  /\ UNCHANGED <<atomics, wpc, caller, canGo, canPause, ops, pausedEvents, late, intent>>

\* The UI thread is in the middle of a slot: it goes on by itself.
Slot == StepTick \/ StepStore \/ StepOutStore \/ Pause1 \/ Pause2

User == ClickStep \/ ClickStepOut \/ ClickRun \/ ClickPause \/ PressBreak \/ Stop

Terminated == upc = "gone" /\ UNCHANGED vars

Next == Worker \/ Slot \/ User \/ DeliverPaused \/ MainReturns \/ Terminated

Spec == Init /\ [][Next]_vars

(***************************************************************************)
(* The operating system schedules both threads: each goes on with the code *)
(* it is in.  Nothing makes the user act, and nothing holds main() back    *)
(* from returning once stop() has returned, or makes it return.            *)
(***************************************************************************)
FairSpec == Spec /\ WF_vars(Worker) /\ WF_vars(Slot) /\ WF_vars(DeliverPaused)

-----------------------------------------------------------------------------
CountersOK ==
  /\ pausedEvents \in Nat
  /\ ops \in 0..MaxOps
  /\ late \in 0..2

FlagsOK ==
  /\ done \in BOOLEAN
  /\ resetRequested \in BOOLEAN
  /\ canGo \in BOOLEAN
  /\ canPause \in BOOLEAN

PlacesOK ==
  /\ state \in States
  /\ wpc \in WorkerPCs
  /\ upc \in UiPCs
  /\ caller \in {"none", "pause", "break", "stop"}
  /\ intent \in {"halt", "break", "other"}

TypeOK == CountersOK /\ FlagsOK /\ PlacesOK

(***************************************************************************)
(* Safety.                                                                 *)
(***************************************************************************)

\* Once the engine is PAUSED, whoever paused it and wherever run() was at
\* that moment, the worker begins at most one more instruction before run()
\* notices and returns: the check of state_ is made after every instruction
\* (ExecutionEngine::run, the load after fire_callback).
PauseLatency == late <= 1

\* When the user pauses (or single-steps) and no reset is under way, the
\* machine stays PAUSED until the user acts again: no step of the worker,
\* and no pause() that meets STEPPING_OUT instead of RUNNING, undoes it.
PauseHolds == intent = "halt" /\ upc = "idle" => state = "PAUSED"

(***************************************************************************)
(* Liveness, under FairSpec.                                               *)
(***************************************************************************)

\* After stop() has set done_, start_beeb() leaves its loop (or main() has
\* already returned under it), even from the middle of an endless run().
StopEndsLoop == done ~> (wpc = "finished" \/ upc = "gone")

\* A BREAK that the user does not follow with another operation is served:
\* the worker leaves any run() it is in, takes the request and resets.
BreakServed ==
  (resetRequested /\ intent = "break") ~> (~resetRequested \/ intent # "break")

\* A resumed (or stepping-out) engine is run by the worker, unless it is
\* paused again or the application is closed first.
ResumeStartsRun == (state # "PAUSED") ~> (InRun \/ state = "PAUSED" \/ done)

(***************************************************************************)
(* What the comments say, and the code does not ensure.                    *)
(***************************************************************************)

\* execution_engine.h: step_instruction() executes "exactly one instruction":
\* no other thread ticks the board in the middle of it.
StepIsOneInstruction == ~(upc = "step_tick" /\ wpc = "tick")
=============================================================================
