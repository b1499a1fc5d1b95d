-------------------------- MODULE ExecutionEngine --------------------------
(***************************************************************************)
(* What ExecutionEngine does around each instruction: breakpoints,         *)
(* watches, step-out and the instruction history.                          *)
(*                                                                         *)
(* One iteration of run() is one action: the instruction, fire_callback()  *)
(* and the four checks in their order.  Between two iterations the UI      *)
(* thread may pause, resume, edit breakpoints and watches, or poke memory  *)
(* through load_code().  (The interleavings inside an iteration are the    *)
(* subject of module RunControl.)  The CPU is external to this module: an  *)
(* instruction may write anything to memory and continue at any address.   *)
(***************************************************************************)
EXTENDS InstructionHistory

CONSTANTS
  Addrs,    \* code addresses
  Cells,    \* memory addresses that can be watched
  Vals,     \* values of a byte
  AnyValue,      \* std::nullopt as a watch's trigger_value: any change
  NoReport  \* std::nullopt as last_watch_trigger_

ASSUME EngineAssumption ==
  /\ Addrs # {}
  /\ Records = Addrs
  /\ AnyValue \notin Vals
  /\ NoReport \notin [cell : Cells, old : Vals, new : Vals]

VARIABLES
  pc,           \* the address of the instruction about to be fetched
  mem,          \* contents of the watchable memory
  state,        \* state_
  inRun,        \* run() has been called and has not returned
  target,       \* step_out_target_
  breakpoints,  \* breakpoints_
  watches,      \* watches_: a function from the watched cells
  lastTrigger,  \* last_watch_trigger_
  first,        \* history: run() has not completed an instruction yet
  added,        \* history: breakpoints set since run() last looked at them
  poked,        \* history: cells load_code() wrote since run() last looked at them
  held          \* history: the values each cell held since it is watched

board   == <<pc, mem>>
control == <<state, inRun, target>>
tables  == <<breakpoints, watches>>
ghosts  == <<first, added, poked, held>>
vars    == <<historyVars, board, control, tables, lastTrigger, ghosts>>

States  == {"PAUSED", "STEPPING_OUT", "RUNNING"}
Watch   == [shadow : Vals, trigger : Vals \cup {AnyValue}]
Report  == [cell : Cells, old : Vals, new : Vals]

Init ==
  /\ HistoryInit
  /\ pc \in Addrs
  /\ mem \in [Cells -> Vals]
  /\ state = "PAUSED"
  /\ inRun = FALSE
  /\ target \in Addrs
  /\ breakpoints = {}
  /\ watches = [c \in {} |-> AnyValue]
  /\ lastTrigger = NoReport
  /\ first = FALSE
  /\ added = {}
  /\ poked = {}
  /\ held = [c \in Cells |-> {}]

\* Memory becomes m: every watched cell has held its new value.
Write(m) ==
  /\ mem' = m
  /\ held' = [c \in Cells |-> IF c \in DOMAIN watches THEN held[c] \cup {m[c]} ELSE held[c]]

\* tick_one_instruction() and fire_callback(): the CPU runs to the next SYNC;
\* the history then records the address it is about to fetch from.
Instruction(a, m) ==
  /\ pc' = a
  /\ Write(m)
  /\ Record(a)

-----------------------------------------------------------------------------
(***************************************************************************)
(* check_watches() visits the watches in the order of an unordered_map,    *)
(* refreshing each shadow that differs, and returns at the first change    *)
(* that satisfies its trigger; later watches are not visited.              *)
(***************************************************************************)
Changed(w, m) == {c \in DOMAIN w : m[c] # w[c].shadow}

Triggered(w, m) == {c \in Changed(w, m) : w[c].trigger \in {AnyValue, m[c]}}

\* Variant of Refresh: the shadow follows only a change that is reported.
RefreshReported(w, m, S) ==
  [c \in DOMAIN w |-> IF c \in S \cap Triggered(w, m)
                      THEN [w[c] EXCEPT !.shadow = m[c]] ELSE w[c]]

Refresh(w, m, S) ==
  [c \in DOMAIN w |-> IF c \in S THEN [w[c] EXCEPT !.shadow = m[c]] ELSE w[c]]

\* No watch triggers: all have been visited.
WatchesQuiet(m) ==
  /\ Triggered(watches, m) = {}
  /\ watches' = Refresh(watches, m, DOMAIN watches)

\* Watch c triggers, after the watches of S.
WatchTriggers(c, S, m) ==
  /\ c \in Triggered(watches, m)
  /\ S \subseteq DOMAIN watches \ Triggered(watches, m)
  /\ watches' = Refresh(watches, m, S \cup {c})
  /\ lastTrigger' = [cell |-> c, old |-> watches[c].shadow, new |-> m[c]]

-----------------------------------------------------------------------------
(***************************************************************************)
(* run().                                                                  *)
(***************************************************************************)

\* start_beeb() calls run() when the engine is not paused.
EnterRun ==
  /\ ~inRun
  /\ state # "PAUSED"
  /\ inRun' = TRUE
  /\ lastTrigger' = NoReport
  /\ first' = TRUE
  /\ added' = {}
  /\ poked' = {}
  /\ UNCHANGED <<historyVars, board, state, target, tables, held>>

\* Variant of StopAt: breakpoints are not looked at while stepping out.
StopAtUnlessSteppingOut(a) ==
  IF state = "STEPPING_OUT" THEN a = target ELSE a \in breakpoints

\* The step-out target has been reached, or a breakpoint.
StopAt(a) ==
  \/ state = "STEPPING_OUT" /\ a = target
  \/ a \in breakpoints

Looked == first' = FALSE /\ added' = {} /\ poked' = {}

\* An iteration ended by a pause from the other thread, which is noticed only
\* once the instruction is complete.
RunPaused ==
  /\ inRun
  /\ state = "PAUSED"
  /\ \E a \in Addrs, m \in [Cells -> Vals] : Instruction(a, m)
  /\ inRun' = FALSE
  /\ Looked
  /\ UNCHANGED <<state, target, tables, lastTrigger>>

\* An iteration that ends at the step-out target or at a breakpoint: the
\* watches are not checked.
RunStops ==
  /\ inRun
  /\ state # "PAUSED"
  /\ \E a \in Addrs, m \in [Cells -> Vals] : StopAt(a) /\ Instruction(a, m)
  /\ state' = "PAUSED"
  /\ inRun' = FALSE
  /\ Looked
  /\ UNCHANGED <<target, tables, lastTrigger>>

\* An iteration that ends with a watch.
RunWatchStops ==
  /\ inRun
  /\ state # "PAUSED"
  /\ \E a \in Addrs, m \in [Cells -> Vals] :
       /\ ~StopAt(a)
       /\ Instruction(a, m)
       /\ \E c \in DOMAIN watches, S \in SUBSET DOMAIN watches : WatchTriggers(c, S, m)
  /\ state' = "PAUSED"
  /\ inRun' = FALSE
  /\ Looked
  /\ UNCHANGED <<target, breakpoints>>

\* An iteration after which run() goes on.
RunContinues ==
  /\ inRun
  /\ state # "PAUSED"
  /\ \E a \in Addrs, m \in [Cells -> Vals] :
       /\ ~StopAt(a)
       /\ Instruction(a, m)
       /\ WatchesQuiet(m)
  /\ Looked
  /\ UNCHANGED <<control, breakpoints, lastTrigger>>

-----------------------------------------------------------------------------
(***************************************************************************)
(* The operations of the UI thread.                                        *)
(***************************************************************************)

\* step_instruction(): none of the checks of run() is made.
StepInstruction ==
  /\ ~inRun
  /\ \E a \in Addrs, m \in [Cells -> Vals] : Instruction(a, m)
  /\ state' = "PAUSED"
  /\ UNCHANGED <<inRun, target, tables, lastTrigger, first, added, poked>>

\* step_out(): the return address is whatever the stack holds.
StepOut ==
  /\ state = "PAUSED"
  /\ target' \in Addrs
  /\ state' = "STEPPING_OUT"
  /\ UNCHANGED <<historyVars, board, inRun, tables, lastTrigger, ghosts>>

\* pause()
Pause ==
  /\ state \in {"RUNNING", "STEPPING_OUT"}
  /\ state' = "PAUSED"
  /\ UNCHANGED <<historyVars, board, inRun, target, tables, lastTrigger, ghosts>>

\* resume()
Resume ==
  /\ state = "PAUSED"
  /\ state' = "RUNNING"
  /\ UNCHANGED <<historyVars, board, inRun, target, tables, lastTrigger, ghosts>>

\* add_breakpoint(), remove_breakpoint(), as BreakpointManager's signals call
\* them: only for an address that is not set, or is.
AddBreakpoint(a) ==
  /\ a \notin breakpoints
  /\ breakpoints' = breakpoints \cup {a}
  /\ added' = IF inRun THEN added \cup {a} ELSE {}
  /\ UNCHANGED <<historyVars, board, control, watches, lastTrigger, first, poked, held>>

RemoveBreakpoint(a) ==
  /\ a \in breakpoints
  /\ breakpoints' = breakpoints \ {a}
  /\ UNCHANGED <<historyVars, board, control, watches, lastTrigger, ghosts>>

\* Variant of AddWatch: the shadow starts at zero, not at the present value.
AddWatchZero(c, t) ==
  /\ c \notin DOMAIN watches
  /\ \E z \in Vals : watches' = [x \in DOMAIN watches \cup {c} |->
                                   IF x = c THEN [shadow |-> z, trigger |-> t] ELSE watches[x]]
  /\ held' = [held EXCEPT ![c] = {mem[c]}]
  /\ UNCHANGED <<historyVars, board, control, breakpoints, lastTrigger, first, added, poked>>

\* add_watch(): the shadow is the value the cell holds now.
AddWatch(c, t) ==
  /\ c \notin DOMAIN watches
  /\ watches' = [x \in DOMAIN watches \cup {c} |->
                   IF x = c THEN [shadow |-> mem[c], trigger |-> t] ELSE watches[x]]
  /\ held' = [held EXCEPT ![c] = {mem[c]}]
  /\ UNCHANGED <<historyVars, board, control, breakpoints, lastTrigger, first, added, poked>>

RemoveWatch(c) ==
  /\ c \in DOMAIN watches
  /\ watches' = [x \in DOMAIN watches \ {c} |-> watches[x]]
  /\ held' = [held EXCEPT ![c] = {}]
  /\ UNCHANGED <<historyVars, board, control, breakpoints, lastTrigger, first, added, poked>>

\* BeebWorker::load_code() writes straight into memory, running or not.
LoadCode(c, v) ==
  /\ Write([mem EXCEPT ![c] = v])
  /\ poked' = IF inRun THEN poked \cup {c} ELSE {}
  /\ UNCHANGED <<historyVars, pc, control, tables, lastTrigger, first, added>>

\* Beeb::reset(), between two runs: the CPU is taken to the reset vector.
Reset ==
  /\ ~inRun
  /\ pc' \in Addrs
  /\ UNCHANGED <<historyVars, mem, control, tables, lastTrigger, ghosts>>

Next ==
  \/ EnterRun \/ RunPaused \/ RunStops \/ RunWatchStops \/ RunContinues
  \/ StepInstruction \/ StepOut \/ Pause \/ Resume \/ Reset
  \/ \E a \in Addrs : AddBreakpoint(a) \/ RemoveBreakpoint(a)
  \/ \E c \in Cells : \/ \E t \in Vals \cup {AnyValue} : AddWatch(c, t)
                      \/ RemoveWatch(c)
                      \/ \E v \in Vals : LoadCode(c, v)

Spec == Init /\ [][Next]_vars

-----------------------------------------------------------------------------
\* run() never goes past a breakpoint: whenever it is about to execute another
\* instruction, after at least one, the instruction is not at a breakpoint,
\* unless that was set in the meantime.
RunPassesNoBreakpoint ==
  inRun /\ ~first => pc \notin breakpoints \ added

\* Between two instructions of run() no watch has anything to report: every
\* shadow is the value in memory, whichever watches were edited, stopped at or
\* stepped over before, unless load_code() wrote the cell in the meantime.
NothingUnreported ==
  inRun /\ ~first => \A c \in DOMAIN watches \ poked : watches[c].shadow = mem[c]

\* A report of a watch is true: the old value is one the cell held while it
\* was watched, the new one is what memory holds, they differ, and the trigger
\* value was respected, however long the shadow was out of date.
WatchReportIsTrue ==
  [][RunWatchStops =>
       LET r == lastTrigger' IN
         /\ r.old \in held[r.cell]
         /\ r.new = mem'[r.cell]
         /\ r.old # r.new
         /\ watches[r.cell].trigger \in {AnyValue, r.new}]_vars
=============================================================================
