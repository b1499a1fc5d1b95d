------------------------- MODULE InstructionHistory -------------------------
(***************************************************************************)
(* The ring buffer in which ExecutionEngine::fire_callback() records every *)
(* instruction (history_buf_, history_head_, history_count_), and the list *)
(* instruction_history() reads back from it.                               *)
(***************************************************************************)
EXTENDS Naturals, Sequences

CONSTANTS
  Capacity,  \* HISTORY_CAPACITY
  Records,   \* the InsnRecords that can be made
  Blank      \* the value-initialised InsnRecord

ASSUME CapacityAssumption == Capacity \in Nat \ {0}

VARIABLES buf, head, count

historyVars == <<buf, head, count>>

HistoryInit ==
  /\ buf = [i \in 0..(Capacity - 1) |-> Blank]
  /\ head = 0
  /\ count = 0

\* fire_callback(): overwrite the slot at the head, advance it, and count up
\* to the capacity.
Record(r) ==
  /\ buf' = [buf EXCEPT ![head] = r]
  /\ head' = (head + 1) % Capacity
  /\ count' = IF count < Capacity THEN count + 1 ELSE count

\* Variant of OldestSlot: the buffer is taken to be full one record early.
OldestSlotEarly == IF count < Capacity - 1 THEN 0 ELSE head

\* "When not full, oldest entry is at index 0.  When full, oldest entry is at
\* history_head_ (the slot about to be overwritten)."
OldestSlot == IF count < Capacity THEN 0 ELSE head

\* instruction_history()
InstructionList == [i \in 1..count |-> buf[(OldestSlot + i - 1) % Capacity]]

HistoryNext == \E r \in Records : Record(r)

HistorySpec == HistoryInit /\ [][HistoryNext]_historyVars

-----------------------------------------------------------------------------
HistoryTypeOK ==
  /\ buf \in [0..(Capacity - 1) -> Records \cup {Blank}]
  /\ head \in 0..(Capacity - 1)
  /\ count \in 0..Capacity

Recent == INSTANCE RecentInstructions WITH recent <- InstructionList

\* The ring buffer, read back by instruction_history(), is the list of the
\* last Capacity records, oldest first: also when it wraps round, and with no
\* blank or stale slot ever shown.
ImplementsRecent == Recent!Spec
=============================================================================
