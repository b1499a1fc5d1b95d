------------------------- MODULE RecentInstructions -------------------------
(***************************************************************************)
(* What the instruction history promises (README.md of the emulator, "a    *)
(* circular buffer containing the last 100 instructions"): the records of  *)
(* the last Capacity instructions, oldest first, and nothing else.         *)
(***************************************************************************)
EXTENDS Naturals, Sequences

CONSTANTS Capacity, Records

VARIABLE recent

Init == recent = << >>

Remember(r) ==
  recent' = IF Len(recent) < Capacity THEN Append(recent, r) ELSE Append(Tail(recent), r)

Next == \E r \in Records : Remember(r)

Spec == Init /\ [][Next]_recent
=============================================================================
