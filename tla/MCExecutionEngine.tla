------------------------- MODULE MCExecutionEngine -------------------------
(* ExecutionEngine for TLC: addresses, cells and byte values are            *)
(* interchangeable.                                                         *)
EXTENDS ExecutionEngine, TLC

Symmetry == Permutations(Addrs) \cup Permutations(Cells) \cup Permutations(Vals)
=============================================================================
