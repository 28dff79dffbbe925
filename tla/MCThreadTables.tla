--------------------------- MODULE MCThreadTables ---------------------------
(* Small instances of ThreadTables for TLC. *)
EXTENDS ThreadTables, TLC

Symmetry == Permutations(Conns) \cup Permutations(Consoles)
=============================================================================
