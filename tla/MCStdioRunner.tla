--------------------------- MODULE MCStdioRunner ----------------------------
(* Small instances of StdioRunner for TLC; without symmetry, for liveness. *)
EXTENDS StdioRunner
=============================================================================
