---------------------------- MODULE MCConsoleHub ----------------------------
(* Small instances of ConsoleHub for TLC; without symmetry, for liveness.  *)
EXTENDS ConsoleHub
=============================================================================
