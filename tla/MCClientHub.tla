---------------------------- MODULE MCClientHub -----------------------------
(* Small instances of ClientHub for TLC; without symmetry, for liveness.   *)
EXTENDS ClientHub
=============================================================================
