----------------------------- MODULE MCApprovals -----------------------------
(***************************************************************************)
(* Small instances of Approvals for TLC.  Which connection is made first   *)
(* does not matter, so one of them is: cheaper than their symmetry.  On    *)
(* the last connection a console asks only when no other waits: two that   *)
(* answer at once are on the first one, or on either side of a reconnect.  *)
(***************************************************************************)
EXTENDS Approvals, TLC

CONSTANT c1

FirstIsFirst == used' # {} => c1 \in used'

OneAsks == requests' # requests /\ used = Conns => \A k \in Consoles : req[k].pc = "idle"

SpecBounded == Init /\ [][Next /\ FirstIsFirst /\ OneAsks]_vars

Symmetry == Permutations(Agents) \cup Permutations(Raws) \cup Permutations(Consoles)
=============================================================================
