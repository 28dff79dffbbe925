--------------------------- MODULE CommandPromise ---------------------------
(***************************************************************************)
(* What the gateway promises a caller of ClientHub.SendCommand             *)
(* (gateway/internal/websocket/client_hub.go), without connections, locks, *)
(* channels or the map of pending commands.                                *)
(*                                                                         *)
(* A call is issued once, ends once, and keeps its outcome.  A machine's   *)
(* answer is the only source of the outcomes "completed" and "rejected";   *)
(* a call that never reached a machine ("not_connected", "write_error")    *)
(* was never answered.  "timeout" and "disconnected" promise nothing about *)
(* what the machine did: the command may have run.                         *)
(***************************************************************************)
CONSTANTS Calls    \* the requests the gateway issues, one id per SendCommand

VARIABLES status,  \* "idle", "issued" or "done"
          reply,   \* what the machine answered, or "none"
          outcome  \* what the caller got, or "none" while it waits

vars == <<status, reply, outcome>>

Answers == {"completed", "rejected"}
Failures == {"not_connected", "write_error", "timeout", "disconnected"}

TypeOK ==
    /\ status \in [Calls -> {"idle", "issued", "done"}]
    /\ reply \in [Calls -> Answers \cup {"none"}]
    /\ outcome \in [Calls -> Answers \cup Failures \cup {"none"}]

Init ==
    /\ status = [q \in Calls |-> "idle"]
    /\ reply = [q \in Calls |-> "none"]
    /\ outcome = [q \in Calls |-> "none"]

Issue(q) ==
    /\ status[q] = "idle"
    /\ status' = [status EXCEPT ![q] = "issued"]
    /\ UNCHANGED <<reply, outcome>>

\* The machine answers, at most once, a call that was issued; it may do so
\* after the caller has given up.
Answer(q, a) ==
    /\ status[q] # "idle"
    /\ reply[q] = "none"
    /\ outcome[q] \notin {"not_connected", "write_error"}
    /\ reply' = [reply EXCEPT ![q] = a]
    /\ UNCHANGED <<status, outcome>>

Finish(q, out) ==
    /\ status[q] = "issued"
    /\ out \in Answers => reply[q] = out
    /\ out \in {"not_connected", "write_error"} => reply[q] = "none"
    /\ status' = [status EXCEPT ![q] = "done"]
    /\ outcome' = [outcome EXCEPT ![q] = out]
    /\ UNCHANGED reply

\* A call to a machine that is not connected is refused at once.
Refuse(q) ==
    /\ status[q] = "idle"
    /\ status' = [status EXCEPT ![q] = "done"]
    /\ outcome' = [outcome EXCEPT ![q] = "not_connected"]
    /\ UNCHANGED reply

Next ==
    \E q \in Calls :
        \/ Issue(q)
        \/ Refuse(q)
        \/ \E a \in Answers : Answer(q, a)
        \/ \E out \in Answers \cup Failures : Finish(q, out)

Finishes(q) == \E out \in Answers \cup Failures : Finish(q, out)

Spec == Init /\ [][Next]_vars /\ \A q \in Calls : WF_vars(Finishes(q))
=============================================================================
