----------------------------- MODULE ClientHub ------------------------------
(***************************************************************************)
(* The gateway's hub of machine connections:                               *)
(* gateway/internal/websocket/client_hub.go, with the machine status kept  *)
(* by gateway/internal/registry/store.go, and the two handlers of api/     *)
(* server.go that read a machine's record and write it back.               *)
(*                                                                         *)
(* One goroutine serves each WebSocket connection: it reads frames, one at *)
(* a time, and on a read error runs the deferred disconnectClient.  One    *)
(* goroutine runs each SendCommand.  They share the maps clients and       *)
(* pendingCommands, guarded by h.mu, and the registry, which has a lock of *)
(* its own.  An action below is one critical section, or one channel or    *)
(* socket operation, so every interleaving of the goroutines between two   *)
(* of those is a behaviour of this specification.                          *)
(*                                                                         *)
(* Left to other modules: threads, turns and approvals (what a completed   *)
(* command or an event changes besides the waiting call) and the frames    *)
(* sent to the consoles.                                                   *)
(***************************************************************************)
CONSTANTS Machines,  \* machine ids
          Conns,     \* WebSocket connections, each accepted at most once
          Calls,     \* SendCommand calls; a call's request id is the call
          None       \* Go's nil or "": no machine, no connection

ASSUME NoneAssumption == None \notin Machines \cup Conns \cup Calls

VARIABLES
    clients,   \* h.clients: machine -> the connection that owns it, or None
    pending,   \* h.pendingCommands: call -> the waiter's machineID, or None
    registry,  \* registry.machines[m].Status, "absent" before the first Upsert
    connPC,    \* where each connection's goroutine is
    machineOf, \* registeredMachineID of each connection's goroutine
    answering, \* the call whose answer the goroutine is handling, or None
    collected, \* waiters the goroutine took in cleanup and has yet to fail
    callPC,    \* where each SendCommand is
    target,    \* its machineID argument
    via,       \* the connection it found in clients
    channel,   \* its responseCh, of capacity 1: "empty" or the result sent
    outcome,   \* what it returns: decided in "giving_up", final in "done"
    wire,      \* calls written to a connection that its client has not answered
    reply,     \* the answer the gateway read from the client, "none" before
    record,    \* the status in the copy of the machine's record that the handler of
               \* the call has read, "none" before, "written" after its write
    astray     \* history: the machines whose status a handler wrote back after it had
               \* changed, and nobody has written since

hubVars == <<clients, pending, registry, astray>>
connVars == <<connPC, machineOf, answering, collected>>
callVars == <<callPC, target, via, channel, outcome, record>>
netVars == <<wire, reply>>
vars == <<hubVars, connVars, callVars, netVars>>

Answers == {"completed", "rejected"}
Failures == {"not_connected", "write_error", "timeout", "disconnected"}

TypeOK ==
    /\ clients \in [Machines -> Conns \cup {None}]
    /\ pending \in [Calls -> Machines \cup {None}]
    /\ registry \in [Machines -> {"absent", "online", "offline"}]
    /\ connPC \in [Conns -> {"new", "reading", "upserting", "checked", "delivering",
                             "closing", "dropped", "gone"}]
    /\ machineOf \in [Conns -> Machines \cup {None}]
    /\ answering \in [Conns -> Calls \cup {None}]
    /\ collected \in [Conns -> SUBSET Calls]
    /\ callPC \in [Calls -> {"idle", "looked_up", "registered", "waiting",
                             "giving_up", "done"}]
    /\ target \in [Calls -> Machines \cup {None}]
    /\ via \in [Calls -> Conns \cup {None}]
    /\ channel \in [Calls -> Answers \cup {"disconnected", "empty"}]
    /\ outcome \in [Calls -> Answers \cup Failures \cup {"none"}]
    /\ wire \in [Conns -> SUBSET Calls]
    /\ reply \in [Calls -> Answers \cup {"none"}]
    /\ record \in [Calls -> {"none", "online", "offline", "written"}]
    /\ astray \subseteq Machines

Init ==
    /\ clients = [m \in Machines |-> None]
    /\ pending = [q \in Calls |-> None]
    /\ registry = [m \in Machines |-> "absent"]
    /\ connPC = [c \in Conns |-> "new"]
    /\ machineOf = [c \in Conns |-> None]
    /\ answering = [c \in Conns |-> None]
    /\ collected = [c \in Conns |-> {}]
    /\ callPC = [q \in Calls |-> "idle"]
    /\ target = [q \in Calls |-> None]
    /\ via = [q \in Calls |-> None]
    /\ channel = [q \in Calls |-> "empty"]
    /\ outcome = [q \in Calls |-> "none"]
    /\ wire = [c \in Conns |-> {}]
    /\ reply = [q \in Calls |-> "none"]
    /\ record = [q \in Calls |-> "none"]
    /\ astray = {}

-----------------------------------------------------------------------------
(* The connection's goroutine.                                             *)

\* isCurrentOwner, and the same comparison in disconnectClient and register
Owns(c, m) == m # None /\ clients[m] = c

Accept(c) ==
    /\ connPC[c] = "new"
    /\ connPC' = [connPC EXCEPT ![c] = "reading"]
    /\ UNCHANGED <<hubVars, machineOf, answering, collected, callVars, netVars>>

\* registry.MarkOffline: a machine the store does not know stays unknown
MarkOffline(m) ==
    /\ registry' = [registry EXCEPT ![m] = IF @ = "absent" THEN @ ELSE "offline"]
    /\ astray' = astray \ {m}

\* cleanupMachineLocked(m, true), run by c inside h.mu: take every waiter of m
\* out of pendingCommands, to be failed after the unlock, and mark m offline.
CleanupMachine(c, m) ==
    /\ collected' = [collected EXCEPT ![c] = {q \in Calls : pending[q] = m}]
    /\ pending' = [q \in Calls |-> IF pending[q] = m THEN None ELSE pending[q]]
    /\ MarkOffline(m)

\* mutant: a connection that changes its machine keeps its old entry
RegisterKeepsOld(c, m) ==
    /\ connPC[c] = "reading"
    /\ clients' = [clients EXCEPT ![m] = c]
    /\ machineOf' = [machineOf EXCEPT ![c] = m]
    /\ connPC' = [connPC EXCEPT ![c] = "upserting"]
    /\ UNCHANGED <<pending, registry, astray, collected, answering, callVars, netVars>>

\* The locked part of "client.register".  A connection that was registered as
\* another machine, and still owns it, gives that machine up first.  A previous
\* connection of m is replaced without a word: its goroutine goes on reading.
ReadRegister(c, m) ==
    /\ connPC[c] = "reading"
    /\ LET old == machineOf[c]
       IN  IF old # m /\ Owns(c, old)
           THEN /\ clients' = [clients EXCEPT ![old] = None, ![m] = c]
                /\ CleanupMachine(c, old)
           ELSE /\ clients' = [clients EXCEPT ![m] = c]
                /\ UNCHANGED <<pending, registry, astray, collected>>
    /\ machineOf' = [machineOf EXCEPT ![c] = m]
    /\ connPC' = [connPC EXCEPT ![c] = "upserting"]
    /\ UNCHANGED <<answering, callVars, netVars>>

\* "machine.snapshot": the ownership test, under the read lock.  A frame of a
\* connection that does not own its machine is dropped.
ReadMachineSnapshot(c) ==
    /\ connPC[c] = "reading"
    /\ Owns(c, machineOf[c])
    /\ connPC' = [connPC EXCEPT ![c] = "upserting"]
    /\ UNCHANGED <<hubVars, machineOf, answering, collected, callVars, netVars>>

\* registry.Upsert with status online, the last step of a registration (after
\* failPendingWaiters) and of a machine snapshot: no hub lock is held.
UpsertOnline(c) ==
    /\ connPC[c] = "upserting"
    /\ collected[c] = {}
    /\ registry' = [registry EXCEPT ![machineOf[c]] = "online"]
    /\ astray' = astray \ {machineOf[c]}
    /\ connPC' = [connPC EXCEPT ![c] = "reading"]
    /\ UNCHANGED <<clients, pending, machineOf, answering, collected, callVars, netVars>>

\* "command.completed" and "command.rejected": the client answers a command it
\* received on this connection; the answer counts only if c owns its machine.
ReadAnswer(c, q, a) ==
    /\ connPC[c] = "reading"
    /\ q \in wire[c]
    /\ wire' = [wire EXCEPT ![c] = @ \ {q}]
    /\ reply' = [reply EXCEPT ![q] = a]
    /\ IF Owns(c, machineOf[c])
       THEN /\ connPC' = [connPC EXCEPT ![c] = "checked"]
            /\ answering' = [answering EXCEPT ![c] = q]
       ELSE UNCHANGED <<connPC, answering>>
    /\ UNCHANGED <<hubVars, machineOf, collected, callVars>>

\* mutant: the waiter is read but not deleted
TakeKeepsWaiter(c) ==
    /\ connPC[c] = "checked"
    /\ IF pending[answering[c]] # None
       THEN /\ connPC' = [connPC EXCEPT ![c] = "delivering"]
            /\ UNCHANGED answering
       ELSE /\ connPC' = [connPC EXCEPT ![c] = "reading"]
            /\ answering' = [answering EXCEPT ![c] = None]
    /\ UNCHANGED <<hubVars, machineOf, collected, callVars, netVars>>

\* resolvePendingCommand, the locked part: take the waiter, if it is there
TakeWaiter(c) ==
    /\ connPC[c] = "checked"
    /\ LET q == answering[c]
       IN  /\ pending' = [pending EXCEPT ![q] = None]
           /\ IF pending[q] # None
              THEN /\ connPC' = [connPC EXCEPT ![c] = "delivering"]
                   /\ UNCHANGED answering
              ELSE /\ connPC' = [connPC EXCEPT ![c] = "reading"]
                   /\ answering' = [answering EXCEPT ![c] = None]
    /\ UNCHANGED <<clients, registry, astray, machineOf, collected, callVars, netVars>>

\* select { case ch <- result: default: } -- a full channel drops the result
TrySend(q, result) ==
    channel' = [channel EXCEPT ![q] = IF @ = "empty" THEN result ELSE @]

\* mutant: a rejection is delivered as a completion
DeliverCompleted(c) ==
    /\ connPC[c] = "delivering"
    /\ TrySend(answering[c], "completed")
    /\ connPC' = [connPC EXCEPT ![c] = "reading"]
    /\ answering' = [answering EXCEPT ![c] = None]
    /\ UNCHANGED <<hubVars, machineOf, collected, callPC, target, via, outcome, record, netVars>>

DeliverAnswer(c) ==
    /\ connPC[c] = "delivering"
    /\ TrySend(answering[c], reply[answering[c]])
    /\ connPC' = [connPC EXCEPT ![c] = "reading"]
    /\ answering' = [answering EXCEPT ![c] = None]
    /\ UNCHANGED <<hubVars, machineOf, collected, callPC, target, via, outcome, record, netVars>>

\* mutant: the send blocks until the caller is at its receive
FailWaiterBlocking(c, q) ==
    /\ q \in collected[c]
    /\ callPC[q] = "waiting"
    /\ TrySend(q, "disconnected")
    /\ collected' = [collected EXCEPT ![c] = @ \ {q}]
    /\ UNCHANGED <<hubVars, connPC, machineOf, answering, callPC, target, via, outcome, record, netVars>>

\* one iteration of failPendingWaiters
FailWaiter(c, q) ==
    /\ q \in collected[c]
    /\ TrySend(q, "disconnected")
    /\ collected' = [collected EXCEPT ![c] = @ \ {q}]
    /\ UNCHANGED <<hubVars, connPC, machineOf, answering, callPC, target, via, outcome, record, netVars>>

\* conn.Read returns an error: the loop ends and the deferred calls run
ReadError(c) ==
    /\ connPC[c] = "reading"
    /\ connPC' = [connPC EXCEPT ![c] = "closing"]
    /\ UNCHANGED <<hubVars, machineOf, answering, collected, callVars, netVars>>

\* mutant: no ownership test
DisconnectAnyOwner(c) ==
    /\ connPC[c] = "closing"
    /\ machineOf[c] # None
    /\ connPC' = [connPC EXCEPT ![c] = "dropped"]
    /\ clients' = [clients EXCEPT ![machineOf[c]] = None]
    /\ CleanupMachine(c, machineOf[c])
    /\ UNCHANGED <<machineOf, answering, callVars, netVars>>

\* disconnectClient, the locked part
Disconnect(c) ==
    /\ connPC[c] = "closing"
    /\ connPC' = [connPC EXCEPT ![c] = "dropped"]
    /\ IF Owns(c, machineOf[c])
       THEN /\ clients' = [clients EXCEPT ![machineOf[c]] = None]
            /\ CleanupMachine(c, machineOf[c])
       ELSE UNCHANGED <<hubVars, collected>>
    /\ UNCHANGED <<machineOf, answering, callVars, netVars>>

\* the deferred conn.Close, after disconnectClient has failed its waiters
CloseConn(c) ==
    /\ connPC[c] = "dropped"
    /\ collected[c] = {}
    /\ connPC' = [connPC EXCEPT ![c] = "gone"]
    /\ UNCHANGED <<hubVars, machineOf, answering, collected, callVars, netVars>>

-----------------------------------------------------------------------------
(* SendCommand, in the goroutine of an HTTP handler.                       *)

Lookup(q, m) ==
    /\ callPC[q] = "idle"
    /\ target' = [target EXCEPT ![q] = m]
    /\ IF clients[m] = None
       THEN /\ callPC' = [callPC EXCEPT ![q] = "done"]
            /\ outcome' = [outcome EXCEPT ![q] = "not_connected"]
            /\ UNCHANGED via
       ELSE /\ callPC' = [callPC EXCEPT ![q] = "looked_up"]
            /\ via' = [via EXCEPT ![q] = clients[m]]
            /\ UNCHANGED outcome
    /\ UNCHANGED <<hubVars, connVars, channel, record, netVars>>

RegisterPending(q) ==
    /\ callPC[q] = "looked_up"
    /\ pending' = [pending EXCEPT ![q] = target[q]]
    /\ callPC' = [callPC EXCEPT ![q] = "registered"]
    /\ UNCHANGED <<clients, registry, astray, connVars, target, via, channel, outcome, record,
                   netVars>>

\* A write succeeds on any connection that is not closed yet, also on one whose
\* peer has gone: the bytes then reach nobody.
WriteSucceeds(q) ==
    /\ callPC[q] = "registered"
    /\ connPC[via[q]] # "gone"
    /\ wire' = [wire EXCEPT ![via[q]] = @ \cup {q}]
    /\ callPC' = [callPC EXCEPT ![q] = "waiting"]
    /\ UNCHANGED <<hubVars, connVars, target, via, channel, outcome, record, reply>>

WriteFails(q) ==
    /\ callPC[q] = "registered"
    /\ callPC' = [callPC EXCEPT ![q] = "giving_up"]
    /\ outcome' = [outcome EXCEPT ![q] = "write_error"]
    /\ UNCHANGED <<hubVars, connVars, target, via, channel, record, netVars>>

\* select: the deadline (30 s, or the caller's) may win against a ready result
Expire(q) ==
    /\ callPC[q] = "waiting"
    /\ callPC' = [callPC EXCEPT ![q] = "giving_up"]
    /\ outcome' = [outcome EXCEPT ![q] = "timeout"]
    /\ UNCHANGED <<hubVars, connVars, target, via, channel, record, netVars>>

\* mutant: the error paths return without deleting the waiter
ForgetNothing(q) ==
    /\ callPC[q] = "giving_up"
    /\ callPC' = [callPC EXCEPT ![q] = "done"]
    /\ UNCHANGED <<hubVars, connVars, target, via, channel, outcome, record, netVars>>

\* delete(h.pendingCommands, requestID) after an error, then return
Forget(q) ==
    /\ callPC[q] = "giving_up"
    /\ pending' = [pending EXCEPT ![q] = None]
    /\ callPC' = [callPC EXCEPT ![q] = "done"]
    /\ UNCHANGED <<clients, registry, astray, connVars, target, via, channel, outcome, record,
                   netVars>>

ReceiveResult(q) ==
    /\ callPC[q] = "waiting"
    /\ channel[q] # "empty"
    /\ outcome' = [outcome EXCEPT ![q] = channel[q]]
    /\ channel' = [channel EXCEPT ![q] = "empty"]
    /\ callPC' = [callPC EXCEPT ![q] = "done"]
    /\ UNCHANGED <<hubVars, connVars, target, via, record, netVars>>

-----------------------------------------------------------------------------
(* POST and DELETE /machines/{id}/agents, after their command completed.   *)

\* reg.Get; a machine that is not there is taken for one that is online
GetMachine(q) ==
    /\ callPC[q] = "done" /\ outcome[q] = "completed" /\ record[q] = "none"
    /\ record' = [record EXCEPT ![q] = IF registry[target[q]] = "offline" THEN "offline"
                                       ELSE "online"]
    /\ UNCHANGED <<hubVars, connVars, callPC, target, via, channel, outcome, netVars>>

\* reg.Upsert of the copy, whose status may no longer be the machine's
UpsertMachine(q) ==
    /\ record[q] \in {"online", "offline"}
    /\ registry' = [registry EXCEPT ![target[q]] = record[q]]
    /\ astray' = IF registry[target[q]] = record[q] THEN astray ELSE astray \cup {target[q]}
    /\ record' = [record EXCEPT ![q] = "written"]
    /\ UNCHANGED <<clients, pending, connVars, callPC, target, via, channel, outcome, netVars>>

-----------------------------------------------------------------------------
ConnStep(c) ==
    \/ UpsertOnline(c)
    \/ TakeWaiter(c)
    \/ DeliverAnswer(c)
    \/ \E q \in Calls : FailWaiter(c, q)
    \/ Disconnect(c)
    \/ CloseConn(c)

\* frames and errors arrive when the network and the client choose
ConnInput(c) ==
    \/ Accept(c)
    \/ \E m \in Machines : ReadRegister(c, m)
    \/ ReadMachineSnapshot(c)
    \/ \E q \in Calls, a \in Answers : ReadAnswer(c, q, a)
    \/ ReadError(c)

CallStep(q) ==
    \/ RegisterPending(q)
    \/ WriteSucceeds(q)
    \/ WriteFails(q)
    \/ Expire(q)
    \/ Forget(q)
    \/ ReceiveResult(q)
    \/ UpsertMachine(q)

Next ==
    \/ \E c \in Conns : ConnStep(c) \/ ConnInput(c)
    \/ \E q \in Calls : CallStep(q) \/ GetMachine(q) \/ \E m \in Machines : Lookup(q, m)

\* The Go scheduler runs every goroutine that can run and the call's timer
\* fires.  Nothing obliges a client to connect, answer or hang up, and a dead
\* peer may never be noticed: the read has no deadline.
Fairness ==
    /\ \A c \in Conns : WF_vars(ConnStep(c))
    /\ \A q \in Calls : WF_vars(CallStep(q))

Spec == Init /\ [][Next]_vars /\ Fairness

-----------------------------------------------------------------------------
(* Properties.                                                             *)

\* c took q's waiter out of pendingCommands and has yet to send on its channel
Holds(c, q) ==
    \/ q \in collected[c]
    \/ connPC[c] = "delivering" /\ answering[c] = q

\* The answer, the disconnect and the timeout race for a waiter, but exactly one
\* goroutine gets it: at any time it is in the map, or in the hands of one
\* connection, or its result is in the channel.  So resolvePendingCommand and
\* failPendingWaiters never reach their "default:" and no result is lost.
OneResultPerCall ==
    \A q \in Calls :
        /\ pending[q] # None => channel[q] = "empty" /\ \A c \in Conns : ~Holds(c, q)
        /\ \A c \in Conns : Holds(c, q) =>
              /\ channel[q] = "empty"
              /\ \A d \in Conns : Holds(d, q) => d = c
              /\ ~(q \in collected[c] /\ connPC[c] = "delivering")

\* A call that has returned, whatever the reason and however late its answer,
\* leaves no entry behind in pendingCommands.
NoWaiterLeak ==
    \A q \in Calls : pending[q] # None => callPC[q] \in {"registered", "waiting", "giving_up"}

\* An entry of clients always leads to a goroutine that is registered as that
\* machine and has its own disconnectClient still ahead of it: no interleaving
\* of registrations, replacements and hang-ups leaves an entry that nobody will
\* remove.
NoGhostConnection ==
    \A m \in Machines : clients[m] # None =>
        /\ machineOf[clients[m]] = m
        /\ connPC[clients[m]] \notin {"new", "dropped", "gone"}

\* A machine whose owner has finished registering is shown online, even while
\* connections it replaced are still being torn down: unless POST or DELETE agents
\* wrote back a status it had read before, and no frame of the machine has put it
\* right since (astray).
ConnectedShownOnline ==
    \A m \in Machines \ astray :
        clients[m] # None /\ connPC[clients[m]] # "upserting" => registry[m] = "online"

\* The hub's map and the registry tell the truth about connections: both of the above.
ClientsAreConnected == NoGhostConnection /\ ConnectedShownOnline

\* Only the owner's goroutine, hanging up or registering as another machine,
\* removes a machine from clients, and nothing else turns it offline but a handler
\* that read the machine's record while it was offline and writes it back: the end of
\* a replaced connection never touches its successor.
ReconnectKeepsOwner ==
    [][\A m \in Machines :
          \/ /\ registry[m] = "online" /\ registry'[m] = "offline"
             /\ \A q \in Calls : target[q] = m /\ record[q] = "offline" => record'[q] = record[q]
          \/ clients[m] # None /\ clients'[m] = None
          => /\ clients[m] # None
             /\ clients'[m] = None
             /\ connPC[clients[m]] \in {"reading", "closing"}
             /\ connPC'[clients[m]] # connPC[clients[m]]]_vars

\* Every SendCommand keeps the gateway's promise to its caller: one outcome,
\* an answer only if the machine gave that answer, and an end to the wait.
Promise == INSTANCE CommandPromise WITH
    status <- [q \in Calls |-> IF callPC[q] \in {"idle", "done"} THEN callPC[q] ELSE "issued"],
    reply <- reply,
    outcome <- [q \in Calls |-> IF callPC[q] = "done" THEN outcome[q] ELSE "none"]

KeepsPromise == Promise!Spec

\* A connection's goroutine never gets stuck on the callers whose commands it
\* has to fail: a broken connection is always cleaned up and closed.
BrokenConnectionsClose ==
    \A c \in Conns : connPC[c] = "closing" ~> connPC[c] = "gone"

\* Once every goroutine is back at its read, a machine without a connection is
\* not shown online.  (The design document's claim; see the README.)
OfflineAfterDisconnect ==
    (\A c \in Conns : connPC[c] \in {"new", "reading", "gone"}) =>
        \A m \in Machines : clients[m] = None => registry[m] # "online"

-----------------------------------------------------------------------------
(* The inductive invariant behind the safety properties: what each place a *)
(* goroutine can be in says about the maps, the channel and the wire.      *)

\* a connection's goroutine
ConnInv ==
    \A c \in Conns :
        /\ collected[c] # {} => connPC[c] \in {"upserting", "dropped"}
        /\ connPC[c] \in {"checked", "delivering"} => answering[c] \in Calls
        /\ connPC[c] \in {"checked", "delivering"} => reply[answering[c]] \in Answers
        /\ connPC[c] = "upserting" => machineOf[c] \in Machines

\* a command on the wire has been written once, by its own call, and not answered
WireInv ==
    \A c \in Conns : \A q \in wire[c] :
        /\ via[q] = c
        /\ reply[q] = "none"
        /\ callPC[q] \in {"waiting", "giving_up", "done"}
        /\ callPC[q] # "waiting" => outcome[q] \notin {"not_connected", "write_error"}

\* a call and its channel
CallInv ==
    \A q \in Calls :
        /\ callPC[q] \in {"looked_up", "registered", "waiting"} =>
              target[q] \in Machines /\ via[q] \in Conns
        /\ callPC[q] \in {"idle", "looked_up"} =>
              channel[q] = "empty" /\ \A c \in Conns : ~Holds(c, q)
        /\ channel[q] \in Answers => reply[q] = channel[q]
        /\ reply[q] # "none" =>
              /\ \A c \in Conns : q \notin wire[c]
              /\ callPC[q] \in {"waiting", "giving_up", "done"}
              /\ callPC[q] # "waiting" => outcome[q] \notin {"not_connected", "write_error"}
        /\ callPC[q] = "giving_up" => outcome[q] \in {"write_error", "timeout"}
        /\ outcome[q] = "completed" => callPC[q] = "done" /\ target[q] \in Machines
        /\ record[q] # "none" => outcome[q] = "completed"

IInv ==
    /\ TypeOK
    /\ ConnInv
    /\ WireInv
    /\ CallInv
    /\ OneResultPerCall
    /\ NoWaiterLeak
    /\ NoGhostConnection
    /\ ConnectedShownOnline
=============================================================================
