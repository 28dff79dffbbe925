------------------------------ MODULE MachineApi ------------------------------
(***************************************************************************)
(* The agents of one machine, as the gateway shows them: POST and DELETE   *)
(* /machines/{id}/agents, restart, runtime/start and runtime/stop of       *)
(* api/server.go, the commands they send (cmd/client/main.go), the         *)
(* snapshots that follow, and the record of the machine in registry/       *)
(* store.go that the snapshots, the hub's connects and disconnects and the *)
(* handlers all write.                                                     *)
(*                                                                         *)
(* The supervisor's steps are module Supervisor's: here an operation is    *)
(* its outcome.  The connections of the machine follow one another without *)
(* overlap: connections that replace one another are module ClientHub's.   *)
(* The commands that only read or write an agent's config change nothing   *)
(* here.                                                                   *)
(***************************************************************************)
EXTENDS Naturals, Sequences, FiniteSets

CONSTANTS Ids,         \* agent ids
          Callers,     \* HTTP callers, each with one request at a time
          MaxRequests  \* bound: requests

VARIABLES
    agents, running, \* the supervisor's records, and the agents with status running
    live,            \* the client is connected
    commands,        \* commands on the connection, not yet taken
    wire,            \* frames from the machine, not yet read
    owner,           \* the hub has a connection for the machine
    reg,             \* the registry's record: online, agents, running
    req,             \* each caller's request
    requests,        \* requests made: the last id
    astray           \* history: no snapshot has been read since a rejected command
                     \* changed the agents, since the last agent was deleted, or
                     \* since something changed between a command's run and its
                     \* handler's write

vars == <<agents, running, live, commands, wire, owner, reg, req, requests, astray>>

Idle == [pc |-> "idle"]
Record(o, as, rs) == [online |-> o, agents |-> as, running |-> rs]
Snapshot(as, rs) == [kind |-> "snapshot", agents |-> as, running |-> rs]

MachineTypeOK ==
    /\ agents \subseteq Ids /\ running \subseteq agents
    /\ live \in BOOLEAN /\ owner \in BOOLEAN
    /\ reg.online \in BOOLEAN /\ reg.agents \subseteq Ids /\ reg.running \subseteq reg.agents
    /\ \A k \in Callers : req[k].pc \in {"idle", "waiting", "answered", "read"}
    /\ requests \in 0..MaxRequests

Init ==
    /\ agents \in SUBSET Ids /\ running = agents
    /\ live = FALSE /\ commands = <<>> /\ wire = <<>> /\ owner = FALSE
    /\ reg = Record(FALSE, {}, {})
    /\ req = [k \in Callers |-> Idle] /\ requests = 0
    /\ astray = FALSE

\* k's command has run, and its handler has yet to write the registry
Between(k) ==
    \/ req[k].pc \in {"answered", "read"}
    \/ req[k].pc = "waiting" /\ \E i \in DOMAIN wire :
           wire[i].kind = "answer" /\ wire[i].id = req[k].id

-----------------------------------------------------------------------------
(* The registry.                                                           *)

\* mutant: an agent list that is not empty is added to the old one
UpsertMerged(m) == [m EXCEPT !.agents = @ \cup reg.agents]

\* Store.Upsert: an empty list keeps the agents there are
Upsert(m) ==
    IF m.agents = {} THEN [m EXCEPT !.agents = reg.agents, !.running = reg.running] ELSE m

-----------------------------------------------------------------------------
(* The client.                                                             *)

\* register, then the snapshot of the machine
Connect ==
    /\ ~live /\ ~owner /\ wire = <<>>
    /\ live' = TRUE
    /\ wire' = <<[kind |-> "register"], Snapshot(agents, running)>>
    /\ UNCHANGED <<agents, running, commands, owner, reg, req, requests, astray>>

Break ==
    /\ live
    /\ live' = FALSE /\ commands' = <<>>
    /\ UNCHANGED <<agents, running, wire, owner, reg, req, requests, astray>>

\* What a completed operation makes of the agents, and the agent it reports.

InstallAgent(op, as, rs, rep) ==
    op[1] = "install" /\ \E a \in Ids \ agents :
        as = agents \cup {a} /\ rs = running \cup {a} /\ rep = {a}

DeleteAgent(op, as, rs, rep) ==
    op[1] = "delete" /\ as = agents \ op[2] /\ rs = running \ op[2] /\ rep = op[2]

RestartAgent(op, as, rs, rep) ==
    /\ op[1] = "restart" /\ op[2] \subseteq agents
    /\ as = agents /\ rs = running \cup op[2] /\ rep = op[2]

StartAll(op, as, rs, rep) == op[1] = "start" /\ as = agents /\ rs = agents /\ rep = {}

StopAll(op, as, rs, rep) == op[1] = "stop" /\ as = agents /\ rs = {} /\ rep = {}

\* machine.agent.config.read, .write
ReadOrWriteConfig(op, as, rs, rep) ==
    op[1] = "config" /\ op[2] \subseteq agents /\ as = agents /\ rs = running /\ rep = {}

Completed(op, as, rs, rep) ==
    \/ InstallAgent(op, as, rs, rep) \/ DeleteAgent(op, as, rs, rep)
    \/ RestartAgent(op, as, rs, rep) \/ ReadOrWriteConfig(op, as, rs, rep)
    \/ StartAll(op, as, rs, rep) \/ StopAll(op, as, rs, rep)

\* ... and what a failed one leaves: a deleted agent whose directory stays, one
\* that does not start again or does not stop well, a start of all rolled back
Failed(op, as, rs) ==
    \/ as = agents /\ rs = running
    \/ op[1] = "delete" /\ rs = running \ op[2] /\ as \in {agents, agents \ op[2]}
    \/ op[1] = "restart" /\ as = agents /\ rs = running \ op[2]
    \/ op[1] \in {"start", "stop"} /\ as = agents /\ rs \in SUBSET running

Says(as, rs) == <<Snapshot(as, rs)>>

\* an operation leaves agents as, and rs of them running
Leaves(as, rs, failed) ==
    /\ agents' = as /\ running' = rs
    /\ astray' = (astray \/ (<<as, rs>> # <<agents, running>>
                              /\ (failed \/ as = {} \/ \E k \in Callers : Between(k))))

\* handleCommandEnvelope: the answer and, for an operation on the agents, the
\* snapshot, unless the connection fails in between ...
RunCompletes ==
    /\ live /\ commands # <<>>
    /\ LET m == Head(commands) IN
       \E as, rs, rep \in SUBSET Ids :
          LET answer == [kind |-> "answer", id |-> m.id, op |-> m.op[1], agent |-> rep] IN
          /\ Completed(m.op, as, rs, rep) /\ Leaves(as, rs, FALSE)
          /\ \/ /\ wire' = Append(wire, answer) \o
                             (IF m.op[1] = "config" THEN <<>> ELSE Says(as, rs))
                /\ commands' = Tail(commands) /\ UNCHANGED live
             \/ wire' = Append(wire, answer) /\ live' = FALSE /\ commands' = <<>>
    /\ UNCHANGED <<owner, reg, req, requests>>

\* ... and no snapshot after a rejection
RunFails ==
    /\ live /\ commands # <<>>
    /\ commands' = Tail(commands)
    /\ LET m == Head(commands) IN
       \E as, rs \in SUBSET Ids :
          /\ Failed(m.op, as, rs) /\ Leaves(as, rs, TRUE)
          /\ wire' = Append(wire, [kind |-> "rejected", id |-> m.id])
    /\ UNCHANGED <<live, owner, reg, req, requests>>

-----------------------------------------------------------------------------
(* The hub.                                                                *)

\* the caller that waits for answer f goes on with it
Resolve(f) ==
    req' = [k \in Callers |->
        IF req[k].pc # "waiting" \/ req[k].id # f.id THEN req[k]
        ELSE IF f.kind = "answer" /\ f.op \in {"install", "delete"}
             THEN [pc |-> "answered", op |-> f.op, agent |-> f.agent]
             ELSE Idle]

\* the snapshot f is the last on its way and true, and no handler will write after it
Corrects(f) ==
    /\ f = Snapshot(agents, running) /\ agents # {}
    /\ \A i \in DOMAIN Tail(wire) : Tail(wire)[i].kind # "snapshot"
    /\ \A k \in Callers : ~Between(k)

ReadFrame ==
    /\ wire # <<>>
    /\ wire' = Tail(wire)
    /\ LET f == Head(wire) IN
       \/ /\ f.kind = "register"
          /\ owner' = TRUE /\ reg' = Upsert(Record(TRUE, {}, {}))
          /\ UNCHANGED <<req, astray>>
       \/ /\ f.kind = "snapshot"
          /\ reg' = Upsert(Record(TRUE, f.agents, f.running))
          /\ astray' = (astray /\ ~Corrects(f))
          /\ UNCHANGED <<owner, req>>
       \/ /\ f.kind \in {"answer", "rejected"}
          /\ Resolve(f)
          /\ UNCHANGED <<owner, reg, astray>>
    /\ UNCHANGED <<agents, running, live, commands, requests>>

\* disconnectClient: MarkOffline, and the waiting requests fail
Disconnect ==
    /\ owner /\ ~live
    /\ owner' = FALSE /\ wire' = <<>>
    /\ reg' = Record(FALSE, reg.agents, {})
    /\ req' = [k \in Callers |-> IF req[k].pc = "waiting" THEN Idle ELSE req[k]]
    /\ astray' = (astray \/ \E k \in Callers : req[k].pc \in {"answered", "read"})
    /\ UNCHANGED <<agents, running, live, commands, requests>>

-----------------------------------------------------------------------------
(* The handlers.                                                           *)

\* the handler sends the command of its operation; refused without a connection
Send(k, op) ==
    /\ req[k].pc = "idle" /\ requests < MaxRequests /\ owner
    /\ requests' = requests + 1
    /\ req' = [req EXCEPT ![k] = [pc |-> "waiting", id |-> requests + 1]]
    /\ commands' = IF live THEN Append(commands, [id |-> requests + 1, op |-> op])
                   ELSE commands
    /\ UNCHANGED <<agents, running, live, wire, owner, reg, astray>>

PostAgent(k) == Send(k, <<"install", {}>>)
DeleteAgentOf(k) == \E a \in Ids : Send(k, <<"delete", {a}>>)
GetOrPutConfig(k) == \E a \in Ids : Send(k, <<"config", {a}>>)
PostRestart(k) == \E a \in Ids : Send(k, <<"restart", {a}>>)
PostRuntime(k) == \E op \in {"start", "stop"} : Send(k, <<op, {}>>)

\* the command times out
Expire(k) ==
    /\ req[k].pc = "waiting"
    /\ req' = [req EXCEPT ![k] = Idle]
    /\ UNCHANGED <<agents, running, live, commands, wire, owner, reg, requests, astray>>

\* reg.Get
GetMachine(k) ==
    /\ req[k].pc = "answered"
    /\ req' = [req EXCEPT ![k] = [pc |-> "read", op |-> @.op, agent |-> @.agent,
                                  machine |-> reg]]
    /\ UNCHANGED <<agents, running, live, commands, wire, owner, reg, requests, astray>>

\* mutant: a deleted agent still counts as running
WithoutListed(m, a) == [m EXCEPT !.agents = @ \ a]

\* removeMachineAgent
Without(m, a) == [m EXCEPT !.agents = @ \ a, !.running = @ \ a]

\* upsertMachineAgent: the agent as it was reported, running
With(m, a) == [m EXCEPT !.agents = @ \cup a, !.running = @ \cup a]

\* ... reg.Upsert
UpsertMachine(k) ==
    /\ req[k].pc = "read"
    /\ reg' = Upsert(IF req[k].op = "install" THEN With(req[k].machine, req[k].agent)
                     ELSE Without(req[k].machine, req[k].agent))
    /\ req' = [req EXCEPT ![k] = Idle]
    /\ UNCHANGED <<agents, running, live, commands, wire, owner, requests, astray>>

Next ==
    \/ Connect \/ Break \/ RunCompletes \/ RunFails \/ ReadFrame \/ Disconnect
    \/ \E k \in Callers :
          \/ PostAgent(k) \/ DeleteAgentOf(k) \/ GetOrPutConfig(k) \/ PostRestart(k)
          \/ PostRuntime(k) \/ Expire(k) \/ GetMachine(k) \/ UpsertMachine(k)

Spec == Init /\ [][Next]_vars

-----------------------------------------------------------------------------
(* Properties.                                                             *)

Settled == wire = <<>> /\ commands = <<>> /\ \A k \in Callers : req[k].pc = "idle"

\* When nothing is under way, the registry shows exactly the machine's agents and
\* which of them run, and a machine without a connection is shown offline, whatever
\* the order in which snapshots, handlers and disconnects wrote the record: unless
\* the record went astray (see astray) and no snapshot has put it right since.
RegistryFollowsMachine ==
    Settled /\ ~astray =>
        /\ live /\ owner => reg = Record(TRUE, agents, running)
        /\ ~live /\ ~owner => ~reg.online

-----------------------------------------------------------------------------
(* The inductive invariant of GatewayStores_proofs.                        *)

OpNames == {"install", "delete", "config", "restart", "start", "stop"}
Machines == [online : BOOLEAN, agents : SUBSET Ids, running : SUBSET Ids]
Commands == [id : 1..MaxRequests, op : OpNames \X SUBSET Ids]
Frames ==
    [kind : {"register"}]
    \cup [kind : {"snapshot"}, agents : SUBSET Ids, running : SUBSET Ids]
    \cup [kind : {"answer"}, id : 1..MaxRequests, op : OpNames, agent : SUBSET Ids]
    \cup [kind : {"rejected"}, id : 1..MaxRequests]
Requests ==
    {Idle}
    \cup [pc : {"waiting"}, id : 1..MaxRequests]
    \cup [pc : {"answered"}, op : {"install", "delete"}, agent : SUBSET Ids]
    \cup [pc : {"read"}, op : {"install", "delete"}, agent : SUBSET Ids, machine : Machines]

MachineShapes ==
    /\ MachineTypeOK
    /\ reg \in Machines
    /\ commands \in Seq(Commands) /\ wire \in Seq(Frames)
    /\ req \in [Callers -> Requests]
    /\ astray \in BOOLEAN
    /\ \A i \in DOMAIN wire :
          wire[i].kind = "snapshot" => wire[i].running \subseteq wire[i].agents
    /\ \A k \in Callers : req[k].pc = "read" =>
          req[k].machine.running \subseteq req[k].machine.agents

\* no frame and no command has an id that is yet to be given
IdsGiven ==
    /\ \A i \in DOMAIN commands : commands[i].id <= requests
    /\ \A i \in DOMAIN wire : wire[i].kind \in {"answer", "rejected"} => wire[i].id <= requests

\* a connection begins with its registration, and nobody is served before
Registers ==
    /\ owner => \A i \in DOMAIN wire : wire[i].kind # "register"
    /\ ~owner =>
          /\ commands = <<>> /\ \A k \in Callers : req[k].pc # "waiting"
          /\ \/ wire = <<>> /\ ~live
             \/ Len(wire) = 2 /\ wire[1].kind = "register" /\ wire[2].kind = "snapshot"
    /\ ~live => commands = <<>>

\* the record that shows the machine as it is
Actual == Record(TRUE, agents, running)

\* the record is r once the frames before i have been read
LeadsTo(i, r) ==
    \/ r = reg /\ \A j \in 1..(i - 1) : wire[j].kind # "snapshot"
    \/ \E j \in 1..(i - 1) :
          /\ wire[j].kind = "snapshot" /\ r = Record(TRUE, wire[j].agents, wire[j].running)
          /\ \A n \in (j + 1)..(i - 1) : wire[n].kind # "snapshot"

\* the record is right once all frames have been read
Follows == live => LeadsTo(Len(wire) + 1, Actual)

\* the snapshots from position i on show the machine as it is
TrueFrom(i) ==
    \A j \in DOMAIN wire : j >= i /\ wire[j].kind = "snapshot" =>
        wire[j].agents = agents /\ wire[j].running = running

\* what the handler of an installation or a deletion makes of record m
Written(op, m, a) == IF op = "install" THEN With(m, a) ELSE Without(m, a)

\* while k's handler is between its command and its write, nothing else has changed:
\* what it will have read and written is right
Handled(k) ==
    /\ req[k].pc = "waiting" =>
          \A i \in DOMAIN wire : wire[i].kind = "answer" /\ wire[i].id = req[k].id =>
              /\ TrueFrom(i)
              /\ wire[i].op \in {"install", "delete"} =>
                    \E r \in Machines :
                        LeadsTo(i, r) /\ Written(wire[i].op, r, wire[i].agent) = Actual
    /\ req[k].pc \in {"answered", "read"} => TrueFrom(1)
    /\ req[k].pc = "answered" => Written(req[k].op, reg, req[k].agent) = Actual
    /\ req[k].pc = "read" => Written(req[k].op, req[k].machine, req[k].agent) = Actual

\* an empty list of agents, which keeps the record's, finds an empty one there
EmptyFindsEmpty ==
    /\ agents = {} => reg.agents = {} /\ TrueFrom(1)
    /\ \A i \in DOMAIN wire : wire[i].kind = "snapshot" /\ wire[i].agents = {} =>
          /\ reg.agents = {}
          /\ \A j \in 1..i : wire[j].kind = "snapshot" => wire[j].agents = {}

Offline == ~owner => ~reg.online /\ \A k \in Callers : req[k].pc = "idle"

OnCourse == Follows /\ (\A k \in Callers : Handled(k)) /\ EmptyFindsEmpty /\ Offline

MachineInv == MachineShapes /\ IdsGiven /\ Registers /\ (~astray => OnCourse)
===============================================================================
