------------------------------ MODULE Approvals ------------------------------
(***************************************************************************)
(* The approvals of a machine's agents.  An agent asks (a JSON-RPC request *)
(* to codex/appserver_client.go), the client sends a timeline event if the *)
(* request belongs to a turn, then its session remembers whose the request *)
(* is and sends approval.required (cmd/client/main.go), the hub keeps its  *)
(* route and the registry its card (client_hub.go, registry/store.go), a   *)
(* console answers it (POST /approvals/{id}/respond), and the command loop *)
(* hands the answer to the agent (codex/approvals.go).  The agent may also *)
(* settle its request itself (serverRequest/resolved).                     *)
(*                                                                         *)
(* One machine: a public approval id is then the raw id the agent chose.   *)
(* Each agent numbers its own requests, so two agents may use one id.      *)
(* approval.required and the timeline event before it have the same effect *)
(* on the gateway, and a console may answer between them.  The two frames  *)
(* of a resolution are one.                                                *)
(***************************************************************************)
EXTENDS Naturals, Sequences, FiniteSets

CONSTANTS Agents,
          Raws,         \* request ids an agent uses, each once
          Conns,        \* connections of the machine, each made at most once
          Consoles,     \* HTTP callers, each with one request at a time
          None,
          MaxBreaks,    \* bound: connections that break
          MaxRaised,    \* bound: approvals asked for
          MaxRequests   \* bound: answers given by the consoles

ASSUME ApprovalsAssumption ==
    /\ None \notin Agents \cup Conns
    /\ MaxBreaks \in Nat /\ MaxRaised \in Nat /\ MaxRequests \in Nat

VARIABLES
    installed, \* the machine's agents
    raised,    \* history: <<agent, raw>> asked for
    pending,   \* each runtime's pendingApprovals
    asking,    \* the request each agent's readLoop is handling
    answers,   \* history: <<agent, raw, command>>: the command's decision handed to it
    early,     \* history: approvals over before approval.required was sent
    lost,      \* history: approvals with a frame that never reached the hub as its
               \* owner's, or was still unread when the next connection was made
    live,      \* the connection the client uses, or None
    used,      \* connections made
    registered, \* connections that have written their register
    session,   \* each session's approvalByID: the agent of a raw id, or None
    commands,  \* commands written to the connection and not yet taken
    loop,      \* each connection's command loop
    overlap,   \* history: two loops were at work at once
    wire,      \* frames written by the machine and not yet read
    owner,     \* h.clients[machine]
    route,     \* h.approvalRequests: ids that lead to the machine
    shown,     \* registry.pendingApprovals: the agent whose card an id shows
    req,       \* each console's request
    requests,  \* requests made: the last request id
    told       \* history: <<raw, command>> answered with 200

agentVars == <<installed, raised, pending, asking, answers, early, lost>>
clientVars == <<live, used, registered, session, loop, overlap>>
hubVars == <<owner, route, shown>>
apiVars == <<req, requests, told>>
vars == <<agentVars, clientVars, commands, wire, hubVars, apiVars>>

Idle == [pc |-> "idle"]

TypeOK ==
    /\ installed \subseteq Agents
    /\ raised \subseteq installed \X Raws
    /\ pending \in [Agents -> SUBSET Raws]
    /\ \A a \in Agents : \A r \in pending[a] : <<a, r>> \in raised
    /\ \A a \in Agents : asking[a].pc \in {"idle", "raised", "announced"}
    /\ early \subseteq raised /\ lost \subseteq raised
    /\ answers \subseteq Agents \X Raws \X (1..MaxRequests)
    /\ used \subseteq Conns /\ registered \subseteq used
    /\ live \in used \cup {None} /\ owner \in Conns \cup {None}
    /\ session \in [Conns -> [Raws -> Agents \cup {None}]]
    /\ \A c \in Conns : loop[c].pc \in {"idle", "found", "answered"}
    /\ route \subseteq Raws /\ shown \in [Raws -> Agents \cup {None}]
    /\ \A r \in Raws : shown[r] # None => <<shown[r], r>> \in raised
    /\ \A k \in Consoles : req[k].pc \in {"idle", "waiting", "clean"}
    /\ requests \in 0..MaxRequests
    /\ told \subseteq Raws \X (1..MaxRequests)

Init ==
    /\ installed \in (SUBSET Agents) \ {{}}
    /\ raised = {} /\ pending = [a \in Agents |-> {}] /\ asking = [a \in Agents |-> Idle]
    /\ answers = {} /\ early = {} /\ lost = {}
    /\ live = None /\ used = {} /\ registered = {}
    /\ session = [c \in Conns |-> [r \in Raws |-> None]]
    /\ commands = <<>>
    /\ loop = [c \in Conns |-> Idle]
    /\ overlap = FALSE
    /\ wire = [c \in Conns |-> <<>>]
    /\ owner = None /\ route = {} /\ shown = [r \in Raws |-> None]
    /\ req = [k \in Consoles |-> Idle] /\ requests = 0 /\ told = {}

\* the approvals that frames are about
About(frames) ==
    {<<f.agent, f.raw>> : f \in {g \in frames : g.kind \in {"required", "resolved"}}}
Unread(c) == About({wire[c][i] : i \in DOMAIN wire[c]})

Frame(kind, a, r) == [kind |-> kind, agent |-> a, raw |-> r]

-----------------------------------------------------------------------------
(* The client and its connections.                                         *)

\* runClient binds the runtimes' handlers to the new session ...
Connect(c) ==
    /\ live = None /\ c \notin used
    /\ live' = c /\ used' = used \cup {c}
    /\ overlap' = (overlap \/ \E d \in Conns : loop[d].pc # "idle")
    /\ lost' = lost \cup UNION {Unread(d) : d \in Conns}
    /\ UNCHANGED <<installed, raised, pending, asking, answers, early, registered,
                   session, loop, commands, wire, hubVars, apiVars>>

\* ... before it registers: what the agents ask in between precedes the register
Register ==
    /\ live # None /\ live \notin registered
    /\ registered' = registered \cup {live}
    /\ wire' = [wire EXCEPT ![live] = Append(@, [kind |-> "register"])]
    /\ UNCHANGED <<agentVars, live, used, session, loop, overlap, commands, hubVars,
                   apiVars>>

\* the connection breaks: the commands on it are lost, its loop may be at work
Break ==
    /\ live # None /\ Cardinality(used) <= MaxBreaks
    /\ live' = None /\ commands' = <<>>
    /\ UNCHANGED <<agentVars, used, registered, session, loop, overlap, wire,
                   hubVars, apiVars>>

\* handleServerRequest: the request is noted, and the handler bound to the session
\* read; the agent's readLoop does nothing else until both frames are sent
Raise(a, r) ==
    /\ a \in installed /\ <<a, r>> \notin raised /\ asking[a].pc = "idle"
    /\ Cardinality(raised) < MaxRaised
    /\ raised' = raised \cup {<<a, r>>}
    /\ pending' = [pending EXCEPT ![a] = @ \cup {r}]
    /\ asking' = [asking EXCEPT ![a] = [pc |-> "raised", raw |-> r, conn |-> live]]
    /\ UNCHANGED <<installed, answers, early, lost, clientVars, commands, wire, hubVars,
                   apiVars>>

\* ... approval.requested on the timeline, when the approval belongs to a turn, by
\* the session the runtime is bound to now
Announce(a) ==
    /\ asking[a].pc = "raised"
    /\ asking' = [asking EXCEPT ![a].pc = "announced"]
    /\ wire' = IF live = None THEN wire
               ELSE [wire EXCEPT ![live] = Append(@, Frame("required", a, asking[a].raw))]
    /\ UNCHANGED <<installed, raised, pending, answers, early, lost, clientVars, commands,
                   hubVars, apiVars>>

\* ... session.ApprovalRequired, by the session that was read: the context is
\* remembered and the frame sent; a broken session's context is never looked up
Require(a) ==
    LET r == asking[a].raw
        c == asking[a].conn
    IN  /\ asking[a].pc # "idle"
        /\ asking' = [asking EXCEPT ![a] = Idle]
        /\ IF c # None /\ live = c
           THEN /\ wire' = [wire EXCEPT ![c] = Append(@, Frame("required", a, r))]
                /\ session' = [session EXCEPT ![c][r] = a]
                /\ UNCHANGED lost
           ELSE lost' = lost \cup {<<a, r>>} /\ UNCHANGED <<session, wire>>
        /\ UNCHANGED <<installed, raised, pending, answers, early, live, used, registered,
                       loop, overlap, commands, hubVars, apiVars>>

\* mutant: the context and the frame of a request the agent settles are forgotten
ResolvedUnsaid(c, a, r) == UNCHANGED <<session, wire, lost>>

\* session.ApprovalResolved on connection c: the context stays if it cannot be sent
Resolved(c, a, r) ==
    IF c # None /\ live = c
    THEN /\ wire' = [wire EXCEPT ![c] = Append(@, Frame("resolved", a, r))]
         /\ session' = [session EXCEPT ![c][r] = None]
         /\ UNCHANGED lost
    ELSE lost' = lost \cup {<<a, r>>} /\ UNCHANGED <<session, wire>>

\* serverRequest/resolved: takePendingApproval
SettlesItself(a, r) ==
    /\ r \in pending[a] /\ asking[a].pc = "idle"
    /\ pending' = [pending EXCEPT ![a] = @ \ {r}]
    /\ Resolved(live, a, r)
    /\ UNCHANGED <<installed, raised, asking, answers, early, live, used, registered,
                   loop, overlap, commands, hubVars, apiVars>>

\* ResolveAgentID: without a context, the only agent
AgentFor(c, r) ==
    IF session[c][r] # None THEN session[c][r]
    ELSE IF Cardinality(installed) = 1 THEN CHOOSE a \in installed : TRUE
    ELSE None

\* RespondApproval: is the request pending?
Takes(c, m) == AgentFor(c, m.raw) # None /\ m.raw \in pending[AgentFor(c, m.raw)]

\* the loop takes approval.respond and looks its agent and its request up, or
\* rejects it
Take(c) ==
    /\ live = c /\ loop[c].pc = "idle" /\ commands # <<>>
    /\ commands' = Tail(commands)
    /\ LET m == Head(commands) IN
       IF Takes(c, m)
       THEN /\ loop' = [loop EXCEPT ![c] = [pc |-> "found", cmd |-> m,
                                            agent |-> AgentFor(c, m.raw)]]
            /\ UNCHANGED wire
       ELSE /\ wire' = [wire EXCEPT ![c] = Append(@, [kind |-> "rejected", cmd |-> m])]
            /\ UNCHANGED loop
    /\ UNCHANGED <<agentVars, live, used, registered, session, overlap,
                   hubVars, apiVars>>

\* ... hands the decision to the agent, after the lock has been released, or
\* rejects the command when the agent's process cannot be written to
Hand(c) ==
    /\ loop[c].pc = "found"
    /\ LET m == loop[c].cmd IN
       \/ /\ answers' = answers \cup {<<loop[c].agent, m.raw, m.id>>}
          /\ loop' = [loop EXCEPT ![c].pc = "answered"]
          /\ UNCHANGED wire
       \/ /\ loop' = [loop EXCEPT ![c] = Idle]
          /\ wire' = IF live = c
                     THEN [wire EXCEPT ![c] = Append(@, [kind |-> "rejected", cmd |-> m])]
                     ELSE wire
          /\ UNCHANGED answers
    /\ UNCHANGED <<installed, raised, pending, asking, early, lost, live, used,
                   registered, session, overlap, commands, hubVars, apiVars>>

\* mutant: the answered request is not deleted
ForgottenNot(a, r) == pending

\* deletePendingApproval
Forgotten(a, r) == [pending EXCEPT ![a] = @ \ {r}]

\* approval.required is still to be sent
Asking(a, r) == asking[a].pc # "idle" /\ asking[a].raw = r

\* ... forgets the request, and reports: CommandCompleted, ApprovalResolved; on a
\* broken connection neither, but the timeline event of an approval that belongs to
\* a turn goes out by the session that the runtime is bound to now
Report(c) ==
    /\ loop[c].pc = "answered"
    /\ LET m == loop[c].cmd IN
       /\ pending' = Forgotten(loop[c].agent, m.raw)
       /\ early' = IF Asking(loop[c].agent, m.raw)
                   THEN early \cup {<<loop[c].agent, m.raw>>} ELSE early
       /\ IF live = c
          THEN /\ wire' = [wire EXCEPT ![c] = Append(Append(@, [kind |-> "done", cmd |-> m]),
                                                  Frame("resolved", loop[c].agent, m.raw))]
               /\ session' = [session EXCEPT ![c][m.raw] = None]
               /\ UNCHANGED lost
          ELSE /\ lost' = lost \cup {<<loop[c].agent, m.raw>>}
               /\ \/ UNCHANGED wire
                  \/ /\ live # None
                     /\ wire' = [wire EXCEPT ![live] =
                           Append(@, Frame("resolved", loop[c].agent, m.raw))]
               /\ UNCHANGED session
    /\ loop' = [loop EXCEPT ![c] = Idle]
    /\ UNCHANGED <<installed, raised, asking, answers, live, used, registered, overlap,
                   commands, hubVars, apiVars>>

-----------------------------------------------------------------------------
(* The hub: its cleanup keeps approvals across a disconnect.               *)

\* mutant: a rejected command counts as completed
AnsweredAnyhow(q, f) == [q EXCEPT !.pc = "clean"]

\* resolvePendingCommand: completed, or an error to the caller
Answered(q, f) == IF f.kind = "done" THEN [q EXCEPT !.pc = "clean"] ELSE Idle

\* handleEventEnvelope: approval.required, approval.resolved, and the answers
ReadFrame(c) ==
    /\ wire[c] # <<>>
    /\ wire' = [wire EXCEPT ![c] = Tail(@)]
    /\ LET f == Head(wire[c]) IN
       \/ f.kind = "register" /\ owner' = c /\ UNCHANGED <<route, shown, req, lost>>
       \/ /\ f.kind # "register" /\ owner # c
          /\ lost' = lost \cup About({f})
          /\ UNCHANGED <<hubVars, req>>
       \/ /\ f.kind = "required" /\ owner = c
          /\ route' = route \cup {f.raw}
          /\ shown' = [shown EXCEPT ![f.raw] = f.agent]
          /\ UNCHANGED <<owner, req, lost>>
       \/ /\ f.kind = "resolved" /\ owner = c
          /\ route' = route \ {f.raw}
          /\ shown' = [shown EXCEPT ![f.raw] = None]
          /\ UNCHANGED <<owner, req, lost>>
       \/ /\ f.kind \in {"done", "rejected"} /\ owner = c
          /\ req' = [k \in Consoles |->
                IF req[k].pc = "waiting" /\ req[k].id = f.cmd.id
                THEN Answered(req[k], f) ELSE req[k]]
          /\ UNCHANGED <<hubVars, lost>>
    /\ UNCHANGED <<installed, raised, pending, asking, answers, early, clientVars,
                   commands, requests, told>>

\* disconnectClient: the waiting requests fail
Disconnect(c) ==
    /\ owner = c /\ live # c
    /\ owner' = None
    /\ lost' = lost \cup Unread(c)
    /\ wire' = [wire EXCEPT ![c] = <<>>]
    /\ req' = [k \in Consoles |-> IF req[k].pc = "waiting" THEN Idle ELSE req[k]]
    /\ UNCHANGED <<installed, raised, pending, asking, answers, early, clientVars,
                   commands, route, shown, requests, told>>

-----------------------------------------------------------------------------
(* POST /approvals/{id}/respond.                                           *)

\* ResolveApprovalMachine: unknown ids are refused; then SendCommand, in one step:
\* an id forgotten in between is a command the client rejects, as when it is
\* forgotten while the command is under way
Respond(k) ==
    /\ req[k].pc = "idle" /\ requests < MaxRequests /\ owner # None
    /\ requests' = requests + 1
    /\ \E r \in route :
          /\ req' = [req EXCEPT ![k] = [pc |-> "waiting", raw |-> r, id |-> requests + 1]]
          /\ commands' = IF owner = live
                         THEN Append(commands, [raw |-> r, id |-> requests + 1])
                         ELSE commands
    /\ UNCHANGED <<agentVars, clientVars, wire, hubVars, told>>

\* the command times out
Expire(k) ==
    /\ req[k].pc = "waiting"
    /\ req' = [req EXCEPT ![k] = Idle]
    /\ UNCHANGED <<agentVars, clientVars, commands, wire, hubVars, requests, told>>

\* RemovePendingApproval, ClearApprovalRequest, 200
Clean(k) ==
    /\ req[k].pc = "clean"
    /\ route' = route \ {req[k].raw}
    /\ shown' = [shown EXCEPT ![req[k].raw] = None]
    /\ told' = told \cup {<<req[k].raw, req[k].id>>}
    /\ req' = [req EXCEPT ![k] = Idle]
    /\ UNCHANGED <<agentVars, clientVars, commands, wire, owner, requests>>

Next ==
    \/ Break \/ Register
    \/ \E a \in Agents : Announce(a) \/ Require(a)
    \/ \E a \in Agents, r \in Raws : Raise(a, r) \/ SettlesItself(a, r)
    \/ \E c \in Conns :
          \/ Connect(c) \/ Take(c) \/ Hand(c) \/ Report(c) \/ ReadFrame(c) \/ Disconnect(c)
    \/ \E k \in Consoles : Respond(k) \/ Expire(k) \/ Clean(k)

Spec == Init /\ [][Next]_vars

-----------------------------------------------------------------------------
(* Properties.                                                             *)

\* Two consoles may answer one approval, and the agent may settle it meanwhile:
\* the agent is handed one decision at most, provided that the loops of two
\* connections are not at work at once (RespondApproval looks the request up,
\* writes and deletes in three steps).
AnsweredOnce ==
    ~overlap => \A x, y \in answers : x[1] = y[1] /\ x[2] = y[2] => x = y

\* A console is told 200 only for the decision that an agent was handed for its
\* very command: never for one that was refused, timed out or lost.
ToldIsTrue ==
    \A t \in told : \E x \in answers : x[2] = t[1] /\ x[3] = t[2]

Settled ==
    /\ live # None /\ owner = live /\ commands = <<>>
    /\ \A c \in Conns : wire[c] = <<>> /\ loop[c].pc = "idle"
    /\ \A k \in Consoles : req[k].pc = "idle"
    /\ \A a \in Agents : asking[a].pc = "idle"

\* When no message or request is under way, a card is shown and can be answered
\* exactly while its agent waits for it, through reconnects and whoever settled
\* it, provided that no other agent used its id, that a connection carried its
\* frames (nothing is sent again after a reconnect), and that it was not over when
\* approval.required was sent: a console can answer the timeline event before it,
\* and the later frame then shows the card for ever (Announce, Require, Report).
Only(a, r) ==
    <<a, r>> \in raised \ (lost \cup early) /\ \A b \in Agents \ {a} : <<b, r>> \notin raised
CardsFollowAgents ==
    Settled => \A a \in Agents, r \in Raws : Only(a, r) =>
        /\ shown[r] = a <=> r \in pending[a]
        /\ r \in route <=> r \in pending[a]

-----------------------------------------------------------------------------
(* The inductive invariant of the proofs.                                  *)

\* what the records of the queues look like, and that all are about approvals asked for
Command == [raw : Raws, id : 1..MaxRequests]
FrameSet ==
    {[kind |-> "register"]}
    \cup [kind : {"required", "resolved"}, agent : Agents, raw : Raws]
    \cup [kind : {"done", "rejected"}, cmd : Command]
Work == [pc : {"found", "answered"}, cmd : Command, agent : Agents]
Asked == [pc : {"waiting", "clean"}, raw : Raws, id : 1..MaxRequests]
Raising == [pc : {"raised", "announced"}, raw : Raws, conn : Conns \cup {None}]
Elements(s) == {s[i] : i \in DOMAIN s}
Shapes ==
    /\ installed # {}
    /\ commands \in Seq(Command)
    /\ loop \in [Conns -> {Idle} \cup Work]
    /\ wire \in [Conns -> Seq(FrameSet)]
    /\ req \in [Consoles -> {Idle} \cup Asked]
    /\ asking \in [Agents -> {Idle} \cup Raising]
AboutRaised ==
    /\ \A a \in Agents : asking[a].pc # "idle" => <<a, asking[a].raw>> \in raised
    /\ \A c \in Conns : loop[c].pc # "idle" => <<loop[c].agent, loop[c].cmd.raw>> \in raised
    /\ \A x \in answers : <<x[1], x[2]>> \in raised
    /\ \A c \in Conns : \A f \in Elements(wire[c]) :
           f.kind \in {"required", "resolved"} => <<f.agent, f.raw>> \in raised

\* One loop at a time is at work, the live connection's if there is one; an approval
\* that has been answered is pending only until that loop reports.
LoopFor(c, pc, x) == loop[c].pc = pc /\ loop[c].agent = x[1] /\ loop[c].cmd.raw = x[2]
OneAtATime ==
    ~overlap =>
        /\ \A c \in Conns : loop[c].pc # "idle" =>
               live \in {c, None} /\ \A d \in Conns \ {c} : loop[d].pc = "idle"
        /\ \A x \in answers :
               /\ \A c \in Conns : ~LoopFor(c, "found", x)
               /\ x[2] \in pending[x[1]] => \E c \in Conns : LoopFor(c, "answered", x)

\* A request id stands for one approval wherever it is, and what is reported as done
\* has been handed to an agent.
Underway(m) ==
    \/ m \in Elements(commands)
    \/ \E c \in Conns : loop[c].pc # "idle" /\ m = loop[c].cmd
    \/ \E c \in Conns : \E f \in Elements(wire[c]) :
           f.kind \in {"done", "rejected"} /\ m = f.cmd
    \/ \E k \in Consoles : req[k].pc # "idle" /\ m.raw = req[k].raw /\ m.id = req[k].id
Handed(raw, id) == \E x \in answers : x[2] = raw /\ x[3] = id
IdsAgree ==
    \A m \in Command : Underway(m) =>
        m.id <= requests /\ \A n \in Command : Underway(n) /\ m.id = n.id => m.raw = n.raw
DoneIsHanded ==
    /\ \A c \in Conns : loop[c].pc = "answered" => Handed(loop[c].cmd.raw, loop[c].cmd.id)
    /\ \A c \in Conns : \A f \in Elements(wire[c]) :
           f.kind = "done" => Handed(f.cmd.raw, f.cmd.id)
    /\ \A k \in Consoles : req[k].pc = "clean" => Handed(req[k].raw, req[k].id)

\* What a frame or a request says of an approval that is over is true ...
IsOver(r) == \E a \in Agents : <<a, r>> \in raised /\ r \notin pending[a]
OverIsTrue ==
    /\ \A c \in Conns, a \in Agents, r \in Raws :
           Frame("resolved", a, r) \in Elements(wire[c]) => r \notin pending[a]
    /\ \A c \in Conns : \A f \in Elements(wire[c]) : f.kind = "done" => IsOver(f.cmd.raw)
    /\ \A k \in Consoles : req[k].pc = "clean" => IsOver(req[k].raw)

\* ... an approval that is still to be announced is announced on the connection in use ...
Announced(c, a, r) == Frame("required", a, r) \in Elements(wire[c])
OnLive ==
    \A c \in Conns, a \in Agents, r \in Raws :
        Announced(c, a, r) /\ <<a, r>> \notin lost => live \in {c, None}

\* ... one whose frames are being sent waits for an answer, or is noted ...
AskingWaits ==
    \A a \in Agents, r \in Raws : Asking(a, r) => r \in pending[a] \/ <<a, r>> \in early

\* ... and while no other agent has used its id, an approval that waits for an answer
\* is shown, or will be, and one that is over is not shown, or the frame that says so
\* follows whatever shows it.
Showing(a, r) ==
    \/ Asking(a, r) \/ (shown[r] = a /\ r \in route)
    \/ \E c \in Conns : Announced(c, a, r)
Gone(a, r) == shown[r] # a /\ r \notin route /\ \A c \in Conns : ~Announced(c, a, r)
Clears(c, i, a, r) ==
    /\ wire[c][i] = Frame("resolved", a, r)
    /\ \A d \in Conns : \A j \in DOMAIN wire[d] :
           wire[d][j] = Frame("required", a, r) => d = c /\ j < i
Clearing(a, r) == Gone(a, r) \/ \E c \in Conns : \E i \in DOMAIN wire[c] : Clears(c, i, a, r)
CardIsRight(a, r) ==
    Only(a, r) => IF r \in pending[a] THEN Showing(a, r) ELSE Clearing(a, r)

\* What CardsFollowAgents needs besides IInv.
CardInv == OverIsTrue /\ OnLive /\ AskingWaits /\ \A a \in Agents, r \in Raws : CardIsRight(a, r)

IInv ==
    /\ TypeOK /\ Shapes /\ AboutRaised
    /\ OneAtATime /\ AnsweredOnce
    /\ IdsAgree /\ DoneIsHanded /\ ToldIsTrue
=============================================================================
