----------------------------- MODULE Environment -----------------------------
(***************************************************************************)
(* The skills, MCP servers and plugins of a machine's agents: changed by   *)
(* the /environment handlers of gateway/internal/api/server.go through     *)
(* commands, carried out by the client's command loop (cmd/client/main.go) *)
(* on the agents (codex/environment.go), and shown from the rows the hub   *)
(* keeps (client_hub.go), which an environment.snapshot replaces.          *)
(*                                                                         *)
(* The client has one command loop per connection.  runConnection returns  *)
(* at the first error and does not wait for its loop: a loop that is busy  *)
(* when its connection breaks goes on beside the loop of the next one.     *)
(*                                                                         *)
(* A rejected command may have changed its agent: the agent carries out    *)
(* what it was sent although the call timed out, and a configuration is    *)
(* written before the reload that fails (environment.go).  An agent that   *)
(* is started reads its configuration anew from its home                   *)
(* (instance_runner.go), and a console may write a whole configuration     *)
(* document.                                                               *)
(*                                                                         *)
(* A frame is handled in one step, since one connection's goroutine writes *)
(* the rows at a time; the races of two connections are in ThreadTables.   *)
(* Names, details and configuration texts are left out.                    *)
(***************************************************************************)
EXTENDS Naturals, Sequences, FiniteSets, FiniteSetsExt

CONSTANTS Agents,       \* agent ids, in the order of the snapshot
          Skills, Servers, Plugins,
          Installed,    \* <<agent, resource>> the agents have at first
          Documents,    \* configurations: the servers and plugins they list
          Home,         \* the configuration in each agent's home at first, or None
          Conns,        \* connections of the machine, each made at most once
          Consoles,     \* HTTP callers, each with one request at a time
          None,
          MaxRequests,  \* bound: requests made
          MaxBreaks     \* bound: connections that break

Resources == Skills \cup Servers \cup Plugins

ASSUME EnvironmentAssumption ==
    /\ Agents \subseteq Nat /\ Agents # {}
    /\ Skills \cap Servers = {} /\ Skills \cap Plugins = {} /\ Servers \cap Plugins = {}
    /\ Installed \subseteq Agents \X Resources
    /\ Documents \subseteq SUBSET (Servers \cup Plugins)
    /\ Home \in [Agents -> Documents \cup {None}]
    /\ None \notin Agents \cup Conns \cup Resources /\ None \notin Documents
    /\ MaxRequests \in Nat /\ MaxBreaks \in Nat

VARIABLES
    has,       \* what each agent lists, and its status (the agent: external)
    restart,   \* each runtime's restartRequired
    running,   \* agents whose runtime is registered
    home,      \* layout.ConfigPath: the configuration an agent is started with
    late,      \* writes sent to an agent whose command was rejected, and documents
               \* it has not yet read: it may still carry them out
    unlisted,  \* history: an agent was changed other than by a completed command
               \* since the last snapshot of the live connection
    live,      \* the connection the client uses, or None
    used,      \* connections made
    commands,  \* commands written to the connection and not yet taken
    loop,      \* each connection's command loop
    overlap,   \* history: two loops were at work at once
    wire,      \* frames written by the machine and not yet read
    owner,     \* h.clients[machine]
    rows,      \* snapshotByMachine[machine].environment and its copy in the index
    req,       \* the request each console waits for
    requests,  \* requests made: the last request id
    upserts,   \* history: the commands to upsert a server, except where the
               \* server's removal was asked for since, or the agent started, or its
               \* whole map of servers written by a late write
    promised   \* history: <<agent, server>> whose upsert, one of those, was answered
               \* with 200

runtimeVars == <<running, home>>
machineVars == <<has, restart, runtimeVars, late, unlisted>>
clientVars == <<live, used, loop, overlap>>
hubVars == <<owner, rows>>
apiVars == <<req, requests, upserts, promised>>
vars == <<machineVars, clientVars, commands, wire, hubVars, apiVars>>

Status == {"absent", "enabled", "disabled", "available"}
Ops == {"skill.create", "skill.set", "skill.delete", "mcp.upsert", "mcp.set", "mcp.remove",
        "refresh", "plugin.install", "plugin.set", "plugin.uninstall",
        "agent.restart", "runtime.stop", "runtime.start", "config.write", "config.apply"}
Commands == [op : Ops, agent : Agents, res : Resources \cup Documents \cup {None},
             enabled : BOOLEAN, id : 1..MaxRequests]
Writes == [cmd : Commands, config : SUBSET Servers]

Row(a, r, s, x) == [agent |-> a, res |-> r, status |-> s, restart |-> x]
Rows == [agent : Agents \cup {None}, res : Resources, status : Status \ {"absent"},
         restart : BOOLEAN]
Idle == [pc |-> "idle"]

TypeOK ==
    /\ has \in [Agents -> [Resources -> Status]]
    /\ restart \in [Agents -> SUBSET Plugins]
    /\ running \subseteq Agents /\ home \in [Agents -> Documents \cup {None}]
    /\ late \subseteq Writes /\ unlisted \in BOOLEAN
    /\ live \in used \cup {None} /\ used \subseteq Conns
    /\ commands \in Seq(Commands)
    /\ \A c \in Conns : loop[c].pc \in {"idle", "run", "reply", "refresh"}
    /\ owner \in used \cup {None}
    /\ rows \subseteq Rows
    /\ \A r, s \in rows : r.agent = s.agent /\ r.res = s.res => r = s
    /\ req \in [Consoles -> 0..MaxRequests] /\ requests \in 0..MaxRequests
    /\ upserts \subseteq Commands /\ promised \subseteq Agents \X Servers

\* what an agent lists when its configuration is doc: skills are no part of it
Restored(old, doc) ==
    [r \in Resources |->
        IF r \in Skills THEN IF old[r] = "absent" THEN "absent" ELSE "enabled"
        ELSE IF r \in doc THEN "enabled"
        ELSE IF r \in Plugins THEN "available" ELSE "absent"]

\* seedSharedCodexFiles: the configuration in the agent's home, if there is one,
\* is copied over the one the agent used
Seeded(old, doc) == IF doc = None THEN old ELSE Restored(old, doc)

Init ==
    /\ has = [a \in Agents |-> Seeded([r \in Resources |->
                 IF <<a, r>> \in Installed THEN "enabled"
                 ELSE IF r \in Plugins THEN "available" ELSE "absent"], Home[a])]
    /\ restart = [a \in Agents |-> {}]
    /\ running = Agents /\ home = Home
    /\ late = {} /\ unlisted = FALSE
    /\ live = None /\ used = {}
    /\ commands = <<>>
    /\ loop = [c \in Conns |-> Idle]
    /\ overlap = FALSE
    /\ wire = [c \in Conns |-> <<>>]
    /\ owner = None
    /\ rows = {}
    /\ req = [k \in Consoles |-> 0]
    /\ requests = 0
    /\ upserts = {} /\ promised = {}

-----------------------------------------------------------------------------
(* The client.                                                             *)

\* collectManagedSnapshot: ListEnvironment of every registered agent
Listing ==
    {Row(p[1], p[2], has[p[1]][p[2]], p[2] \in restart[p[1]]) :
        p \in {q \in running \X Resources : has[q[1]][q[2]] # "absent"}}

Snapshot == [kind |-> "snapshot", rows |-> Listing]

\* a new session: register, then sendLiveSnapshot
Connect(c) ==
    /\ live = None /\ c \notin used
    /\ live' = c /\ used' = used \cup {c}
    /\ overlap' = (overlap \/ \E d \in Conns : loop[d].pc # "idle")
    /\ wire' = [wire EXCEPT ![c] = <<[kind |-> "register"], Snapshot>>]
    /\ unlisted' = FALSE
    /\ UNCHANGED <<has, restart, runtimeVars, late, loop, commands, hubVars, apiVars>>

\* the connection ends: by its heartbeat, by the network, or because a snapshot
\* cannot be collected; commands on it are lost
Break ==
    /\ live # None /\ Cardinality(used) <= MaxBreaks
    /\ live' = None
    /\ commands' = <<>>
    /\ unlisted' = FALSE
    /\ UNCHANGED <<has, restart, runtimeVars, late, used, loop, overlap, wire, hubVars, apiVars>>

\* a loop takes a command; SetMCPServerEnabled, RemoveMCPServer read the
\* configuration now and write later
Take(c) ==
    /\ live = c /\ loop[c].pc = "idle" /\ commands # <<>>
    /\ commands' = Tail(commands)
    /\ LET m == Head(commands) IN
       loop' = [loop EXCEPT ![c] =
                  [pc |-> "run", cmd |-> m,
                   config |-> {s \in Servers : has[m.agent][s] # "absent"}]]
    /\ UNCHANGED <<machineVars, live, used, overlap, wire, hubVars, apiVars>>

Set(m, s) == [has EXCEPT ![m.agent][m.res] = s]
Switched(m) == Set(m, IF m.enabled THEN "enabled" ELSE "disabled")

\* mutant: mcp_servers is replaced by an empty map
WithoutServerEmpty(m, config) ==
    [has EXCEPT ![m.agent] = [r \in Resources |-> IF r \in Servers THEN "absent" ELSE @[r]]]

\* mcp_servers is replaced by what was read, without the server
WithoutServer(m, config) ==
    [has EXCEPT ![m.agent] = [r \in Resources |->
        IF r \in Servers \ (config \ {m.res}) THEN "absent"
        ELSE IF r \in Servers /\ @[r] = "absent" THEN "enabled" ELSE @[r]]]

\* markRestartRequired
Mark(m) == [restart EXCEPT ![m.agent] = @ \cup {m.res}]

\* What a command does to its agent; refused when the resource is not there.

CreateSkill(m) ==
    m.op = "skill.create" /\ has[m.agent][m.res] = "absent" /\ has' = Set(m, "enabled")

SetSkillEnabled(m) ==
    m.op = "skill.set" /\ has[m.agent][m.res] # "absent" /\ has' = Switched(m)

DeleteSkill(m) == m.op = "skill.delete" /\ has' = Set(m, "absent")

UpsertMCPServer(m) == m.op = "mcp.upsert" /\ has' = Set(m, "enabled")

RemoveMCPServer(m, config) ==
    m.op = "mcp.remove" /\ m.res \in config /\ has' = WithoutServer(m, config)

SetMCPServerEnabled(m, config) ==
    m.op = "mcp.set" /\ m.res \in config /\ has' = Switched(m)

InstallPlugin(m) == m.op = "plugin.install" /\ has' = Set(m, "enabled")

SetPluginEnabled(m) ==
    m.op = "plugin.set" /\ has[m.agent][m.res] # "available" /\ has' = Switched(m)

UninstallPlugin(m) == m.op = "plugin.uninstall" /\ has' = Set(m, "available")

Effect(m, config) ==
    \/ CreateSkill(m) \/ SetSkillEnabled(m) \/ DeleteSkill(m)
    \/ UpsertMCPServer(m) \/ RemoveMCPServer(m, config) \/ SetMCPServerEnabled(m, config)
    \/ InstallPlugin(m) \/ SetPluginEnabled(m) \/ UninstallPlugin(m)

Reads(m) == m.op = "refresh"
Configures(m) == m.op \in {"config.write", "config.apply"}
Cycles(m) == m.op \in {"agent.restart", "runtime.stop", "runtime.start"}
Changes(m) == ~(Reads(m) \/ Configures(m) \/ Cycles(m))

\* the servers of these agents are promised no longer, except by upserts to come
Lift(A) ==
    /\ upserts' = {u \in upserts : u.agent \notin A \/ \E i \in DOMAIN commands : commands[i] = u}
    /\ promised' = {p \in promised : p[1] \notin A}

\* the agent carries the command out, or the command is rejected although its write
\* was sent: a call was not answered in time, or the reload failed; a skill's files
\* are the client's own to write
ChangeAgent(m, config, ok) ==
    /\ Changes(m)
    /\ IF ok
       THEN /\ m.agent \in running /\ Effect(m, config)
            /\ restart' = IF m.res \in Plugins THEN Mark(m) ELSE restart
            /\ UNCHANGED <<runtimeVars, late, unlisted>>
       ELSE /\ m.agent \in running
            /\ IF m.op \in {"skill.create", "skill.delete"}
               THEN Effect(m, config) /\ unlisted' = (live # None) /\ UNCHANGED late
               ELSE /\ m.op \in {"mcp.remove", "mcp.set"} => m.res \in config
                    /\ late' = late \cup {[cmd |-> m, config |-> config]}
                    /\ UNCHANGED <<has, unlisted>>
            /\ UNCHANGED <<restart, runtimeVars>>
    /\ UNCHANGED <<upserts, promised>>

\* Agents in the order of their ids, up to where an operation fails.
Before(a) == {b \in Agents : b < a}

\* a document is written to the homes and to the agents' own configurations; they
\* read it when they next look
Configure(m, ok) ==
    LET all == IF m.op = "config.write" THEN {m.agent} ELSE Agents IN
    /\ Configures(m)
    /\ \E A \in IF ok THEN {all} ELSE {all} \cup {all \cap Before(a) : a \in all} :
          /\ home' = [a \in Agents |-> IF a \in A THEN m.res ELSE home[a]]
          /\ late' = late \cup {[cmd |-> [m EXCEPT !.agent = a], config |-> {}] :
                                   a \in A \cap running}
    /\ UNCHANGED <<has, restart, running, unlisted, upserts, promised>>

\* agents end and agents start: what was sent to their old processes is lost
Cycle(ended, started) ==
    /\ running' = (running \ ended) \cup started
    /\ has' = [a \in Agents |-> IF a \in started THEN Seeded(has[a], home[a]) ELSE has[a]]
    /\ restart' = [a \in Agents |-> IF a \in started THEN {} ELSE restart[a]]
    /\ late' = {x \in late : x.cmd.agent \notin ended \cup started}
    /\ unlisted' = (live # None)
    /\ Lift(started)
    /\ UNCHANGED home

\* RestartAgent: when the agent does not start it stays stopped
RestartAgent(m, ok) ==
    /\ m.op = "agent.restart"
    /\ Cycle({m.agent}, IF ok THEN {m.agent} ELSE {})

\* StopAll: returns at the first agent that fails to end
StopAll(m, ok) ==
    /\ m.op = "runtime.stop"
    /\ IF ok THEN Cycle(running, {}) ELSE \E a \in running : Cycle(Before(a) \cup {a}, {})

\* StartAll: when an agent fails to start, those before it are stopped, the ones
\* that had been running included
StartAll(m, ok) ==
    /\ m.op = "runtime.start"
    /\ IF ok THEN Cycle({}, Agents \ running)
       ELSE \E a \in Agents \ running : Cycle(Before(a), {})

\* the loop carries out its command, or rejects it with nothing done
Run(c) ==
    /\ loop[c].pc = "run"
    /\ LET m == loop[c].cmd IN
       \E ok \in BOOLEAN :
          /\ \/ ChangeAgent(m, loop[c].config, ok)
             \/ Configure(m, ok)
             \/ RestartAgent(m, ok) \/ StopAll(m, ok) \/ StartAll(m, ok)
             \/ (Reads(m) \/ ~ok) /\ UNCHANGED <<machineVars, upserts, promised>>
          /\ loop' = [loop EXCEPT ![c] = [pc |-> "reply", cmd |-> m, ok |-> ok]]
    /\ UNCHANGED <<live, used, overlap, commands, wire, hubVars, req, requests>>

\* an agent carries out a write nobody waits for any more, or reads a document that
\* was written for it
CarryOut(x) ==
    /\ x \in late
    /\ late' = late \ {x}
    /\ IF Configures(x.cmd)
       THEN has' = [has EXCEPT ![x.cmd.agent] = Restored(@, x.cmd.res)]
       ELSE Effect(x.cmd, x.config)
    /\ unlisted' = (live # None)
    /\ IF Configures(x.cmd) \/ x.cmd.op = "mcp.remove" THEN Lift({x.cmd.agent})
       ELSE UNCHANGED <<upserts, promised>>
    /\ UNCHANGED <<restart, runtimeVars, clientVars, commands, wire, hubVars, req, requests>>

\* the client has ended and is started again, with all its agents (bootstrap)
Reboot ==
    /\ live = None
    /\ loop' = [c \in Conns |-> Idle]
    /\ running' = Agents
    /\ has' = [a \in Agents |-> Seeded(has[a], home[a])]
    /\ restart' = [a \in Agents |-> {}]
    /\ late' = {}
    /\ upserts' = {} /\ promised' = {}
    /\ UNCHANGED <<home, unlisted, live, used, overlap, commands, wire, hubVars, req, requests>>

\* mutant: only a command that changes no plugin is followed by a snapshot
AfterReplyNoPlugins(m, ok) ==
    IF ok /\ m.res \notin Plugins THEN [pc |-> "refresh"] ELSE Idle

\* a completed command is followed by a snapshot, a rejected one not, nor is a
\* configuration document
AfterReply(m, ok) == IF ok /\ ~Configures(m) THEN [pc |-> "refresh"] ELSE Idle

\* CommandCompleted, CommandRejected; on a broken connection the loop ends
Reply(c) ==
    /\ loop[c].pc = "reply"
    /\ LET m == loop[c].cmd IN
       IF live = c
       THEN /\ wire' = [wire EXCEPT ![c] =
                  Append(@, [kind |-> IF loop[c].ok THEN "done" ELSE "rejected", cmd |-> m])]
            /\ loop' = [loop EXCEPT ![c] = AfterReply(m, loop[c].ok)]
       ELSE loop' = [loop EXCEPT ![c] = Idle] /\ UNCHANGED wire
    /\ UNCHANGED <<machineVars, live, used, overlap, commands, hubVars, apiVars>>

Refresh(c) ==
    /\ loop[c].pc = "refresh"
    /\ IF live = c
       THEN wire' = [wire EXCEPT ![c] = Append(@, Snapshot)] /\ unlisted' = FALSE
       ELSE UNCHANGED <<wire, unlisted>>
    /\ loop' = [loop EXCEPT ![c] = Idle]
    /\ UNCHANGED <<has, restart, runtimeVars, late, live, used, overlap, commands, hubVars, apiVars>>

-----------------------------------------------------------------------------
(* The hub.                                                                *)

\* mutant: the changed row is appended beside the one it changes
WithSkillAppended(m) ==
    rows \cup {Row(r.agent, m.res, IF m.enabled THEN "enabled" ELSE "disabled", FALSE) :
                  r \in {x \in rows : x.res = m.res}}

\* upsertEnvironmentResource with no agent in it: the first row of the skill,
\* whoever's it is, or else a row that belongs to no agent
WithSkill(m) ==
    LET s == IF m.enabled THEN "enabled" ELSE "disabled"
        mine == {r \in rows : r.res = m.res}
        named == {r.agent : r \in mine} \ {None}
        first == IF named = {} THEN None ELSE Min(named)
    IN  {r \in rows : r \notin mine \/ r.agent # first}
            \cup {Row(first, m.res, s, \E r \in mine : r.agent = first /\ r.restart)}

\* removeEnvironmentResource: the rows of every agent
WithoutResource(m) == {r \in rows : r.res # m.res}

\* handleSnapshotEnvelope and applyCompletedCommand: the other commands wait for
\* the snapshot that follows them
RowsAfter(f) ==
    CASE f.kind = "snapshot" -> f.rows
      [] f.kind = "done" /\ f.cmd.op = "skill.set" -> WithSkill(f.cmd)
      [] f.kind = "done" /\ f.cmd.op = "plugin.uninstall" -> WithoutResource(f.cmd)
      [] OTHER -> rows

Answers(f, k) == f.kind \in {"done", "rejected"} /\ req[k] = f.cmd.id

ReadFrame(c) ==
    /\ wire[c] # <<>>
    /\ wire' = [wire EXCEPT ![c] = Tail(@)]
    /\ LET f == Head(wire[c]) IN
       IF f.kind = "register"
       THEN owner' = c /\ UNCHANGED <<rows, req, promised>>
       ELSE IF owner = c
       THEN /\ rows' = RowsAfter(f)
            /\ req' = [k \in Consoles |-> IF Answers(f, k) THEN 0 ELSE req[k]]
            /\ promised' = IF /\ f.kind = "done" /\ f.cmd \in upserts
                              /\ \E k \in Consoles : Answers(f, k)
                           THEN promised \cup {<<f.cmd.agent, f.cmd.res>>}
                           ELSE promised
            /\ UNCHANGED owner
       ELSE UNCHANGED <<owner, rows, req, promised>>
    /\ UNCHANGED <<machineVars, clientVars, commands, requests, upserts>>

\* disconnectClient: the rows stay, the waiting requests fail
Disconnect(c) ==
    /\ owner = c /\ live # c
    /\ owner' = None
    /\ wire' = [wire EXCEPT ![c] = <<>>]
    /\ req' = [k \in Consoles |-> 0]
    /\ UNCHANGED <<machineVars, clientVars, commands, rows, requests, upserts, promised>>

-----------------------------------------------------------------------------
(* The HTTP handlers.                                                      *)

\* findEnvironmentResource: a row of the agent
Found(a, r) == \E x \in rows : x.agent = a /\ x.res = r

\* the handler has checked its request and sends the command; without a connection
\* the request fails, on a broken one the command is lost
Send(k, op, a, r, on) ==
    LET m == [op |-> op, agent |-> a, res |-> r, enabled |-> on, id |-> requests + 1]
        asked == {u \in upserts : u.agent = a /\ u.res = r}
    IN  /\ req[k] = 0 /\ requests < MaxRequests /\ owner # None
        /\ requests' = requests + 1
        /\ req' = [req EXCEPT ![k] = m.id]
        /\ commands' = IF owner = live THEN Append(commands, m) ELSE commands
        /\ upserts' = IF op = "mcp.upsert" THEN upserts \cup {m}
                      ELSE IF op = "mcp.remove" THEN upserts \ asked ELSE upserts
        /\ promised' = IF op = "mcp.remove" THEN promised \ {<<a, r>>} ELSE promised
        /\ UNCHANGED <<machineVars, clientVars, wire, hubVars>>

\* for a command to every agent: which one it names does not matter
AnyAgent == CHOOSE a \in Agents : TRUE

\* environment.refresh and environment.mcp.reload
PostSync(k) == Send(k, "refresh", AnyAgent, None, TRUE)

PostSkill(k, a) == \E r \in Skills : Send(k, "skill.create", a, r, TRUE)

PostSkillEnabled(k, a) ==
    \E r \in Skills, on \in BOOLEAN : Found(a, r) /\ Send(k, "skill.set", a, r, on)

DeleteSkillRow(k, a) == \E r \in Skills : Found(a, r) /\ Send(k, "skill.delete", a, r, TRUE)

DeletePlugin(k, a) ==
    \E r \in Plugins : Found(a, r) /\ Send(k, "plugin.uninstall", a, r, TRUE)

PostMCP(k, a) == \E r \in Servers : Send(k, "mcp.upsert", a, r, TRUE)

PostMCPEnabled(k, a) ==
    \E r \in Servers, on \in BOOLEAN : Found(a, r) /\ Send(k, "mcp.set", a, r, on)

DeleteMCP(k, a) == \E r \in Servers : Found(a, r) /\ Send(k, "mcp.remove", a, r, TRUE)

\* from a marketplace the agent has shown
PostPluginInstall(k, a) ==
    \E r \in Plugins : Found(a, r) /\ Send(k, "plugin.install", a, r, TRUE)

PostPluginEnabled(k, a) ==
    \E r \in Plugins, on \in BOOLEAN : Found(a, r) /\ Send(k, "plugin.set", a, r, on)

PostRestart(k, a) == Send(k, "agent.restart", a, None, TRUE)

PostRuntime(k) ==
    Send(k, "runtime.start", AnyAgent, None, TRUE) \/ Send(k, "runtime.stop", AnyAgent, None, TRUE)

PutConfig(k, a) == \E doc \in Documents : Send(k, "config.write", a, doc, TRUE)

\* the document of the machine's settings to every agent
PostApply(k) == \E doc \in Documents : Send(k, "config.apply", AnyAgent, doc, TRUE)

\* the command times out
Expire(k) ==
    /\ req[k] # 0
    /\ req' = [req EXCEPT ![k] = 0]
    /\ UNCHANGED <<machineVars, clientVars, commands, wire, hubVars, requests,
                   upserts, promised>>

Next ==
    \/ Break \/ Reboot
    \/ \E c \in Conns :
          \/ Connect(c) \/ Take(c) \/ Run(c) \/ Reply(c) \/ Refresh(c)
          \/ ReadFrame(c) \/ Disconnect(c)
    \/ \E x \in late : CarryOut(x)
    \/ \E k \in Consoles : PostSync(k) \/ PostRuntime(k) \/ PostApply(k) \/ Expire(k)
    \/ \E k \in Consoles, a \in Agents :
          \/ PostSkill(k, a) \/ PostSkillEnabled(k, a) \/ DeleteSkillRow(k, a)
          \/ PostMCP(k, a) \/ PostMCPEnabled(k, a) \/ DeleteMCP(k, a)
          \/ PostPluginInstall(k, a) \/ PostPluginEnabled(k, a) \/ DeletePlugin(k, a)
          \/ PostRestart(k, a) \/ PutConfig(k, a)

Spec == Init /\ [][Next]_vars

-----------------------------------------------------------------------------
(* Properties.                                                             *)

Settled ==
    /\ live # None /\ owner = live /\ wire[live] = <<>> /\ commands = <<>>
    /\ \A c \in Conns : loop[c].pc = "idle"

\* Once things settle the API shows exactly what the running agents have, each row
\* under its own agent with its restart flag, although a skill's answer changes the
\* first agent's row, an uninstall removes every agent's, and agents are stopped,
\* started and restarted: provided that no loop of an earlier connection was still
\* at work, and that since the last snapshot no rejected command or configuration
\* document changed an agent (RowsAfter, AfterReply, RestartAgent).
SettledEnvironment == Settled /\ ~overlap /\ ~unlisted => rows = Listing

\* An MCP server whose upsert was answered with 200 stays, although removals write
\* the whole map back and rejected commands are carried out late, until its removal
\* is asked for, its agent is started again, or a document or a late removal
\* replaces the agent's whole map: provided again that no two loops work at once
\* (RemoveMCPServer, SetMCPServerEnabled, CarryOut, Cycle).
ServersKept == ~overlap => \A p \in promised : has[p[1]][p[2]] # "absent"

-----------------------------------------------------------------------------
(* The inductive invariant of Environment_proofs.                          *)

\* the commands the handlers send: the resource is of the operation's kind
Proper ==
    {m \in Commands :
        /\ m.op \in {"skill.create", "skill.set", "skill.delete"} => m.res \in Skills
        /\ m.op \in {"mcp.upsert", "mcp.set", "mcp.remove"} => m.res \in Servers
        /\ m.op \in {"plugin.install", "plugin.set", "plugin.uninstall"} => m.res \in Plugins
        /\ Configures(m) => m.res \in Documents}

Tables == {R \in SUBSET Rows : \A r, s \in R : r.agent = s.agent /\ r.res = s.res => r = s}

Loops ==
    {Idle}
    \cup [pc : {"run"}, cmd : Proper, config : SUBSET Servers]
    \cup [pc : {"reply"}, cmd : Proper, ok : BOOLEAN]
    \cup [pc : {"refresh"}]

Frames ==
    [kind : {"register"}]
    \cup [kind : {"snapshot"}, rows : Tables]
    \cup [kind : {"done", "rejected"}, cmd : Proper]

Shapes ==
    /\ TypeOK
    /\ rows \in Tables
    /\ commands \in Seq(Proper)
    /\ loop \in [Conns -> Loops] /\ overlap \in BOOLEAN
    /\ wire \in [Conns -> Seq(Frames)]
    /\ upserts \subseteq {m \in Proper : m.op = "mcp.upsert"}
    /\ late \subseteq [cmd : Proper, config : SUBSET Servers]

\* m has been written and not carried out
Pending(m) ==
    \/ \E i \in DOMAIN commands : commands[i] = m
    \/ \E c \in Conns : loop[c].pc = "run" /\ loop[c].cmd = m

\* m has been carried out, or refused, and not handled by the hub
Ran(m) ==
    \/ \E c \in Conns : loop[c].pc = "reply" /\ loop[c].cmd = m
    \/ \E c \in Conns : \E i \in DOMAIN wire[c] :
          wire[c][i].kind \in {"done", "rejected"} /\ wire[c][i].cmd = m

\* m has been carried out, and not handled by the hub
Done(m) ==
    \/ \E c \in Conns : loop[c].pc = "reply" /\ loop[c].cmd = m /\ loop[c].ok
    \/ \E c \in Conns : \E i \in DOMAIN wire[c] :
          wire[c][i].kind = "done" /\ wire[c][i].cmd = m

IdsGiven ==
    /\ \A m \in Proper : Pending(m) \/ Ran(m) => m.id <= requests
    /\ \A u \in upserts : u.id <= requests

\* a connection begins with its registration
RegistersFirst ==
    \A c \in Conns :
       /\ c \notin used => wire[c] = <<>>
       /\ \A i \in DOMAIN wire[c] : wire[c][i].kind = "register" => i = 1

Busy(c) == loop[c].pc # "idle"

OneLoop ==
    \A c \in Conns : Busy(c) =>
        live \in {c, None} /\ \A d \in Conns : Busy(d) => d = c

\* commands are carried out in the order of their ids
InOrder ==
    /\ \A i, j \in DOMAIN commands : i < j => commands[i].id < commands[j].id
    /\ \A c \in Conns : loop[c].pc = "run" =>
          \A i \in DOMAIN commands : loop[c].cmd.id < commands[i].id
    /\ \A m, n \in Proper : Ran(m) /\ Pending(n) => m.id < n.id

Present(a) == {s \in Servers : has[a][s] # "absent"}

\* a server an answer has promised, or will promise
Claimed(a, s) ==
    \/ <<a, s>> \in promised
    \/ \E u \in upserts : Done(u) /\ u.agent = a /\ u.res = s

\* the configuration a removal writes back has every such server
ConfigIsRead ==
    \A c \in Conns : loop[c].pc = "run" =>
       \A s \in Servers : Claimed(loop[c].cmd.agent, s) => s \in loop[c].config

\* a server is there when its upsert is done; a removal on its way is older than
\* every upsert of its server that counts
Kept ==
    /\ \A u \in upserts : Done(u) => u.res \in Present(u.agent)
    /\ \A p \in promised : p[2] \in Present(p[1])
    /\ \A n \in Proper : Pending(n) /\ n.op = "mcp.remove" =>
          /\ <<n.agent, n.res>> \notin promised
          /\ \A u \in upserts : u.agent = n.agent /\ u.res = n.res => n.id < u.id

\* a frame that no row depends on
Silent(f) == f.kind = "rejected" \/ (f.kind = "done" /\ Configures(f.cmd))

\* the rows will be the agents' when the frames of c have been read
WillShow(c) ==
    \/ owner = c /\ rows = Listing /\ \A j \in DOMAIN wire[c] : Silent(wire[c][j])
    \/ \E i \in DOMAIN wire[c] :
          /\ wire[c][i].kind = "snapshot" /\ wire[c][i].rows = Listing
          /\ \A j \in DOMAIN wire[c] : j > i => Silent(wire[c][j])

\* the hub handles the frames of c, or will from the first one on
Heard(c) == owner = c \/ (wire[c] # <<>> /\ wire[c][1].kind = "register")

\* the loop of c has no snapshot to send
Quiet(c) ==
    \/ loop[c].pc \in {"idle", "run"}
    \/ loop[c].pc = "reply" /\ (~loop[c].ok \/ Configures(loop[c].cmd))

Shown == live # None /\ Heard(live) /\ Quiet(live) /\ ~unlisted => WillShow(live)

InTurn == OneLoop /\ InOrder /\ ConfigIsRead /\ Kept /\ Shown

IInv == Shapes /\ IdsGiven /\ RegistersFirst /\ (~overlap => InTurn)
=============================================================================
