-------------------------- MODULE Environment_proofs --------------------------
(***************************************************************************)
(* TLAPS proofs about Environment, for any agents, resources, connections  *)
(* and consoles, and any bound.  The inductive invariant is IInv: one      *)
(* lemma per action, or per family of actions that leave the same things   *)
(* alone, shows that it preserves each of its conjuncts.                   *)
(***************************************************************************)
EXTENDS Environment, SequenceTheorems, WellFoundedInduction, TLAPS

-----------------------------------------------------------------------------
(* Operators.                                                              *)

\* Min of agent ids is one of them.
LEMMA MinIsIn ==
    ASSUME NEW T \in SUBSET Nat, T # {}
    PROVE  Min(T) \in T
<1> DEFINE R == {ss \in Nat \X Nat : ss[1] < ss[2]}
<1>1. IsWellFoundedOn(R, Nat)
  BY NatLessThanWellFounded, Zenon DEF OpToRel
<1>2. PICK x \in T : \A y \in T : ~(<<y, x>> \in R)
  <2> HIDE DEF R
  <2> QED  BY <1>1, WFMin, Zenon
<1>3. ASSUME NEW y \in T PROVE x =< y
  <2>1. x \in Nat /\ y \in Nat
    OBVIOUS
  <2>2. ~(<<y, x>> \in Nat \X Nat /\ <<y, x>>[1] < <<y, x>>[2])
    BY <1>2
  <2> QED  BY <2>1, <2>2
<1> QED  BY <1>3 DEF Min

LEMMA AnyAgentIsOne == AnyAgent \in Agents
  BY EnvironmentAssumption DEF AnyAgent

LEMMA IdleFields == Idle \in Loops /\ Idle.pc = "idle"
  BY DEF Idle, Loops

LEMMA LoopFields ==
    ASSUME NEW l \in Loops
    PROVE  /\ l.pc \in {"idle", "run", "reply", "refresh"}
           /\ l.pc \in {"run", "reply"} => l.cmd \in Proper
           /\ l.pc = "run" => l.config \in SUBSET Servers
           /\ l.pc = "reply" => l.ok \in BOOLEAN
  BY DEF Loops, Idle

LEMMA FrameFields ==
    \A f \in Frames :
       /\ f.kind \in {"register", "snapshot", "done", "rejected"}
       /\ f.kind = "snapshot" => f.rows \in Tables
       /\ f.kind \in {"done", "rejected"} => f.cmd \in Proper
  BY DEF Frames

LEMMA CommandFields ==
    \A m \in Proper :
       /\ m \in Commands /\ m.op \in Ops /\ m.agent \in Agents /\ m.res \in Resources \cup Documents \cup {None}
       /\ m.enabled \in BOOLEAN /\ m.id \in Nat /\ m.id \in 1..MaxRequests
       /\ m.op \in {"skill.create", "skill.set", "skill.delete"} => m.res \in Skills
       /\ m.op \in {"mcp.upsert", "mcp.set", "mcp.remove"} => m.res \in Servers
       /\ m.op \in {"plugin.install", "plugin.set", "plugin.uninstall"} => m.res \in Plugins
       /\ Configures(m) => m.res \in Documents
  BY EnvironmentAssumption DEF Proper, Commands

\* What an agent lists when it has been started or configured.
LEMMA SeededTypes ==
    ASSUME NEW old \in [Resources -> Status], NEW doc
    PROVE  /\ Restored(old, doc) \in [Resources -> Status]
           /\ Seeded(old, doc) \in [Resources -> Status]
<1>1. \A r \in Resources : Restored(old, doc)[r] \in Status
  BY DEF Restored, Status
<1>2. Restored(old, doc) \in [Resources -> Status]
  BY <1>1 DEF Restored
<1> QED  BY <1>2 DEF Seeded

\* The listing has one row per agent and resource.
LEMMA ListingIsTable ==
    ASSUME has \in [Agents -> [Resources -> Status]], restart \in [Agents -> SUBSET Plugins],
           running \subseteq Agents
    PROVE  Listing \in Tables
<1> SUFFICES /\ \A x \in Listing : x \in Rows
             /\ \A x, y \in Listing : x.agent = y.agent /\ x.res = y.res => x = y
  BY DEF Tables
<1>1. ASSUME NEW x \in Listing
      PROVE  \E a \in Agents, r \in Resources :
                has[a][r] # "absent" /\ x = Row(a, r, has[a][r], r \in restart[a])
  BY DEF Listing
<1>2. ASSUME NEW a \in Agents, NEW r \in Resources, has[a][r] # "absent"
      PROVE  Row(a, r, has[a][r], r \in restart[a]) \in Rows
  BY <1>2 DEF Row, Rows
<1>3. ASSUME NEW x \in Listing, NEW y \in Listing, x.agent = y.agent, x.res = y.res
      PROVE  x = y
  <2>1. PICK a \in Agents, r \in Resources : x = Row(a, r, has[a][r], r \in restart[a])
    BY <1>1
  <2>2. PICK b \in Agents, q \in Resources : y = Row(b, q, has[b][q], q \in restart[b])
    BY <1>1
  <2>3. x.agent = a /\ x.res = r /\ y.agent = b /\ y.res = q
    BY <2>1, <2>2 DEF Row
  <2> QED  BY <1>3, <2>1, <2>2, <2>3
<1> QED  BY <1>1, <1>2, <1>3

\* The rows a skill's answer and an uninstall's leave are still a table.
LEMMA WithSkillIsTable ==
    ASSUME rows \in Tables, NEW m \in Proper, m.op = "skill.set"
    PROVE  WithSkill(m) \in Tables
<1> DEFINE s == IF m.enabled THEN "enabled" ELSE "disabled"
           mine == {r \in rows : r.res = m.res}
           named == {r.agent : r \in mine} \ {None}
           first == IF named = {} THEN None ELSE Min(named)
           x == \E r \in mine : r.agent = first /\ r.restart
           new == Row(first, m.res, s, x)
<1>1. rows \subseteq Rows /\ \A r, q \in rows : r.agent = q.agent /\ r.res = q.res => r = q
  BY DEF Tables
<1>2. first \in Agents \cup {None}
  <2>1. named \subseteq Agents
    BY <1>1 DEF Rows
  <2>2. named # {} => Min(named) \in named
    <3>1. Agents \subseteq Nat
      BY EnvironmentAssumption
    <3>2. named \in SUBSET Nat
      BY <2>1, <3>1
    <3> HIDE DEF named
    <3> QED  BY <3>2, MinIsIn
  <2> QED  BY <2>1, <2>2
<1>3. m.res \in Resources /\ s \in Status \ {"absent"} /\ x \in BOOLEAN
  BY CommandFields DEF Status, Resources
<1>4. new \in Rows /\ new.agent = first /\ new.res = m.res
  BY <1>2, <1>3 DEF Row, Rows
<1>5. WithSkill(m) = {r \in rows : r \notin mine \/ r.agent # first} \cup {new}
  BY DEF WithSkill
<1> HIDE DEF new, first, s, x, named
<1>6. \A r \in rows : (r \notin mine \/ r.agent # first) => ~(r.agent = first /\ r.res = m.res)
  OBVIOUS
<1>7. \A r, q \in WithSkill(m) : r.agent = q.agent /\ r.res = q.res => r = q
  BY <1>1, <1>4, <1>5, <1>6
<1> QED  BY <1>1, <1>4, <1>5, <1>7 DEF Tables

LEMMA RowsAfterIsTable ==
    ASSUME rows \in Tables, NEW f \in Frames, f.kind # "register"
    PROVE  RowsAfter(f) \in Tables
<1>1. CASE f.kind = "snapshot"
  <2>1. RowsAfter(f) = f.rows
    BY <1>1, Zenon DEF RowsAfter
  <2> QED  BY <1>1, <2>1, FrameFields
<1>2. CASE f.kind = "done" /\ f.cmd.op = "skill.set"
  <2>1. RowsAfter(f) = WithSkill(f.cmd)
    BY <1>2, Zenon DEF RowsAfter
  <2> QED  BY <1>2, <2>1, FrameFields, WithSkillIsTable
<1>3. CASE f.kind = "done" /\ f.cmd.op = "plugin.uninstall"
  <2>1. RowsAfter(f) = WithoutResource(f.cmd)
    BY <1>3, Zenon DEF RowsAfter
  <2> QED  BY <2>1 DEF WithoutResource, Tables
<1>4. CASE f.kind # "snapshot" /\ ~(f.kind = "done" /\ f.cmd.op \in {"skill.set", "plugin.uninstall"})
  <2>1. RowsAfter(f) = rows
    BY <1>4, Zenon DEF RowsAfter
  <2> QED  BY <2>1
<1> QED  BY <1>1, <1>2, <1>3, <1>4

LEMMA ProperIsCommand == Proper \subseteq Commands /\ \A s \in Seq(Proper) : s \in Seq(Commands)
<1>1. Proper \subseteq Commands
  BY DEF Proper
<1> QED  BY <1>1

-----------------------------------------------------------------------------
(* What the invariant says of types, and what makes it hold of a next state. *)

LEMMA Facts ==
    ASSUME IInv
    PROVE  /\ has \in [Agents -> [Resources -> Status]] /\ restart \in [Agents -> SUBSET Plugins]
           /\ running \subseteq Agents /\ home \in [Agents -> Documents \cup {None}]
           /\ late \subseteq [cmd : Proper, config : SUBSET Servers] /\ unlisted \in BOOLEAN
           /\ live \in used \cup {None} /\ used \subseteq Conns /\ None \notin Conns
           /\ commands \in Seq(Proper) /\ loop \in [Conns -> Loops] /\ overlap \in BOOLEAN
           /\ wire \in [Conns -> Seq(Frames)] /\ owner \in used \cup {None} /\ rows \in Tables
           /\ req \in [Consoles -> 0..MaxRequests] /\ requests \in 0..MaxRequests
           /\ requests \in Nat
           /\ upserts \subseteq {m \in Proper : m.op = "mcp.upsert"}
           /\ promised \subseteq Agents \X Servers
           /\ DOMAIN commands = 1..Len(commands) /\ Len(commands) \in Nat
           /\ \A i \in DOMAIN commands : commands[i] \in Proper
           /\ \A c \in Conns : /\ DOMAIN wire[c] = 1..Len(wire[c]) /\ Len(wire[c]) \in Nat
                               /\ \A i \in DOMAIN wire[c] : wire[c][i] \in Frames
<1>1. /\ has \in [Agents -> [Resources -> Status]] /\ restart \in [Agents -> SUBSET Plugins]
      /\ running \subseteq Agents /\ home \in [Agents -> Documents \cup {None}]
      /\ late \subseteq [cmd : Proper, config : SUBSET Servers] /\ unlisted \in BOOLEAN
      /\ live \in used \cup {None} /\ used \subseteq Conns /\ None \notin Conns
      /\ commands \in Seq(Proper) /\ loop \in [Conns -> Loops] /\ overlap \in BOOLEAN
      /\ wire \in [Conns -> Seq(Frames)] /\ owner \in used \cup {None} /\ rows \in Tables
      /\ req \in [Consoles -> 0..MaxRequests] /\ requests \in 0..MaxRequests
      /\ upserts \subseteq {m \in Proper : m.op = "mcp.upsert"}
      /\ promised \subseteq Agents \X Servers
  BY EnvironmentAssumption DEF IInv, Shapes, TypeOK
<1>2. /\ DOMAIN commands = 1..Len(commands) /\ Len(commands) \in Nat
      /\ \A i \in DOMAIN commands : commands[i] \in Proper
  BY <1>1
<1>3. ASSUME NEW c \in Conns
      PROVE  /\ DOMAIN wire[c] = 1..Len(wire[c]) /\ Len(wire[c]) \in Nat
             /\ \A i \in DOMAIN wire[c] : wire[c][i] \in Frames
  <2>1. wire[c] \in Seq(Frames)
    BY <1>1
  <2> QED  BY <2>1
<1> QED  BY <1>1, <1>2, <1>3

LEMMA ShapesNext ==
    ASSUME has' \in [Agents -> [Resources -> Status]], restart' \in [Agents -> SUBSET Plugins],
           running' \subseteq Agents, home' \in [Agents -> Documents \cup {None}],
           late' \subseteq [cmd : Proper, config : SUBSET Servers], unlisted' \in BOOLEAN,
           live' \in used' \cup {None}, used' \subseteq Conns, commands' \in Seq(Proper),
           loop' \in [Conns -> Loops], overlap' \in BOOLEAN, wire' \in [Conns -> Seq(Frames)],
           owner' \in used' \cup {None}, rows' \in Tables,
           req' \in [Consoles -> 0..MaxRequests], requests' \in 0..MaxRequests,
           upserts' \subseteq {m \in Proper : m.op = "mcp.upsert"},
           promised' \subseteq Agents \X Servers
    PROVE  Shapes'
<1>1. \A c \in Conns : loop'[c].pc \in {"idle", "run", "reply", "refresh"}
  BY LoopFields
<1>2. rows' \subseteq Rows /\ \A r, s \in rows' : r.agent = s.agent /\ r.res = s.res => r = s
  BY DEF Tables
<1>3. commands' \in Seq(Commands) /\ upserts' \subseteq Commands
  BY ProperIsCommand
<1>4. late' \subseteq Writes
  BY ProperIsCommand DEF Writes
<1> QED  BY <1>1, <1>2, <1>3, <1>4 DEF Shapes, TypeOK

\* The ids of what is on its way were given.
LEMMA OnItsWay ==
    ASSUME IInv
    PROVE  /\ \A m \in Proper : Pending(m) \/ Ran(m) => m.id <= requests
           /\ \A u \in upserts : u \in Proper /\ u.op = "mcp.upsert" /\ u.id <= requests
           /\ \A m \in Proper : Done(m) => Ran(m)
           /\ \A m : Pending(m) => m \in Proper
           /\ \A m : Ran(m) => m \in Proper
<1>1. \A m \in Proper : Done(m) => Ran(m)
  BY DEF Done, Ran
<1>2. \A m : Pending(m) => m \in Proper
  BY Facts, LoopFields DEF Pending
<1>3. \A m : Ran(m) => m \in Proper
  BY Facts, LoopFields, FrameFields DEF Ran
<1> QED  BY <1>1, <1>2, <1>3, Facts DEF IInv, IdsGiven

\* A step after which nothing is under way that was not before.
LEMMA IdsNext ==
    ASSUME IInv, requests' \in Nat, requests' >= requests,
           \A m \in Proper : Pending(m)' => Pending(m) \/ m.id <= requests',
           \A m \in Proper : Ran(m)' => Ran(m) \/ Pending(m),
           \A u \in upserts' : u \in upserts \/ (u \in Proper /\ u.id <= requests')
    PROVE  IdsGiven'
<1>1. requests \in Nat
  BY Facts
<1>2. \A m \in Proper : m.id \in Nat
  BY CommandFields
<1> QED  BY <1>1, <1>2, OnItsWay DEF IdsGiven

\* A step that promises nothing new.
LEMMA ClaimedNext ==
    ASSUME promised' \subseteq promised, upserts' \subseteq upserts, \A m : Done(m)' => Done(m)
    PROVE  \A a, t : Claimed(a, t)' => Claimed(a, t)
  BY DEF Claimed

\* A command whose answer is on its way is no longer in the queue.
LEMMA NotBoth ==
    ASSUME IInv, InOrder, NEW u \in upserts, Done(u)
    PROVE  ~Pending(u)
<1>1. u \in Proper /\ u.id \in Nat /\ Ran(u)
  BY OnItsWay, CommandFields
<1> QED  BY <1>1 DEF InOrder

\* What is promised is there.
LEMMA ClaimedIsPresent ==
    ASSUME Kept, NEW a, NEW t, Claimed(a, t)
    PROVE  t \in Present(a)
<1>1. CASE <<a, t>> \in promised
  BY <1>1 DEF Kept
<1>2. CASE \E u \in upserts : Done(u) /\ u.agent = a /\ u.res = t
  BY <1>2 DEF Kept
<1> QED  BY <1>1, <1>2 DEF Claimed

LEMMA InitInv == Init => IInv
<1> SUFFICES ASSUME Init PROVE IInv
  OBVIOUS
<1>1. /\ commands = <<>> /\ DOMAIN commands = {} /\ upserts = {} /\ promised = {}
      /\ loop = [c \in Conns |-> Idle] /\ \A c \in Conns : loop[c].pc = "idle"
      /\ wire = [c \in Conns |-> <<>>] /\ \A c \in Conns : wire[c] = <<>> /\ DOMAIN wire[c] = {}
      /\ live = None /\ used = {} /\ owner = None /\ rows = {} /\ overlap = FALSE
      /\ requests = 0 /\ req = [k \in Consoles |-> 0]
      /\ running = Agents /\ home = Home /\ late = {} /\ unlisted = FALSE
  BY DEF Init, Idle
<1>2. has \in [Agents -> [Resources -> Status]] /\ restart \in [Agents -> SUBSET Plugins]
  <2>1. \A a \in Agents : [r \in Resources |-> IF <<a, r>> \in Installed THEN "enabled"
                            ELSE IF r \in Plugins THEN "available" ELSE "absent"]
                         \in [Resources -> Status]
    BY DEF Status
  <2>2. \A a \in Agents : has[a] \in [Resources -> Status]
    BY <2>1, SeededTypes DEF Init
  <2> QED  BY <2>2 DEF Init
<1>3. Shapes
  <2>1. requests \in 0..MaxRequests /\ req \in [Consoles -> 0..MaxRequests]
    BY <1>1, EnvironmentAssumption
  <2>2. loop \in [Conns -> Loops] /\ wire \in [Conns -> Seq(Frames)]
    BY <1>1, IdleFields
  <2>3. commands \in Seq(Proper) /\ commands \in Seq(Commands) /\ rows \in Tables /\ rows \subseteq Rows
    BY <1>1 DEF Tables
  <2>4. /\ running \subseteq Agents /\ home \in [Agents -> Documents \cup {None}]
        /\ late \subseteq Writes /\ late \subseteq [cmd : Proper, config : SUBSET Servers]
    BY <1>1, EnvironmentAssumption
  <2> QED  BY <1>1, <1>2, <2>1, <2>2, <2>3, <2>4 DEF Shapes, TypeOK
<1>4. IdsGiven /\ RegistersFirst
  BY <1>1 DEF IdsGiven, RegistersFirst, Pending, Ran
<1>5. InTurn
  BY <1>1 DEF InTurn, OneLoop, Busy, InOrder, ConfigIsRead, Kept, Shown, Pending, Ran
<1> QED  BY <1>3, <1>4, <1>5 DEF IInv

-----------------------------------------------------------------------------
(* The client.                                                             *)

LEMMA ConnectStep ==
    ASSUME IInv, NEW c \in Conns, Connect(c)
    PROVE  IInv'
<1>1. /\ live = None /\ c \notin used /\ live' = c /\ used' = used \cup {c}
      /\ overlap' = (overlap \/ \E d \in Conns : loop[d].pc # "idle")
      /\ wire' = [wire EXCEPT ![c] = <<[kind |-> "register"], Snapshot>>]
      /\ unlisted' = FALSE
      /\ UNCHANGED <<has, restart, running, home, late, loop, commands, owner, rows, req, requests,
                     upserts, promised>>
  BY DEF Connect, runtimeVars, hubVars, apiVars
<1>2. [kind |-> "register"] \in Frames /\ Snapshot \in Frames
      /\ Snapshot.kind = "snapshot" /\ Snapshot.rows = Listing
  BY Facts, ListingIsTable DEF Frames, Snapshot
<1>3. /\ wire' \in [Conns -> Seq(Frames)] /\ DOMAIN wire'[c] = {1, 2}
      /\ wire'[c][1] = [kind |-> "register"] /\ wire'[c][2] = Snapshot
      /\ \A d \in Conns \ {c} : wire'[d] = wire[d]
  <2>1. <<[kind |-> "register"], Snapshot>> \in Seq(Frames)
    BY <1>2
  <2> QED  BY <1>1, <2>1, Facts
<1>4. Shapes'
  BY <1>1, <1>3, Facts, ShapesNext
<1>5. /\ \A m : Pending(m)' => Pending(m)
      /\ \A m : Ran(m)' => Ran(m)
      /\ \A m : Done(m)' => Done(m)
  <2>1. wire'[c][1].kind = "register" /\ wire'[c][2].kind = "snapshot"
    BY <1>2, <1>3
  <2> QED  BY <1>1, <1>3, <2>1 DEF Pending, Ran, Done
<1>6. IdsGiven'
  BY <1>1, <1>5, Facts, IdsNext
<1>7. RegistersFirst'
  BY <1>1, <1>2, <1>3 DEF IInv, RegistersFirst
<1>8. ASSUME ~overlap' PROVE InTurn'
  <2>1. InTurn /\ \A d \in Conns : loop[d].pc = "idle"
    BY <1>1, <1>8, Facts DEF IInv
  <2>2. OneLoop' /\ ConfigIsRead'
    BY <1>1, <2>1 DEF OneLoop, Busy, ConfigIsRead
  <2>3. InOrder'
    BY <1>1, <1>5, <2>1 DEF InTurn, InOrder
  <2>4. Kept'
    BY <1>1, <1>5, <2>1 DEF InTurn, Kept, Present
  <2>5. Shown'
    <3>1. Listing' = Listing
      BY <1>1 DEF Listing, Row
    <3>2. \A j \in DOMAIN wire'[c] : ~(j > 2)
      BY <1>3
    <3>3. 2 \in DOMAIN wire'[c] /\ wire'[c][2].kind = "snapshot" /\ wire'[c][2].rows = Listing'
      BY <1>2, <1>3, <3>1
    <3> QED  BY <1>1, <3>2, <3>3 DEF Shown, WillShow
  <2> QED  BY <2>2, <2>3, <2>4, <2>5 DEF InTurn
<1> QED  BY <1>4, <1>6, <1>7, <1>8 DEF IInv

LEMMA BreakStep ==
    ASSUME IInv, Break
    PROVE  IInv'
<1>1. /\ live' = None /\ commands' = <<>> /\ DOMAIN commands' = {} /\ unlisted' = FALSE
      /\ UNCHANGED <<has, restart, running, home, late, used, loop, overlap, wire, owner, rows, req, requests,
                     upserts, promised>>
  BY DEF Break, runtimeVars, hubVars, apiVars
<1>2. Shapes'
  <2>1. commands' \in Seq(Proper)
    BY <1>1
  <2> QED  BY <1>1, <2>1, Facts, ShapesNext
<1>3. /\ \A m : Pending(m)' => Pending(m)
      /\ \A m : Ran(m)' => Ran(m)
      /\ \A m : Done(m)' => Done(m)
  BY <1>1 DEF Pending, Ran, Done
<1>4. IdsGiven' /\ RegistersFirst'
  BY <1>1, <1>3, Facts, IdsNext DEF IInv, RegistersFirst
<1>5. InTurn => InTurn'
  <2> SUFFICES ASSUME InTurn PROVE InTurn'
    OBVIOUS
  <2>1. OneLoop' /\ Shown'
    BY <1>1, Facts DEF InTurn, OneLoop, Busy, Shown
  <2>4. ConfigIsRead'
    BY <1>1, <1>3, ClaimedNext DEF InTurn, ConfigIsRead
  <2>2. InOrder'
    BY <1>1, <1>3 DEF InTurn, InOrder
  <2>3. Kept'
    BY <1>1, <1>3 DEF InTurn, Kept, Present
  <2> QED  BY <2>1, <2>2, <2>3, <2>4 DEF InTurn
<1> QED  BY <1>1, <1>2, <1>4, <1>5 DEF IInv

LEMMA RebootStep ==
    ASSUME IInv, Reboot
    PROVE  IInv'
<1>1. /\ live = None /\ loop' = [c \in Conns |-> Idle]
      /\ has' = [a \in Agents |-> Seeded(has[a], home[a])] /\ restart' = [a \in Agents |-> {}]
      /\ running' = Agents /\ late' = {} /\ upserts' = {} /\ promised' = {}
      /\ UNCHANGED <<home, unlisted, live, used, overlap, commands, wire, owner, rows, req, requests>>
  BY DEF Reboot, hubVars
<1>2. loop' \in [Conns -> Loops] /\ \A c \in Conns : loop'[c].pc = "idle"
  BY <1>1, IdleFields
<1>3. has' \in [Agents -> [Resources -> Status]] /\ restart' \in [Agents -> SUBSET Plugins]
  <2>1. \A a \in Agents : has'[a] \in [Resources -> Status]
    BY <1>1, SeededTypes, Facts
  <2> QED  BY <1>1, <2>1
<1>4. Shapes'
  BY <1>1, <1>2, <1>3, Facts, ShapesNext
<1>5. /\ \A m : Pending(m)' => Pending(m)
      /\ \A m : Ran(m)' => Ran(m)
      /\ \A m : Done(m)' => Done(m)
  BY <1>1, <1>2 DEF Pending, Ran, Done
<1>6. IdsGiven' /\ RegistersFirst'
  BY <1>1, <1>5, Facts, IdsNext DEF IInv, RegistersFirst
<1>7. InTurn => InTurn'
  <2> SUFFICES ASSUME InTurn PROVE InTurn'
    OBVIOUS
  <2>1. OneLoop' /\ Shown' /\ ConfigIsRead' /\ Kept'
    BY <1>1, <1>2 DEF OneLoop, Busy, Shown, ConfigIsRead, Kept
  <2>2. InOrder'
    BY <1>1, <1>2, <1>5 DEF InTurn, InOrder
  <2> QED  BY <2>1, <2>2 DEF InTurn
<1> QED  BY <1>1, <1>4, <1>6, <1>7 DEF IInv

LEMMA TakeStep ==
    ASSUME IInv, NEW c \in Conns, Take(c)
    PROVE  IInv'
<1> DEFINE m == Head(commands)
<1>1. /\ live = c /\ loop[c].pc = "idle" /\ commands # <<>> /\ commands' = Tail(commands)
      /\ loop' = [loop EXCEPT ![c] = [pc |-> "run", cmd |-> m, config |-> Present(m.agent)]]
      /\ UNCHANGED <<has, restart, running, home, late, unlisted, live, used, overlap, wire, owner,
                     rows, req, requests, upserts, promised>>
  BY DEF Take, machineVars, runtimeVars, hubVars, apiVars, Present
<1>2. /\ m = commands[1] /\ 1 \in DOMAIN commands /\ m \in Proper
      /\ commands' \in Seq(Proper)
      /\ \A i \in DOMAIN commands' : /\ i + 1 \in DOMAIN commands /\ i \in Nat /\ i >= 1
                                     /\ commands'[i] = commands[i + 1]
  BY <1>1, Facts, HeadTailProperties
<1> HIDE DEF m
<1>3. /\ loop' \in [Conns -> Loops] /\ loop'[c].pc = "run" /\ loop'[c].cmd = m
      /\ loop'[c].config = Present(m.agent)
      /\ \A d \in Conns \ {c} : loop'[d] = loop[d]
  <2>1. [pc |-> "run", cmd |-> m, config |-> Present(m.agent)] \in Loops
    BY <1>2 DEF Loops, Present
  <2> QED  BY <1>1, <2>1, Facts
<1>4. Shapes'
  BY <1>1, <1>2, <1>3, Facts, ShapesNext
<1>5. /\ \A n : Pending(n)' => Pending(n)
      /\ \A n : Ran(n)' => Ran(n)
      /\ \A n : Done(n)' => Done(n)
  BY <1>1, <1>2, <1>3 DEF Pending, Ran, Done
<1>6. IdsGiven' /\ RegistersFirst'
  BY <1>1, <1>5, Facts, IdsNext DEF IInv, RegistersFirst
<1>7. InTurn => InTurn'
  <2> SUFFICES ASSUME InTurn PROVE InTurn'
    OBVIOUS
  <2>1. \A d \in Conns : d # c => loop[d].pc = "idle"
    BY <1>1, Facts DEF InTurn, OneLoop, Busy
  <2>6. OneLoop'
    BY <1>1, <1>3, <2>1 DEF OneLoop, Busy
  <2>2. ConfigIsRead'
    <3>1. \A d \in Conns : loop'[d].pc = "run" => d = c
      BY <1>3, <2>1
    <3>2. PICK a, config : a = m.agent /\ config = Present(m.agent)
      OBVIOUS
    <3>3. loop'[c].cmd.agent = a /\ loop'[c].config = config
      BY <1>3, <3>2
    <3>4. ASSUME NEW t \in Servers, Claimed(a, t)' PROVE t \in config
      <4>1. Claimed(a, t)
        BY <1>1, <1>5, <3>4, ClaimedNext
      <4> QED  BY <3>2, <4>1, ClaimedIsPresent DEF InTurn
    <3> QED  BY <3>1, <3>3, <3>4 DEF ConfigIsRead, Claimed
  <2>3. InOrder'
    <3>1. \A i, j \in DOMAIN commands' : i < j => commands'[i].id < commands'[j].id
      BY <1>2 DEF InTurn, InOrder
    <3>2. \A i \in DOMAIN commands' : m.id < commands'[i].id
      BY <1>2 DEF InTurn, InOrder
    <3>3. \A d \in Conns : loop'[d].pc = "run" =>
              \A i \in DOMAIN commands' : loop'[d].cmd.id < commands'[i].id
      BY <1>3, <2>1, <3>2
    <3> QED  BY <1>5, <3>1, <3>3 DEF InTurn, InOrder
  <2>4. Kept'
    BY <1>1, <1>5 DEF InTurn, Kept, Present
  <2>5. Shown'
    <3>1. Quiet(c) /\ (Heard(c)' <=> Heard(c)) /\ (WillShow(c)' <=> WillShow(c))
      BY <1>1 DEF Quiet, Heard, WillShow, Listing, Row, Silent, Configures
    <3> QED  BY <1>1, <3>1 DEF InTurn, Shown
  <2> QED  BY <2>2, <2>3, <2>4, <2>5, <2>6 DEF InTurn
<1> QED  BY <1>1, <1>4, <1>6, <1>7 DEF IInv

\* The effects write the agents' tables.
LEMMA EffectTypes ==
    ASSUME IInv, NEW m \in Proper, NEW config, Effect(m, config)
    PROVE  has' \in [Agents -> [Resources -> Status]]
<1>1. has \in [Agents -> [Resources -> Status]] /\ m.agent \in Agents
  BY Facts, CommandFields
<1>2. \A t \in Status : Set(m, t) \in [Agents -> [Resources -> Status]]
  BY <1>1 DEF Set
<1>3. Switched(m) \in [Agents -> [Resources -> Status]]
  BY <1>2 DEF Switched, Status
<1>4. WithoutServer(m, config) \in [Agents -> [Resources -> Status]]
  BY <1>1 DEF WithoutServer, Status
<1> QED
  BY <1>2, <1>3, <1>4
     DEF Effect, CreateSkill, SetSkillEnabled, DeleteSkill, UpsertMCPServer, RemoveMCPServer,
         SetMCPServerEnabled, InstallPlugin, SetPluginEnabled, UninstallPlugin, Status

\* Of the effects only a removal takes a server away: those that are not in the map
\* it writes back.
LEMMA EffectKeeps ==
    ASSUME IInv, NEW m \in Proper, NEW config, Effect(m, config), NEW a \in Agents, NEW t \in Servers,
           t \in Present(a) \/ (m.op = "mcp.upsert" /\ m.agent = a /\ m.res = t),
           m.op = "mcp.remove" /\ m.agent = a => t \in config /\ t # m.res
    PROVE  t \in Present(a)'
<1> SUFFICES has'[a][t] # "absent"
  BY DEF Present
<1>1. /\ has \in [Agents -> [Resources -> Status]] /\ m.agent \in Agents /\ t \in Resources
      /\ t \notin Skills /\ t \notin Plugins
  BY Facts, CommandFields, EnvironmentAssumption DEF Resources
<1>2. /\ m.op \in {"skill.create", "skill.set", "skill.delete"} => m.res # t
      /\ m.op \in {"plugin.install", "plugin.set", "plugin.uninstall"} => m.res # t
  BY <1>1, CommandFields
<1>3. \A x \in Status : \/ m.agent = a /\ m.res = t /\ Set(m, x)[a][t] = x
                        \/ ~(m.agent = a /\ m.res = t) /\ Set(m, x)[a][t] = has[a][t]
  BY <1>1 DEF Set
<1>4. t \in Present(a) <=> has[a][t] # "absent"
  BY DEF Present
<1>5. CASE m.op \in {"skill.create", "skill.set", "skill.delete"}
  BY <1>2, <1>3, <1>4, <1>5 DEF Effect, CreateSkill, SetSkillEnabled, DeleteSkill, UpsertMCPServer,
     RemoveMCPServer, SetMCPServerEnabled, InstallPlugin, SetPluginEnabled, UninstallPlugin,
     Status, Switched
<1>6. CASE m.op \in {"plugin.install", "plugin.set", "plugin.uninstall"}
  BY <1>2, <1>3, <1>4, <1>6 DEF Effect, CreateSkill, SetSkillEnabled, DeleteSkill, UpsertMCPServer,
     RemoveMCPServer, SetMCPServerEnabled, InstallPlugin, SetPluginEnabled, UninstallPlugin,
     Status, Switched
<1>7. CASE m.op \in {"mcp.upsert", "mcp.set"}
  BY <1>3, <1>4, <1>7 DEF Effect, CreateSkill, SetSkillEnabled, DeleteSkill, UpsertMCPServer,
     RemoveMCPServer, SetMCPServerEnabled, InstallPlugin, SetPluginEnabled, UninstallPlugin,
     Status, Switched
<1>8. CASE m.op = "mcp.remove"
  <2>1. has' = WithoutServer(m, config)
    BY <1>8 DEF Effect, CreateSkill, SetSkillEnabled, DeleteSkill, UpsertMCPServer, RemoveMCPServer,
       SetMCPServerEnabled, InstallPlugin, SetPluginEnabled, UninstallPlugin
  <2>2. CASE m.agent # a
    BY <1>1, <1>4, <1>8, <2>1, <2>2 DEF WithoutServer
  <2>3. CASE m.agent = a
    BY <1>1, <1>4, <1>8, <2>1, <2>3 DEF WithoutServer
  <2> QED  BY <2>2, <2>3
<1> QED
  BY <1>5, <1>6, <1>7, <1>8
     DEF Effect, CreateSkill, SetSkillEnabled, DeleteSkill, UpsertMCPServer, RemoveMCPServer,
         SetMCPServerEnabled, InstallPlugin, SetPluginEnabled, UninstallPlugin

\* An effect concerns one agent.
LEMMA EffectElsewhere ==
    ASSUME IInv, NEW m \in Proper, NEW config, Effect(m, config), NEW a \in Agents, a # m.agent
    PROVE  has'[a] = has[a]
<1>1. has \in [Agents -> [Resources -> Status]] /\ m.agent \in Agents
  BY Facts, CommandFields
<1>2. \A x : Set(m, x)[a] = has[a]
  BY <1>1 DEF Set
<1>3. WithoutServer(m, config)[a] = has[a]
  BY <1>1 DEF WithoutServer
<1> QED
  BY <1>2, <1>3
     DEF Effect, CreateSkill, SetSkillEnabled, DeleteSkill, UpsertMCPServer, RemoveMCPServer,
         SetMCPServerEnabled, InstallPlugin, SetPluginEnabled, UninstallPlugin, Switched

LEMMA CycleFacts ==
    ASSUME IInv, NEW E \in SUBSET Agents, NEW S \in SUBSET Agents, Cycle(E, S)
    PROVE  /\ has' \in [Agents -> [Resources -> Status]] /\ restart' \in [Agents -> SUBSET Plugins]
           /\ running' \subseteq Agents /\ late' \subseteq late /\ home' = home
           /\ unlisted' = (live # None)
           /\ promised' \subseteq promised /\ upserts' \subseteq upserts
           /\ \A a \in Agents \ S : has'[a] = has[a]
           /\ \A p \in promised' : p[1] \notin S
           /\ \A u \in upserts' : u.agent \notin S \/ \E i \in DOMAIN commands : commands[i] = u
<1>1. /\ has' = [a \in Agents |-> IF a \in S THEN Seeded(has[a], home[a]) ELSE has[a]]
      /\ restart' = [a \in Agents |-> IF a \in S THEN {} ELSE restart[a]]
      /\ running' = (running \ E) \cup S
      /\ late' = {x \in late : x.cmd.agent \notin E \cup S}
      /\ home' = home /\ unlisted' = (live # None)
      /\ upserts' = {u \in upserts : u.agent \notin S \/ \E i \in DOMAIN commands : commands[i] = u}
      /\ promised' = {p \in promised : p[1] \notin S}
  BY DEF Cycle, Lift
<1>2. \A a \in Agents : has'[a] \in [Resources -> Status]
  BY <1>1, SeededTypes, Facts
<1>3. has' \in [Agents -> [Resources -> Status]]
  BY <1>1, <1>2
<1>4. restart' \in [Agents -> SUBSET Plugins]
  BY <1>1, Facts
<1>5. \A a \in Agents \ S : has'[a] = has[a]
  BY <1>1
<1> QED  BY <1>1, <1>3, <1>4, <1>5, Facts

\* What the loop of a connection does with its command.
Act(m, config, ok) ==
    \/ ChangeAgent(m, config, ok) \/ Configure(m, ok)
    \/ RestartAgent(m, ok) \/ StopAll(m, ok) \/ StartAll(m, ok)
    \/ (Reads(m) \/ ~ok) /\ UNCHANGED <<machineVars, upserts, promised>>

LEMMA CyclesAre ==
    ASSUME IInv, NEW m \in Proper, NEW ok \in BOOLEAN,
           RestartAgent(m, ok) \/ StopAll(m, ok) \/ StartAll(m, ok)
    PROVE  \E E, S \in SUBSET Agents : Cycle(E, S)
<1>1. m.agent \in Agents /\ running \subseteq Agents
  BY Facts, CommandFields
<1>2. \A a \in Agents : Before(a) \in SUBSET Agents /\ Before(a) \cup {a} \in SUBSET Agents
  BY DEF Before
<1>3. CASE RestartAgent(m, ok)
  BY <1>1, <1>3 DEF RestartAgent
<1>4. CASE StopAll(m, ok)
  <2>1. CASE ok
    BY <1>1, <1>4, <2>1 DEF StopAll
  <2>2. CASE ~ok
    <3>1. PICK a \in running : Cycle(Before(a) \cup {a}, {})
      BY <1>4, <2>2 DEF StopAll
    <3> QED  BY <1>1, <1>2, <3>1
  <2> QED  BY <2>1, <2>2
<1>5. CASE StartAll(m, ok)
  <2>1. CASE ok
    BY <1>1, <1>5, <2>1 DEF StartAll
  <2>2. CASE ~ok
    <3>1. PICK a \in Agents \ running : Cycle(Before(a), {})
      BY <1>5, <2>2 DEF StartAll
    <3> QED  BY <1>2, <3>1
  <2> QED  BY <2>1, <2>2
<1> QED  BY <1>3, <1>4, <1>5

LEMMA ConfigureTypes ==
    ASSUME IInv, NEW m \in Proper, NEW ok \in BOOLEAN, Configure(m, ok)
    PROVE  /\ home' \in [Agents -> Documents \cup {None}]
           /\ late' \subseteq [cmd : Proper, config : SUBSET Servers]
           /\ UNCHANGED <<has, restart, running, unlisted, upserts, promised>>
<1>1. PICK A : /\ home' = [a \in Agents |-> IF a \in A THEN m.res ELSE home[a]]
               /\ late' = late \cup {[cmd |-> [m EXCEPT !.agent = a], config |-> {}] :
                                        a \in A \cap running}
  BY DEF Configure
<1>2. m.res \in Documents
  BY CommandFields DEF Configure
<1>3. home' \in [Agents -> Documents \cup {None}]
  BY <1>1, <1>2, Facts
<1>4. ASSUME NEW a \in Agents PROVE [m EXCEPT !.agent = a] \in Proper
  <2>1. m \in Commands
    BY CommandFields
  <2>2. PICK x : x = [m EXCEPT !.agent = a]
    OBVIOUS
  <2>3. x \in Commands /\ x.op = m.op /\ x.res = m.res
    BY <2>1, <2>2 DEF Commands
  <2>4. x \in Proper
    BY <2>3, CommandFields DEF Proper, Configures
  <2> QED  BY <2>2, <2>4
<1>5. \A a \in A \cap running :
         [cmd |-> [m EXCEPT !.agent = a], config |-> {}] \in [cmd : Proper, config : SUBSET Servers]
  BY <1>4, Facts
<1>6. late' \subseteq [cmd : Proper, config : SUBSET Servers]
  BY <1>1, <1>5, Facts
<1> QED  BY <1>3, <1>6 DEF Configure

LEMMA ChangeTypes ==
    ASSUME IInv, NEW m \in Proper, NEW config \in SUBSET Servers, NEW ok \in BOOLEAN,
           ChangeAgent(m, config, ok)
    PROVE  /\ has' \in [Agents -> [Resources -> Status]] /\ restart' \in [Agents -> SUBSET Plugins]
           /\ late' \subseteq [cmd : Proper, config : SUBSET Servers] /\ unlisted' \in BOOLEAN
           /\ UNCHANGED <<running, home, upserts, promised>>
<1>1. m.agent \in Agents
  BY CommandFields
<1>2. m.res \in Plugins => Mark(m) \in [Agents -> SUBSET Plugins]
  BY <1>1, Facts DEF Mark
<1>3. Effect(m, config) => has' \in [Agents -> [Resources -> Status]]
  BY EffectTypes
<1>4. [cmd |-> m, config |-> config] \in [cmd : Proper, config : SUBSET Servers]
  OBVIOUS
<1>5. CASE ok
  <2>1. /\ Effect(m, config) /\ restart' = (IF m.res \in Plugins THEN Mark(m) ELSE restart)
        /\ UNCHANGED <<running, home, late, unlisted, upserts, promised>>
    BY <1>5 DEF ChangeAgent, runtimeVars
  <2> QED  BY <1>2, <1>3, <2>1, Facts
<1>6. CASE ~ok
  <2>1. /\ \/ Effect(m, config) /\ unlisted' = (live # None) /\ UNCHANGED late
           \/ late' = late \cup {[cmd |-> m, config |-> config]} /\ UNCHANGED <<has, unlisted>>
        /\ UNCHANGED <<restart, running, home, upserts, promised>>
    BY <1>6 DEF ChangeAgent, runtimeVars
  <2> QED  BY <1>3, <1>4, <2>1, Facts
<1> QED  BY <1>5, <1>6

LEMMA ActTypes ==
    ASSUME IInv, NEW m \in Proper, NEW config \in SUBSET Servers, NEW ok \in BOOLEAN,
           Act(m, config, ok)
    PROVE  /\ has' \in [Agents -> [Resources -> Status]] /\ restart' \in [Agents -> SUBSET Plugins]
           /\ running' \subseteq Agents /\ home' \in [Agents -> Documents \cup {None}]
           /\ late' \subseteq [cmd : Proper, config : SUBSET Servers] /\ unlisted' \in BOOLEAN
           /\ promised' \subseteq promised /\ upserts' \subseteq upserts
<1>1. CASE ChangeAgent(m, config, ok)
  <2>1. /\ has' \in [Agents -> [Resources -> Status]] /\ restart' \in [Agents -> SUBSET Plugins]
        /\ late' \subseteq [cmd : Proper, config : SUBSET Servers] /\ unlisted' \in BOOLEAN
        /\ running' = running /\ home' = home /\ upserts' = upserts /\ promised' = promised
    BY <1>1, ChangeTypes
  <2>2. running \subseteq Agents /\ home \in [Agents -> Documents \cup {None}]
    BY Facts
  <2> QED  BY <2>1, <2>2
<1>2. CASE Configure(m, ok)
  BY <1>2, ConfigureTypes, Facts
<1>3. CASE RestartAgent(m, ok) \/ StopAll(m, ok) \/ StartAll(m, ok)
  <2>1. PICK E, S \in SUBSET Agents : Cycle(E, S)
    BY <1>3, CyclesAre
  <2> QED  BY <2>1, CycleFacts, Facts
<1>4. CASE UNCHANGED <<machineVars, upserts, promised>>
  BY <1>4, Facts DEF machineVars, runtimeVars
<1> QED  BY <1>1, <1>2, <1>3, <1>4 DEF Act

\* A server that is promised when the loop has dealt with its command is there.
LEMMA ActKeeps ==
    ASSUME IInv, NEW m \in Proper, NEW config \in SUBSET Servers, NEW ok \in BOOLEAN,
           Act(m, config, ok), NEW a \in Agents, NEW t \in Servers,
           t \in Present(a) \/ (ok /\ m.op = "mcp.upsert" /\ m.agent = a /\ m.res = t),
           m.op = "mcp.remove" /\ m.agent = a => t \in config /\ t # m.res,
           \/ <<a, t>> \in promised'
           \/ \E u \in upserts' : u.agent = a /\ ~ \E i \in DOMAIN commands : commands[i] = u
    PROVE  t \in Present(a)'
<1>1. CASE ChangeAgent(m, config, ok)
  <2>1. CASE ok
    BY <1>1, <2>1, EffectKeeps DEF ChangeAgent
  <2>2. CASE ~ok
    <3>1. Effect(m, config) \/ has' = has
      BY <1>1, <2>2 DEF ChangeAgent
    <3>2. CASE Effect(m, config)
      BY <2>2, <3>2, EffectKeeps
    <3>3. CASE has' = has
      BY <2>2, <3>3 DEF Present
    <3> QED  BY <3>1, <3>2, <3>3
  <2> QED  BY <2>1, <2>2
<1>2. CASE Configure(m, ok)
  <2>1. has' = has /\ m.op # "mcp.upsert"
    BY <1>2 DEF Configure, Configures
  <2> QED  BY <2>1 DEF Present
<1>3. CASE RestartAgent(m, ok) \/ StopAll(m, ok) \/ StartAll(m, ok)
  <2>1. PICK E, S \in SUBSET Agents : Cycle(E, S)
    BY <1>3, CyclesAre
  <2>2. m.op # "mcp.upsert"
    BY <1>3 DEF RestartAgent, StopAll, StartAll
  <2>5. /\ \A p \in promised' : p[1] \notin S
        /\ \A u \in upserts' : u.agent \notin S \/ \E i \in DOMAIN commands : commands[i] = u
    BY <2>1, CycleFacts
  <2>3. a \notin S
    <3>1. CASE <<a, t>> \in promised'
      BY <2>5, <3>1
    <3>2. CASE \E u \in upserts' : u.agent = a /\ ~ \E i \in DOMAIN commands : commands[i] = u
      BY <2>5, <3>2
    <3> QED  BY <3>1, <3>2
  <2>4. has'[a] = has[a]
    BY <2>1, <2>3, CycleFacts
  <2> QED  BY <2>2, <2>4 DEF Present
<1>4. CASE (Reads(m) \/ ~ok) /\ UNCHANGED <<machineVars, upserts, promised>>
  BY <1>4 DEF machineVars, Reads, Present
<1> QED  BY <1>1, <1>2, <1>3, <1>4 DEF Act

\* A command that no snapshot follows leaves what is listed alone, or it is noted.
LEMMA ActShows ==
    ASSUME IInv, NEW m \in Proper, NEW config \in SUBSET Servers, NEW ok \in BOOLEAN,
           Act(m, config, ok), ~ok \/ Configures(m), live # None, ~unlisted'
    PROVE  ~unlisted /\ Listing' = Listing
<1>1. CASE ChangeAgent(m, config, ok)
  <2>1. ~ok
    BY <1>1 DEF ChangeAgent, Changes
  <2>2. UNCHANGED <<has, restart, running, unlisted>>
    BY <1>1, <2>1 DEF ChangeAgent, runtimeVars
  <2> QED  BY <2>2 DEF Listing, Row
<1>2. CASE Configure(m, ok)
  BY <1>2 DEF Configure, Listing, Row
<1>3. CASE RestartAgent(m, ok) \/ StopAll(m, ok) \/ StartAll(m, ok)
  BY <1>3, CyclesAre, CycleFacts
<1>4. CASE UNCHANGED <<machineVars, upserts, promised>>
  BY <1>4 DEF machineVars, runtimeVars, Listing, Row
<1> QED  BY <1>1, <1>2, <1>3, <1>4 DEF Act

LEMMA RunStep ==
    ASSUME IInv, NEW c \in Conns, Run(c)
    PROVE  IInv'
<1>1. PICK m : m = loop[c].cmd
  OBVIOUS
<1>11. PICK config : config = loop[c].config
  OBVIOUS
<1>2. PICK ok \in BOOLEAN :
         /\ Act(m, config, ok)
         /\ loop' = [loop EXCEPT ![c] = [pc |-> "reply", cmd |-> m, ok |-> ok]]
  BY <1>1, <1>11 DEF Run, Act
<1>3. /\ loop[c].pc = "run"
      /\ UNCHANGED <<live, used, overlap, commands, wire, owner, rows, req, requests>>
  BY DEF Run, hubVars
<1>4. m \in Proper /\ m.id \in Nat /\ config \in SUBSET Servers
  BY <1>1, <1>11, <1>3, Facts, LoopFields, CommandFields
<1>5. /\ loop' \in [Conns -> Loops] /\ loop'[c].pc = "reply" /\ loop'[c].cmd = m /\ loop'[c].ok = ok
      /\ \A d \in Conns \ {c} : loop'[d] = loop[d]
  <2>1. [pc |-> "reply", cmd |-> m, ok |-> ok] \in Loops
    BY <1>4 DEF Loops
  <2> QED  BY <1>2, <2>1, Facts
<1>6. promised' \subseteq promised /\ upserts' \subseteq upserts
  BY <1>2, <1>4, ActTypes
<1>7. Shapes'
  <2>1. /\ upserts' \subseteq {n \in Proper : n.op = "mcp.upsert"}
        /\ promised' \subseteq Agents \X Servers
    BY <1>6, Facts
  <2>2. /\ has' \in [Agents -> [Resources -> Status]] /\ restart' \in [Agents -> SUBSET Plugins]
        /\ running' \subseteq Agents /\ home' \in [Agents -> Documents \cup {None}]
        /\ late' \subseteq [cmd : Proper, config : SUBSET Servers] /\ unlisted' \in BOOLEAN
    BY <1>2, <1>4, ActTypes
  <2>3. /\ live' \in used' \cup {None} /\ used' \subseteq Conns /\ commands' \in Seq(Proper)
        /\ overlap' \in BOOLEAN /\ wire' \in [Conns -> Seq(Frames)]
        /\ owner' \in used' \cup {None} /\ rows' \in Tables
        /\ req' \in [Consoles -> 0..MaxRequests] /\ requests' \in 0..MaxRequests
    BY <1>3, Facts
  <2> QED  BY <1>5, <2>1, <2>2, <2>3, ShapesNext
<1>8. /\ Pending(m)
      /\ \A n : Pending(n)' => Pending(n)
      /\ \A n : Ran(n)' => Ran(n) \/ n = m
      /\ \A n : Done(n)' => Done(n) \/ (n = m /\ ok)
  BY <1>1, <1>3, <1>5 DEF Pending, Ran, Done
<1>9. IdsGiven' /\ RegistersFirst'
  BY <1>3, <1>6, <1>8, Facts, IdsNext DEF IInv, RegistersFirst
<1>10. ASSUME ~overlap PROVE InTurn'
  <2>1. /\ OneLoop /\ InOrder /\ ConfigIsRead /\ Kept /\ Shown
        /\ live \in {c, None} /\ \A d \in Conns : d # c => loop[d].pc = "idle"
    BY <1>3, <1>10 DEF IInv, InTurn, OneLoop, Busy
  <2>2. OneLoop' /\ ConfigIsRead'
    BY <1>3, <1>5, <2>1 DEF OneLoop, Busy, ConfigIsRead
  <2>3. \A n : Pending(n)' => \E i \in DOMAIN commands : commands[i] = n
    BY <1>3, <1>5, <2>1 DEF Pending
  <2>7. \A n : Pending(n)' => m.id < n.id
    BY <1>1, <1>3, <2>1, <2>3 DEF InOrder
  <2>4. InOrder'
    <3>2. \A n, q \in Proper : Ran(n)' /\ Pending(q)' => n.id < q.id
      BY <1>8, <2>1, <2>7 DEF InOrder
    <3>3. \A d \in Conns : loop'[d].pc # "run"
      BY <1>5, <2>1
    <3> QED  BY <1>3, <2>1, <3>2, <3>3 DEF InOrder
  <2>5. Kept'
    <3>1. \A t \in Servers : Claimed(m.agent, t) => t \in config
      BY <1>1, <1>11, <1>3, <2>1 DEF ConfigIsRead
    <3>3. ASSUME NEW u \in upserts', Done(u)' PROVE u.res \in Present(u.agent)'
      <4>1. u \in Proper /\ u.op = "mcp.upsert" /\ u.agent \in Agents /\ u.res \in Servers
            /\ u.id \in Nat /\ u \in upserts
        BY <1>6, OnItsWay, CommandFields
      <4>4. ~ \E i \in DOMAIN commands : commands[i] = u
        <5>1. Pending(u)' => m.id < u.id /\ (Ran(u) => u.id < u.id)
          BY <1>8, <2>1, <2>7, <4>1 DEF InOrder
        <5>2. ~Pending(u)'
          BY <1>4, <1>8, <3>3, <4>1, <5>1, OnItsWay
        <5> QED  BY <1>3, <5>2 DEF Pending
      <4>2. CASE Done(u)
        <5>1. u.res \in Present(u.agent)
          BY <2>1, <4>1, <4>2 DEF Kept
        <5>2. u.id < m.id
          BY <1>4, <1>8, <2>1, <4>1, <4>2, OnItsWay DEF InOrder
        <5>3. ~(m.op = "mcp.remove" /\ m.agent = u.agent /\ m.res = u.res)
          <6>1. (m.op = "mcp.remove" /\ m.agent = u.agent /\ m.res = u.res) => m.id < u.id
            BY <1>4, <1>8, <2>1, <4>1 DEF Kept
          <6> QED  BY <1>4, <4>1, <5>2, <6>1
        <5>4. m.agent = u.agent => u.res \in config
          BY <3>1, <4>1, <4>2 DEF Claimed
        <5> QED  BY <1>2, <1>4, <4>1, <4>4, <5>1, <5>3, <5>4, ActKeeps
      <4>3. CASE u = m /\ ok
        BY <1>2, <1>4, <4>1, <4>3, <4>4, ActKeeps
      <4> QED  BY <1>8, <3>3, <4>2, <4>3
    <3>4. ASSUME NEW p \in promised' PROVE p[2] \in Present(p[1])'
      <4>1. p \in promised /\ p \in Agents \X Servers /\ p[2] \in Present(p[1])
        BY <1>6, <2>1, Facts DEF Kept
      <4>2. PICK a \in Agents, t \in Servers : p = <<a, t>> /\ t \in Present(a)
        BY <4>1
      <4>3. ~(m.op = "mcp.remove" /\ m.agent = a /\ m.res = t)
        BY <1>4, <1>8, <2>1, <4>1, <4>2 DEF Kept
      <4>4. m.agent = a => t \in config
        BY <3>1, <4>1, <4>2 DEF Claimed
      <4>5. <<a, t>> \in promised'
        BY <3>4, <4>2
      <4>6. t \in Present(a)'
        BY <1>2, <1>4, <4>2, <4>3, <4>4, <4>5, ActKeeps
      <4> QED  BY <4>2, <4>6 DEF Present
    <3>5. \A n \in Proper : Pending(n)' /\ n.op = "mcp.remove" =>
             /\ <<n.agent, n.res>> \notin promised'
             /\ \A u \in upserts' : u.agent = n.agent /\ u.res = n.res => n.id < u.id
      BY <1>6, <1>8, <2>1 DEF Kept
    <3> QED  BY <3>3, <3>4, <3>5 DEF Kept
  <2>6. Shown'
    <3> SUFFICES ASSUME live = c, Heard(c)', Quiet(c)', ~unlisted' PROVE WillShow(c)'
      BY <1>3, <2>1 DEF Shown
    <3>1. ~ok \/ Configures(m)
      BY <1>5 DEF Quiet
    <3>4. ~unlisted /\ Listing' = Listing
      BY <1>2, <1>4, <3>1, ActShows, Facts
    <3>2. Heard(c) /\ Quiet(c)
      BY <1>3 DEF Heard, Quiet
    <3>3. WillShow(c)
      BY <2>1, <3>2, <3>4, Facts DEF Shown
    <3> QED  BY <1>3, <3>3, <3>4 DEF WillShow
  <2> QED  BY <2>2, <2>4, <2>5, <2>6 DEF InTurn
<1> QED  BY <1>3, <1>7, <1>9, <1>10 DEF IInv

\* A late write: nothing is promised that it may take away, and it is noted.
LEMMA CarryOutStep ==
    ASSUME IInv, NEW x \in late, CarryOut(x)
    PROVE  IInv'
<1>1. x.cmd \in Proper /\ x.cmd.agent \in Agents
  BY Facts, CommandFields
<1>2. /\ late' \subseteq late /\ unlisted' = (live # None)
      /\ UNCHANGED <<restart, running, home, live, used, loop, overlap, commands, wire, owner, rows,
                     req, requests>>
  BY DEF CarryOut, runtimeVars, clientVars, hubVars
<1>3. \/ /\ has' = [has EXCEPT ![x.cmd.agent] = Restored(@, x.cmd.res)]
         /\ Lift({x.cmd.agent})
      \/ Effect(x.cmd, x.config) /\ Lift({x.cmd.agent})
      \/ /\ Effect(x.cmd, x.config) /\ x.cmd.op # "mcp.remove"
         /\ UNCHANGED <<upserts, promised>>
  BY DEF CarryOut
<1>4. has' \in [Agents -> [Resources -> Status]]
  <2>1. Restored(has[x.cmd.agent], x.cmd.res) \in [Resources -> Status]
    BY <1>1, SeededTypes, Facts
  <2>2. [has EXCEPT ![x.cmd.agent] = Restored(@, x.cmd.res)] \in [Agents -> [Resources -> Status]]
    BY <2>1, Facts
  <2> QED  BY <1>1, <1>3, <2>2, EffectTypes
<1>5. promised' \subseteq promised /\ upserts' \subseteq upserts
  BY <1>3 DEF Lift
<1>6. Shapes'
  BY <1>2, <1>4, <1>5, Facts, ShapesNext
<1>7. \A m : (Pending(m)' <=> Pending(m)) /\ (Ran(m)' <=> Ran(m)) /\ (Done(m)' <=> Done(m))
  BY <1>2 DEF Pending, Ran, Done
<1>8. IdsGiven' /\ RegistersFirst'
  BY <1>2, <1>5, <1>7, Facts, IdsNext DEF IInv, RegistersFirst
<1>9. InTurn => InTurn'
  <2> SUFFICES ASSUME InTurn PROVE InTurn'
    OBVIOUS
  <2>1. OneLoop' /\ Shown'
    BY <1>2, Facts DEF InTurn, OneLoop, Busy, Shown
  <2>2. InOrder'
    BY <1>2, <1>7 DEF InTurn, InOrder
  <2>3. ConfigIsRead'
    BY <1>2, <1>5, <1>7, ClaimedNext DEF InTurn, ConfigIsRead
  <2>4. ASSUME NEW a \in Agents, NEW t \in Servers, t \in Present(a),
               a # x.cmd.agent \/ (Effect(x.cmd, x.config) /\ x.cmd.op # "mcp.remove")
        PROVE  t \in Present(a)'
    <3>1. CASE Effect(x.cmd, x.config) /\ x.cmd.op # "mcp.remove"
      BY <1>1, <2>4, <3>1, EffectKeeps
    <3>2. CASE a # x.cmd.agent
      <4>1. has'[a] = has[a]
        BY <1>1, <1>3, <3>2, EffectElsewhere, Facts
      <4> QED  BY <2>4, <4>1 DEF Present
    <3> QED  BY <2>4, <3>1, <3>2
  <2>5. ASSUME NEW u \in upserts', Done(u)' PROVE u.res \in Present(u.agent)'
    <3>1. u \in upserts /\ Done(u) /\ u.agent \in Agents /\ u.res \in Servers
      BY <1>5, <1>7, <2>5, OnItsWay, CommandFields
    <3>2. u.res \in Present(u.agent)
      BY <3>1 DEF InTurn, Kept
    <3>3. ~ \E i \in DOMAIN commands : commands[i] = u
      BY <3>1, NotBoth DEF InTurn, Pending
    <3>4. u.agent # x.cmd.agent \/ (Effect(x.cmd, x.config) /\ x.cmd.op # "mcp.remove")
      BY <1>3, <2>5, <3>3 DEF Lift
    <3> QED  BY <2>4, <3>1, <3>2, <3>4
  <2>6. ASSUME NEW p \in promised' PROVE p[2] \in Present(p[1])'
    <3>1. p \in promised /\ p[1] \in Agents /\ p[2] \in Servers
      BY <1>5, Facts
    <3>2. p[2] \in Present(p[1])
      BY <3>1 DEF InTurn, Kept
    <3>3. p[1] # x.cmd.agent \/ (Effect(x.cmd, x.config) /\ x.cmd.op # "mcp.remove")
      BY <1>3, <2>6 DEF Lift
    <3> QED  BY <2>4, <3>1, <3>2, <3>3
  <2>7. Kept'
    <3>1. \A n \in Proper : Pending(n)' /\ n.op = "mcp.remove" =>
             /\ <<n.agent, n.res>> \notin promised'
             /\ \A u \in upserts' : u.agent = n.agent /\ u.res = n.res => n.id < u.id
      BY <1>5, <1>7 DEF InTurn, Kept
    <3> QED  BY <2>5, <2>6, <3>1 DEF Kept
  <2> QED  BY <2>1, <2>2, <2>3, <2>7 DEF InTurn
<1> QED  BY <1>2, <1>6, <1>8, <1>9 DEF IInv

\* One frame more.
LEMMA Appended ==
    \A s \in Seq(Frames), f \in Frames : \E n \in Nat :
       /\ Append(s, f) \in Seq(Frames)
       /\ DOMAIN s = 1..n /\ DOMAIN Append(s, f) = 1..(n + 1) /\ Append(s, f)[n + 1] = f
       /\ \A i \in 1..n : i \in 1..(n + 1) /\ Append(s, f)[i] = s[i]
       /\ \A i \in 1..(n + 1) : i \in 1..n \/ i = n + 1
<1> SUFFICES ASSUME NEW s \in Seq(Frames), NEW f \in Frames
             PROVE  \E n \in Nat :
                /\ Append(s, f) \in Seq(Frames)
                /\ DOMAIN s = 1..n /\ DOMAIN Append(s, f) = 1..(n + 1) /\ Append(s, f)[n + 1] = f
                /\ \A i \in 1..n : i \in 1..(n + 1) /\ Append(s, f)[i] = s[i]
                /\ \A i \in 1..(n + 1) : i \in 1..n \/ i = n + 1
  OBVIOUS
<1>1. PICK n \in Nat : n = Len(s)
  OBVIOUS
<1>2. /\ DOMAIN s = 1..n /\ DOMAIN Append(s, f) = 1..(n + 1) /\ Append(s, f)[n + 1] = f
      /\ \A i \in 1..n : Append(s, f)[i] = s[i]
  BY <1>1
<1>3. 1..n \subseteq 1..(n + 1) /\ \A i \in 1..(n + 1) : i \in 1..n \/ i = n + 1
  OBVIOUS
<1>4. Append(s, f) \in Seq(Frames)
  OBVIOUS
<1> QED  BY <1>2, <1>3, <1>4

LEMMA ReplyStep ==
    ASSUME IInv, NEW c \in Conns, Reply(c)
    PROVE  IInv'
<1>1. PICK m : m = loop[c].cmd
  OBVIOUS
<1>2. PICK f : f = [kind |-> IF loop[c].ok THEN "done" ELSE "rejected", cmd |-> m]
  OBVIOUS
<1>3. /\ loop[c].pc = "reply"
      /\ UNCHANGED <<has, restart, running, home, late, unlisted, live, used, overlap, commands,
                     owner, rows, req, requests, upserts, promised>>
  BY DEF Reply, machineVars, runtimeVars, hubVars, apiVars
<1>4. /\ live = c => /\ wire' = [wire EXCEPT ![c] = Append(@, f)]
                     /\ loop' = [loop EXCEPT ![c] = AfterReply(m, loop[c].ok)]
      /\ live # c => loop' = [loop EXCEPT ![c] = Idle] /\ wire' = wire
  BY <1>1, <1>2 DEF Reply
<1>5. m \in Proper /\ loop[c].ok \in BOOLEAN
  BY <1>1, <1>3, Facts, LoopFields
<1>6. /\ f \in Frames /\ f.kind = (IF loop[c].ok THEN "done" ELSE "rejected") /\ f.cmd = m
      /\ f.kind # "register"
  BY <1>2, <1>5 DEF Frames
<1>7. /\ loop' \in [Conns -> Loops] /\ loop'[c].pc \in {"idle", "refresh"}
      /\ live = c /\ loop'[c].pc = "idle" => ~loop[c].ok \/ Configures(m)
      /\ \A d \in Conns \ {c} : loop'[d] = loop[d]
  <2>1. AfterReply(m, loop[c].ok) \in Loops /\ AfterReply(m, loop[c].ok).pc \in {"idle", "refresh"}
        /\ (AfterReply(m, loop[c].ok).pc = "idle" => ~loop[c].ok \/ Configures(m))
    BY <1>5, IdleFields DEF AfterReply, Loops
  <2> QED  BY <1>4, <2>1, Facts, IdleFields
<1>8. /\ wire' \in [Conns -> Seq(Frames)]
      /\ \A d \in Conns \ {c} : wire'[d] = wire[d]
      /\ live # c => wire'[c] = wire[c]
      /\ \A i \in DOMAIN wire[c] : i \in DOMAIN wire'[c] /\ wire'[c][i] = wire[c][i]
      /\ \A i \in DOMAIN wire'[c] :
            \/ i \in DOMAIN wire[c] /\ wire'[c][i] = wire[c][i]
            \/ i \notin DOMAIN wire[c] /\ i > 1 /\ wire'[c][i] = f
            \/ DOMAIN wire[c] = {} /\ i = 1 /\ wire'[c][i] = f
  <2>1. CASE live # c
    BY <1>4, <2>1, Facts
  <2>2. CASE live = c
    <3>1. /\ wire[c] \in Seq(Frames) /\ wire'[c] = Append(wire[c], f)
          /\ wire' = [wire EXCEPT ![c] = Append(wire[c], f)]
          /\ \A d \in Conns \ {c} : wire'[d] = wire[d]
      BY <1>4, <2>2, Facts
    <3>2. PICK n \in Nat :
             /\ wire'[c] \in Seq(Frames)
             /\ DOMAIN wire[c] = 1..n /\ DOMAIN wire'[c] = 1..(n + 1) /\ wire'[c][n + 1] = f
             /\ \A i \in 1..n : i \in 1..(n + 1) /\ wire'[c][i] = wire[c][i]
             /\ \A i \in 1..(n + 1) : i \in 1..n \/ i = n + 1
      BY <1>6, <3>1, Appended
    <3>3. wire' \in [Conns -> Seq(Frames)]
      BY <3>1, <3>2, Facts
    <3>4. n = 0 \/ n + 1 > 1
      OBVIOUS
    <3>5. n + 1 \notin 1..n /\ (n = 0 => 1..n = {} /\ n + 1 = 1)
      OBVIOUS
    <3> QED  BY <2>2, <3>1, <3>2, <3>3, <3>4, <3>5
  <2> QED  BY <2>1, <2>2
<1>9. Shapes'
  BY <1>3, <1>7, <1>8, Facts, ShapesNext
<1>10. /\ \A n : Pending(n)' => Pending(n)
       /\ \A n : Ran(n)' => Ran(n)
       /\ \A n : Done(n)' => Done(n)
  <2>1. \A n : Pending(n)' => Pending(n)
    BY <1>3, <1>7 DEF Pending
  <2>2. \A n : Ran(n)' => Ran(n)
    <3>1. ASSUME NEW n, NEW d \in Conns, NEW i \in DOMAIN wire'[d],
                 wire'[d][i].kind \in {"done", "rejected"}, wire'[d][i].cmd = n
          PROVE  Ran(n)
      <4>1. (i \in DOMAIN wire[d] /\ wire'[d][i] = wire[d][i]) \/ wire'[d][i] = f
        BY <1>8
      <4> QED  BY <1>1, <1>3, <1>6, <3>1, <4>1 DEF Ran
    <3>2. \A d \in Conns : loop'[d].pc = "reply" => loop'[d] = loop[d]
      BY <1>7
    <3> QED  BY <3>1, <3>2 DEF Ran
  <2>3. \A n : Done(n)' => Done(n)
    <3>1. ASSUME NEW n, NEW d \in Conns, NEW i \in DOMAIN wire'[d],
                 wire'[d][i].kind = "done", wire'[d][i].cmd = n
          PROVE  Done(n)
      <4>1. (i \in DOMAIN wire[d] /\ wire'[d][i] = wire[d][i]) \/ wire'[d][i] = f
        BY <1>8
      <4> QED  BY <1>1, <1>3, <1>6, <3>1, <4>1 DEF Done
    <3>2. \A d \in Conns : loop'[d].pc = "reply" => loop'[d] = loop[d]
      BY <1>7
    <3> QED  BY <3>1, <3>2 DEF Done
  <2> QED  BY <2>1, <2>2, <2>3
<1>11. IdsGiven'
  BY <1>3, <1>10, Facts, IdsNext
<1>12. RegistersFirst'
  <2>1. RegistersFirst /\ (c \notin used => live # c)
    BY Facts DEF IInv
  <2>2. \A i \in DOMAIN wire'[c] : wire'[c][i].kind = "register" => i = 1
    BY <1>6, <1>8, <2>1 DEF RegistersFirst
  <2> QED  BY <1>3, <1>8, <2>1, <2>2 DEF RegistersFirst
<1>13. ASSUME ~overlap PROVE InTurn'
  <2>1. /\ OneLoop /\ InOrder /\ ConfigIsRead /\ Kept /\ Shown
        /\ live \in {c, None} /\ \A d \in Conns : d # c => loop[d].pc = "idle"
    BY <1>3, <1>13 DEF IInv, InTurn, OneLoop, Busy
  <2>2. OneLoop' /\ ConfigIsRead'
    BY <1>3, <1>7, <2>1 DEF OneLoop, Busy, ConfigIsRead
  <2>3. InOrder'
    BY <1>3, <1>7, <1>10, <2>1 DEF InOrder
  <2>4. Kept'
    BY <1>3, <1>10, <2>1 DEF Kept, Present
  <2>5. Shown'
    <3> SUFFICES ASSUME live = c, Heard(c)', Quiet(c)', ~unlisted PROVE WillShow(c)'
      BY <1>3, <2>1 DEF Shown
    <3>1. /\ ~loop[c].ok \/ Configures(m)
          /\ Silent(f)
      BY <1>6, <1>7 DEF Quiet, Silent
    <3>2. Heard(c)
      <4>1. CASE wire[c] = <<>>
        <5>1. DOMAIN wire[c] = {} /\ \A i \in DOMAIN wire'[c] : wire'[c][i] = f
          BY <1>8, <4>1
        <5>2. wire'[c] # <<>> => 1 \in DOMAIN wire'[c]
          BY <1>8
        <5> QED  BY <1>3, <1>6, <5>1, <5>2 DEF Heard
      <4>2. CASE wire[c] # <<>>
        <5>1. 1 \in DOMAIN wire[c]
          BY <4>2, Facts
        <5> QED  BY <1>3, <1>8, <4>2, <5>1 DEF Heard
      <4> QED  BY <4>1, <4>2
    <3>3. WillShow(c)
      BY <1>1, <1>3, <2>1, <3>1, <3>2, Facts DEF Shown, Quiet
    <3>4. \A j \in DOMAIN wire'[c] :
              (j \in DOMAIN wire[c] /\ wire'[c][j] = wire[c][j]) \/ Silent(wire'[c][j])
      BY <1>8, <3>1
    <3>5. Listing' = Listing
      BY <1>3 DEF Listing, Row
    <3>6. CASE owner = c /\ rows = Listing /\ \A j \in DOMAIN wire[c] : Silent(wire[c][j])
      BY <1>3, <3>4, <3>5, <3>6 DEF WillShow
    <3>7. ASSUME NEW i \in DOMAIN wire[c], wire[c][i].kind = "snapshot", wire[c][i].rows = Listing,
                 \A j \in DOMAIN wire[c] : j > i => Silent(wire[c][j])
          PROVE  WillShow(c)'
      <4>1. i \in DOMAIN wire'[c] /\ wire'[c][i] = wire[c][i]
        BY <1>8
      <4> QED  BY <3>4, <3>5, <3>7, <4>1 DEF WillShow
    <3> QED  BY <3>3, <3>6, <3>7 DEF WillShow
  <2> QED  BY <2>2, <2>3, <2>4, <2>5 DEF InTurn
<1> QED  BY <1>3, <1>9, <1>11, <1>12, <1>13 DEF IInv

LEMMA RefreshStep ==
    ASSUME IInv, NEW c \in Conns, Refresh(c)
    PROVE  IInv'
<1>1. /\ loop[c].pc = "refresh" /\ loop' = [loop EXCEPT ![c] = Idle]
      /\ wire' = IF live = c THEN [wire EXCEPT ![c] = Append(@, Snapshot)] ELSE wire
      /\ unlisted' = IF live = c THEN FALSE ELSE unlisted
      /\ UNCHANGED <<has, restart, running, home, late, live, used, overlap, commands, owner, rows,
                     req, requests, upserts, promised>>
  BY DEF Refresh, runtimeVars, hubVars, apiVars
<1>2. Snapshot \in Frames /\ Snapshot.kind = "snapshot" /\ Snapshot.rows = Listing
  BY Facts, ListingIsTable DEF Frames, Snapshot
<1>3. /\ loop' \in [Conns -> Loops] /\ loop'[c].pc = "idle"
      /\ \A d \in Conns \ {c} : loop'[d] = loop[d]
  BY <1>1, Facts, IdleFields
<1>4. /\ wire' \in [Conns -> Seq(Frames)]
      /\ \A d \in Conns \ {c} : wire'[d] = wire[d]
      /\ live # c => wire'[c] = wire[c]
      /\ live = c => \E n \in Nat :
            /\ DOMAIN wire[c] = 1..n /\ DOMAIN wire'[c] = 1..(n + 1) /\ wire'[c][n + 1] = Snapshot
            /\ \A i \in DOMAIN wire'[c] :
                  \/ i \in DOMAIN wire[c] /\ wire'[c][i] = wire[c][i]
                  \/ i = n + 1 /\ wire'[c][i] = Snapshot
  <2>1. CASE live # c
    BY <1>1, <2>1, Facts
  <2>2. CASE live = c
    <3>1. /\ wire[c] \in Seq(Frames) /\ wire'[c] = Append(wire[c], Snapshot)
          /\ wire' = [wire EXCEPT ![c] = Append(wire[c], Snapshot)]
          /\ \A d \in Conns \ {c} : wire'[d] = wire[d]
      BY <1>1, <2>2, Facts
    <3>2. PICK n \in Nat :
             /\ wire'[c] \in Seq(Frames)
             /\ DOMAIN wire[c] = 1..n /\ DOMAIN wire'[c] = 1..(n + 1) /\ wire'[c][n + 1] = Snapshot
             /\ \A i \in 1..n : i \in 1..(n + 1) /\ wire'[c][i] = wire[c][i]
             /\ \A i \in 1..(n + 1) : i \in 1..n \/ i = n + 1
      BY <1>2, <3>1, Appended
    <3>3. wire' \in [Conns -> Seq(Frames)]
      BY <3>1, <3>2, Facts
    <3> QED  BY <2>2, <3>1, <3>2, <3>3
  <2> QED  BY <2>1, <2>2
<1>5. Shapes'
  BY <1>1, <1>3, <1>4, Facts, ShapesNext
<1>6. /\ \A n : Pending(n)' => Pending(n)
      /\ \A n : Ran(n)' => Ran(n)
      /\ \A n : Done(n)' => Done(n)
  BY <1>1, <1>2, <1>3, <1>4 DEF Pending, Ran, Done
<1>7. IdsGiven'
  BY <1>1, <1>6, Facts, IdsNext
<1>8. RegistersFirst'
  BY <1>1, <1>2, <1>4, Facts DEF IInv, RegistersFirst
<1>9. ASSUME ~overlap PROVE InTurn'
  <2>1. /\ OneLoop /\ InOrder /\ ConfigIsRead /\ Kept /\ Shown
        /\ live \in {c, None} /\ \A d \in Conns : d # c => loop[d].pc = "idle"
    BY <1>1, <1>9 DEF IInv, InTurn, OneLoop, Busy
  <2>2. OneLoop' /\ ConfigIsRead'
    BY <1>3, <2>1 DEF OneLoop, Busy, ConfigIsRead
  <2>3. InOrder'
    BY <1>1, <1>3, <1>6, <2>1 DEF InOrder
  <2>4. Kept'
    BY <1>1, <1>6, <2>1 DEF Kept, Present
  <2>5. Shown'
    <3> SUFFICES ASSUME live = c PROVE WillShow(c)'
      BY <1>1, <2>1 DEF Shown
    <3>1. PICK n \in Nat : DOMAIN wire'[c] = 1..(n + 1) /\ wire'[c][n + 1] = Snapshot
      BY <1>4
    <3>2. n + 1 \in DOMAIN wire'[c] /\ \A j \in DOMAIN wire'[c] : ~(j > n + 1)
      BY <3>1
    <3>3. Listing' = Listing
      BY <1>1 DEF Listing, Row
    <3> QED  BY <1>2, <3>1, <3>2, <3>3 DEF WillShow
  <2> QED  BY <2>2, <2>3, <2>4, <2>5 DEF InTurn
<1> QED  BY <1>1, <1>5, <1>7, <1>8, <1>9 DEF IInv

-----------------------------------------------------------------------------
(* The hub.                                                                *)

\* One frame less.
LEMMA Beheaded ==
    \A s \in Seq(Frames) : s # <<>> =>
       /\ Head(s) = s[1] /\ s[1] \in Frames /\ Tail(s) \in Seq(Frames)
       /\ \E n \in Nat :
             /\ DOMAIN s = 1..(n + 1) /\ DOMAIN Tail(s) = 1..n
             /\ \A i \in 1..n : i + 1 \in 1..(n + 1) /\ Tail(s)[i] = s[i + 1]
<1> SUFFICES ASSUME NEW s \in Seq(Frames), s # <<>>
             PROVE  /\ Head(s) = s[1] /\ s[1] \in Frames /\ Tail(s) \in Seq(Frames)
                    /\ \E n \in Nat :
                          /\ DOMAIN s = 1..(n + 1) /\ DOMAIN Tail(s) = 1..n
                          /\ \A i \in 1..n : i + 1 \in 1..(n + 1) /\ Tail(s)[i] = s[i + 1]
  OBVIOUS
<1>1. /\ Head(s) = s[1] /\ Tail(s) \in Seq(Frames) /\ Len(s) \in Nat /\ Len(s) # 0
      /\ Len(Tail(s)) = Len(s) - 1 /\ \A i \in 1..Len(Tail(s)) : Tail(s)[i] = s[i + 1]
  BY HeadTailProperties
<1>2. PICK n \in Nat : n + 1 = Len(s)
  <2>1. Len(s) - 1 \in Nat /\ (Len(s) - 1) + 1 = Len(s)
    BY <1>1
  <2> QED  BY <2>1
<1>3. Len(Tail(s)) = n /\ Len(s) = n + 1
  <2>1. (n + 1) - 1 = n
    OBVIOUS
  <2> QED  BY <1>1, <1>2, <2>1, Zenon
<1>6. DOMAIN s = 1..(n + 1) /\ DOMAIN Tail(s) = 1..n
  BY <1>1, <1>3
<1>4. \A i \in 1..n : i + 1 \in 1..(n + 1)
  OBVIOUS
<1>5. s[1] \in Frames
  <2>1. 1 \in 1..(n + 1)
    OBVIOUS
  <2> QED  BY <2>1, <1>6
<1> QED  BY <1>1, <1>3, <1>4, <1>5, <1>6

LEMMA ReadFrameStep ==
    ASSUME IInv, NEW c \in Conns, ReadFrame(c)
    PROVE  IInv'
<1>1. /\ wire[c] # <<>> /\ wire[c] \in Seq(Frames) /\ wire' = [wire EXCEPT ![c] = Tail(wire[c])]
      /\ UNCHANGED <<has, restart, running, home, late, unlisted, live, used, loop, overlap, commands,
                     requests, upserts>>
  BY Facts DEF ReadFrame, machineVars, runtimeVars, clientVars
<1>2. PICK f \in Frames : f = Head(wire[c]) /\ f = wire[c][1]
  BY <1>1, Beheaded
<1>3. /\ f.kind = "register" => owner' = c /\ UNCHANGED <<rows, req, promised>>
      /\ f.kind # "register" /\ owner = c =>
            /\ rows' = RowsAfter(f) /\ owner' = owner
            /\ req' = [k \in Consoles |-> IF Answers(f, k) THEN 0 ELSE req[k]]
            /\ promised' = promised
               \/ (/\ f.kind = "done" /\ f.cmd \in upserts
                   /\ promised' = promised \cup {<<f.cmd.agent, f.cmd.res>>})
      /\ f.kind # "register" /\ owner # c => UNCHANGED <<owner, rows, req, promised>>
  BY <1>2 DEF ReadFrame
<1>4. PICK n \in Nat :
         /\ wire'[c] \in Seq(Frames)
         /\ DOMAIN wire[c] = 1..(n + 1) /\ DOMAIN wire'[c] = 1..n
         /\ \A i \in 1..n : i + 1 \in 1..(n + 1) /\ wire'[c][i] = wire[c][i + 1]
  <2>1. wire'[c] = Tail(wire[c])
    BY <1>1, Facts
  <2> QED  BY <1>1, <2>1, Beheaded
<1>5. wire' \in [Conns -> Seq(Frames)] /\ \A d \in Conns \ {c} : wire'[d] = wire[d]
  BY <1>1, <1>4, Facts
<1>6. 1 \in DOMAIN wire[c] /\ \A i \in 1..n : i + 1 # 1
  BY <1>4
<1>7. ASSUME f.kind = "done", f.cmd \in upserts
      PROVE  f.cmd.agent \in Agents /\ f.cmd.res \in Servers
  BY <1>7, OnItsWay, CommandFields
<1>8. Shapes'
  <2>1. rows' \in Tables
    BY <1>3, Facts, RowsAfterIsTable
  <2>2. req' \in [Consoles -> 0..MaxRequests]
    <3>1. 0 \in 0..MaxRequests
      BY EnvironmentAssumption
    <3> QED  BY <1>3, <3>1, Facts
  <2>3. promised' \subseteq Agents \X Servers
    BY <1>3, <1>7, Facts
  <2>4. owner' \in used' \cup {None}
    BY <1>1, <1>3, Facts DEF IInv, RegistersFirst
  <2> QED  BY <1>1, <1>5, <2>1, <2>2, <2>3, <2>4, Facts, ShapesNext
<1>9. /\ \A m : Pending(m)' => Pending(m)
      /\ \A m : Ran(m)' => Ran(m)
      /\ \A m : Done(m)' => Done(m)
  <2>1. \A d \in Conns : \A i \in DOMAIN wire'[d] : \E j \in DOMAIN wire[d] : wire'[d][i] = wire[d][j]
    BY <1>4, <1>5
  <2> QED  BY <1>1, <2>1 DEF Pending, Ran, Done
<1>10. IdsGiven'
  BY <1>1, <1>9, Facts, IdsNext
<1>11. RegistersFirst' /\ \A i \in DOMAIN wire'[c] : wire'[c][i].kind # "register"
  BY <1>1, <1>4, <1>5, <1>6 DEF IInv, RegistersFirst
<1>12. ASSUME ~overlap PROVE InTurn'
  <2>1. OneLoop /\ InOrder /\ ConfigIsRead /\ Kept /\ Shown
    BY <1>12 DEF IInv, InTurn
  <2>6. OneLoop'
    BY <1>1, <2>1 DEF OneLoop, Busy
  <2>2. ConfigIsRead'
    <3>1. f.kind = "done" /\ f.cmd \in upserts => Claimed(f.cmd.agent, f.cmd.res)
      BY <1>2, <1>6 DEF Done, Claimed
    <3>2. \A p \in promised' : p \in promised
             \/ (f.kind = "done" /\ f.cmd \in upserts /\ p = <<f.cmd.agent, f.cmd.res>>)
      BY <1>3
    <3>3. ASSUME NEW a, NEW t, Claimed(a, t)' PROVE Claimed(a, t)
      <4>1. CASE <<a, t>> \in promised'
        BY <3>1, <3>2, <4>1 DEF Claimed
      <4>2. CASE \E u \in upserts : Done(u) /\ u.agent = a /\ u.res = t
        BY <4>2 DEF Claimed
      <4> QED  BY <1>1, <1>9, <3>3, <4>1, <4>2 DEF Claimed
    <3> QED  BY <1>1, <2>1, <3>3 DEF ConfigIsRead
  <2>3. InOrder'
    BY <1>1, <1>9, <2>1 DEF InOrder
  <2>4. Kept'
    <3>1. ASSUME f.kind = "done", f.cmd \in upserts
          PROVE  /\ f.cmd.res \in Present(f.cmd.agent)
                 /\ \A m \in Proper : Pending(m) /\ m.op = "mcp.remove" =>
                       ~(m.agent = f.cmd.agent /\ m.res = f.cmd.res)
      <4>1. Done(f.cmd) /\ Ran(f.cmd) /\ f.cmd \in Proper
        BY <1>2, <1>6, <3>1, OnItsWay DEF Done
      <4>2. ASSUME NEW m \in Proper, Pending(m), m.op = "mcp.remove",
                   m.agent = f.cmd.agent, m.res = f.cmd.res
            PROVE  FALSE
        <5>1. f.cmd.id < m.id
          BY <2>1, <4>1, <4>2 DEF InOrder
        <5>2. m.id < f.cmd.id
          BY <2>1, <3>1, <4>2 DEF Kept
        <5>3. m.id \in Nat /\ f.cmd.id \in Nat
          BY <4>1, CommandFields
        <5> QED  BY <5>1, <5>2, <5>3
      <4> QED  BY <2>1, <3>1, <4>1, <4>2 DEF Kept
    <3>2. \A p \in promised' : p \in promised
             \/ (f.kind = "done" /\ f.cmd \in upserts /\ p = <<f.cmd.agent, f.cmd.res>>)
      BY <1>3
    <3>3. \A p \in promised' : p[2] \in Present(p[1])'
      BY <1>1, <2>1, <3>1, <3>2 DEF Kept, Present
    <3>4. \A m \in Proper : Pending(m)' /\ m.op = "mcp.remove" => <<m.agent, m.res>> \notin promised'
      BY <1>9, <2>1, <3>1, <3>2 DEF Kept
    <3>5. \A u \in upserts' : Done(u)' => u.res \in Present(u.agent)'
      BY <1>1, <1>9, <2>1 DEF Kept, Present
    <3>6. \A m \in Proper : Pending(m)' /\ m.op = "mcp.remove" =>
             \A u \in upserts' : u.agent = m.agent /\ u.res = m.res => m.id < u.id
      BY <1>1, <1>9, <2>1 DEF Kept
    <3> QED  BY <3>3, <3>4, <3>5, <3>6 DEF Kept
  <2>5. Shown'
    <3> SUFFICES ASSUME live # None, Heard(live)', Quiet(live)', ~unlisted PROVE WillShow(live)'
      BY <1>1 DEF Shown
    <3>1. live \in Conns /\ Quiet(live)
      BY <1>1, Facts DEF Quiet
    <3>2. Listing' = Listing
      BY <1>1 DEF Listing, Row
    <3>3. CASE live = c
      <4>1. owner' = c
        <5>1. 1 \in DOMAIN wire'[c] \/ wire'[c] = <<>>
          BY <1>4
        <5> QED  BY <1>1, <1>11, <3>3, <5>1 DEF Heard
      <4>2. WillShow(c)
        BY <1>1, <1>2, <1>3, <2>1, <3>1, <3>3, <4>1 DEF Heard, Shown
      <4>3. CASE owner = c /\ rows = Listing /\ \A j \in DOMAIN wire[c] : Silent(wire[c][j])
        <5>1. Silent(f) /\ f.kind # "register"
          BY <1>2, <1>6, <4>3 DEF Silent
        <5>2. RowsAfter(f) = rows
          <6>1. f.kind = "done" => f.cmd.op # "skill.set" /\ f.cmd.op # "plugin.uninstall"
            BY <5>1 DEF Silent, Configures
          <6> QED  BY <5>1, <6>1, Zenon DEF RowsAfter, Silent
        <5>3. rows' = Listing'
          BY <1>3, <3>2, <4>3, <5>1, <5>2
        <5>4. \A j \in DOMAIN wire'[c] : Silent(wire'[c][j])
          BY <1>4, <4>3
        <5> QED  BY <1>1, <3>3, <4>1, <5>3, <5>4 DEF WillShow
      <4>4. ASSUME NEW i \in DOMAIN wire[c], wire[c][i].kind = "snapshot", wire[c][i].rows = Listing,
                   \A j \in DOMAIN wire[c] : j > i => Silent(wire[c][j])
            PROVE  WillShow(c)'
        <5>1. CASE i = 1
          <6>1. f.kind = "snapshot" /\ RowsAfter(f) = Listing
            BY <1>2, <4>4, <5>1, Zenon DEF RowsAfter
          <6>2. owner = c /\ rows' = Listing'
            BY <1>3, <3>2, <4>1, <6>1
          <6>3. \A j \in DOMAIN wire'[c] : Silent(wire'[c][j])
            <7>1. \A j \in 1..n : j + 1 > i
              BY <5>1
            <7> QED  BY <1>4, <4>4, <7>1
          <6> QED  BY <4>1, <6>2, <6>3 DEF WillShow
        <5>2. CASE i # 1
          <6>1. PICK k \in 1..n : i = k + 1
            <7>1. i - 1 \in 1..n /\ i = (i - 1) + 1
              BY <1>4, <5>2
            <7> QED  BY <7>1
          <6>2. wire'[c][k].kind = "snapshot" /\ wire'[c][k].rows = Listing'
            BY <1>4, <3>2, <4>4, <6>1
          <6>3. \A j \in 1..n : j > k => j + 1 > i
            BY <6>1
          <6>4. \A j \in DOMAIN wire'[c] : j > k => Silent(wire'[c][j])
            BY <1>4, <4>4, <6>3
          <6> QED  BY <1>4, <6>2, <6>4 DEF WillShow
        <5> QED  BY <5>1, <5>2
      <4> QED  BY <1>1, <3>3, <4>2, <4>3, <4>4 DEF WillShow
    <3>4. CASE live # c
      <4>1. wire'[live] = wire[live]
        BY <1>5, <3>1, <3>4
      <4>2. /\ Heard(live)
            /\ owner = live /\ (\A j \in DOMAIN wire[live] : Silent(wire[live][j]))
               => owner' = owner /\ rows' = rows
        <5>1. wire[live] # <<>> => 1 \in DOMAIN wire[live]
          BY <3>1, Facts
        <5>2. owner' = live \/ (wire[live] # <<>> /\ wire[live][1].kind = "register")
          BY <1>1, <4>1 DEF Heard
        <5>3. owner' = live => owner = live
          BY <1>3, <3>4
        <5>4. owner = live /\ (\A j \in DOMAIN wire[live] : Silent(wire[live][j]))
                 => owner' = owner /\ rows' = rows
          <6>1. wire[live] # <<>> /\ wire[live][1].kind = "register" => ~Silent(wire[live][1])
            BY DEF Silent
          <6> QED  BY <1>3, <3>4, <5>1, <5>2, <6>1
        <5> QED  BY <5>2, <5>3, <5>4 DEF Heard
      <4>3. WillShow(live)
        BY <2>1, <3>1, <4>2 DEF Shown
      <4> QED  BY <1>1, <3>2, <4>1, <4>2, <4>3 DEF WillShow
    <3> QED  BY <3>3, <3>4
  <2> QED  BY <2>2, <2>3, <2>4, <2>5, <2>6 DEF InTurn
<1> QED  BY <1>1, <1>8, <1>10, <1>11, <1>12 DEF IInv

LEMMA DisconnectStep ==
    ASSUME IInv, NEW c \in Conns, Disconnect(c)
    PROVE  IInv'
<1>1. /\ owner = c /\ live # c /\ owner' = None /\ wire' = [wire EXCEPT ![c] = <<>>]
      /\ req' = [k \in Consoles |-> 0]
      /\ UNCHANGED <<has, restart, running, home, late, unlisted, live, used, loop, overlap, commands,
                     rows, requests, upserts, promised>>
  BY DEF Disconnect, machineVars, runtimeVars, clientVars
<1>2. /\ wire' \in [Conns -> Seq(Frames)] /\ DOMAIN wire'[c] = {}
      /\ \A d \in Conns \ {c} : wire'[d] = wire[d]
  BY <1>1, Facts
<1>3. Shapes'
  <2>1. req' \in [Consoles -> 0..MaxRequests]
    BY <1>1, EnvironmentAssumption
  <2> QED  BY <1>1, <1>2, <2>1, Facts, ShapesNext
<1>4. /\ \A m : Pending(m)' => Pending(m)
      /\ \A m : Ran(m)' => Ran(m)
      /\ \A m : Done(m)' => Done(m)
  BY <1>1, <1>2 DEF Pending, Ran, Done
<1>5. IdsGiven'
  BY <1>1, <1>4, Facts, IdsNext
<1>6. RegistersFirst'
  BY <1>1, <1>2, Facts DEF IInv, RegistersFirst
<1>7. ASSUME ~overlap PROVE InTurn'
  <2>1. OneLoop /\ InOrder /\ ConfigIsRead /\ Kept /\ Shown
    BY <1>7 DEF IInv, InTurn
  <2>2. OneLoop' /\ ConfigIsRead'
    BY <1>1, <1>4, <2>1, ClaimedNext DEF OneLoop, Busy, ConfigIsRead
  <2>3. InOrder'
    BY <1>1, <1>4, <2>1 DEF InOrder
  <2>4. Kept'
    BY <1>1, <1>4, <2>1 DEF Kept, Present
  <2>5. Shown'
    <3> SUFFICES ASSUME live # None, Heard(live)', Quiet(live)', ~unlisted PROVE WillShow(live)'
      BY <1>1 DEF Shown
    <3>1. live \in Conns /\ wire'[live] = wire[live] /\ Quiet(live) /\ Listing' = Listing
      BY <1>1, <1>2, Facts DEF Quiet, Listing, Row
    <3>2. wire[live] # <<>> /\ wire[live][1].kind = "register" /\ 1 \in DOMAIN wire[live]
      BY <1>1, <3>1, Facts DEF Heard
    <3>3. WillShow(live)
      BY <2>1, <3>1, <3>2 DEF Heard, Shown
    <3> QED  BY <1>1, <3>1, <3>2, <3>3 DEF WillShow
  <2> QED  BY <2>2, <2>3, <2>4, <2>5 DEF InTurn
<1> QED  BY <1>1, <1>3, <1>5, <1>6, <1>7 DEF IInv

-----------------------------------------------------------------------------
(* The HTTP handlers.                                                      *)

LEMMA SendStep ==
    ASSUME IInv, NEW k \in Consoles, NEW op \in Ops, NEW a \in Agents,
           NEW r \in Resources \cup Documents \cup {None}, NEW on \in BOOLEAN, Send(k, op, a, r, on),
           op \in {"skill.create", "skill.set", "skill.delete"} => r \in Skills,
           op \in {"mcp.upsert", "mcp.set", "mcp.remove"} => r \in Servers,
           op \in {"plugin.install", "plugin.set", "plugin.uninstall"} => r \in Plugins,
           op \in {"config.write", "config.apply"} => r \in Documents
    PROVE  IInv'
<1>1. PICK m : m = [op |-> op, agent |-> a, res |-> r, enabled |-> on, id |-> requests + 1]
  OBVIOUS
<1>2. m.op = op /\ m.agent = a /\ m.res = r /\ m.id = requests + 1
  BY <1>1
<1>3. /\ requests < MaxRequests /\ requests' = requests + 1
      /\ req' = [req EXCEPT ![k] = m.id]
      /\ commands' = Append(commands, m) \/ commands' = commands
      /\ op = "mcp.upsert" => upserts' = upserts \cup {m}
      /\ op = "mcp.remove" =>
            /\ upserts' = upserts \ {u \in upserts : u.agent = a /\ u.res = r}
            /\ promised' = promised \ {<<a, r>>}
      /\ op # "mcp.upsert" /\ op # "mcp.remove" => upserts' = upserts
      /\ op # "mcp.remove" => promised' = promised
      /\ UNCHANGED <<has, restart, running, home, late, unlisted, live, used, loop, overlap, wire,
                     owner, rows>>
  BY <1>1 DEF Send, machineVars, runtimeVars, clientVars, hubVars
<1>4. requests \in Nat /\ requests + 1 \in 1..MaxRequests /\ MaxRequests \in Nat
  BY <1>3, Facts, EnvironmentAssumption
<1>5. m \in Proper
  <2>1. m \in Commands
    BY <1>1, <1>4 DEF Commands
  <2> QED  BY <1>2, <2>1 DEF Proper, Configures
<1>6. /\ commands' \in Seq(Proper)
      /\ \A i \in DOMAIN commands' :
            (i \in DOMAIN commands /\ commands'[i] = commands[i]) \/ commands'[i] = m
      /\ \A i, j \in DOMAIN commands' : i < j => i \in DOMAIN commands /\ commands'[i] = commands[i]
  <2>1. CASE commands' = commands
    BY <2>1, Facts
  <2>2. CASE commands' = Append(commands, m)
    <3>1. PICK n \in Nat : n = Len(commands)
      BY Facts
    <3>2. commands' \in Seq(Proper) /\ DOMAIN commands = 1..n /\ DOMAIN commands' = 1..(n + 1)
      BY <1>5, <2>2, <3>1, Facts
    <3>3. commands'[n + 1] = m /\ \A i \in 1..n : commands'[i] = commands[i]
      BY <1>5, <2>2, <3>1, Facts
    <3>4. \A i \in 1..(n + 1) : i \in 1..n \/ i = n + 1
      OBVIOUS
    <3>5. \A i, j \in 1..(n + 1) : i < j => i \in 1..n
      OBVIOUS
    <3> QED  BY <3>2, <3>3, <3>4, <3>5
  <2> QED  BY <1>3, <2>1, <2>2
<1>7. /\ \A n : Pending(n)' => Pending(n) \/ n = m
      /\ \A n : Ran(n)' => Ran(n)
      /\ \A n : Done(n)' => Done(n)
  BY <1>3, <1>6 DEF Pending, Ran, Done
<1>8. \A u \in upserts' : u \in upserts \/ (u = m /\ op = "mcp.upsert")
  BY <1>3
<1>9. Shapes'
  <2>1. req' \in [Consoles -> 0..MaxRequests] /\ requests' \in 0..MaxRequests
    <3>1. requests + 1 \in 0..MaxRequests
      BY <1>4
    <3> QED  BY <1>2, <1>3, <3>1, Facts
  <2>2. upserts' \subseteq {n \in Proper : n.op = "mcp.upsert"}
    BY <1>2, <1>5, <1>8, Facts
  <2>3. promised' \subseteq Agents \X Servers
    BY <1>3, Facts
  <2> QED  BY <1>3, <1>6, <2>1, <2>2, <2>3, Facts, ShapesNext
<1>10. IdsGiven' /\ RegistersFirst'
  <2>1. requests' \in Nat /\ requests' >= requests /\ m.id <= requests'
    BY <1>2, <1>3, <1>4
  <2>2. IdsGiven'
    BY <1>5, <1>7, <1>8, <2>1, IdsNext
  <2> QED  BY <1>3, <2>2 DEF IInv, RegistersFirst
<1>11. /\ \A n \in Proper : Pending(n) \/ Ran(n) => n.id < m.id
       /\ \A u \in upserts : u.id < m.id
  <2>1. \A n \in Proper : n.id \in Nat
    BY CommandFields
  <2> QED  BY <1>2, <1>4, <2>1, OnItsWay
<1>12. ASSUME ~overlap PROVE InTurn'
  <2>1. OneLoop /\ InOrder /\ ConfigIsRead /\ Kept /\ Shown
    BY <1>12 DEF IInv, InTurn
  <2>2. OneLoop' /\ Shown'
    BY <1>3, <2>1 DEF OneLoop, Busy, Shown, WillShow, Heard, Quiet, Silent, Configures, Listing, Row
  <2>5. ConfigIsRead'
    <3>1. ~Done(m)'
      <4>1. Done(m) => m.id < m.id
        BY <1>5, <1>11, OnItsWay
      <4>2. m.id \in Nat
        BY <1>5, CommandFields
      <4> QED  BY <1>7, <4>1, <4>2
    <3>2. promised' \subseteq promised
      BY <1>3
    <3>3. \A b, t : Claimed(b, t)' => Claimed(b, t)
      BY <1>7, <1>8, <3>1, <3>2 DEF Claimed
    <3> QED  BY <1>3, <2>1, <3>3 DEF ConfigIsRead
  <2>3. InOrder'
    <3>1. \A i \in DOMAIN commands : Pending(commands[i]) /\ commands[i] \in Proper
      BY Facts DEF Pending
    <3>2. \A c \in Conns : loop[c].pc = "run" => Pending(loop[c].cmd) /\ loop[c].cmd \in Proper
      BY Facts, LoopFields DEF Pending
    <3>3. \A i, j \in DOMAIN commands' : i < j => commands'[i].id < commands'[j].id
      BY <1>6, <1>11, <2>1, <3>1 DEF InOrder
    <3>4. \A c \in Conns : loop'[c].pc = "run" =>
             \A i \in DOMAIN commands' : loop'[c].cmd.id < commands'[i].id
      BY <1>3, <1>6, <1>11, <2>1, <3>2 DEF InOrder
    <3>5. \A n, q \in Proper : Ran(n)' /\ Pending(q)' => n.id < q.id
      BY <1>7, <1>11, <2>1 DEF InOrder
    <3> QED  BY <3>3, <3>4, <3>5 DEF InOrder
  <2>4. Kept'
    <3>1. ASSUME NEW u \in upserts', Done(u)' PROVE u.res \in Present(u.agent)'
      <4>1. ~(u = m)
        <5>1. Done(u) => (u \in Proper => u.id < m.id)
          BY <1>11, OnItsWay
        <5>2. m.id \in Nat
          BY <1>5, CommandFields
        <5> QED  BY <1>5, <1>7, <3>1, <5>1, <5>2
      <4> QED  BY <1>3, <1>7, <1>8, <2>1, <3>1, <4>1 DEF Kept, Present
    <3>2. promised' \subseteq promised /\ \A p \in promised' : p[2] \in Present(p[1])'
      BY <1>3, <2>1 DEF Kept, Present
    <3>3. ASSUME NEW n \in Proper, Pending(n)', n.op = "mcp.remove"
          PROVE  /\ <<n.agent, n.res>> \notin promised'
                 /\ \A u \in upserts' : u.agent = n.agent /\ u.res = n.res => n.id < u.id
      <4>1. CASE Pending(n)
        BY <1>8, <1>11, <2>1, <3>2, <3>3, <4>1 DEF Kept
      <4>2. CASE n = m
        BY <1>2, <1>3, <3>3, <4>2
      <4> QED  BY <1>7, <3>3, <4>1, <4>2
    <3> QED  BY <3>1, <3>2, <3>3 DEF Kept
  <2> QED  BY <2>2, <2>3, <2>4, <2>5 DEF InTurn
<1> QED  BY <1>3, <1>9, <1>10, <1>12 DEF IInv

LEMMA ExpireStep ==
    ASSUME IInv, NEW k \in Consoles, Expire(k)
    PROVE  IInv'
<1>1. /\ req' = [req EXCEPT ![k] = 0]
      /\ UNCHANGED <<has, restart, running, home, late, unlisted, live, used, loop, overlap, commands,
                     wire, owner, rows, requests, upserts, promised>>
  BY DEF Expire, machineVars, runtimeVars, clientVars, hubVars
<1>2. Shapes'
  <2>1. 0 \in 0..MaxRequests
    BY EnvironmentAssumption
  <2> QED  BY <1>1, <2>1, Facts, ShapesNext
<1>3. /\ \A m : Pending(m)' <=> Pending(m)
      /\ \A m : Ran(m)' <=> Ran(m)
      /\ \A m : Done(m)' <=> Done(m)
  BY <1>1 DEF Pending, Ran, Done
<1>4. IdsGiven' /\ RegistersFirst'
  BY <1>1, <1>3, Facts, IdsNext DEF IInv, RegistersFirst
<1>5. InTurn => InTurn'
  <2> SUFFICES ASSUME InTurn PROVE InTurn'
    OBVIOUS
  <2>1. OneLoop' /\ Shown'
    BY <1>1 DEF InTurn, OneLoop, Busy, Shown, WillShow, Heard, Quiet, Silent, Configures, Listing, Row
  <2>4. ConfigIsRead'
    BY <1>1, <1>3, ClaimedNext DEF InTurn, ConfigIsRead
  <2>2. InOrder'
    BY <1>1, <1>3 DEF InTurn, InOrder
  <2>3. Kept'
    BY <1>1, <1>3 DEF InTurn, Kept, Present
  <2> QED  BY <2>1, <2>2, <2>3, <2>4 DEF InTurn
<1> QED  BY <1>1, <1>2, <1>4, <1>5 DEF IInv

LEMMA StutterStep ==
    ASSUME IInv, UNCHANGED vars
    PROVE  IInv'
<1>1. UNCHANGED <<has, restart, running, home, late, unlisted, live, used, loop, overlap, commands,
                  wire, owner, rows, req, requests, upserts, promised>>
  BY DEF vars, machineVars, runtimeVars, clientVars, hubVars, apiVars
<1>2. Shapes' /\ IdsGiven' /\ RegistersFirst'
  <2>1. \A m : (Pending(m)' <=> Pending(m)) /\ (Ran(m)' <=> Ran(m))
    BY <1>1 DEF Pending, Ran
  <2>2. IdsGiven'
    BY <1>1, <2>1, Facts, IdsNext
  <2> QED  BY <1>1, <2>2, Facts, ShapesNext DEF IInv, RegistersFirst
<1>3. InTurn => InTurn'
  <2> SUFFICES ASSUME InTurn PROVE InTurn'
    OBVIOUS
  <2>1. \A m : /\ Pending(m)' <=> Pending(m)
               /\ Ran(m)' <=> Ran(m)
               /\ Done(m)' <=> Done(m)
    BY <1>1 DEF Pending, Ran, Done
  <2>2. OneLoop' /\ Shown'
    BY <1>1 DEF InTurn, OneLoop, Busy, Shown, WillShow, Heard, Quiet, Silent, Configures, Listing, Row
  <2>4. ConfigIsRead'
    BY <1>1, <2>1, ClaimedNext DEF InTurn, ConfigIsRead
  <2>3. InOrder' /\ Kept'
    BY <1>1, <2>1 DEF InTurn, InOrder, Kept, Present
  <2> QED  BY <2>2, <2>3, <2>4 DEF InTurn
<1> QED  BY <1>1, <1>2, <1>3 DEF IInv

\* Every handler sends a command of its kind.
LEMMA HandlersStep ==
    ASSUME IInv, NEW k \in Consoles, NEW a \in Agents,
           \/ PostSync(k) \/ PostRuntime(k) \/ PostApply(k) \/ PostRestart(k, a) \/ PutConfig(k, a)
           \/ PostSkill(k, a) \/ PostSkillEnabled(k, a) \/ DeleteSkillRow(k, a)
           \/ PostMCP(k, a) \/ PostMCPEnabled(k, a) \/ DeleteMCP(k, a)
           \/ PostPluginInstall(k, a) \/ PostPluginEnabled(k, a) \/ DeletePlugin(k, a)
    PROVE  IInv'
<1>1. Skills \subseteq Resources /\ Servers \subseteq Resources /\ Plugins \subseteq Resources
  BY DEF Resources
<1>2. CASE PostSync(k) \/ PostRuntime(k) \/ PostRestart(k, a)
  BY <1>2, AnyAgentIsOne, SendStep DEF PostSync, PostRuntime, PostRestart, Ops
<1>6. CASE PostApply(k) \/ PutConfig(k, a)
  BY <1>6, AnyAgentIsOne, SendStep DEF PostApply, PutConfig, Ops
<1>3. CASE PostSkill(k, a) \/ PostSkillEnabled(k, a) \/ DeleteSkillRow(k, a)
  BY <1>1, <1>3, SendStep DEF PostSkill, PostSkillEnabled, DeleteSkillRow, Ops
<1>4. CASE PostMCP(k, a) \/ PostMCPEnabled(k, a) \/ DeleteMCP(k, a)
  BY <1>1, <1>4, SendStep DEF PostMCP, PostMCPEnabled, DeleteMCP, Ops
<1>5. CASE PostPluginInstall(k, a) \/ PostPluginEnabled(k, a) \/ DeletePlugin(k, a)
  BY <1>1, <1>5, SendStep DEF PostPluginInstall, PostPluginEnabled, DeletePlugin, Ops
<1> QED  BY <1>2, <1>3, <1>4, <1>5, <1>6

-----------------------------------------------------------------------------
(* The theorems.                                                           *)

LEMMA Step ==
    ASSUME IInv, [Next]_vars
    PROVE  IInv'
<1>1. CASE Next
  <2>1. CASE \E c \in Conns : \/ Connect(c) \/ Take(c) \/ Run(c) \/ Reply(c) \/ Refresh(c)
                              \/ ReadFrame(c) \/ Disconnect(c)
    BY <2>1, ConnectStep, TakeStep, RunStep, ReplyStep, RefreshStep, ReadFrameStep,
       DisconnectStep
  <2>2. CASE \E k \in Consoles : PostSync(k) \/ PostRuntime(k) \/ PostApply(k) \/ Expire(k)
    BY <2>2, AnyAgentIsOne, HandlersStep, ExpireStep
  <2>3. CASE \E k \in Consoles, a \in Agents :
                \/ PostSkill(k, a) \/ PostSkillEnabled(k, a) \/ DeleteSkillRow(k, a)
                \/ PostMCP(k, a) \/ PostMCPEnabled(k, a) \/ DeleteMCP(k, a)
                \/ PostPluginInstall(k, a) \/ PostPluginEnabled(k, a) \/ DeletePlugin(k, a)
                \/ PostRestart(k, a) \/ PutConfig(k, a)
    BY <2>3, HandlersStep
  <2>4. CASE \E x \in late : CarryOut(x)
    BY <2>4, CarryOutStep
  <2> QED  BY <1>1, <2>1, <2>2, <2>3, <2>4, BreakStep, RebootStep DEF Next
<1>2. CASE UNCHANGED vars
  BY <1>2, StutterStep
<1> QED  BY <1>1, <1>2

\* The inductive invariant: what is written and not yet handled keeps to the ids
\* the handlers gave, a connection begins with its registration, and, while no
\* two command loops work at once, commands are carried out in order, the map a
\* removal writes back has every server that is promised, and a snapshot is due
\* when the rows are not what the agents have, unless one was changed behind the
\* client's back (ReadFrame, RemoveMCPServer, AfterReply, CarryOut).
THEOREM Invariance == Spec => []IInv
<1>1. IInv /\ [Next]_vars => IInv'
  BY Step
<1> QED  BY <1>1, InitInv, PTL DEF Spec

\* Every variable keeps its type; an agent has one row per resource, although a
\* skill's answer writes a row of its own choice (upsertEnvironmentResource).
THEOREM TypeCorrect == Spec => []TypeOK
<1>1. IInv => TypeOK
  BY DEF IInv, Shapes
<1> QED  BY <1>1, Invariance, PTL

\* Once things settle the API shows exactly what the running agents have, for any
\* number of agents, connections and callers, through stops, starts and restarts,
\* unless a rejected command or a document changed an agent since the last snapshot
\* (handleSnapshotEnvelope, applyCompletedCommand, refreshEnvironmentSnapshot).
THEOREM Settles == Spec => []SettledEnvironment
<1>1. IInv => SettledEnvironment
  <2> SUFFICES ASSUME IInv, Settled, ~overlap, ~unlisted PROVE rows = Listing
    BY DEF SettledEnvironment
  <2>1. live \in Conns /\ owner = live /\ wire[live] = <<>> /\ loop[live].pc = "idle"
    BY Facts DEF Settled
  <2>2. WillShow(live)
    BY <2>1, Facts DEF IInv, InTurn, Shown, Heard, Quiet
  <2>3. DOMAIN wire[live] = {}
    BY <2>1
  <2> QED  BY <2>2, <2>3 DEF WillShow
<1> QED  BY <1>1, Invariance, PTL

\* An MCP server whose upsert was answered stays until its removal is asked for,
\* its agent is started again or its whole map replaced, although every removal
\* writes the whole map back and rejected commands are carried out late
\* (RemoveMCPServer, seedSharedCodexFiles, Call).
THEOREM ServersStay == Spec => []ServersKept
<1>1. IInv => ServersKept
  BY Facts DEF IInv, InTurn, Kept, Present, ServersKept
<1> QED  BY <1>1, Invariance, PTL
=============================================================================
