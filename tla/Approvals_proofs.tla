--------------------------- MODULE Approvals_proofs ---------------------------
(***************************************************************************)
(* TLAPS proofs about Approvals, for any agents, connections and consoles, *)
(* and any bounds.  The inductive invariant is IInv: one lemma per action  *)
(* shows that it preserves each of its conjuncts.  What the cards need     *)
(* beyond it is CardInv, which the last part shows to be inductive too.    *)
(***************************************************************************)
EXTENDS Approvals, TLAPS

USE DEF Work, Asked, Raising

\* What a queue holds after an append.
LEMMA AppendElements ==
  ASSUME NEW S, NEW q \in Seq(S), NEW e \in S
  PROVE  Elements(Append(q, e)) = Elements(q) \cup {e}
<1>1. /\ DOMAIN Append(q, e) = 1..Len(q) + 1 /\ DOMAIN q = 1..Len(q) /\ Len(q) \in Nat
  OBVIOUS
<1>2. \A i \in 1..Len(q) : Append(q, e)[i] = q[i]
  OBVIOUS
<1>3. Append(q, e)[Len(q) + 1] = e
  OBVIOUS
<1>4. 1..Len(q) + 1 = 1..Len(q) \cup {Len(q) + 1}
  BY <1>1
<1> QED
  BY <1>1, <1>2, <1>3, <1>4, Zenon DEF Elements

\* The frames the machine writes are of the set.
LEMMA FrameKinds ==
  ASSUME NEW a \in Agents, NEW r \in Raws, NEW m \in Command
  PROVE  /\ [kind |-> "register"] \in FrameSet
         /\ Frame("required", a, r) \in FrameSet /\ Frame("resolved", a, r) \in FrameSet
         /\ [kind |-> "done", cmd |-> m] \in FrameSet
         /\ [kind |-> "rejected", cmd |-> m] \in FrameSet
  BY DEF FrameSet, Frame

\* What the kind of a frame says of its fields.
LEMMA FrameShape ==
  ASSUME NEW f \in FrameSet
  PROVE  /\ f.kind \in {"register", "required", "resolved", "done", "rejected"}
         /\ f.kind \in {"required", "resolved"} => f.agent \in Agents /\ f.raw \in Raws
         /\ f.kind \in {"done", "rejected"} => f.cmd \in Command
<1>1. CASE f \in [kind : {"required", "resolved"}, agent : Agents, raw : Raws]
  BY <1>1
<1>2. CASE f \in [kind : {"done", "rejected"}, cmd : Command]
  BY <1>2
<1>3. CASE f = [kind |-> "register"]
  BY <1>3
<1> QED
  BY <1>1, <1>2, <1>3 DEF FrameSet

\* A command loop that is not idle has a command and an agent.
LEMMA LoopShape ==
  ASSUME Shapes, NEW c \in Conns
  PROVE  /\ loop[c].pc \in {"idle", "found", "answered"}
         /\ loop[c].pc # "idle" => /\ loop[c] \in Work
             /\ loop[c].cmd \in Command /\ loop[c].agent \in Agents
<1>1. loop[c] \in {Idle} \cup Work
  BY DEF Shapes
<1>2. CASE loop[c] = Idle
  BY <1>2 DEF Idle
<1>3. CASE loop[c] \in Work
  BY <1>3
<1> QED
  BY <1>1, <1>2, <1>3

\* A request that is not idle has an approval and an id.
LEMMA ReqShape ==
  ASSUME Shapes, NEW k \in Consoles
  PROVE  /\ req[k].pc \in {"idle", "waiting", "clean"}
         /\ req[k].pc # "idle" =>
             /\ req[k] \in Asked
             /\ req[k].raw \in Raws /\ req[k].id \in 1..MaxRequests
<1>1. req[k] \in {Idle} \cup Asked
  BY DEF Shapes
<1>2. CASE req[k] = Idle
  BY <1>2 DEF Idle
<1>3. CASE req[k] \in Asked
  BY <1>3
<1> QED
  BY <1>1, <1>2, <1>3

\* An agent whose frames are being sent has an approval.
LEMMA AskingShape ==
  ASSUME Shapes, NEW a \in Agents
  PROVE  /\ asking[a].pc \in {"idle", "raised", "announced"}
         /\ asking[a].pc # "idle" =>
             /\ asking[a] \in Raising
             /\ asking[a].raw \in Raws /\ asking[a].conn \in Conns \cup {None}
<1>1. asking[a] \in {Idle} \cup Raising
  BY DEF Shapes
<1>2. CASE asking[a] = Idle
  BY <1>2 DEF Idle
<1>3. CASE asking[a] \in Raising
  BY <1>3
<1> QED
  BY <1>1, <1>2, <1>3

\* Handing a decision over keeps the loop's command and agent.
LEMMA LoopUpdates ==
  ASSUME Shapes, NEW c \in Conns, loop[c].pc # "idle"
  PROVE  /\ [loop EXCEPT ![c].pc = "answered"] \in [Conns -> {Idle} \cup Work]
         /\ [loop EXCEPT ![c].pc = "answered"][c].pc = "answered"
         /\ [loop EXCEPT ![c].pc = "answered"][c].cmd = loop[c].cmd
         /\ [loop EXCEPT ![c].pc = "answered"][c].agent = loop[c].agent
<1>1. loop[c] \in Work
  BY LoopShape
<1>2. [loop[c] EXCEPT !.pc = "answered"] \in Work
  BY <1>1
<1> QED
  BY <1>1, <1>2 DEF Shapes

\* What a queue holds after its head has been taken.
LEMMA TailElements ==
  ASSUME NEW S, NEW q \in Seq(S), q # <<>>
  PROVE  /\ Head(q) \in Elements(q) /\ Elements(Tail(q)) \subseteq Elements(q)
         /\ Head(q) \in S /\ Tail(q) \in Seq(S)
  BY DEF Elements

\* A queue of S holds members of S.
LEMMA ElementsType ==
  ASSUME NEW S, NEW q \in Seq(S)
  PROVE  Elements(q) \subseteq S
  BY DEF Elements

\* The agent an answer goes to is an agent.
LEMMA AgentForType ==
  ASSUME TypeOK, Shapes, NEW c \in Conns, NEW r \in Raws
  PROVE  AgentFor(c, r) \in Agents \cup {None}
<1>1. (CHOOSE a \in installed : TRUE) \in installed
  BY DEF Shapes
<1> QED
  BY <1>1 DEF TypeOK, AgentFor

\* A frame, or two in a row, are written to a connection.
Writes(c, f) == wire' = [wire EXCEPT ![c] = Append(@, f)]
WritesTwo(c, f, g) == wire' = [wire EXCEPT ![c] = Append(Append(@, f), g)]

\* Writing one frame to a connection adds nothing else to any.
LEMMA Written ==
  ASSUME Shapes, NEW c \in Conns, NEW f \in FrameSet,
         Writes(c, f)
  PROVE  /\ wire' \in [Conns -> Seq(FrameSet)]
         /\ \A d \in Conns : Elements(wire'[d]) \subseteq Elements(wire[d]) \cup {f}
<1>1. wire[c] \in Seq(FrameSet)
  BY DEF Shapes
<1>2. Append(wire[c], f) \in Seq(FrameSet)
  BY <1>1
<1>3. Elements(Append(wire[c], f)) = Elements(wire[c]) \cup {f}
  BY <1>1, AppendElements
<1>4. \A d \in Conns : wire'[d] = IF d = c THEN Append(wire[c], f) ELSE wire[d]
  BY DEF Shapes, Writes
<1> QED
  BY <1>2, <1>3, <1>4 DEF Shapes, Writes

\* Writing two frames in a row.
LEMMA WrittenTwice ==
  ASSUME Shapes, NEW c \in Conns, NEW f \in FrameSet, NEW g \in FrameSet,
         WritesTwo(c, f, g)
  PROVE  /\ wire' \in [Conns -> Seq(FrameSet)]
         /\ \A d \in Conns : Elements(wire'[d]) \subseteq Elements(wire[d]) \cup {f, g}
<1>1. wire[c] \in Seq(FrameSet)
  BY DEF Shapes
<1>2. /\ Append(wire[c], f) \in Seq(FrameSet)
      /\ Append(Append(wire[c], f), g) \in Seq(FrameSet)
  BY <1>1
<1>3. Elements(Append(Append(wire[c], f), g)) = Elements(wire[c]) \cup {f} \cup {g}
  <2>1. Elements(Append(wire[c], f)) = Elements(wire[c]) \cup {f}
    BY <1>1, AppendElements
  <2>2. \A w \in Seq(FrameSet) : Elements(Append(w, g)) = Elements(w) \cup {g}
    BY AppendElements
  <2>3. Elements(Append(Append(wire[c], f), g)) = Elements(Append(wire[c], f)) \cup {g}
    BY <1>2, <2>2
  <2> QED
    BY <2>1, <2>3
<1>4. \A d \in Conns : wire'[d] = IF d = c THEN Append(Append(wire[c], f), g) ELSE wire[d]
  BY DEF Shapes, WritesTwo
<1> QED
  BY <1>2, <1>3, <1>4 DEF Shapes, WritesTwo

\* What is unread is about approvals that were asked for.
LEMMA UnreadRaised ==
  ASSUME AboutRaised, NEW d \in Conns
  PROVE  Unread(d) \subseteq raised
<1> SUFFICES ASSUME NEW x \in Unread(d) PROVE x \in raised
  OBVIOUS
<1>1. PICK i \in DOMAIN wire[d] : /\ wire[d][i].kind \in {"required", "resolved"}
                                 /\ x = <<wire[d][i].agent, wire[d][i].raw>>
  BY DEF Unread, About
<1> QED
  BY <1>1 DEF AboutRaised, Elements

\* The ids still agree if nothing new is under way.
LEMMA NothingNew ==
  ASSUME TypeOK, IdsAgree, requests' = requests,
         \A m \in Command : Underway(m)' => Underway(m)
  PROVE  IdsAgree'
  BY DEF TypeOK, IdsAgree

\* The connection breaks.
LEMMA BreakStep ==
  ASSUME IInv, Break
  PROVE  IInv'
<1> USE ApprovalsAssumption DEF IInv
<1>1. commands' = <<>> /\ Elements(<<>>) = {} /\ <<>> \in Seq(Command)
  BY DEF Break, Elements
<1>2. Shapes'
  BY <1>1 DEF Shapes, Idle, Break, agentVars, clientVars, hubVars, apiVars
<1>3. TypeOK'
  BY DEF TypeOK, Idle, Break, agentVars, clientVars, hubVars, apiVars
<1>4. AboutRaised'
  BY DEF AboutRaised, Break, agentVars, clientVars, hubVars, apiVars
<1>5. OneAtATime'
  BY DEF OneAtATime, LoopFor, Break, agentVars, clientVars, hubVars, apiVars
<1>6. AnsweredOnce'
  BY DEF AnsweredOnce, Break, agentVars, clientVars, hubVars, apiVars
<1>7. IdsAgree'
  <2>1. \A m \in Command : Underway(m)' => Underway(m)
    BY <1>1 DEF Underway, Break, agentVars, clientVars, hubVars, apiVars
  <2> QED
    BY <2>1, NothingNew DEF Break, agentVars, clientVars, hubVars, apiVars
<1>8. DoneIsHanded'
  BY DEF DoneIsHanded, Handed, Break, agentVars, clientVars, hubVars, apiVars
<1>9. ToldIsTrue'
  BY DEF ToldIsTrue, Break, agentVars, clientVars, hubVars, apiVars
<1> QED
  BY <1>2, <1>3, <1>4, <1>5, <1>6, <1>7, <1>8, <1>9

\* The machine registers.
LEMMA RegisterStep ==
  ASSUME IInv, Register
  PROVE  IInv'
<1> USE ApprovalsAssumption DEF IInv
<1>1. live \in Conns
  BY DEF TypeOK, Register
<1>2. [kind |-> "register"] \in FrameSet
  BY DEF FrameSet
<1>3. /\ wire' \in [Conns -> Seq(FrameSet)]
      /\ \A d \in Conns :
           Elements(wire'[d]) \subseteq Elements(wire[d]) \cup {[kind |-> "register"]}
  BY <1>1, <1>2, Written DEF Register, Writes
<1>4. Shapes'
  BY <1>3 DEF Shapes, Idle, Register, agentVars, clientVars, hubVars, apiVars
<1>5. TypeOK'
  BY DEF TypeOK, Idle, Register, agentVars, clientVars, hubVars, apiVars
<1>6. AboutRaised'
  BY <1>3 DEF AboutRaised, Register, agentVars, clientVars, hubVars, apiVars
<1>7. OneAtATime'
  BY DEF OneAtATime, LoopFor, Register, agentVars, clientVars, hubVars, apiVars
<1>8. AnsweredOnce'
  BY DEF AnsweredOnce, Register, agentVars, clientVars, hubVars, apiVars
<1>9. IdsAgree'
  <2>1. \A m \in Command : Underway(m)' => Underway(m)
    BY <1>3 DEF Underway, Register, agentVars, clientVars, hubVars, apiVars
  <2> QED
    BY <2>1, NothingNew DEF Register, agentVars, clientVars, hubVars, apiVars
<1>10. DoneIsHanded'
  BY <1>3 DEF DoneIsHanded, Handed, Register, agentVars, clientVars, hubVars, apiVars
<1>11. ToldIsTrue'
  BY DEF ToldIsTrue, Register, agentVars, clientVars, hubVars, apiVars
<1> QED
  BY <1>4, <1>5, <1>6, <1>7, <1>8, <1>9, <1>10, <1>11

\* A connection is made.
LEMMA ConnectStep ==
  ASSUME IInv, NEW c \in Conns, Connect(c)
  PROVE  IInv'
<1> USE ApprovalsAssumption DEF IInv
<1>1. \A d \in Conns : Unread(d) \subseteq raised
  BY UnreadRaised
<1>2. Shapes'
  BY DEF Shapes, Idle, Connect, agentVars, clientVars, hubVars, apiVars
<1>3. TypeOK'
  BY <1>1 DEF TypeOK, Idle, Connect, agentVars, clientVars, hubVars, apiVars
<1>4. AboutRaised'
  BY DEF AboutRaised, Connect, agentVars, clientVars, hubVars, apiVars
<1>5. OneAtATime'
  BY DEF OneAtATime, LoopFor, Connect, agentVars, clientVars, hubVars, apiVars
<1>6. AnsweredOnce'
  BY DEF AnsweredOnce, Connect, agentVars, clientVars, hubVars, apiVars
<1>7. IdsAgree'
  <2>1. \A m \in Command : Underway(m)' => Underway(m)
    BY DEF Underway, Connect, agentVars, clientVars, hubVars, apiVars
  <2> QED
    BY <2>1, NothingNew DEF Connect, agentVars, clientVars, hubVars, apiVars
<1>8. DoneIsHanded'
  BY DEF DoneIsHanded, Handed, Connect, agentVars, clientVars, hubVars, apiVars
<1>9. ToldIsTrue'
  BY DEF ToldIsTrue, Connect, agentVars, clientVars, hubVars, apiVars
<1> QED
  BY <1>2, <1>3, <1>4, <1>5, <1>6, <1>7, <1>8, <1>9

\* A request times out.
LEMMA ExpireStep ==
  ASSUME IInv, NEW k \in Consoles, Expire(k)
  PROVE  IInv'
<1> USE ApprovalsAssumption DEF IInv
<1>1. Shapes'
  BY DEF Shapes, Idle, Expire, agentVars, clientVars, hubVars, apiVars
<1>2. TypeOK'
  BY DEF TypeOK, Idle, Expire, agentVars, clientVars, hubVars, apiVars
<1>3. AboutRaised'
  BY DEF AboutRaised, Expire, agentVars, clientVars, hubVars, apiVars
<1>4. OneAtATime'
  BY DEF OneAtATime, LoopFor, Expire, agentVars, clientVars, hubVars, apiVars
<1>5. AnsweredOnce'
  BY DEF AnsweredOnce, Expire, agentVars, clientVars, hubVars, apiVars
<1>6. IdsAgree'
  <2>1. \A m \in Command : Underway(m)' => Underway(m)
    BY DEF Underway, Expire, agentVars, clientVars, hubVars, apiVars, Idle
  <2> QED
    BY <2>1, NothingNew DEF Expire, agentVars, clientVars, hubVars, apiVars
<1>7. DoneIsHanded'
  BY DEF DoneIsHanded, Handed, Expire, agentVars, clientVars, hubVars, apiVars, Idle,
     Shapes
<1>8. ToldIsTrue'
  BY DEF ToldIsTrue, Expire, agentVars, clientVars, hubVars, apiVars
<1> QED
  BY <1>1, <1>2, <1>3, <1>4, <1>5, <1>6, <1>7, <1>8

\* An agent asks.
LEMMA RaiseStep ==
  ASSUME IInv, NEW a \in Agents, NEW r \in Raws, Raise(a, r)
  PROVE  IInv'
<1> USE ApprovalsAssumption DEF IInv
<1> DEFINE e == [pc |-> "raised", raw |-> r, conn |-> live]
<1>1. /\ asking' = [asking EXCEPT ![a] = e] /\ e \in Raising /\ e.pc = "raised" /\ e.raw = r
      /\ UNCHANGED <<installed, answers, early, lost, live, used, registered, session, loop,
                     overlap, commands, wire, owner, route, shown, req, requests, told>>
  BY DEF Raise, clientVars, hubVars, apiVars, TypeOK
<1>2. /\ asking' \in [Agents -> {Idle} \cup Raising]
      /\ asking'[a] = e /\ \A b \in Agents \ {a} : asking'[b] = asking[b]
  BY <1>1 DEF Shapes
<1> HIDE DEF e
<1>3. Shapes'
  BY <1>1, <1>2 DEF Shapes, Idle
<1>4. TypeOK'
  <2>1. pending' \in [Agents -> SUBSET Raws] /\ raised' \subseteq installed \X Raws
    BY DEF TypeOK, Raise
  <2>2. \A b \in Agents : \A q \in pending'[b] : <<b, q>> \in raised'
    BY DEF TypeOK, Raise
  <2>3. early' \subseteq raised' /\ lost' \subseteq raised'
    BY <1>1 DEF TypeOK, Raise
  <2>4. \A b \in Agents : asking'[b].pc \in {"idle", "raised", "announced"}
    BY <1>1, <1>2 DEF TypeOK
  <2>5. \A q \in Raws : shown[q] # None => <<shown[q], q>> \in raised'
    BY DEF TypeOK, Raise
  <2> QED
    BY <1>1, <2>1, <2>2, <2>3, <2>4, <2>5 DEF TypeOK
<1>5. AboutRaised'
  <2>1. raised' = raised \cup {<<a, r>>}
    BY DEF Raise
  <2>2. \A b \in Agents : asking'[b].pc # "idle" => <<b, asking'[b].raw>> \in raised'
    BY <1>1, <1>2, <2>1 DEF AboutRaised
  <2> QED
    BY <1>1, <2>1, <2>2 DEF AboutRaised
<1>6. OneAtATime'
  BY <1>1 DEF OneAtATime, LoopFor, Raise, AboutRaised, TypeOK
<1>7. AnsweredOnce'
  BY <1>1 DEF AnsweredOnce
<1>8. IdsAgree'
  <2>1. \A m \in Command : Underway(m)' => Underway(m)
    BY <1>1 DEF Underway
  <2> QED
    BY <1>1, <2>1, NothingNew
<1>9. DoneIsHanded'
  BY <1>1 DEF DoneIsHanded, Handed
<1>10. ToldIsTrue'
  BY <1>1 DEF ToldIsTrue
<1> QED
  BY <1>3, <1>4, <1>5, <1>6, <1>7, <1>8, <1>9, <1>10

\* A frame that asks, or none, is written.
LEMMA AsksStep ==
  ASSUME IInv, NEW a \in Agents, NEW r \in Raws, Asking(a, r), Announce(a) \/ Require(a)
  PROVE  IInv'
<1> USE ApprovalsAssumption DEF IInv
<1> DEFINE f == Frame("required", a, r)
<1>1. /\ UNCHANGED <<installed, raised, pending, answers, early, live, used, registered, loop,
                     overlap, commands, owner, route, shown, req, requests, told>>
      /\ <<a, r>> \in raised
  BY DEF Announce, Require, clientVars, hubVars, apiVars, Asking, AboutRaised
<1>2. /\ UNCHANGED wire \/ \E c \in Conns : Writes(c, f)
      /\ f \in FrameSet /\ f.kind = "required" /\ f.agent = a /\ f.raw = r
  BY DEF Announce, Require, Asking, Writes, TypeOK, FrameSet, Frame
<1> HIDE DEF f
<1>3. /\ wire' \in [Conns -> Seq(FrameSet)]
      /\ \A d \in Conns : Elements(wire'[d]) \subseteq Elements(wire[d]) \cup {f}
  BY <1>2, Written DEF Shapes
<1>4. /\ asking' \in [Agents -> {Idle} \cup Raising]
      /\ \A b \in Agents : asking'[b].pc # "idle" =>
            asking[b].pc # "idle" /\ asking'[b].raw = asking[b].raw
  <2>1. asking[a] \in Raising
    BY AskingShape DEF Asking
  <2>2. PICK e : asking' = [asking EXCEPT ![a] = e] /\ e \in {Idle, [asking[a] EXCEPT !.pc = "announced"]}
    BY DEF Announce, Require
  <2>3. e \in {Idle} \cup Raising /\ (e.pc # "idle" => e.raw = asking[a].raw)
    BY <2>1, <2>2 DEF Idle
  <2> QED
    BY <2>1, <2>2, <2>3 DEF Shapes
<1>5. Shapes'
  BY <1>1, <1>3, <1>4 DEF Shapes, Idle
<1>6. session' \in [Conns -> [Raws -> Agents \cup {None}]] /\ lost' \subseteq raised
  <2>1. CASE Announce(a)
    BY <2>1 DEF Announce, clientVars, TypeOK
  <2>2. CASE Require(a)
    <3>1. asking[a] \in Raising /\ asking[a].raw = r
      BY AskingShape DEF Asking
    <3>2. asking[a].conn \in Conns \cup {None}
      BY <3>1 DEF Raising
    <3>3. CASE asking[a].conn # None /\ live = asking[a].conn
      <4>1. PICK d \in Conns : d = asking[a].conn
        BY <3>2, <3>3
      <4>2. session' = [session EXCEPT ![d][r] = a] /\ UNCHANGED lost
        BY <2>2, <3>1, <3>3, <4>1 DEF Require
      <4> QED
        BY <4>1, <4>2 DEF TypeOK
    <3>4. CASE ~(asking[a].conn # None /\ live = asking[a].conn)
      BY <1>1, <2>2, <3>1, <3>4 DEF Require, TypeOK
    <3> QED
      BY <3>3, <3>4
  <2> QED
    BY <2>1, <2>2
<1>7. TypeOK'
  <2>1. \A b \in Agents : asking'[b].pc \in {"idle", "raised", "announced"}
    BY <1>5, AskingShape DEF Shapes, Idle
  <2> QED
    BY <1>1, <1>6, <2>1 DEF TypeOK
<1>8. AboutRaised'
  BY <1>1, <1>2, <1>3, <1>4 DEF AboutRaised
<1>9. OneAtATime'
  BY <1>1 DEF OneAtATime, LoopFor
<1>10. AnsweredOnce'
  BY <1>1 DEF AnsweredOnce
<1>11. IdsAgree'
  <2>1. \A m \in Command : Underway(m)' => Underway(m)
    BY <1>1, <1>2, <1>3 DEF Underway
  <2> QED
    BY <1>1, <2>1, NothingNew
<1>12. DoneIsHanded'
  BY <1>1, <1>2, <1>3 DEF DoneIsHanded, Handed
<1>13. ToldIsTrue'
  BY <1>1 DEF ToldIsTrue
<1> QED
  BY <1>5, <1>7, <1>8, <1>9, <1>10, <1>11, <1>12, <1>13

LEMMA AsksAre ==
  ASSUME IInv, NEW a \in Agents, Announce(a) \/ Require(a)
  PROVE  \E r \in Raws : Asking(a, r)
  BY AskingShape DEF IInv, Announce, Require, Asking

\* An agent settles its request itself.
LEMMA SettlesItselfStep ==
  ASSUME IInv, NEW a \in Agents, NEW r \in Raws, SettlesItself(a, r)
  PROVE  IInv'
<1> USE ApprovalsAssumption DEF IInv
<1> DEFINE resolved == Frame("resolved", a, r)
<1>1. /\ resolved \in FrameSet /\ <<a, r>> \in raised
      /\ resolved.kind = "resolved" /\ resolved.agent = a /\ resolved.raw = r
  BY DEF FrameSet, Frame, SettlesItself, TypeOK
<1>2. /\ wire' \in [Conns -> Seq(FrameSet)]
      /\ \A d \in Conns : Elements(wire'[d]) \subseteq Elements(wire[d]) \cup {resolved}
  <2>1. CASE UNCHANGED wire
    BY <2>1 DEF Shapes
  <2>2. CASE live # None /\ Writes(live, resolved)
    BY <1>1, <2>2, Written DEF TypeOK
  <2> QED
    BY <2>1, <2>2 DEF SettlesItself, Resolved, Writes
<1>3. session' \in [Conns -> [Raws -> Agents \cup {None}]] /\ lost' \subseteq raised
  BY <1>1 DEF SettlesItself, Resolved, TypeOK
<1> HIDE DEF resolved
<1>4. Shapes'
  BY <1>2 DEF Shapes, Idle, SettlesItself, agentVars, clientVars, hubVars, apiVars
<1>5. TypeOK'
  <2>1. pending' \in [Agents -> SUBSET Raws]
    BY DEF TypeOK, SettlesItself
  <2>2. \A b \in Agents : \A q \in pending'[b] : <<b, q>> \in raised'
    BY DEF TypeOK, SettlesItself
  <2> QED
    BY <1>3, <2>1, <2>2 DEF TypeOK, SettlesItself, hubVars, apiVars
<1>6. AboutRaised'
  <2>1. (\A d \in Conns : loop[d].pc # "idle" => <<loop[d].agent, loop[d].cmd.raw>> \in raised)'
    BY <1>1, <1>2 DEF AboutRaised, SettlesItself, agentVars, clientVars, hubVars,
       apiVars
  <2>2. (\A x \in answers : <<x[1], x[2]>> \in raised)'
    BY <1>1, <1>2 DEF AboutRaised, SettlesItself, agentVars, clientVars, hubVars,
       apiVars
  <2>3. (\A d \in Conns : \A f \in Elements(wire[d]) :
            f.kind \in {"required", "resolved"} => <<f.agent, f.raw>> \in raised)'
    BY <1>1, <1>2 DEF AboutRaised, SettlesItself, agentVars, clientVars, hubVars,
       apiVars
  <2>4. (\A b \in Agents : asking[b].pc # "idle" => <<b, asking[b].raw>> \in raised)'
    BY DEF AboutRaised, SettlesItself, agentVars
  <2> QED
    BY <2>1, <2>2, <2>3, <2>4 DEF AboutRaised
<1>7. OneAtATime'
  BY DEF OneAtATime, LoopFor, SettlesItself, agentVars, clientVars, hubVars, apiVars,
     TypeOK
<1>8. AnsweredOnce'
  BY DEF AnsweredOnce, SettlesItself, agentVars, clientVars, hubVars, apiVars
<1>9. IdsAgree'
  <2>1. \A m \in Command : Underway(m)' => Underway(m)
    BY <1>1, <1>2 DEF Underway, SettlesItself, agentVars, clientVars, hubVars, apiVars
  <2> QED
    BY <2>1, NothingNew DEF SettlesItself, agentVars, clientVars, hubVars, apiVars
<1>10. DoneIsHanded'
  <2>1. \A raw, id : Handed(raw, id) => Handed(raw, id)'
    BY <1>1, <1>2 DEF Handed, SettlesItself, agentVars, clientVars, hubVars, apiVars
  <2>2. (\A d \in Conns : loop[d].pc = "answered" => Handed(loop[d].cmd.raw, loop[d].cmd.id))'
    BY <1>1, <1>2, <2>1 DEF DoneIsHanded, SettlesItself, agentVars, clientVars,
       hubVars, apiVars
  <2>3. (\A d \in Conns : \A f \in Elements(wire[d]) :
            f.kind = "done" => Handed(f.cmd.raw, f.cmd.id))'
    BY <1>1, <1>2, <2>1 DEF DoneIsHanded, SettlesItself, agentVars, clientVars,
       hubVars, apiVars
  <2>4. (\A k \in Consoles : req[k].pc = "clean" => Handed(req[k].raw, req[k].id))'
    BY <1>1, <1>2, <2>1 DEF DoneIsHanded, SettlesItself, agentVars, clientVars,
       hubVars, apiVars
  <2> QED
    BY <2>2, <2>3, <2>4 DEF DoneIsHanded
<1>11. ToldIsTrue'
  BY DEF ToldIsTrue, SettlesItself, agentVars, clientVars, hubVars, apiVars
<1> QED
  BY <1>4, <1>5, <1>6, <1>7, <1>8, <1>9, <1>10, <1>11

\* The loop takes an answer.
LEMMA TakeStep ==
  ASSUME IInv, NEW c \in Conns, Take(c)
  PROVE  IInv'
<1> USE ApprovalsAssumption DEF IInv
<1>1. /\ Head(commands) \in Command /\ Head(commands) \in Elements(commands)
      /\ commands' \in Seq(Command) /\ Elements(commands') \subseteq Elements(commands)
  BY TailElements DEF Take, Shapes
<1> DEFINE msg == Head(commands)
        rejected == [kind |-> "rejected", cmd |-> msg]
<1>2. /\ wire' \in [Conns -> Seq(FrameSet)]
      /\ \A d \in Conns : Elements(wire'[d]) \subseteq Elements(wire[d]) \cup {rejected}
  <2>1. rejected \in FrameSet
    BY <1>1 DEF FrameSet
  <2>2. \/ UNCHANGED wire
        \/ Writes(c, rejected)
    BY DEF Take, Writes
  <2> HIDE DEF rejected
  <2>3. CASE UNCHANGED wire
    BY <2>3 DEF Shapes
  <2>4. CASE Writes(c, rejected)
    BY <2>1, <2>4, Written
  <2> QED
    BY <2>2, <2>3, <2>4
<1>3. /\ loop' \in [Conns -> {Idle} \cup Work]
      /\ \A d \in Conns :
           \/ loop'[d] = loop[d]
           \/ /\ d = c /\ loop'[d].pc = "found" /\ loop'[d].cmd = msg
              /\ loop'[d].agent \in Agents /\ msg.raw \in pending[loop'[d].agent]
  <2>1. CASE Takes(c, msg)
    <3>1. AgentFor(c, msg.raw) \in Agents /\ msg.raw \in pending[AgentFor(c, msg.raw)]
      BY <1>1, <2>1, AgentForType DEF Takes, Command
    <3>2. loop' = [loop EXCEPT ![c] = [pc |-> "found", cmd |-> msg, agent |-> AgentFor(c, msg.raw)]]
      BY <2>1 DEF Take
    <3> QED
      BY <1>1, <3>1, <3>2 DEF Shapes
  <2>2. CASE ~Takes(c, msg)
    BY <2>2 DEF Take, Shapes
  <2> QED
    BY <2>1, <2>2
<1>4. \A d \in Conns : loop'[d].pc # "idle" => <<loop'[d].agent, loop'[d].cmd.raw>> \in raised
  BY <1>1, <1>3 DEF AboutRaised, TypeOK, Command
<1>5. loop[c].pc = "idle" /\ live = c
  BY DEF Take
<1>6. rejected.kind = "rejected" /\ rejected.cmd = msg
  OBVIOUS
<1> HIDE DEF rejected, msg
<1>7. Shapes'
  BY <1>1, <1>2, <1>3 DEF Shapes, Idle, Take, agentVars, clientVars, hubVars, apiVars
<1>8. TypeOK'
  BY <1>3, LoopShape DEF TypeOK, Idle, Take, agentVars, clientVars, hubVars, apiVars
<1>9. AboutRaised'
  <2>1. (\A d \in Conns : loop[d].pc # "idle" => <<loop[d].agent, loop[d].cmd.raw>> \in raised)'
    BY <1>2, <1>4, <1>6 DEF AboutRaised, Take, agentVars, clientVars, hubVars, apiVars
  <2>2. (\A x \in answers : <<x[1], x[2]>> \in raised)'
    BY <1>2, <1>4, <1>6 DEF AboutRaised, Take, agentVars, clientVars, hubVars, apiVars
  <2>3. (\A d \in Conns : \A f \in Elements(wire[d]) :
            f.kind \in {"required", "resolved"} => <<f.agent, f.raw>> \in raised)'
    BY <1>2, <1>4, <1>6 DEF AboutRaised, Take, agentVars, clientVars, hubVars, apiVars
  <2>4. (\A b \in Agents : asking[b].pc # "idle" => <<b, asking[b].raw>> \in raised)'
    BY DEF AboutRaised, Take, agentVars
  <2> QED
    BY <2>1, <2>2, <2>3, <2>4 DEF AboutRaised
<1>10. OneAtATime'
  BY <1>3, <1>5 DEF OneAtATime, LoopFor, Take, agentVars, clientVars, hubVars, apiVars
<1>11. AnsweredOnce'
  BY DEF AnsweredOnce, Take, agentVars, clientVars, hubVars, apiVars
<1>12. IdsAgree'
  <2>1. ASSUME NEW m \in Command, Underway(m)' PROVE Underway(m)
    <3>1. CASE m \in Elements(commands')
      BY <1>1, <3>1 DEF Underway, Take
    <3>2. CASE \E d \in Conns : loop'[d].pc # "idle" /\ m = loop'[d].cmd
      BY <1>1, <1>3, <3>2 DEF Underway, msg
    <3>3. CASE \E d \in Conns : \E f \in Elements(wire'[d]) :
                 f.kind \in {"done", "rejected"} /\ m = f.cmd
      BY <1>1, <1>2, <1>6, <3>3 DEF Underway, msg
    <3>4. CASE \E k \in Consoles :
                 req'[k].pc # "idle" /\ m.raw = req'[k].raw /\ m.id = req'[k].id
      BY <3>4 DEF Underway, Take, apiVars
    <3> QED
      BY <2>1, <3>1, <3>2, <3>3, <3>4 DEF Underway
  <2> QED
    BY <2>1, NothingNew DEF Take, apiVars
<1>13. DoneIsHanded'
  <2>1. \A raw, id : Handed(raw, id) => Handed(raw, id)'
    BY <1>2, <1>3, <1>6 DEF Handed, Take, agentVars, clientVars, hubVars, apiVars
  <2>2. (\A d \in Conns : loop[d].pc = "answered" => Handed(loop[d].cmd.raw, loop[d].cmd.id))'
    BY <1>2, <1>3, <1>6, <2>1 DEF DoneIsHanded, Take, agentVars, clientVars, hubVars,
       apiVars
  <2>3. (\A d \in Conns : \A f \in Elements(wire[d]) :
            f.kind = "done" => Handed(f.cmd.raw, f.cmd.id))'
    BY <1>2, <1>3, <1>6, <2>1 DEF DoneIsHanded, Take, agentVars, clientVars, hubVars,
       apiVars
  <2>4. (\A k \in Consoles : req[k].pc = "clean" => Handed(req[k].raw, req[k].id))'
    BY <1>2, <1>3, <1>6, <2>1 DEF DoneIsHanded, Take, agentVars, clientVars, hubVars,
       apiVars
  <2> QED
    BY <2>2, <2>3, <2>4 DEF DoneIsHanded
<1>14. ToldIsTrue'
  BY DEF ToldIsTrue, Take, agentVars, clientVars, hubVars, apiVars
<1> QED
  BY <1>7, <1>8, <1>9, <1>10, <1>11, <1>12, <1>13, <1>14

\* The loop hands the decision over, or the process cannot be written to.
LEMMA HandStep ==
  ASSUME IInv, NEW c \in Conns, Hand(c)
  PROVE  IInv'
<1> USE ApprovalsAssumption DEF IInv
<1> DEFINE msg == loop[c].cmd
        rejected == [kind |-> "rejected", cmd |-> msg]
<1>1. /\ loop[c].pc = "found" /\ msg \in Command /\ loop[c].agent \in Agents
      /\ <<loop[c].agent, msg.raw>> \in raised
  BY LoopShape DEF Hand, AboutRaised
<1> DEFINE x == <<loop[c].agent, msg.raw, msg.id>>
<1>2. /\ wire' \in [Conns -> Seq(FrameSet)]
      /\ \A d \in Conns : Elements(wire'[d]) \subseteq Elements(wire[d]) \cup {rejected}
  <2>1. rejected \in FrameSet
    BY <1>1 DEF FrameSet
  <2>2. \/ UNCHANGED wire
        \/ Writes(c, rejected)
    BY DEF Hand, Writes
  <2> HIDE DEF rejected
  <2>3. CASE UNCHANGED wire
    BY <2>3 DEF Shapes
  <2>4. CASE Writes(c, rejected)
    BY <2>1, <2>4, Written
  <2> QED
    BY <2>2, <2>3, <2>4
<1>3. /\ loop' \in [Conns -> {Idle} \cup Work]
      /\ \A d \in Conns \ {c} : loop'[d] = loop[d]
      /\ \/ loop'[c].pc = "idle" /\ answers' = answers
         \/ /\ loop'[c].pc = "answered" /\ loop'[c].cmd = msg /\ loop'[c].agent = loop[c].agent
            /\ answers' = answers \cup {x}
  <2>1. CASE loop' = [loop EXCEPT ![c] = Idle] /\ answers' = answers
    BY <2>1 DEF Shapes, Idle
  <2>2. CASE loop' = [loop EXCEPT ![c].pc = "answered"] /\ answers' = answers \cup {x}
    BY <1>1, <2>2, LoopUpdates DEF Shapes
  <2> QED
    BY <2>1, <2>2 DEF Hand
<1>4. /\ x[1] = loop[c].agent /\ x[2] = msg.raw /\ x[3] = msg.id
      /\ x \in Agents \X Raws \X (1..MaxRequests)
  BY <1>1 DEF Command
<1>5. answers \subseteq answers' /\ answers' \subseteq answers \cup {x}
  BY <1>3
<1>6. rejected.kind = "rejected" /\ rejected.cmd = msg
  OBVIOUS
<1> HIDE DEF rejected, msg, x
<1>7. Shapes'
  BY <1>2, <1>3 DEF Shapes, Idle, Hand, agentVars, clientVars, hubVars, apiVars
<1>8. TypeOK'
  BY <1>3, <1>4, <1>5, LoopShape DEF TypeOK, Idle, Hand, agentVars, clientVars,
     hubVars, apiVars
<1>9. AboutRaised'
  <2>1. (\A d \in Conns : loop[d].pc # "idle" => <<loop[d].agent, loop[d].cmd.raw>> \in raised)'
    BY <1>1, <1>2, <1>3, <1>4, <1>5, <1>6 DEF AboutRaised, Hand, agentVars, clientVars,
       hubVars, apiVars
  <2>2. (\A y \in answers : <<y[1], y[2]>> \in raised)'
    BY <1>1, <1>2, <1>3, <1>4, <1>5, <1>6 DEF AboutRaised, Hand, agentVars, clientVars,
       hubVars, apiVars
  <2>3. (\A d \in Conns : \A f \in Elements(wire[d]) :
            f.kind \in {"required", "resolved"} => <<f.agent, f.raw>> \in raised)'
    BY <1>1, <1>2, <1>3, <1>4, <1>5, <1>6 DEF AboutRaised, Hand, agentVars, clientVars,
       hubVars, apiVars
  <2>4. (\A b \in Agents : asking[b].pc # "idle" => <<b, asking[b].raw>> \in raised)'
    BY DEF AboutRaised, Hand, agentVars
  <2> QED
    BY <2>1, <2>2, <2>3, <2>4 DEF AboutRaised
<1>10. OneAtATime'
  <2>1. UNCHANGED <<overlap, live, pending>>
    BY DEF Hand
  <2>2. ~overlap => \A d \in Conns : loop'[d].pc # "idle" =>
            live \in {d, None} /\ \A e \in Conns \ {d} : loop'[e].pc = "idle"
    BY <1>1, <1>3 DEF OneAtATime
  <2>3. ASSUME ~overlap, NEW y \in answers'
        PROVE  /\ \A d \in Conns : ~LoopFor(d, "found", y)'
               /\ y[2] \in pending[y[1]] => \E d \in Conns : LoopFor(d, "answered", y)'
    <3>1. \A d \in Conns : loop'[d].pc # "found"
      BY <1>1, <1>3, <2>3 DEF OneAtATime
    <3>2. CASE y \in answers /\ loop'[c].pc = "idle"
      <4>1. \A d \in Conns : ~LoopFor(d, "answered", y)
        BY <1>1, <2>3 DEF OneAtATime, LoopFor
      <4> QED
        BY <2>3, <3>1, <3>2, <4>1 DEF OneAtATime, LoopFor
    <3>3. CASE y \in answers /\ loop'[c].pc = "answered"
      <4>1. \A d \in Conns : ~LoopFor(d, "answered", y)
        BY <1>1, <2>3 DEF OneAtATime, LoopFor
      <4> QED
        BY <2>3, <3>1, <3>3, <4>1 DEF OneAtATime, LoopFor
    <3>4. CASE y = x /\ loop'[c].pc = "answered" /\ loop'[c].cmd = msg /\ loop'[c].agent = loop[c].agent
      <4>1. LoopFor(c, "answered", y)'
        BY <1>4, <3>4 DEF LoopFor
      <4> QED
        BY <3>1, <4>1 DEF LoopFor
    <3> QED
      BY <1>3, <1>5, <2>3, <3>2, <3>3, <3>4
  <2> QED
    BY <2>1, <2>2, <2>3 DEF OneAtATime
<1>11. AnsweredOnce'
  BY <1>1, <1>4, <1>5 DEF AnsweredOnce, Hand, agentVars, clientVars, hubVars, apiVars,
     OneAtATime, LoopFor
<1>12. IdsAgree'
  <2>1. ASSUME NEW m \in Command, Underway(m)' PROVE Underway(m)
    <3>1. CASE m \in Elements(commands')
      BY <3>1 DEF Underway, Hand
    <3>2. CASE \E d \in Conns : loop'[d].pc # "idle" /\ m = loop'[d].cmd
      BY <1>1, <1>3, <3>2 DEF Underway, msg
    <3>3. CASE \E d \in Conns : \E f \in Elements(wire'[d]) :
                 f.kind \in {"done", "rejected"} /\ m = f.cmd
      BY <1>1, <1>2, <1>6, <3>3 DEF Underway, msg
    <3>4. CASE \E k \in Consoles :
                 req'[k].pc # "idle" /\ m.raw = req'[k].raw /\ m.id = req'[k].id
      BY <3>4 DEF Underway, Hand, apiVars
    <3> QED
      BY <2>1, <3>1, <3>2, <3>3, <3>4 DEF Underway
  <2> QED
    BY <2>1, NothingNew DEF Hand, apiVars
<1>13. DoneIsHanded'
  <2>1. \A raw, id : Handed(raw, id) => Handed(raw, id)'
    BY <1>5 DEF Handed
  <2>2. loop'[c].pc = "answered" =>
         \E y \in answers' : y[2] = msg.raw /\ y[3] = msg.id
    BY <1>3, <1>4
  <2>3. (\A d \in Conns : loop[d].pc = "answered" => Handed(loop[d].cmd.raw, loop[d].cmd.id))'
    <3> SUFFICES ASSUME NEW d \in Conns, loop'[d].pc = "answered"
                 PROVE  Handed(loop[d].cmd.raw, loop[d].cmd.id)'
      OBVIOUS
    <3>1. CASE d = c
      BY <1>3, <2>2, <3>1 DEF Handed
    <3>2. CASE d # c
      BY <1>3, <2>1, <3>2 DEF DoneIsHanded, Handed
    <3> QED
      BY <3>1, <3>2
  <2>4. (\A d \in Conns : \A f \in Elements(wire[d]) :
            f.kind = "done" => Handed(f.cmd.raw, f.cmd.id))'
    BY <1>2, <1>6, <2>1 DEF DoneIsHanded
  <2>5. (\A k \in Consoles : req[k].pc = "clean" => Handed(req[k].raw, req[k].id))'
    BY <2>1 DEF DoneIsHanded, Hand, apiVars
  <2> QED
    BY <2>3, <2>4, <2>5 DEF DoneIsHanded
<1>14. ToldIsTrue'
  BY <1>5 DEF ToldIsTrue, Hand, agentVars, clientVars, hubVars, apiVars
<1> QED
  BY <1>7, <1>8, <1>9, <1>10, <1>11, <1>12, <1>13, <1>14

\* The loop forgets the request and reports.
LEMMA ReportStep ==
  ASSUME IInv, NEW c \in Conns, Report(c)
  PROVE  IInv'
<1> USE ApprovalsAssumption DEF IInv
<1> DEFINE msg == loop[c].cmd
        a == loop[c].agent
        done == [kind |-> "done", cmd |-> msg]
        resolved == Frame("resolved", a, msg.raw)
<1>1. /\ loop[c].pc = "answered" /\ msg \in Command /\ a \in Agents /\ <<a, msg.raw>> \in raised
      /\ Handed(msg.raw, msg.id)
  BY LoopShape DEF Report, AboutRaised, DoneIsHanded
<1>2. /\ wire' \in [Conns -> Seq(FrameSet)]
      /\ \A d \in Conns :
           Elements(wire'[d]) \subseteq Elements(wire[d]) \cup {done, resolved}
  <2>1. done \in FrameSet /\ resolved \in FrameSet
    BY <1>1 DEF FrameSet, Frame, Command
  <2>2. \/ UNCHANGED wire
        \/ WritesTwo(c, done, resolved)
        \/ live # None /\ Writes(live, resolved)
    BY DEF Report, Writes, WritesTwo
  <2> HIDE DEF done, resolved
  <2>3. CASE WritesTwo(c, done, resolved)
    BY <2>1, <2>3, WrittenTwice
  <2>4. CASE live # None /\ Writes(live, resolved)
    <3>1. live \in Conns
      BY <2>4 DEF TypeOK
    <3> QED
      BY <2>1, <2>4, <3>1, Written
  <2> QED
    BY <2>2, <2>3, <2>4 DEF Shapes
<1>3. /\ loop' \in [Conns -> {Idle} \cup Work]
      /\ loop'[c].pc = "idle" /\ \A d \in Conns \ {c} : loop'[d] = loop[d]
  BY DEF Report, Shapes, Idle
<1>4. /\ pending' = [pending EXCEPT ![a] = @ \ {msg.raw}]
      /\ pending' \in [Agents -> SUBSET Raws]
      /\ \A b \in Agents : \A q \in pending'[b] : q \in pending[b] /\ (b = a => q # msg.raw)
  BY <1>1 DEF Report, Forgotten, TypeOK
<1>5. session' \in [Conns -> [Raws -> Agents \cup {None}]] /\ lost' \subseteq raised
      /\ early' \subseteq raised
  <2>5. early' \subseteq raised
    BY <1>1 DEF Report, TypeOK
  <2>1. msg.raw \in Raws
    BY <1>1 DEF Command
  <2>2. \/ UNCHANGED session /\ lost' = lost \cup {<<a, msg.raw>>}
        \/ session' = [session EXCEPT ![c][msg.raw] = None] /\ UNCHANGED lost
    BY DEF Report
  <2>3. CASE UNCHANGED session /\ lost' = lost \cup {<<a, msg.raw>>}
    BY <1>1, <2>3, <2>5 DEF TypeOK
  <2>4. CASE session' = [session EXCEPT ![c][msg.raw] = None] /\ UNCHANGED lost
    BY <2>1, <2>4, <2>5 DEF TypeOK
  <2> QED
    BY <2>2, <2>3, <2>4, <2>5
<1>6. /\ done.kind = "done" /\ done.cmd = msg
      /\ resolved.kind = "resolved" /\ resolved.agent = a /\ resolved.raw = msg.raw
  BY DEF Frame
<1> HIDE DEF msg, a, done, resolved
<1>7. Shapes'
  BY <1>2, <1>3 DEF Shapes, Idle, Report, agentVars, clientVars, hubVars, apiVars
<1>8. TypeOK'
  BY <1>3, <1>4, <1>5, LoopShape DEF TypeOK, Idle, Report, agentVars, clientVars,
     hubVars, apiVars
<1>9. AboutRaised'
  <2>1. (\A d \in Conns : loop[d].pc # "idle" => <<loop[d].agent, loop[d].cmd.raw>> \in raised)'
    BY <1>1, <1>2, <1>3, <1>6 DEF AboutRaised, Report, agentVars, clientVars, hubVars,
       apiVars
  <2>2. (\A x \in answers : <<x[1], x[2]>> \in raised)'
    BY <1>1, <1>2, <1>3, <1>6 DEF AboutRaised, Report, agentVars, clientVars, hubVars,
       apiVars
  <2>3. (\A d \in Conns : \A f \in Elements(wire[d]) :
            f.kind \in {"required", "resolved"} => <<f.agent, f.raw>> \in raised)'
    BY <1>1, <1>2, <1>3, <1>6 DEF AboutRaised, Report, agentVars, clientVars, hubVars,
       apiVars
  <2>4. (\A b \in Agents : asking[b].pc # "idle" => <<b, asking[b].raw>> \in raised)'
    BY DEF AboutRaised, Report, agentVars
  <2> QED
    BY <2>1, <2>2, <2>3, <2>4 DEF AboutRaised
<1>10. OneAtATime'
  <2> SUFFICES ASSUME ~overlap
               PROVE  /\ \A d \in Conns : loop'[d].pc = "idle"
                      /\ \A x \in answers : x[2] \notin pending'[x[1]]
    BY DEF OneAtATime, LoopFor, Report
  <2>1. \A d \in Conns \ {c} : loop[d].pc = "idle"
    BY <1>1 DEF OneAtATime
  <2>2. ASSUME NEW x \in answers, x[2] \in pending'[x[1]] PROVE FALSE
    <3>1. x[1] \in Agents /\ x[2] \in pending[x[1]]
      BY <1>4, <2>2 DEF TypeOK
    <3>2. LoopFor(c, "answered", x)
      BY <2>1, <3>1 DEF OneAtATime, LoopFor
    <3>3. x[1] = a /\ x[2] = msg.raw
      BY <3>2 DEF LoopFor, a, msg
    <3> QED
      BY <1>4, <2>2, <3>1, <3>3
  <2> QED
    BY <1>3, <2>1, <2>2
<1>11. AnsweredOnce'
  BY DEF AnsweredOnce, Report, agentVars, clientVars, hubVars, apiVars
<1>12. IdsAgree'
  <2>1. ASSUME NEW m \in Command, Underway(m)' PROVE Underway(m)
    <3>1. CASE m \in Elements(commands')
      BY <3>1 DEF Underway, Report
    <3>2. CASE \E d \in Conns : loop'[d].pc # "idle" /\ m = loop'[d].cmd
      BY <1>3, <3>2 DEF Underway
    <3>3. CASE \E d \in Conns : \E f \in Elements(wire'[d]) :
                 f.kind \in {"done", "rejected"} /\ m = f.cmd
      BY <1>1, <1>2, <1>6, <3>3 DEF Underway, msg
    <3>4. CASE \E k \in Consoles :
                 req'[k].pc # "idle" /\ m.raw = req'[k].raw /\ m.id = req'[k].id
      BY <3>4 DEF Underway, Report, apiVars
    <3> QED
      BY <2>1, <3>1, <3>2, <3>3, <3>4 DEF Underway
  <2> QED
    BY <2>1, NothingNew DEF Report, apiVars
<1>13. DoneIsHanded'
  <2>1. \A raw, id : Handed(raw, id) => Handed(raw, id)'
    BY <1>1, <1>2, <1>3, <1>6 DEF Handed, Report, agentVars, clientVars, hubVars,
       apiVars
  <2>2. (\A d \in Conns : loop[d].pc = "answered" => Handed(loop[d].cmd.raw, loop[d].cmd.id))'
    BY <1>1, <1>2, <1>3, <1>6, <2>1 DEF DoneIsHanded, Report, agentVars, clientVars,
       hubVars, apiVars
  <2>3. (\A d \in Conns : \A f \in Elements(wire[d]) :
            f.kind = "done" => Handed(f.cmd.raw, f.cmd.id))'
    BY <1>1, <1>2, <1>3, <1>6, <2>1 DEF DoneIsHanded, Report, agentVars, clientVars,
       hubVars, apiVars
  <2>4. (\A k \in Consoles : req[k].pc = "clean" => Handed(req[k].raw, req[k].id))'
    BY <1>1, <1>2, <1>3, <1>6, <2>1 DEF DoneIsHanded, Report, agentVars, clientVars,
       hubVars, apiVars
  <2> QED
    BY <2>2, <2>3, <2>4 DEF DoneIsHanded
<1>14. ToldIsTrue'
  BY DEF ToldIsTrue, Report, agentVars, clientVars, hubVars, apiVars
<1> QED
  BY <1>7, <1>8, <1>9, <1>10, <1>11, <1>12, <1>13, <1>14

\* The hub reads a frame.
LEMMA ReadFrameStep ==
  ASSUME IInv, NEW c \in Conns, ReadFrame(c)
  PROVE  IInv'
<1> USE ApprovalsAssumption DEF IInv
<1> DEFINE f == Head(wire[c])
<1>1. f \in FrameSet /\ f \in Elements(wire[c])
  BY TailElements DEF ReadFrame, Shapes
<1>2. /\ wire' \in [Conns -> Seq(FrameSet)]
      /\ \A d \in Conns : Elements(wire'[d]) \subseteq Elements(wire[d])
  BY TailElements DEF ReadFrame, Shapes
<1>3. \A k \in Consoles :
        \/ req'[k] = req[k]
        \/ req'[k] = Idle
        \/ /\ req[k].pc = "waiting" /\ f.kind = "done" /\ req[k].id = f.cmd.id
           /\ req'[k] = [req[k] EXCEPT !.pc = "clean"]
  BY DEF ReadFrame, Answered
<1>4. /\ req' \in [Consoles -> {Idle} \cup Asked]
      /\ \A k \in Consoles :
           \/ req'[k] = req[k]
           \/ req'[k].pc = "idle"
           \/ /\ req[k].pc = "waiting" /\ f.kind = "done" /\ req[k].id = f.cmd.id
              /\ req'[k].pc = "clean" /\ req'[k].raw = req[k].raw /\ req'[k].id = req[k].id
  <2>1. req' \in [Consoles -> {req'[k] : k \in Consoles}]
    BY DEF ReadFrame, Shapes
  <2>2. ASSUME NEW k \in Consoles
        PROVE  /\ req'[k] \in {Idle} \cup Asked
               /\ \/ req'[k] = req[k]
                  \/ req'[k].pc = "idle"
                  \/ /\ req[k].pc = "waiting" /\ f.kind = "done" /\ req[k].id = f.cmd.id
                     /\ req'[k].pc = "clean" /\ req'[k].raw = req[k].raw /\ req'[k].id = req[k].id
    <3>1. CASE req'[k] = req[k]
      BY <3>1 DEF Shapes
    <3>2. CASE req'[k] = Idle
      BY <3>2 DEF Idle
    <3>3. CASE /\ req[k].pc = "waiting" /\ f.kind = "done" /\ req[k].id = f.cmd.id
               /\ req'[k] = [req[k] EXCEPT !.pc = "clean"]
      <4>1. req[k] \in Asked
        BY <3>3, ReqShape
      <4> QED
        BY <3>3, <4>1
    <3> QED
      BY <1>3, <3>1, <3>2, <3>3
  <2> QED
    BY <2>1, <2>2
<1>5. f.kind = "done" => f.cmd \in Command /\ Handed(f.cmd.raw, f.cmd.id) /\ Underway(f.cmd)
  BY <1>1, FrameShape DEF DoneIsHanded, Underway
<1>6. \A k \in Consoles : req[k].pc = "waiting" /\ f.kind = "done" /\ req[k].id = f.cmd.id =>
        Handed(req[k].raw, req[k].id)
  <2> SUFFICES ASSUME NEW k \in Consoles, req[k].pc = "waiting", f.kind = "done",
                      req[k].id = f.cmd.id
               PROVE  Handed(req[k].raw, req[k].id)
    OBVIOUS
  <2> DEFINE m == [raw |-> req[k].raw, id |-> req[k].id]
  <2>1. m \in Command /\ Underway(m)
    BY ReqShape DEF Command, Underway
  <2>2. m.raw = f.cmd.raw
    BY <1>5, <2>1 DEF IdsAgree
  <2> QED
    BY <1>5, <2>2
<1>7. /\ route' \subseteq Raws /\ owner' \in Conns \cup {None}
      /\ shown' \in [Raws -> Agents \cup {None}]
      /\ \A r \in Raws : shown'[r] # None => <<shown'[r], r>> \in raised
      /\ lost' \subseteq raised
  <2>1. f.kind \in {"required", "resolved"} =>
           f.agent \in Agents /\ f.raw \in Raws /\ <<f.agent, f.raw>> \in raised
    BY <1>1, FrameShape DEF AboutRaised
  <2>2. About({f}) \subseteq raised
    BY <2>1 DEF About
  <2>3. \/ owner' = c /\ UNCHANGED <<route, shown, lost>>
        \/ UNCHANGED <<owner, route, shown>> /\ lost' = lost \cup About({f})
        \/ UNCHANGED <<owner, route, shown, lost>>
        \/ /\ f.kind = "required" /\ route' = route \cup {f.raw}
           /\ shown' = [shown EXCEPT ![f.raw] = f.agent] /\ UNCHANGED <<owner, lost>>
        \/ /\ f.kind = "resolved" /\ route' = route \ {f.raw}
           /\ shown' = [shown EXCEPT ![f.raw] = None] /\ UNCHANGED <<owner, lost>>
    BY DEF ReadFrame, hubVars
  <2>4. CASE UNCHANGED <<route, shown>>
    BY <2>2, <2>3, <2>4 DEF TypeOK
  <2>5. CASE /\ f.kind = "required" /\ route' = route \cup {f.raw}
             /\ shown' = [shown EXCEPT ![f.raw] = f.agent] /\ UNCHANGED <<owner, lost>>
    BY <2>1, <2>5 DEF TypeOK
  <2>6. CASE /\ f.kind = "resolved" /\ route' = route \ {f.raw}
             /\ shown' = [shown EXCEPT ![f.raw] = None] /\ UNCHANGED <<owner, lost>>
    BY <2>1, <2>6 DEF TypeOK
  <2> QED
    BY <2>3, <2>4, <2>5, <2>6
<1> HIDE DEF f
<1>8. Shapes'
  BY <1>2, <1>4 DEF Shapes, Idle, ReadFrame, agentVars, clientVars, hubVars, apiVars
<1>9. TypeOK'
  BY <1>4, <1>7, ReqShape DEF TypeOK, Idle, ReadFrame, agentVars, clientVars, hubVars,
     apiVars
<1>10. AboutRaised'
  <2>1. (\A d \in Conns : loop[d].pc # "idle" => <<loop[d].agent, loop[d].cmd.raw>> \in raised)'
    BY <1>2 DEF AboutRaised, ReadFrame, agentVars, clientVars, hubVars, apiVars
  <2>2. (\A x \in answers : <<x[1], x[2]>> \in raised)'
    BY <1>2 DEF AboutRaised, ReadFrame, agentVars, clientVars, hubVars, apiVars
  <2>3. (\A d \in Conns : \A e \in Elements(wire[d]) :
            e.kind \in {"required", "resolved"} => <<e.agent, e.raw>> \in raised)'
    BY <1>2 DEF AboutRaised, ReadFrame, agentVars, clientVars, hubVars, apiVars
  <2>4. (\A b \in Agents : asking[b].pc # "idle" => <<b, asking[b].raw>> \in raised)'
    BY DEF AboutRaised, ReadFrame, agentVars
  <2> QED
    BY <2>1, <2>2, <2>3, <2>4 DEF AboutRaised
<1>11. OneAtATime'
  BY DEF OneAtATime, LoopFor, ReadFrame, agentVars, clientVars, hubVars, apiVars
<1>12. AnsweredOnce'
  BY DEF AnsweredOnce, ReadFrame, agentVars, clientVars, hubVars, apiVars
<1>13. IdsAgree'
  <2>1. \A m \in Command : Underway(m)' => Underway(m)
    BY <1>2, <1>4 DEF Underway, ReadFrame, agentVars, clientVars, hubVars, apiVars
  <2> QED
    BY <2>1, NothingNew DEF ReadFrame, agentVars, clientVars, hubVars, apiVars
<1>14. DoneIsHanded'
  <2>1. \A raw, id : Handed(raw, id) => Handed(raw, id)'
    BY <1>2, <1>4, <1>6 DEF Handed, ReadFrame, agentVars, clientVars, hubVars, apiVars
  <2>2. (\A d \in Conns : loop[d].pc = "answered" => Handed(loop[d].cmd.raw, loop[d].cmd.id))'
    BY <1>2, <1>4, <1>6, <2>1 DEF DoneIsHanded, ReadFrame, agentVars, clientVars,
       hubVars, apiVars
  <2>3. (\A d \in Conns : \A e \in Elements(wire[d]) :
            e.kind = "done" => Handed(e.cmd.raw, e.cmd.id))'
    BY <1>2, <1>4, <1>6, <2>1 DEF DoneIsHanded, ReadFrame, agentVars, clientVars,
       hubVars, apiVars
  <2>4. (\A k \in Consoles : req[k].pc = "clean" => Handed(req[k].raw, req[k].id))'
    BY <1>2, <1>4, <1>6, <2>1 DEF DoneIsHanded, ReadFrame, agentVars, clientVars,
       hubVars, apiVars
  <2> QED
    BY <2>2, <2>3, <2>4 DEF DoneIsHanded
<1>15. ToldIsTrue'
  BY DEF ToldIsTrue, ReadFrame, agentVars, clientVars, hubVars, apiVars
<1> QED
  BY <1>8, <1>9, <1>10, <1>11, <1>12, <1>13, <1>14, <1>15

\* The hub cleans up after a connection.
LEMMA DisconnectStep ==
  ASSUME IInv, NEW c \in Conns, Disconnect(c)
  PROVE  IInv'
<1> USE ApprovalsAssumption DEF IInv
<1>1. /\ wire' \in [Conns -> Seq(FrameSet)]
      /\ \A d \in Conns : Elements(wire'[d]) \subseteq Elements(wire[d])
  <2>1. <<>> \in Seq(FrameSet) /\ Elements(<<>>) = {}
    BY DEF Elements
  <2> QED
    BY <2>1 DEF Disconnect, Shapes
<1>2. /\ req' \in [Consoles -> {Idle} \cup Asked]
      /\ \A k \in Consoles : req'[k] = req[k] \/ req'[k].pc = "idle"
  BY DEF Disconnect, Shapes, Idle
<1>3. Unread(c) \subseteq raised
  BY UnreadRaised
<1>4. Shapes'
  BY <1>1, <1>2 DEF Shapes, Idle, Disconnect, agentVars, clientVars, hubVars, apiVars
<1>5. TypeOK'
  BY <1>2, <1>3, ReqShape DEF TypeOK, Idle, Disconnect, agentVars, clientVars, hubVars,
     apiVars
<1>6. AboutRaised'
  BY <1>1 DEF AboutRaised, Disconnect, agentVars, clientVars, hubVars, apiVars
<1>7. OneAtATime'
  BY DEF OneAtATime, LoopFor, Disconnect, agentVars, clientVars, hubVars, apiVars
<1>8. AnsweredOnce'
  BY DEF AnsweredOnce, Disconnect, agentVars, clientVars, hubVars, apiVars
<1>9. IdsAgree'
  <2>1. \A m \in Command : Underway(m)' => Underway(m)
    BY <1>1, <1>2 DEF Underway, Disconnect, agentVars, clientVars, hubVars, apiVars
  <2> QED
    BY <2>1, NothingNew DEF Disconnect, agentVars, clientVars, hubVars, apiVars
<1>10. DoneIsHanded'
  BY <1>1, <1>2 DEF DoneIsHanded, Handed, Disconnect, agentVars, clientVars, hubVars,
     apiVars
<1>11. ToldIsTrue'
  BY DEF ToldIsTrue, Disconnect, agentVars, clientVars, hubVars, apiVars
<1> QED
  BY <1>4, <1>5, <1>6, <1>7, <1>8, <1>9, <1>10, <1>11

\* A console answers an approval.
LEMMA RespondStep ==
  ASSUME IInv, NEW k \in Consoles, Respond(k)
  PROVE  IInv'
<1> USE ApprovalsAssumption DEF IInv
<1>1. PICK r \in route :
        /\ req' = [req EXCEPT ![k] = [pc |-> "waiting", raw |-> r, id |-> requests + 1]]
        /\ commands' = IF owner = live
                       THEN Append(commands, [raw |-> r, id |-> requests + 1])
                       ELSE commands
  BY DEF Respond
<1> DEFINE msg == [raw |-> r, id |-> requests + 1]
<1>2. /\ msg \in Command /\ requests \in Nat
      /\ requests' = requests + 1 /\ requests' \in 0..MaxRequests
  BY DEF Respond, TypeOK, Command
<1>3. commands' \in Seq(Command) /\ Elements(commands') \subseteq Elements(commands) \cup {msg}
  BY <1>1, <1>2, AppendElements DEF Shapes
<1>4. /\ req' \in [Consoles -> {Idle} \cup Asked]
      /\ req'[k].pc = "waiting" /\ req'[k].raw = msg.raw /\ req'[k].id = msg.id
      /\ \A j \in Consoles \ {k} : req'[j] = req[j]
  BY <1>1, <1>2 DEF Shapes, Command
<1>5. \A n \in Command : Underway(n)' => Underway(n) \/ n = msg
  BY <1>2, <1>3, <1>4 DEF Underway, Respond, Command, agentVars, clientVars, hubVars
<1>6. msg.id = requests + 1
  OBVIOUS
<1> HIDE DEF msg
<1>7. Shapes'
  BY <1>3, <1>4 DEF Shapes, Idle, Respond, agentVars, clientVars, hubVars, apiVars
<1>8. TypeOK'
  BY <1>2, <1>4, ReqShape DEF TypeOK, Idle, Respond, agentVars, clientVars, hubVars,
     apiVars
<1>9. AboutRaised'
  BY DEF AboutRaised, Respond, agentVars, clientVars, hubVars, apiVars
<1>10. OneAtATime'
  BY DEF OneAtATime, LoopFor, Respond, agentVars, clientVars, hubVars, apiVars
<1>11. AnsweredOnce'
  BY DEF AnsweredOnce, Respond, agentVars, clientVars, hubVars, apiVars
<1>12. IdsAgree'
  BY <1>2, <1>5, <1>6 DEF IdsAgree, Command
<1>13. DoneIsHanded'
  BY <1>4 DEF DoneIsHanded, Handed, Respond, agentVars, clientVars, hubVars, apiVars
<1>14. ToldIsTrue'
  BY DEF ToldIsTrue, Respond, agentVars, clientVars, hubVars, apiVars
<1> QED
  BY <1>7, <1>8, <1>9, <1>10, <1>11, <1>12, <1>13, <1>14

\* A console is told 200.
LEMMA CleanStep ==
  ASSUME IInv, NEW k \in Consoles, Clean(k)
  PROVE  IInv'
<1> USE ApprovalsAssumption DEF IInv
<1>1. req[k].raw \in Raws /\ req[k].id \in 1..MaxRequests /\ Handed(req[k].raw, req[k].id)
  BY ReqShape DEF Clean, DoneIsHanded
<1>2. told' = told \cup {<<req[k].raw, req[k].id>>}
  BY DEF Clean
<1>3. /\ shown' \in [Raws -> Agents \cup {None}]
      /\ \A r \in Raws : shown'[r] # None => <<shown'[r], r>> \in raised
  BY <1>1 DEF Clean, TypeOK
<1>4. Shapes'
  BY DEF Shapes, Idle, Clean, agentVars, clientVars, hubVars, apiVars
<1>5. TypeOK'
  BY <1>1, <1>2, <1>3 DEF TypeOK, Idle, Clean, agentVars, clientVars, hubVars, apiVars
<1>6. AboutRaised'
  BY DEF AboutRaised, Clean, agentVars, clientVars, hubVars, apiVars
<1>7. OneAtATime'
  BY DEF OneAtATime, LoopFor, Clean, agentVars, clientVars, hubVars, apiVars
<1>8. AnsweredOnce'
  BY DEF AnsweredOnce, Clean, agentVars, clientVars, hubVars, apiVars
<1>9. IdsAgree'
  <2>1. \A m \in Command : Underway(m)' => Underway(m)
    BY DEF Underway, Clean, agentVars, clientVars, hubVars, apiVars, Idle
  <2> QED
    BY <2>1, NothingNew DEF Clean, agentVars, clientVars, hubVars, apiVars
<1>10. DoneIsHanded'
  BY DEF DoneIsHanded, Handed, Clean, agentVars, clientVars, hubVars, apiVars, Idle,
     Shapes
<1>11. ToldIsTrue'
  BY <1>1, <1>2 DEF ToldIsTrue, Clean, agentVars, clientVars, hubVars, apiVars, Handed
<1> QED
  BY <1>4, <1>5, <1>6, <1>7, <1>8, <1>9, <1>10, <1>11

\* The initial states satisfy the inductive invariant.
LEMMA InitInv == Init => IInv
<1> SUFFICES ASSUME Init PROVE IInv
  OBVIOUS
<1> USE ApprovalsAssumption DEF Init, Idle
<1>1. Elements(<<>>) = {}
  BY DEF Elements
<1>2. TypeOK /\ Shapes
  BY DEF TypeOK, Shapes
<1>3. AboutRaised /\ OneAtATime /\ AnsweredOnce
  BY <1>1 DEF AboutRaised, OneAtATime, AnsweredOnce
<1>4. IdsAgree /\ DoneIsHanded /\ ToldIsTrue
  BY <1>1 DEF IdsAgree, Underway, DoneIsHanded, ToldIsTrue
<1> QED
  BY <1>2, <1>3, <1>4 DEF IInv

\* Every step preserves the inductive invariant.
LEMMA NextStep == IInv /\ [Next]_vars => IInv'
<1> SUFFICES ASSUME IInv, [Next]_vars PROVE IInv'
  OBVIOUS
<1>1. CASE Next
  BY <1>1, BreakStep, RegisterStep, ConnectStep, ExpireStep, RaiseStep,
     AsksStep, AsksAre, SettlesItselfStep, TakeStep, HandStep, ReportStep, ReadFrameStep, DisconnectStep,
     RespondStep, CleanStep DEF Next
<1>2. CASE UNCHANGED vars
  BY <1>2 DEF IInv, TypeOK, Shapes, AboutRaised, OneAtATime, LoopFor, AnsweredOnce,
     IdsAgree, Underway, DoneIsHanded, Handed, ToldIsTrue, vars, agentVars, clientVars,
     hubVars, apiVars
<1> QED
  BY <1>1, <1>2

\* The inductive invariant holds in every reachable state.
THEOREM Invariance == Spec => []IInv
  BY InitInv, NextStep, PTL DEF Spec

\* Every variable keeps its type, for any agents, connections, consoles and bounds.
THEOREM TypeCorrect == Spec => []TypeOK
<1>1. IInv => TypeOK
  BY DEF IInv
<1> QED
  BY <1>1, Invariance, PTL

\* An agent is handed one decision at most per approval, however many consoles answer
\* it and whatever the agent settles itself, unless two command loops are at work.
THEOREM OneDecision == Spec => []AnsweredOnce
<1>1. IInv => AnsweredOnce
  BY DEF IInv
<1> QED
  BY <1>1, Invariance, PTL

\* A console is told 200 only if an agent has been handed the decision of its command.
THEOREM ToldTheTruth == Spec => []ToldIsTrue
<1>1. IInv => ToldIsTrue
  BY DEF IInv
<1> QED
  BY <1>1, Invariance, PTL
-----------------------------------------------------------------------------
(* The cards: CardInv, one lemma per action that changes what it is about. *)

\* The queues only grow, at their ends.
Later ==
    \A d \in Conns :
        /\ DOMAIN wire[d] \subseteq DOMAIN wire'[d]
        /\ \A i \in DOMAIN wire[d] : wire'[d][i] = wire[d][i]
        /\ \A j \in DOMAIN wire'[d] \ DOMAIN wire[d] : \A i \in DOMAIN wire[d] : i < j

\* A frame that is written comes after all others on its connection.
LEMMA WrittenLater ==
  ASSUME Shapes, NEW c \in Conns, NEW f \in FrameSet, Writes(c, f)
  PROVE  /\ Later
         /\ \A d \in Conns : \A j \in DOMAIN wire'[d] \ DOMAIN wire[d] : d = c /\ wire'[d][j] = f
         /\ \E j \in DOMAIN wire'[c] \ DOMAIN wire[c] : wire'[c][j] = f
<1> DEFINE q == wire[c]
           p == Append(q, f)
<1>1. q \in Seq(FrameSet) /\ wire'[c] = p /\ \A d \in Conns \ {c} : wire'[d] = wire[d]
  BY DEF Shapes, Writes
<1>2. wire[c] = q
  OBVIOUS
<1>3. /\ Len(q) \in Nat /\ DOMAIN q = 1..Len(q) /\ DOMAIN p = 1..(Len(q) + 1)
      /\ p[Len(q) + 1] = f /\ \A i \in 1..Len(q) : p[i] = q[i]
  <2> HIDE DEF q
  <2> QED
    BY <1>1
<1> HIDE DEF q, p
<1>4. DOMAIN p \ DOMAIN q = {Len(q) + 1}
  BY <1>3
<1>5. \A i \in DOMAIN q : i < Len(q) + 1
  BY <1>3
<1>6. DOMAIN q \subseteq DOMAIN p
  BY <1>3
<1> QED
  BY <1>1, <1>2, <1>3, <1>4, <1>5, <1>6, Zenon DEF Later
\* The same of two frames in a row.
LEMMA WrittenTwiceLater ==
  ASSUME Shapes, NEW c \in Conns, NEW f \in FrameSet, NEW g \in FrameSet, WritesTwo(c, f, g)
  PROVE  /\ Later
         /\ \A d \in Conns : \A j \in DOMAIN wire'[d] \ DOMAIN wire[d] :
                d = c /\ wire'[d][j] \in {f, g}
         /\ \E j \in DOMAIN wire'[c] \ DOMAIN wire[c] : wire'[c][j] = g
<1> DEFINE q == wire[c]
           p == Append(Append(q, f), g)
<1>1. q \in Seq(FrameSet) /\ wire'[c] = p /\ \A d \in Conns \ {c} : wire'[d] = wire[d]
  BY DEF Shapes, WritesTwo
<1>2. wire[c] = q
  OBVIOUS
<1>3. /\ Len(q) \in Nat /\ DOMAIN q = 1..Len(q) /\ DOMAIN p = 1..(Len(q) + 2)
      /\ p[Len(q) + 2] = g /\ p[Len(q) + 1] = f
      /\ \A i \in 1..Len(q) : p[i] = q[i]
  <2> HIDE DEF q
  <2> QED
    BY <1>1
<1> HIDE DEF q, p
<1>4. DOMAIN p \ DOMAIN q = {Len(q) + 1, Len(q) + 2}
  BY <1>3
<1>5. \A i \in DOMAIN q : i < Len(q) + 1 /\ i < Len(q) + 2
  BY <1>3
<1>6. DOMAIN q \subseteq DOMAIN p
  BY <1>3
<1> QED
  BY <1>1, <1>2, <1>3, <1>4, <1>5, <1>6, Zenon DEF Later

\* What a card shows, and what is on its way to it, stay as the queues grow.
LEMMA ShowingKept ==
  ASSUME NEW a \in Agents, NEW r \in Raws, Later, Showing(a, r), UNCHANGED <<shown, route>>,
         Asking(a, r) => Asking(a, r)'
  PROVE  Showing(a, r)'
<1>1. \A c \in Conns : Elements(wire[c]) \subseteq Elements(wire'[c])
  BY DEF Later, Elements
<1> QED
  BY <1>1 DEF Showing, Announced
\* ... unless the frame announces the card.
LEMMA ClearingKept ==
  ASSUME NEW a \in Agents, NEW r \in Raws, Later, Clearing(a, r), UNCHANGED <<shown, route>>,
         \A d \in Conns : \A j \in DOMAIN wire'[d] \ DOMAIN wire[d] :
             wire'[d][j] # Frame("required", a, r)
  PROVE  Clearing(a, r)'
<1>1. \A d \in Conns : \A j \in DOMAIN wire'[d] : wire'[d][j] = Frame("required", a, r) =>
          j \in DOMAIN wire[d] /\ wire[d][j] = Frame("required", a, r)
  BY Zenon DEF Later
<1>2. CASE Gone(a, r)
  <2>1. \A c \in Conns : Announced(c, a, r)' => Announced(c, a, r)
    BY <1>1 DEF Announced, Elements
  <2> QED
    BY <1>2, <2>1 DEF Clearing, Gone
<1>3. CASE \E c \in Conns : \E i \in DOMAIN wire[c] : Clears(c, i, a, r)
  <2>1. PICK c \in Conns : \E i \in DOMAIN wire[c] : Clears(c, i, a, r)
    BY <1>3
  <2>2. PICK i \in DOMAIN wire[c] : Clears(c, i, a, r)
    BY <2>1
  <2>3. i \in DOMAIN wire'[c] /\ Clears(c, i, a, r)'
    BY <1>1, <2>2, Zenon DEF Clears, Later
  <2> QED
    BY <2>3 DEF Clearing
<1> QED
  BY <1>2, <1>3 DEF Clearing

\* Steps that write no frame about an approval, none that says one is done, and change
\* no card keep the invariant.
LEMMA QuietStep ==
  ASSUME CardInv, Later, UNCHANGED <<raised, pending, asking, early, lost, shown, route>>, live' \in {live, None},
         \A d \in Conns : \A j \in DOMAIN wire'[d] \ DOMAIN wire[d] :
             wire'[d][j].kind \in {"register", "rejected"},
         \A k \in Consoles : req'[k].pc = "clean" => req'[k] = req[k]
  PROVE  CardInv'
<1>1. \A d \in Conns : \A f \in Elements(wire'[d]) :
          f \in Elements(wire[d]) \/ f.kind \in {"register", "rejected"}
  BY DEF Later, Elements
<1>2. \A a, r : Frame("required", a, r).kind = "required" /\ Frame("resolved", a, r).kind = "resolved"
  BY DEF Frame
<1>3. OverIsTrue'
  <2>1. \A r : IsOver(r) => IsOver(r)'
    BY DEF IsOver
  <2>2. (\A c \in Conns, a \in Agents, r \in Raws :
           Frame("resolved", a, r) \in Elements(wire[c]) => r \notin pending[a])'
    BY <1>1, <1>2 DEF CardInv, OverIsTrue
  <2>3. (\A c \in Conns : \A f \in Elements(wire[c]) : f.kind = "done" => IsOver(f.cmd.raw))'
    BY <1>1, <2>1 DEF CardInv, OverIsTrue
  <2>4. (\A k \in Consoles : req[k].pc = "clean" => IsOver(req[k].raw))'
    BY <2>1 DEF CardInv, OverIsTrue
  <2> QED
    BY <2>2, <2>3, <2>4 DEF OverIsTrue
<1>4. OnLive'
  BY <1>1, <1>2 DEF CardInv, OnLive, Announced
<1>6. AskingWaits'
  BY DEF CardInv, AskingWaits, Asking
<1>5. ASSUME NEW a \in Agents, NEW r \in Raws, Only(a, r)
      PROVE  IF r \in pending[a] THEN Showing(a, r)' ELSE Clearing(a, r)'
  <2>1. CASE r \in pending[a]
    <3>1. Asking(a, r)' <=> Asking(a, r)
      BY DEF Asking
    <3> QED
      BY <1>5, <2>1, <3>1, ShowingKept DEF CardInv, CardIsRight
  <2>2. CASE r \notin pending[a]
    BY <1>2, <1>5, <2>2, ClearingKept DEF CardInv, CardIsRight
  <2> QED
    BY <2>1, <2>2
<1> QED
  BY <1>3, <1>4, <1>5, <1>6 DEF CardInv, CardIsRight, Only

\* An approval whose frame is lost, or whose id two agents use, is no longer spoken of.
LEMMA FewerOnly ==
  ASSUME NEW a \in Agents, NEW r \in Raws, raised' = raised, lost \subseteq lost',
         early \subseteq early', Only(a, r)'
  PROVE  Only(a, r) /\ <<a, r>> \notin lost' \cup early'
  BY DEF Only

\* A connection is made: what is still unread belongs to no connection in use.
LEMMA ConnectCards ==
  ASSUME IInv, CardInv, NEW c \in Conns, Connect(c)
  PROVE  CardInv'
<1>1. /\ UNCHANGED <<raised, pending, asking, early, shown, route, wire, req>>
      /\ lost \subseteq lost'
  BY DEF Connect, hubVars, apiVars
<1>2. OverIsTrue'
  BY <1>1 DEF CardInv, OverIsTrue, IsOver
<1>3. ASSUME NEW d \in Conns, NEW a \in Agents, NEW r \in Raws, Announced(d, a, r)
      PROVE  <<a, r>> \in lost'
  <2>1. <<a, r>> \in Unread(d)
    BY <1>3 DEF Announced, Unread, About, Elements, Frame
  <2> QED
    BY <2>1 DEF Connect
<1>4. OnLive'
  BY <1>1, <1>3 DEF OnLive, Announced
<1>5. ASSUME NEW a \in Agents, NEW r \in Raws PROVE CardIsRight(a, r)'
  <2>1. /\ Showing(a, r)' <=> Showing(a, r)
        /\ Clearing(a, r)' <=> Clearing(a, r)
    BY <1>1 DEF Showing, Asking, Announced, Clearing, Gone, Clears
  <2> QED
    BY <1>1, <2>1, FewerOnly DEF CardInv, CardIsRight
<1>6. AskingWaits'
  BY <1>1 DEF CardInv, AskingWaits, Asking
<1> QED
  BY <1>2, <1>4, <1>5, <1>6 DEF CardInv

\* An agent asks: nothing was said before of what it asks for.
LEMMA RaiseCards ==
  ASSUME IInv, CardInv, NEW a \in Agents, NEW r \in Raws, Raise(a, r)
  PROVE  CardInv'
<1>1. /\ UNCHANGED <<shown, route, req, live, early, lost, wire>>
      /\ raised' = raised \cup {<<a, r>>} /\ <<a, r>> \notin raised
  BY DEF Raise, hubVars, apiVars, clientVars
<1>2. /\ \A b \in Agents \ {a} : pending'[b] = pending[b]
      /\ pending'[a] = pending[a] \cup {r}
  BY DEF Raise, IInv, TypeOK
<1>3. /\ Asking(a, r)' /\ ~ \E q : Asking(a, q)
      /\ \A b \in Agents \ {a} : asking'[b] = asking[b]
      /\ \A q : Asking(a, q)' => q = r
  BY DEF Raise, IInv, Shapes, Asking
<1>4. Later
  BY <1>1, Zenon DEF Later
<1>6. \A d \in Conns, b \in Agents, q \in Raws :
        Announced(d, b, q) \/ Frame("resolved", b, q) \in Elements(wire[d]) => <<b, q>> \in raised
  BY DEF Announced, Frame, IInv, AboutRaised
<1>7. OverIsTrue'
  <2>1. ASSUME NEW q, IsOver(q) PROVE IsOver(q)'
    <3>1. PICK b \in Agents : <<b, q>> \in raised /\ q \notin pending[b]
      BY <2>1 DEF IsOver
    <3>2. <<b, q>> # <<a, r>>
      BY <1>1, <3>1
    <3>3. q \notin pending'[b]
      BY <1>2, <3>1, <3>2
    <3> QED
      BY <1>1, <3>1, <3>3 DEF IsOver
  <2>2. (\A c \in Conns, b \in Agents, q \in Raws :
           Frame("resolved", b, q) \in Elements(wire[c]) => q \notin pending[b])'
    <3> SUFFICES ASSUME NEW c \in Conns, NEW b \in Agents, NEW q \in Raws,
                        Frame("resolved", b, q) \in Elements(wire[c])
                 PROVE  q \notin pending'[b]
      BY <1>1
    <3>2. <<b, q>> # <<a, r>> /\ q \notin pending[b]
      BY <1>1, <1>6 DEF CardInv, OverIsTrue
    <3> QED
      BY <1>2, <3>2
  <2>3. (\A c \in Conns : \A g \in Elements(wire[c]) : g.kind = "done" => IsOver(g.cmd.raw))'
    BY <1>1, <2>1 DEF CardInv, OverIsTrue
  <2>4. (\A k \in Consoles : req[k].pc = "clean" => IsOver(req[k].raw))'
    BY <1>1, <2>1 DEF CardInv, OverIsTrue
  <2> QED
    BY <2>2, <2>3, <2>4 DEF OverIsTrue
<1>8. OnLive'
  BY <1>1 DEF CardInv, OnLive, Announced
<1>10. AskingWaits'
  <2> SUFFICES ASSUME NEW b \in Agents, NEW q \in Raws, Asking(b, q)'
               PROVE  q \in pending'[b] \/ <<b, q>> \in early'
    BY DEF AskingWaits
  <2>1. CASE b = a
    BY <1>2, <1>3, <2>1
  <2>2. CASE b # a
    BY <1>1, <1>2, <1>3, <2>2 DEF CardInv, AskingWaits, Asking
  <2> QED
    BY <2>1, <2>2
<1>9. ASSUME NEW b \in Agents, NEW q \in Raws, Only(b, q)'
      PROVE  IF q \in pending'[b] THEN Showing(b, q)' ELSE Clearing(b, q)'
  <2>1. CASE b = a /\ q = r
    <3>2. q \in pending'[b] /\ Showing(b, q)'
      BY <1>2, <1>3, <2>1 DEF Showing
    <3> QED
      BY <3>2
  <2>2. CASE ~(b = a /\ q = r)
    <3>1. Only(b, q) /\ (q \in pending'[b] <=> q \in pending[b])
      BY <1>1, <1>2, <1>9, <2>2 DEF Only
    <3>2. CASE q \in pending[b]
      <4>1. Asking(b, q) => Asking(b, q)'
        BY <1>3 DEF Asking
      <4> QED
        BY <1>1, <1>4, <3>1, <3>2, <4>1, ShowingKept DEF CardInv, CardIsRight
    <3>3. CASE q \notin pending[b]
      BY <1>1, <1>4, <3>1, <3>3, ClearingKept DEF CardInv, CardIsRight
    <3> QED
      BY <3>1, <3>2, <3>3
  <2> QED
    BY <2>1, <2>2
<1> QED
  BY <1>7, <1>8, <1>9, <1>10 DEF CardInv, CardIsRight

\* A frame that asks is written to the connection in use, or it is lost: the approval
\* waits for an answer, or it is noted.
LEMMA AsksCards ==
  ASSUME IInv, CardInv, NEW a \in Agents, NEW r \in Raws, Asking(a, r),
         Announce(a) \/ Require(a)
  PROVE  CardInv'
<1> USE ApprovalsAssumption
<1> DEFINE f == Frame("required", a, r)
<1>1. /\ UNCHANGED <<raised, pending, early, live, shown, route, req>> /\ lost \subseteq lost'
      /\ Shapes /\ live \in Conns \cup {None}
  BY DEF Announce, Require, clientVars, hubVars, apiVars, IInv, TypeOK
<1>2. /\ f \in FrameSet /\ f.kind = "required"
      /\ \A b, q : f # Frame("resolved", b, q)
      /\ \A b \in Agents, q \in Raws : f = Frame("required", b, q) => b = a /\ q = r
  BY DEF FrameSet, Frame
<1>3. /\ \A b \in Agents : \A q : Asking(b, q)' => Asking(b, q)
      /\ \A b \in Agents : \A q : Asking(b, q) /\ ~(b = a /\ q = r) => Asking(b, q)'
  <2>1. PICK e : asking' = [asking EXCEPT ![a] = e] /\ e \in {Idle, [asking[a] EXCEPT !.pc = "announced"]}
    BY DEF Announce, Require
  <2>2. asking[a] \in Raising
    BY <1>1, AskingShape DEF Asking
  <2>3. e.pc # "idle" => e.raw = asking[a].raw
    BY <2>1, <2>2 DEF Idle
  <2>4. asking'[a] = e /\ \A b \in Agents \ {a} : asking'[b] = asking[b]
    BY <1>1, <2>1 DEF Shapes
  <2>5. asking[a].pc # "idle" /\ asking[a].raw = r
    BY DEF Asking
  <2>6. \A q : Asking(a, q)' => Asking(a, q)
    BY <2>3, <2>4, <2>5 DEF Asking
  <2>7. \A b \in Agents \ {a} : \A q : Asking(b, q)' <=> Asking(b, q)
    BY <2>4 DEF Asking
  <2>8. \A q : Asking(a, q) => q = r
    BY <2>5 DEF Asking
  <2> QED
    BY <2>6, <2>7, <2>8
<1>4. \/ UNCHANGED wire /\ (Asking(a, r)' \/ <<a, r>> \in lost')
      \/ live \in Conns /\ Writes(live, f)
  <2>1. CASE Announce(a)
    <3>1. Asking(a, r)'
      BY <2>1, AskingShape DEF Announce, Asking, IInv, Shapes
    <3> QED
      BY <1>1, <2>1, <3>1 DEF Announce, Asking, Writes
  <2>2. CASE Require(a)
    BY <1>1, <2>2 DEF Require, Asking, Writes
  <2> QED
    BY <2>1, <2>2
<1> HIDE DEF f
<1>5. /\ Later
      /\ \A d \in Conns : \A j \in DOMAIN wire'[d] \ DOMAIN wire[d] : d = live /\ wire'[d][j] = f
      /\ Asking(a, r)' \/ <<a, r>> \in lost' \/ (live \in Conns /\ f \in Elements(wire'[live]))
  <2>1. CASE UNCHANGED wire /\ (Asking(a, r)' \/ <<a, r>> \in lost')
    BY <2>1, Zenon DEF Later
  <2>2. CASE live \in Conns /\ Writes(live, f)
    <3>2. PICK c \in Conns : c = live
      BY <2>2
    <3>3. /\ Later
          /\ \A d \in Conns : \A j \in DOMAIN wire'[d] \ DOMAIN wire[d] : d = c /\ wire'[d][j] = f
          /\ \E j \in DOMAIN wire'[c] \ DOMAIN wire[c] : wire'[c][j] = f
      BY <1>1, <1>2, <2>2, <3>2, WrittenLater
    <3> QED
      BY <3>2, <3>3 DEF Elements
  <2> QED
    BY <1>4, <2>1, <2>2
<1>6. \A d \in Conns : \A g \in Elements(wire'[d]) : g \in Elements(wire[d]) \/ (d = live /\ g = f)
  BY <1>5 DEF Later, Elements
<1>7. OverIsTrue'
  <2>1. \A q : IsOver(q) => IsOver(q)'
    BY <1>1 DEF IsOver
  <2>2. (\A c \in Conns, b \in Agents, q \in Raws :
           Frame("resolved", b, q) \in Elements(wire[c]) => q \notin pending[b])'
    BY <1>1, <1>2, <1>6 DEF CardInv, OverIsTrue
  <2>3. (\A c \in Conns : \A g \in Elements(wire[c]) : g.kind = "done" => IsOver(g.cmd.raw))'
    BY <1>2, <1>6, <2>1 DEF CardInv, OverIsTrue
  <2>4. (\A k \in Consoles : req[k].pc = "clean" => IsOver(req[k].raw))'
    BY <1>1, <2>1 DEF CardInv, OverIsTrue
  <2> QED
    BY <2>2, <2>3, <2>4 DEF OverIsTrue
<1>8. OnLive'
  <2> SUFFICES ASSUME NEW c \in Conns, NEW b \in Agents, NEW q \in Raws,
                      Announced(c, b, q)', <<b, q>> \notin lost'
               PROVE  live' \in {c, None}
    BY DEF OnLive
  <2>1. Announced(c, b, q) \/ c = live
    BY <1>6 DEF Announced
  <2> QED
    BY <1>1, <2>1 DEF CardInv, OnLive
<1>9. AskingWaits'
  BY <1>1, <1>3 DEF CardInv, AskingWaits
<1>10. ASSUME NEW b \in Agents, NEW q \in Raws, Only(b, q)'
       PROVE  IF q \in pending'[b] THEN Showing(b, q)' ELSE Clearing(b, q)'
  <2>1. Only(b, q) /\ <<b, q>> \notin lost' \cup early'
    BY <1>1, <1>10, FewerOnly
  <2>2. CASE b = a /\ q = r
    <3>1. q \in pending'[b]
      BY <1>1, <2>1, <2>2 DEF CardInv, AskingWaits
    <3>2. Asking(a, r)' \/ \E c \in Conns : f \in Elements(wire'[c])
      BY <1>5, <2>1, <2>2
    <3>3. Showing(b, q)'
      BY <2>2, <3>2 DEF Showing, Announced, f
    <3> QED
      BY <3>1, <3>3
  <2>3. CASE ~(b = a /\ q = r)
    <3>1. CASE q \in pending[b]
      <4>1. Asking(b, q) => Asking(b, q)'
        BY <1>3, <2>3
      <4> QED
        BY <1>1, <1>5, <2>1, <3>1, <4>1, ShowingKept DEF CardInv, CardIsRight
    <3>2. CASE q \notin pending[b]
      <4>1. f # Frame("required", b, q)
        BY <1>2, <2>3
      <4> QED
        BY <1>1, <1>5, <2>1, <3>2, <4>1, ClearingKept DEF CardInv, CardIsRight
    <3> QED
      BY <3>1, <3>2
  <2> QED
    BY <2>2, <2>3
<1> QED
  BY <1>7, <1>8, <1>9, <1>10 DEF CardInv, CardIsRight

\* An approval is forgotten by its agent and frames that say so, if any, are written to
\* the connection in use; where none is, it counts as lost.
LEMMA OverCards ==
  ASSUME IInv, CardInv, NEW a \in Agents, NEW r \in Raws, <<a, r>> \in raised, Later,
         UNCHANGED <<raised, asking, live, shown, route, req>>, lost \subseteq lost',
         early \subseteq early', Asking(a, r) => <<a, r>> \in early',
         pending' = [pending EXCEPT ![a] = @ \ {r}],
         \A d \in Conns : \A j \in DOMAIN wire'[d] \ DOMAIN wire[d] :
             \/ wire'[d][j] = Frame("resolved", a, r)
             \/ wire'[d][j].kind = "done" /\ wire'[d][j].cmd.raw = r,
         \/ <<a, r>> \in lost'
         \/ live \in Conns /\ \E j \in DOMAIN wire'[live] \ DOMAIN wire[live] :
               wire'[live][j] = Frame("resolved", a, r)
  PROVE  CardInv'
<1>1. /\ \A b \in Agents \ {a} : pending'[b] = pending[b]
      /\ pending'[a] = pending[a] \ {r}
  BY DEF IInv, TypeOK
<1>2. \A b, q : /\ Frame("required", b, q).kind = "required"
                /\ Frame("resolved", b, q).kind = "resolved"
                /\ Frame("resolved", b, q).agent = b /\ Frame("resolved", b, q).raw = q
  BY DEF Frame
<1>3. \A d \in Conns : \A g \in Elements(wire'[d]) :
          \/ g \in Elements(wire[d])
          \/ g = Frame("resolved", a, r) 
          \/ g.kind = "done" /\ g.cmd.raw = r
  BY DEF Later, Elements
<1>4. \A d \in Conns, b \in Agents, q \in Raws : Announced(d, b, q)' => Announced(d, b, q)
  BY <1>2, <1>3 DEF Announced
<1>5. OverIsTrue'
  <2>1. \A q : IsOver(q) => IsOver(q)'
    BY <1>1 DEF IsOver
  <2>2. IsOver(r)'
    BY <1>1 DEF IsOver
  <2>3. (\A c \in Conns, b \in Agents, q \in Raws :
           Frame("resolved", b, q) \in Elements(wire[c]) => q \notin pending[b])'
    <3> SUFFICES ASSUME NEW c \in Conns, NEW b \in Agents, NEW q \in Raws,
                        Frame("resolved", b, q) \in Elements(wire'[c])
                 PROVE  q \notin pending'[b]
      OBVIOUS
    <3>1. Frame("resolved", b, q) \in Elements(wire[c]) \/ (b = a /\ q = r)
      BY <1>2, <1>3
    <3> QED
      BY <1>1, <3>1 DEF CardInv, OverIsTrue
  <2>4. (\A c \in Conns : \A g \in Elements(wire[c]) : g.kind = "done" => IsOver(g.cmd.raw))'
    BY <1>2, <1>3, <2>1, <2>2 DEF CardInv, OverIsTrue
  <2>5. (\A k \in Consoles : req[k].pc = "clean" => IsOver(req[k].raw))'
    BY <2>1 DEF CardInv, OverIsTrue
  <2> QED
    BY <2>3, <2>4, <2>5 DEF OverIsTrue
<1>6. OnLive'
  BY <1>4 DEF CardInv, OnLive
<1>8. AskingWaits'
  <2> SUFFICES ASSUME NEW b \in Agents, NEW q \in Raws, Asking(b, q)
               PROVE  q \in pending'[b] \/ <<b, q>> \in early'
    BY DEF AskingWaits, Asking
  <2> QED
    BY <1>1 DEF CardInv, AskingWaits
<1>7. ASSUME NEW b \in Agents, NEW q \in Raws, Only(b, q)'
      PROVE  IF q \in pending'[b] THEN Showing(b, q)' ELSE Clearing(b, q)'
  <2>1. Only(b, q) /\ <<b, q>> \notin lost'
    BY <1>7, FewerOnly
  <2>2. \A d \in Conns : \A j \in DOMAIN wire'[d] \ DOMAIN wire[d] :
            wire'[d][j] # Frame("required", b, q)
    BY <1>2
  <2>3. CASE b = a /\ q = r
    <3>1. PICK c \in Conns : c = live
      BY <2>1, <2>3
    <3>2. PICK i \in DOMAIN wire'[c] \ DOMAIN wire[c] : wire'[c][i] = Frame("resolved", a, r)
      BY <2>1, <2>3, <3>1
    <3>3. ASSUME NEW d \in Conns, NEW j \in DOMAIN wire'[d],
                 wire'[d][j] = Frame("required", a, r)
          PROVE  d = c /\ j < i
      <4>1. j \in DOMAIN wire[d] /\ wire[d][j] = Frame("required", a, r)
        BY <2>2, <2>3, <3>3 DEF Later
      <4>2. Announced(d, a, r)
        BY <4>1 DEF Announced, Elements
      <4>3. d = c
        BY <2>1, <2>3, <3>1, <4>2, ApprovalsAssumption DEF CardInv, OnLive
      <4> QED
        BY <3>2, <4>1, <4>3 DEF Later
    <3>4. Clears(c, i, a, r)'
      BY <3>2, <3>3 DEF Clears
    <3>5. Clearing(a, r)'
      BY <3>2, <3>4 DEF Clearing
    <3> QED
      BY <1>1, <2>3, <3>5
  <2>4. CASE ~(b = a /\ q = r)
    <3>1. q \in pending'[b] <=> q \in pending[b]
      BY <1>1, <2>4
    <3>2. CASE q \in pending[b]
      <4>1. Asking(b, q)' <=> Asking(b, q)
        BY DEF Asking
      <4> QED
        BY <2>1, <3>1, <3>2, <4>1, ShowingKept DEF CardInv, CardIsRight
    <3>3. CASE q \notin pending[b]
      BY <2>1, <2>2, <3>1, <3>3, ClearingKept DEF CardInv, CardIsRight
    <3> QED
      BY <3>1, <3>2, <3>3
  <2> QED
    BY <2>3, <2>4
<1> QED
  BY <1>5, <1>6, <1>7, <1>8 DEF CardInv, CardIsRight

\* An agent settles its request itself.
LEMMA SettlesItselfCards ==
  ASSUME IInv, CardInv, NEW a \in Agents, NEW r \in Raws, SettlesItself(a, r)
  PROVE  CardInv'
<1> DEFINE f == Frame("resolved", a, r)
<1>1. /\ UNCHANGED <<raised, asking, live, shown, route, req>> /\ <<a, r>> \in raised
      /\ early' = early /\ ~Asking(a, r)
      /\ pending' = [pending EXCEPT ![a] = @ \ {r}] /\ Resolved(live, a, r)
  BY DEF SettlesItself, Asking, hubVars, apiVars, IInv, TypeOK
<1>2. CASE live = None
  <2>1. Later /\ \A d \in Conns : DOMAIN wire'[d] = DOMAIN wire[d]
    BY <1>1, <1>2 DEF Resolved, Later
  <2>2. lost \subseteq lost' /\ <<a, r>> \in lost'
    BY <1>1, <1>2 DEF Resolved
  <2> QED
    BY <1>1, <2>1, <2>2, OverCards
<1>3. CASE live # None
  <2>1. live \in Conns /\ Writes(live, f) /\ lost' = lost /\ f \in FrameSet
    BY <1>1, <1>3 DEF Resolved, Writes, IInv, TypeOK, FrameSet, Frame
  <2> HIDE DEF f
  <2>2. PICK c \in Conns : c = live
    BY <2>1
  <2>3. /\ Later
        /\ \A d \in Conns : \A j \in DOMAIN wire'[d] \ DOMAIN wire[d] : d = c /\ wire'[d][j] = f
        /\ \E j \in DOMAIN wire'[c] \ DOMAIN wire[c] : wire'[c][j] = f
    BY <2>1, <2>2, WrittenLater DEF IInv
  <2>4. \A d \in Conns : \A j \in DOMAIN wire'[d] \ DOMAIN wire[d] :
            \/ wire'[d][j] = Frame("resolved", a, r)
            \/ wire'[d][j].kind = "done" /\ wire'[d][j].cmd.raw = r
    BY <2>3 DEF f
  <2>5. \E j \in DOMAIN wire'[live] \ DOMAIN wire[live] :
            wire'[live][j] = Frame("resolved", a, r)
    BY <2>2, <2>3 DEF f
  <2>6. Later /\ lost \subseteq lost' /\ live \in Conns
    BY <2>1, <2>3
  <2> QED
    BY <1>1, <2>4, <2>5, <2>6, OverCards
<1> QED
  BY <1>2, <1>3

\* The loop reports that an approval has been answered.
LEMMA ReportCards ==
  ASSUME IInv, CardInv, NEW c \in Conns, Report(c)
  PROVE  CardInv'
<1> DEFINE msg == loop[c].cmd
           a == loop[c].agent
           r == msg.raw
           done == [kind |-> "done", cmd |-> msg]
           f == Frame("resolved", a, r)
<1>1. /\ loop[c].pc = "answered" /\ msg \in Command /\ a \in Agents /\ <<a, r>> \in raised
      /\ r \in Raws
  BY LoopShape DEF Report, IInv, AboutRaised, Command
<1>2. /\ UNCHANGED <<raised, asking, live, shown, route, req>>
      /\ pending' = [pending EXCEPT ![a] = @ \ {r}]
      /\ early \subseteq early' /\ (Asking(a, r) => <<a, r>> \in early')
  BY DEF Report, hubVars, apiVars, Forgotten
<1>3. done \in FrameSet /\ f \in FrameSet /\ done.kind = "done" /\ done.cmd.raw = r
  BY <1>1 DEF FrameSet, Frame
<1>4. \/ live = c /\ WritesTwo(c, done, f) /\ lost' = lost
      \/ live # c /\ lost' = lost \cup {<<a, r>>} /\ UNCHANGED wire
      \/ live # c /\ lost' = lost \cup {<<a, r>>} /\ live # None /\ Writes(live, f)
  BY DEF Report, Writes, WritesTwo
<1>5. Shapes /\ live \in Conns \cup {None}
  BY DEF IInv, TypeOK
<1> HIDE DEF msg, a, r, done, f
<1>6. /\ Later /\ lost \subseteq lost'
      /\ \A d \in Conns : \A j \in DOMAIN wire'[d] \ DOMAIN wire[d] : wire'[d][j] \in {done, f}
      /\ \/ <<a, r>> \in lost'
         \/ live \in Conns /\ \E j \in DOMAIN wire'[live] \ DOMAIN wire[live] : wire'[live][j] = f
  <2>1. CASE live = c /\ WritesTwo(c, done, f) /\ lost' = lost
    <3>1. /\ Later
          /\ \A d \in Conns : \A j \in DOMAIN wire'[d] \ DOMAIN wire[d] :
                 d = c /\ wire'[d][j] \in {done, f}
          /\ \E j \in DOMAIN wire'[c] \ DOMAIN wire[c] : wire'[c][j] = f
      BY <1>3, <1>5, <2>1, WrittenTwiceLater
    <3> QED
      BY <2>1, <3>1
  <2>2. CASE live # c /\ lost' = lost \cup {<<a, r>>} /\ UNCHANGED wire
    BY <2>2 DEF Later
  <2>3. CASE live # c /\ lost' = lost \cup {<<a, r>>} /\ live # None /\ Writes(live, f)
    <3>1. PICK e \in Conns : e = live
      BY <1>5, <2>3
    <3>2. /\ Later
          /\ \A d \in Conns : \A j \in DOMAIN wire'[d] \ DOMAIN wire[d] : d = e /\ wire'[d][j] = f
      BY <1>3, <1>5, <2>3, <3>1, WrittenLater
    <3> QED
      BY <2>3, <3>2
  <2> QED
    BY <1>4, <2>1, <2>2, <2>3
<1>7. \A d \in Conns : \A j \in DOMAIN wire'[d] \ DOMAIN wire[d] :
        \/ wire'[d][j] = Frame("resolved", a, r)
        \/ wire'[d][j].kind = "done" /\ wire'[d][j].cmd.raw = r
  BY <1>3, <1>6 DEF f
<1>8. \/ <<a, r>> \in lost'
      \/ live \in Conns /\ \E j \in DOMAIN wire'[live] \ DOMAIN wire[live] :
            wire'[live][j] = Frame("resolved", a, r)
  BY <1>6 DEF f
<1> QED
  BY <1>1, <1>2, <1>6, <1>7, <1>8, OverCards

\* The hub cleans up after a connection: what was unread is lost.
LEMMA DisconnectCards ==
  ASSUME IInv, CardInv, NEW c \in Conns, Disconnect(c)
  PROVE  CardInv'
<1>1. /\ UNCHANGED <<raised, pending, asking, early, shown, route, live>>
      /\ lost' = lost \cup Unread(c)
      /\ wire'[c] = <<>> /\ \A d \in Conns \ {c} : wire'[d] = wire[d]
      /\ \A k \in Consoles : req'[k].pc = "clean" => req'[k] = req[k]
  BY DEF Disconnect, hubVars, apiVars, clientVars, IInv, Shapes, Idle
<1>2. Elements(wire'[c]) = {} /\ DOMAIN wire'[c] = {}
  BY <1>1 DEF Elements
<1>3. \A d \in Conns : Elements(wire'[d]) \subseteq Elements(wire[d])
  BY <1>1, <1>2
<1>4. OverIsTrue'
  <2>1. \A r : IsOver(r) => IsOver(r)'
    BY <1>1 DEF IsOver
  <2>2. (\A d \in Conns, a \in Agents, r \in Raws :
           Frame("resolved", a, r) \in Elements(wire[d]) => r \notin pending[a])'
    BY <1>1, <1>3 DEF CardInv, OverIsTrue
  <2>3. (\A d \in Conns : \A f \in Elements(wire[d]) : f.kind = "done" => IsOver(f.cmd.raw))'
    BY <1>3, <2>1 DEF CardInv, OverIsTrue
  <2>4. (\A k \in Consoles : req[k].pc = "clean" => IsOver(req[k].raw))'
    BY <1>1, <2>1 DEF CardInv, OverIsTrue
  <2> QED
    BY <2>2, <2>3, <2>4 DEF OverIsTrue
<1>5. OnLive'
  BY <1>1, <1>3 DEF CardInv, OnLive, Announced
<1>6. ASSUME NEW a \in Agents, NEW r \in Raws, Only(a, r)'
      PROVE  IF r \in pending[a] THEN Showing(a, r)' ELSE Clearing(a, r)'
  <2>1. Only(a, r) /\ <<a, r>> \notin Unread(c)
    BY <1>1, <1>6 DEF Only
  <2>2. \A j \in DOMAIN wire[c] :
            wire[c][j] # Frame("required", a, r) /\ wire[c][j] # Frame("resolved", a, r)
    BY <2>1 DEF Unread, About, Frame
  <2>3. CASE r \in pending[a]
    <3>1. Showing(a, r) /\ ~Announced(c, a, r)
      BY <2>1, <2>2, <2>3 DEF CardInv, CardIsRight, Announced, Elements
    <3>2. \A d \in Conns : Announced(d, a, r) => Announced(d, a, r)'
      BY <1>1, <3>1 DEF Announced
    <3>3. Showing(a, r)'
      BY <1>1, <3>1, <3>2 DEF Showing, Asking
    <3> QED
      BY <2>3, <3>3
  <2>4. CASE r \notin pending[a]
    <3>1. Clearing(a, r)
      BY <2>1, <2>4 DEF CardInv, CardIsRight
    <3>2. CASE Gone(a, r)
      BY <1>1, <1>3, <2>4, <3>2 DEF Clearing, Gone, Announced
    <3>3. CASE \E d \in Conns : \E i \in DOMAIN wire[d] : Clears(d, i, a, r)
      <4>1. PICK d \in Conns : \E i \in DOMAIN wire[d] : Clears(d, i, a, r)
        BY <3>3
      <4>2. PICK i \in DOMAIN wire[d] : Clears(d, i, a, r)
        BY <4>1
      <4>3. d # c
        BY <2>2, <4>2 DEF Clears
      <4>4. \A e \in Conns : \A j \in DOMAIN wire'[e] :
                j \in DOMAIN wire[e] /\ wire'[e][j] = wire[e][j]
        BY <1>1, <1>2
      <4>5. wire'[d] = wire[d] /\ Clears(d, i, a, r)'
        <5>1. wire'[d] = wire[d]
          BY <1>1, <4>3
        <5>2. wire[d][i] = Frame("resolved", a, r)
          BY <4>2 DEF Clears
        <5>3. ASSUME NEW e \in Conns, NEW j \in DOMAIN wire'[e],
                     wire'[e][j] = Frame("required", a, r)
              PROVE  e = d /\ j < i
          <6>1. j \in DOMAIN wire[e] /\ wire[e][j] = Frame("required", a, r)
            BY <4>4, <5>3
          <6> QED
            BY <4>2, <6>1 DEF Clears
        <5> QED
          BY <5>1, <5>2, <5>3 DEF Clears
      <4>6. Clearing(a, r)'
        BY <4>5 DEF Clearing
      <4> QED
        BY <2>4, <4>6
    <3> QED
      BY <3>1, <3>2, <3>3 DEF Clearing
  <2> QED
    BY <2>3, <2>4
<1>7. AskingWaits'
  BY <1>1 DEF CardInv, AskingWaits, Asking
<1> QED
  BY <1>1, <1>4, <1>5, <1>6, <1>7 DEF CardInv, CardIsRight

\* A console is told 200: the approval is over, and its card can go.
LEMMA CleanCards ==
  ASSUME IInv, CardInv, NEW k \in Consoles, Clean(k)
  PROVE  CardInv'
<1> USE ApprovalsAssumption
<1> DEFINE q == req[k].raw
<1>1. /\ UNCHANGED <<raised, pending, asking, early, lost, live, wire>> /\ q \in Raws
      /\ route' = route \ {q} /\ shown' = [shown EXCEPT ![q] = None]
      /\ \A j \in Consoles : req'[j].pc = "clean" => req'[j] = req[j]
  BY ReqShape DEF Clean, agentVars, clientVars, IInv, Shapes, Idle
<1>2. IsOver(q)
  BY DEF CardInv, OverIsTrue, Clean
<1> HIDE DEF q
<1>3. OverIsTrue'
  <2>1. \A r : IsOver(r) => IsOver(r)'
    BY <1>1 DEF IsOver
  <2>2. (\A d \in Conns, a \in Agents, r \in Raws :
           Frame("resolved", a, r) \in Elements(wire[d]) => r \notin pending[a])'
    BY <1>1 DEF CardInv, OverIsTrue
  <2>3. (\A d \in Conns : \A f \in Elements(wire[d]) : f.kind = "done" => IsOver(f.cmd.raw))'
    BY <1>1, <2>1 DEF CardInv, OverIsTrue
  <2>4. (\A j \in Consoles : req[j].pc = "clean" => IsOver(req[j].raw))'
    BY <1>1, <2>1 DEF CardInv, OverIsTrue
  <2> QED
    BY <2>2, <2>3, <2>4 DEF OverIsTrue
<1>4. OnLive'
  BY <1>1 DEF CardInv, OnLive, Announced
<1>6. AskingWaits'
  BY <1>1 DEF CardInv, AskingWaits, Asking
<1>5. ASSUME NEW a \in Agents, NEW r \in Raws, Only(a, r)
      PROVE  IF r \in pending[a] THEN Showing(a, r)' ELSE Clearing(a, r)'
  <2>1. CASE r \in pending[a]
    <3>1. r # q
      BY <1>2, <1>5, <2>1 DEF IsOver, Only
    <3>2. shown'[r] = shown[r] /\ (r \in route' <=> r \in route)
      BY <1>1, <3>1 DEF IInv, TypeOK
    <3> QED
      BY <1>1, <1>5, <2>1, <3>2 DEF CardInv, CardIsRight, Showing, Asking, Announced
  <2>2. CASE r \notin pending[a]
    <3>1. shown'[r] \in {shown[r], None} /\ (r \in route' => r \in route)
      BY <1>1 DEF IInv, TypeOK
    <3>2. Clearing(a, r) /\ a # None
      BY <1>5, <2>2 DEF CardInv, CardIsRight
    <3>3. Gone(a, r) => Gone(a, r)'
      BY <1>1, <3>1, <3>2 DEF Gone, Announced
    <3>4. \A d, i : Clears(d, i, a, r) => Clears(d, i, a, r)'
      BY <1>1 DEF Clears
    <3> QED
      BY <1>1, <2>2, <3>2, <3>3, <3>4 DEF Clearing
  <2> QED
    BY <2>1, <2>2
<1> QED
  BY <1>1, <1>3, <1>4, <1>5, <1>6 DEF CardInv, CardIsRight, Only

\* Where the frames behind the head of a queue are.
LEMMA TailPlaces ==
  ASSUME NEW S, NEW q \in Seq(S), q # <<>>
  PROVE  /\ 1 \in DOMAIN q /\ q[1] = Head(q) /\ DOMAIN q \subseteq Nat \ {0}
         /\ \A i \in DOMAIN q : i # 1 => i - 1 \in DOMAIN Tail(q) /\ Tail(q)[i - 1] = q[i]
         /\ \A i \in DOMAIN Tail(q) : i \in Nat /\ i + 1 \in DOMAIN q /\ Tail(q)[i] = q[i + 1]
  OBVIOUS

\* The hub reads a frame: it shows or clears the card the frame is about.
LEMMA ReadFrameCards ==
  ASSUME IInv, CardInv, NEW c \in Conns, ReadFrame(c)
  PROVE  CardInv'
<1> USE ApprovalsAssumption
<1> DEFINE q == wire[c]
           f == Head(q)
<1>1. /\ q \in Seq(FrameSet) /\ q # <<>> /\ wire'[c] = Tail(q)
      /\ \A d \in Conns \ {c} : wire'[d] = wire[d]
      /\ UNCHANGED <<raised, pending, asking, early, live>> /\ lost \subseteq lost'
  BY DEF ReadFrame, IInv, Shapes, clientVars
<1>2. f \in FrameSet /\ f \in Elements(q) /\ Elements(Tail(q)) \subseteq Elements(q)
  BY <1>1, TailElements
<1>3. \/ UNCHANGED <<shown, route, lost>> /\ f.kind \notin {"required", "resolved"}
      \/ UNCHANGED <<shown, route>> /\ lost' = lost \cup About({f})
      \/ f.kind = "required" /\ shown' = [shown EXCEPT ![f.raw] = f.agent] /\ route' = route \cup {f.raw}
      \/ f.kind = "resolved" /\ shown' = [shown EXCEPT ![f.raw] = None] /\ route' = route \ {f.raw}
  BY DEF ReadFrame, hubVars
<1>4. \A k \in Consoles : req'[k].pc = "clean" =>
        \/ req'[k] = req[k]
        \/ f.kind = "done" /\ req'[k].raw = f.cmd.raw
  <2> SUFFICES ASSUME NEW k \in Consoles, req'[k].pc = "clean", req'[k] # req[k]
               PROVE  f.kind = "done" /\ req'[k].raw = f.cmd.raw
    OBVIOUS
  <2>1. /\ req[k].pc = "waiting" /\ f.kind = "done" /\ req[k].id = f.cmd.id
        /\ req'[k] = [req[k] EXCEPT !.pc = "clean"]
    BY DEF ReadFrame, Answered, Idle
  <2>2. req[k] \in Asked /\ req'[k].raw = req[k].raw
    BY <2>1, ReqShape DEF IInv
  <2> DEFINE m == [raw |-> req[k].raw, id |-> req[k].id]
  <2>3. m \in Command /\ Underway(m)
    BY <2>1, <2>2 DEF Command, Underway
  <2>4. f.cmd \in Command /\ Underway(f.cmd)
    BY <1>2, <2>1, FrameShape DEF Underway
  <2>5. m.raw = f.cmd.raw
    BY <2>1, <2>3, <2>4 DEF IInv, IdsAgree
  <2> QED
    BY <2>1, <2>2, <2>5
<1>5. /\ f.kind \in {"required", "resolved"} =>
          /\ f.agent \in Agents /\ f.raw \in Raws /\ <<f.agent, f.raw>> \in raised
          /\ f = Frame(f.kind, f.agent, f.raw)
  <2>1. CASE f \in [kind : {"required", "resolved"}, agent : Agents, raw : Raws]
    BY <1>2, <2>1 DEF Frame, IInv, AboutRaised
  <2>2. CASE f \in [kind : {"done", "rejected"}, cmd : Command] \/ f = [kind |-> "register"]
    BY <2>2
  <2> QED
    BY <1>2, <2>1, <2>2 DEF FrameSet
<1>6. /\ \A d \in Conns : Elements(wire'[d]) \subseteq Elements(wire[d])
      /\ \A d \in Conns : \A g \in Elements(wire[d]) : g # f => g \in Elements(wire'[d])
  <2>1. \A g \in Elements(q) : g # f => g \in Elements(Tail(q))
    <3> SUFFICES ASSUME NEW g \in Elements(q), g # f PROVE g \in Elements(Tail(q))
      OBVIOUS
    <3>1. PICK i \in DOMAIN q : g = q[i]
      BY DEF Elements
    <3>2. i - 1 \in DOMAIN Tail(q) /\ Tail(q)[i - 1] = g
      BY <1>1, <3>1, TailPlaces
    <3> QED
      BY <3>2 DEF Elements
  <2> QED
    BY <1>1, <1>2, <2>1
<1>7. /\ 1 \in DOMAIN q /\ q[1] = f /\ DOMAIN q \subseteq Nat \ {0}
      /\ \A i \in DOMAIN q : i # 1 => i - 1 \in DOMAIN Tail(q) /\ Tail(q)[i - 1] = q[i]
      /\ \A i \in DOMAIN Tail(q) : i \in Nat /\ i + 1 \in DOMAIN q /\ Tail(q)[i] = q[i + 1]
  BY <1>1, TailPlaces
<1>8. OverIsTrue'
  <2>1. \A r : IsOver(r) => IsOver(r)'
    BY <1>1 DEF IsOver
  <2>2. (\A d \in Conns, a \in Agents, r \in Raws :
           Frame("resolved", a, r) \in Elements(wire[d]) => r \notin pending[a])'
    BY <1>1, <1>6 DEF CardInv, OverIsTrue
  <2>3. (\A d \in Conns : \A g \in Elements(wire[d]) : g.kind = "done" => IsOver(g.cmd.raw))'
    BY <1>6, <2>1 DEF CardInv, OverIsTrue
  <2>4. (\A k \in Consoles : req[k].pc = "clean" => IsOver(req[k].raw))'
    BY <1>2, <1>4, <2>1 DEF CardInv, OverIsTrue
  <2> QED
    BY <2>2, <2>3, <2>4 DEF OverIsTrue
<1>9. OnLive'
  BY <1>1, <1>6 DEF CardInv, OnLive, Announced
<1>10. ASSUME NEW a \in Agents, NEW r \in Raws, Only(a, r)'
       PROVE  IF r \in pending[a] THEN Showing(a, r)' ELSE Clearing(a, r)'
  <2>1. Only(a, r) /\ <<a, r>> \notin lost'
    BY <1>1, <1>10, FewerOnly
  <2>2. f.kind \in {"required", "resolved"} /\ f.raw = r => f = Frame(f.kind, a, r)
    BY <1>5, <2>1 DEF Only
  <2>3. \A kind : Frame(kind, a, r).kind = kind /\ Frame(kind, a, r).agent = a /\ Frame(kind, a, r).raw = r
    BY DEF Frame
  <2>4. f = Frame("required", a, r) => shown'[r] = a /\ r \in route'
    <3> SUFFICES ASSUME f = Frame("required", a, r) PROVE shown'[r] = a /\ r \in route'
      OBVIOUS
    <3>1. <<a, r>> \in About({f})
      BY <2>3 DEF About
    <3>2. shown' = [shown EXCEPT ![r] = a] /\ route' = route \cup {r}
      BY <1>3, <2>1, <2>3, <3>1
    <3> QED
      BY <3>2 DEF IInv, TypeOK
  <2>5. f = Frame("resolved", a, r) => shown'[r] = None /\ r \notin route'
    <3> SUFFICES ASSUME f = Frame("resolved", a, r) PROVE shown'[r] = None /\ r \notin route'
      OBVIOUS
    <3>1. <<a, r>> \in About({f})
      BY <2>3 DEF About
    <3>2. shown' = [shown EXCEPT ![r] = None] /\ route' = route \ {r}
      BY <1>3, <2>1, <2>3, <3>1
    <3> QED
      BY <3>2 DEF IInv, TypeOK
  <2>6. f # Frame("required", a, r) /\ f # Frame("resolved", a, r) =>
            shown'[r] = shown[r] /\ (r \in route' <=> r \in route)
    BY <1>3, <2>2 DEF IInv, TypeOK
  <2>7. CASE r \in pending[a]
    <3>1. Showing(a, r) /\ f # Frame("resolved", a, r)
      BY <1>2, <2>1, <2>7 DEF CardInv, CardIsRight, OverIsTrue
    <3>2. CASE f = Frame("required", a, r)
      BY <2>4, <2>7, <3>2 DEF Showing
    <3>3. CASE f # Frame("required", a, r)
      <4>1. \A d \in Conns : Announced(d, a, r) => Announced(d, a, r)'
        BY <1>6, <3>3 DEF Announced
      <4> QED
        BY <1>1, <2>6, <2>7, <3>1, <3>3, <4>1 DEF Showing, Asking
    <3> QED
      BY <3>2, <3>3
  <2>8. CASE r \notin pending[a]
    <3>1. Clearing(a, r)
      BY <2>1, <2>8 DEF CardInv, CardIsRight
    <3>2. CASE Gone(a, r)
      <4>1. f # Frame("required", a, r)
        BY <1>2, <3>2 DEF Gone, Announced
      <4>2. shown'[r] # a /\ r \notin route'
        BY <2>5, <2>6, <3>2, <4>1 DEF Gone
      <4>3. Gone(a, r)'
        BY <1>6, <3>2, <4>2 DEF Gone, Announced
      <4> QED
        BY <2>8, <4>3 DEF Clearing
    <3>3. CASE \E d \in Conns : \E i \in DOMAIN wire[d] : Clears(d, i, a, r)
      <4>1. PICK d \in Conns : \E i \in DOMAIN wire[d] : Clears(d, i, a, r)
        BY <3>3
      <4>2. PICK i \in DOMAIN wire[d] : Clears(d, i, a, r)
        BY <4>1
      <4>3. \A e \in Conns : \A j \in DOMAIN wire[e] :
                wire[e][j] = Frame("required", a, r) => d = e /\ j < i
        BY <4>2 DEF Clears
      <4>4. wire[d][i] = Frame("resolved", a, r)
        BY <4>2 DEF Clears
      <4>5. CASE d = c /\ i = 1
        <5>1. f = Frame("resolved", a, r)
          BY <1>7, <4>4, <4>5
        <5>2. \A e \in Conns : ~Announced(e, a, r)
          <6>1. ASSUME NEW e \in Conns, Announced(e, a, r) PROVE FALSE
            <7>1. PICK j \in DOMAIN wire[e] : wire[e][j] = Frame("required", a, r)
              BY <6>1 DEF Announced, Elements
            <7>2. e = c /\ j < 1
              BY <4>3, <4>5, <7>1
            <7> QED
              BY <1>7, <7>1, <7>2
          <6> QED
            BY <6>1
        <5>3. Gone(a, r)'
          BY <1>6, <2>5, <5>1, <5>2 DEF Gone, Announced
        <5> QED
          BY <2>8, <5>3 DEF Clearing
      <4>6. CASE d = c /\ i # 1
        <5>1. i - 1 \in DOMAIN wire'[c] /\ wire'[c][i - 1] = Frame("resolved", a, r)
          BY <1>1, <1>7, <4>4, <4>6
        <5>2. ASSUME NEW e \in Conns, NEW j \in DOMAIN wire'[e],
                     wire'[e][j] = Frame("required", a, r)
              PROVE  e = c /\ j < i - 1
          <6>1. e = c
            BY <1>1, <4>3, <4>6, <5>2
          <6>2. j \in Nat /\ j + 1 \in DOMAIN wire[c] /\ wire[c][j + 1] = Frame("required", a, r)
            BY <1>1, <1>7, <5>2, <6>1
          <6>3. j + 1 < i /\ i \in Nat
            BY <1>7, <4>3, <4>6, <6>2
          <6> QED
            BY <6>1, <6>2, <6>3
        <5>3. Clears(c, i - 1, a, r)'
          BY <5>1, <5>2 DEF Clears
        <5> QED
          BY <2>8, <5>1, <5>3 DEF Clearing
      <4>7. CASE d # c
        <5>1. i \in DOMAIN wire'[d] /\ wire'[d][i] = Frame("resolved", a, r)
          BY <1>1, <4>4, <4>7
        <5>2. ASSUME NEW e \in Conns, NEW j \in DOMAIN wire'[e],
                     wire'[e][j] = Frame("required", a, r)
              PROVE  e = d /\ j < i
          <6>1. e # c
            <7>1. CASE e = c
              <8>1. j + 1 \in DOMAIN wire[c] /\ wire[c][j + 1] = Frame("required", a, r)
                BY <1>1, <1>7, <5>2, <7>1
              <8> QED
                BY <4>3, <4>7, <8>1
            <7> QED
              BY <7>1
          <6> QED
            BY <1>1, <4>3, <5>2, <6>1
        <5>3. Clears(d, i, a, r)'
          BY <5>1, <5>2 DEF Clears
        <5> QED
          BY <2>8, <5>1, <5>3 DEF Clearing
      <4> QED
        BY <4>5, <4>6, <4>7
    <3> QED
      BY <3>1, <3>2, <3>3 DEF Clearing
  <2> QED
    BY <2>7, <2>8
<1>11. AskingWaits'
  BY <1>1 DEF CardInv, AskingWaits, Asking
<1> QED
  BY <1>1, <1>8, <1>9, <1>10, <1>11 DEF CardInv, CardIsRight

\* The steps that write at most a register or a rejection.
LEMMA QuietCards ==
  ASSUME IInv, CardInv,
         \/ Break \/ Register \/ UNCHANGED vars
         \/ \E c \in Conns : Take(c) \/ Hand(c)
         \/ \E k \in Consoles : Respond(k) \/ Expire(k)
  PROVE  CardInv'
<1>1. UNCHANGED <<raised, pending, asking, early, lost, shown, route>>
  BY DEF Break, Register, vars, Take, Hand, Respond, Expire, agentVars, hubVars
<1>2. live' \in {live, None}
  BY DEF Break, Register, vars, Take, Hand, Respond, Expire, clientVars
<1>3. \A k \in Consoles : req'[k].pc = "clean" => req'[k] = req[k]
  <2>1. CASE UNCHANGED req
    BY <2>1
  <2>2. ASSUME NEW k \in Consoles, Respond(k) \/ Expire(k)
        PROVE  req'[k].pc # "clean" /\ \A j \in Consoles \ {k} : req'[j] = req[j]
    <3>1. req \in [Consoles -> {req[j] : j \in Consoles}]
      BY DEF IInv, Shapes
    <3>2. \E e : e.pc # "clean" /\ req' = [req EXCEPT ![k] = e]
      <4>1. CASE Expire(k)
        BY <4>1 DEF Expire, Idle
      <4>2. CASE Respond(k)
        <5>1. PICK r \in route :
                req' = [req EXCEPT ![k] = [pc |-> "waiting", raw |-> r, id |-> requests + 1]]
          BY <4>2 DEF Respond
        <5> QED
          BY <5>1
      <4> QED
        BY <2>2, <4>1, <4>2
    <3> QED
      BY <3>1, <3>2
  <2> QED
    BY <2>1, <2>2 DEF Break, Register, vars, Take, Hand, apiVars
<1>4. \/ UNCHANGED wire
      \/ \E c \in Conns, f \in FrameSet : Writes(c, f) /\ f.kind \in {"register", "rejected"}
  <2>1. CASE Register
    <3>1. live \in Conns /\ [kind |-> "register"] \in FrameSet
      BY <2>1 DEF Register, IInv, TypeOK, FrameSet
    <3> QED
      BY <2>1, <3>1 DEF Register, Writes
  <2>2. ASSUME NEW c \in Conns, Take(c)
        PROVE  UNCHANGED wire \/ \E f \in FrameSet : Writes(c, f) /\ f.kind \in {"register", "rejected"}
    <3> DEFINE f == [kind |-> "rejected", cmd |-> Head(commands)]
    <3>1. f \in FrameSet /\ f.kind = "rejected"
      BY <2>2, TailElements DEF Take, IInv, Shapes, FrameSet
    <3> QED
      BY <2>2, <3>1 DEF Take, Writes
  <2>3. ASSUME NEW c \in Conns, Hand(c)
        PROVE  UNCHANGED wire \/ \E f \in FrameSet : Writes(c, f) /\ f.kind \in {"register", "rejected"}
    <3> DEFINE f == [kind |-> "rejected", cmd |-> loop[c].cmd]
    <3>1. f \in FrameSet /\ f.kind = "rejected"
      BY <2>3, LoopShape DEF Hand, IInv, FrameSet
    <3> QED
      BY <2>3, <3>1 DEF Hand, Writes
  <2> QED
    BY <2>1, <2>2, <2>3 DEF Break, vars, Respond, Expire, clientVars
<1>5. /\ Later
      /\ \A d \in Conns : \A j \in DOMAIN wire'[d] \ DOMAIN wire[d] :
             wire'[d][j].kind \in {"register", "rejected"}
  <2>1. CASE UNCHANGED wire
    BY <2>1 DEF Later
  <2>2. CASE \E c \in Conns, f \in FrameSet : Writes(c, f) /\ f.kind \in {"register", "rejected"}
    <3>1. PICK c \in Conns, f \in FrameSet : Writes(c, f) /\ f.kind \in {"register", "rejected"}
      BY <2>2
    <3>2. /\ Later
          /\ \A d \in Conns : \A j \in DOMAIN wire'[d] \ DOMAIN wire[d] : d = c /\ wire'[d][j] = f
      BY <3>1, WrittenLater DEF IInv
    <3> QED
      BY <3>1, <3>2
  <2> QED
    BY <1>4, <2>1, <2>2
<1> QED
  BY <1>1, <1>2, <1>3, <1>5, QuietStep

\* Every step keeps what is known of the cards.
LEMMA CardStep == IInv /\ CardInv /\ [Next]_vars => CardInv'
<1> SUFFICES ASSUME IInv, CardInv, [Next]_vars PROVE CardInv'
  OBVIOUS
<1>1. CASE Break \/ Register \/ UNCHANGED vars
  BY <1>1, QuietCards
<1>2. CASE \E a \in Agents, r \in Raws : Raise(a, r) \/ SettlesItself(a, r)
  BY <1>2, RaiseCards, SettlesItselfCards
<1>7. CASE \E a \in Agents : Announce(a) \/ Require(a)
  BY <1>7, AsksCards, AsksAre
<1>3. CASE \E c \in Conns : Take(c) \/ Hand(c)
  BY <1>3, QuietCards
<1>4. CASE \E c \in Conns : Connect(c) \/ Report(c) \/ ReadFrame(c) \/ Disconnect(c)
  BY <1>4, ConnectCards, ReportCards, ReadFrameCards, DisconnectCards
<1>5. CASE \E k \in Consoles : Respond(k) \/ Expire(k)
  BY <1>5, QuietCards
<1>6. CASE \E k \in Consoles : Clean(k)
  BY <1>6, CleanCards
<1> QED
  BY <1>1, <1>2, <1>3, <1>4, <1>5, <1>6, <1>7 DEF Next

\* A card is shown and can be answered exactly while its agent waits for it, once nothing
\* is under way, unless another agent used its id, a frame about it was lost, or it was
\* answered between its two frames (handleServerRequest, ApprovalRequired).
THEOREM CardsFollow == Spec => []CardsFollowAgents
<1>1. Init => CardInv
  <2> SUFFICES ASSUME Init PROVE CardInv
    OBVIOUS
  <2>1. \A c \in Conns : Elements(wire[c]) = {}
    BY DEF Init, Elements
  <2>2. \A k \in Consoles : req[k].pc # "clean"
    BY DEF Init, Idle
  <2>3. \A a \in Agents : \A r : ~Asking(a, r)
    BY DEF Init, Idle, Asking
  <2> QED
    BY <2>1, <2>2, <2>3
       DEF Init, CardInv, OverIsTrue, OnLive, Announced, AskingWaits, CardIsRight, Only
<1>2. IInv /\ CardInv => CardsFollowAgents
  <2> SUFFICES ASSUME IInv, CardInv, Settled, NEW a \in Agents, NEW r \in Raws, Only(a, r)
               PROVE  (shown[r] = a <=> r \in pending[a]) /\ (r \in route <=> r \in pending[a])
    BY DEF CardsFollowAgents
  <2>1. \A c \in Conns : DOMAIN wire[c] = {} /\ Elements(wire[c]) = {}
    BY DEF Settled, Elements
  <2>2. IF r \in pending[a] THEN Showing(a, r) ELSE Clearing(a, r)
    BY DEF CardInv, CardIsRight
  <2>3. ~Asking(a, r)
    BY DEF Settled, Asking
  <2> QED
    BY <2>1, <2>2, <2>3 DEF Showing, Clearing, Gone, Announced
<1> QED
  BY <1>1, <1>2, CardStep, Invariance, PTL DEF Spec
=============================================================================
