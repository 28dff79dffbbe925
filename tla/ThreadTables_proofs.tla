------------------------- MODULE ThreadTables_proofs -------------------------
(***************************************************************************)
(* TLAPS proofs about ThreadTables, for any threads, connections and       *)
(* consoles, and any bounds.  The inductive invariant is IInv: one lemma   *)
(* per action, or per family of actions that leave the same things alone,  *)
(* shows that it preserves each of its conjuncts.  ViewInv, which holds    *)
(* beside it, is preserved in the same way, and says what the index and    *)
(* the router come to.                                                     *)
(***************************************************************************)
EXTENDS ThreadTables, SequenceTheorems, TLAPS

Message == [cmd : Commands, thread : Threads, id : Ids]

USE DEF Message

-----------------------------------------------------------------------------
(* Sequences of frames.                                                    *)

\* What a queue holds after another is put behind it.
LEMMA ConcatElements ==
  ASSUME NEW S, NEW q \in Seq(S), NEW r \in Seq(S)
  PROVE  /\ q \o r \in Seq(S)
         /\ Elements(q \o r) = Elements(q) \cup Elements(r)
<1>1. q \o r \in Seq(S) /\ Len(q \o r) = Len(q) + Len(r) /\ Len(q) \in Nat /\ Len(r) \in Nat
  OBVIOUS
<1>2. \A i \in 1..Len(q) : (q \o r)[i] = q[i]
  OBVIOUS
<1>3. \A i \in 1..Len(r) : (q \o r)[Len(q) + i] = r[i]
  OBVIOUS
<1>4. DOMAIN q = 1..Len(q) /\ DOMAIN r = 1..Len(r) /\ DOMAIN (q \o r) = 1..(Len(q) + Len(r))
  BY <1>1
<1>5. ASSUME NEW x \in Elements(q \o r) PROVE x \in Elements(q) \cup Elements(r)
  <2>1. PICK i \in 1..(Len(q) + Len(r)) : x = (q \o r)[i]
    BY <1>4 DEF Elements
  <2>2. CASE i <= Len(q)
    BY <1>1, <1>2, <1>4, <2>1, <2>2 DEF Elements
  <2>3. CASE i > Len(q)
    <3>1. i - Len(q) \in 1..Len(r) /\ Len(q) + (i - Len(q)) = i
      BY <1>1, <2>1, <2>3
    <3>2. x = r[i - Len(q)]
      BY <1>3, <2>1, <3>1
    <3> QED
      BY <1>4, <3>1, <3>2 DEF Elements
  <2> QED
    BY <1>1, <2>1, <2>2, <2>3
<1>6. ASSUME NEW x \in Elements(q) PROVE x \in Elements(q \o r)
  <2>1. PICK i \in 1..Len(q) : x = q[i]
    BY <1>4 DEF Elements
  <2>2. i \in 1..(Len(q) + Len(r)) /\ x = (q \o r)[i]
    BY <1>1, <1>2, <2>1
  <2> QED
    BY <1>4, <2>2 DEF Elements
<1>7. ASSUME NEW x \in Elements(r) PROVE x \in Elements(q \o r)
  <2>1. PICK i \in 1..Len(r) : x = r[i]
    BY <1>4 DEF Elements
  <2>2. Len(q) + i \in 1..(Len(q) + Len(r)) /\ x = (q \o r)[Len(q) + i]
    BY <1>1, <1>3, <2>1
  <2> QED
    BY <1>4, <2>2 DEF Elements
<1> QED
  BY <1>1, <1>5, <1>6, <1>7

\* What a queue holds after its head has been taken.
LEMMA TailElements ==
  ASSUME NEW S, NEW q \in Seq(S), q # <<>>
  PROVE  /\ Head(q) \in Elements(q) /\ Elements(Tail(q)) \subseteq Elements(q)
         /\ Head(q) \in S /\ Tail(q) \in Seq(S)
  BY DEF Elements

\* A queue of S holds members of S.
LEMMA ElementsType ==
  ASSUME NEW S, NEW q \in Seq(S)
  PROVE  Elements(q) \subseteq S
  BY DEF Elements

\* What the library says of concatenation, for queues of frames.
LEMMA FramesAssociate ==
  \A x, y, z \in Seq(Frames) : (x \o y) \o z = x \o (y \o z)
  BY ConcatAssociative

LEMMA FramesConcat ==
  ASSUME NEW q \in Seq(Frames), NEW r \in Seq(Frames)
  PROVE  /\ Len(q \o r) = Len(q) + Len(r) /\ q \o r \in Seq(Frames)
         /\ \A i \in 1..Len(q) + Len(r) :
                (q \o r)[i] = IF i <= Len(q) THEN q[i] ELSE r[i - Len(q)]
  BY ConcatProperties

\* What one, two or three frames in a row hold.
LEMMA ShortElements ==
  /\ \A e \in Frames : <<e>> \in Seq(Frames) /\ Elements(<<e>>) = {e}
  /\ \A e, f \in Frames : <<e, f>> \in Seq(Frames) /\ Elements(<<e, f>>) = {e, f}
  /\ \A e, f, g \in Frames : /\ <<e, f, g>> \in Seq(Frames)
                             /\ Elements(<<e, f, g>>) = {e, f, g}
  BY DEF Elements

-----------------------------------------------------------------------------
(* The shapes of frames and requests.                                      *)

\* The frames the machine writes are of the set.
LEMMA FrameKinds ==
  /\ Register \in Frames
  /\ \A m \in Message : Done(m) \in Frames /\ Rejected(m) \in Frames
  /\ \A t \in Threads, u \in Turns : Started(t, u) \in Frames /\ Ended(t, u) \in Frames
  /\ \A S \in SUBSET Threads : Snapshot(S) \in Frames
  BY DEF Frames, Register, Done, Rejected, Started, Ended, Snapshot, Ids, Turns

\* What the kind of a frame says of its fields.
LEMMA FrameShape ==
  ASSUME NEW f \in Frames
  PROVE  /\ f.kind \in {"snapshot", "started", "ended", "done", "rejected", "register"}
         /\ f.kind = "snapshot" => f.threads \in SUBSET Threads
         /\ f.kind \in {"started", "ended"} => f.thread \in Threads /\ f.turn \in Turns
         /\ f.kind = "done" => f.cmd \in Commands /\ f.thread \in Threads /\ f.id \in Ids
         /\ f.kind = "rejected" => f.id \in Ids
         /\ (f.kind = "register") = (f = Register)
<1>1. CASE f \in [kind : {"snapshot"}, threads : SUBSET Threads]
  BY <1>1 DEF Register
<1>2. CASE f \in [kind : {"started", "ended"}, thread : Threads, turn : Turns]
  BY <1>2 DEF Register
<1>3. CASE f \in [kind : {"done"}, cmd : Commands, thread : Threads, id : Ids]
  BY <1>3 DEF Register
<1>4. CASE f \in [kind : {"rejected"}, id : Ids]
  BY <1>4 DEF Register
<1>5. CASE f = Register
  BY <1>5 DEF Register
<1> QED
  BY <1>1, <1>2, <1>3, <1>4, <1>5 DEF Frames

\* A request stays one when a field of it is set to a value of the field.
LEMMA RequestFields ==
  ASSUME NEW r \in Requests
  PROVE  /\ \A o \in Ops \cup {"none"} : [r EXCEPT !.op = o] \in Requests
         /\ \A p \in {"idle", "waiting", "failed", "track", "upsert", "clear", "mark",
                      "remove", "rename"} : [r EXCEPT !.pc = p] \in Requests
         /\ \A t \in Threads \cup {None} : [r EXCEPT !.thread = t] \in Requests
         /\ \A i \in 0..MaxRequests : [r EXCEPT !.id = i] \in Requests
         /\ \A m \in Commands \cup {"none"} : [r EXCEPT !.cmd = m] \in Requests
         /\ \A c \in Conns \cup {None} : [r EXCEPT !.via = c] \in Requests
         /\ \A e \in Entry : [r EXCEPT !.seen = e] \in Requests
         /\ \A b \in BOOLEAN : [r EXCEPT !.again = b] \in Requests
  BY DEF Requests

\* No request is one.
LEMMA NoRequestShape ==
  /\ NoRequest \in Requests
  /\ NoRequest.op = "none" /\ NoRequest.pc = "idle" /\ NoRequest.thread = None
  /\ NoRequest.id = 0 /\ NoRequest.again = FALSE
<1>1. 0 \in 0..MaxRequests
  BY ThreadTablesAssumption
<1> QED
  BY <1>1 DEF Requests, NoRequest, Entry

\* A request that gave up is idle, or a read with a second attempt.
LEMMA FailedShape ==
  ASSUME NEW r \in Requests
  PROVE  /\ Failed(r) \in Requests
         /\ Failed(r).pc \in {"idle", "failed"} /\ Failed(r).id \in {0, r.id}
         /\ Failed(r).pc = "failed" =>
              /\ r.again /\ Failed(r).again
              /\ Failed(r).op = r.op /\ Failed(r).cmd = r.cmd /\ Failed(r).thread = r.thread
<1>1. CASE r.again
  <2>1. Failed(r) = [r EXCEPT !.pc = "failed"]
    BY <1>1 DEF Failed
  <2>2. [r EXCEPT !.pc = "failed"] \in Requests
    BY RequestFields
  <2> QED
    BY <1>1, <2>1, <2>2 DEF Requests
<1>2. CASE ~r.again
  BY <1>2, NoRequestShape DEF Failed
<1> QED
  BY <1>1, <1>2

\* What becomes of a request that is answered.
LEMMA AnsweredShape ==
  ASSUME NEW r \in Requests, NEW t \in Threads, NEW c \in Conns
  PROVE  /\ Answered(r, t, c) \in Requests
         /\ Answered(r, t, c).pc \in {"idle", "mark", "track"} /\ Answered(r, t, c).id = 0
         /\ Answered(r, t, c).pc # "idle" => Answered(r, t, c).thread = t
         /\ Answered(r, t, c).pc = "mark" => r.op = "delete"
         /\ Answered(r, t, c).pc = "track" => r.op \in {"create", "read", "resume"}
<1>1. /\ NoRequest \in Requests /\ NoRequest.pc = "idle" /\ NoRequest.id = 0
  BY NoRequestShape
<1>2. ASSUME NEW p \in {"mark", "track"}
      PROVE  LET s == [NoRequest EXCEPT !.thread = t, !.via = c, !.pc = p]
             IN  s \in Requests /\ s.pc = p /\ s.id = 0 /\ s.thread = t
  <2> DEFINE s == [NoRequest EXCEPT !.thread = t, !.via = c, !.pc = p]
  <2>1. s \in Requests
    BY <1>1 DEF Requests
  <2>2. s.pc = p /\ s.id = 0 /\ s.thread = t
    BY <1>1 DEF Requests
  <2> QED
    BY <2>1, <2>2
<1>3. CASE r.op = "delete"
  BY <1>2, <1>3 DEF Answered
<1>4. CASE r.op \in {"create", "read", "resume"}
  BY <1>2, <1>4 DEF Answered
<1>5. CASE r.op \notin {"create", "read", "resume", "delete"}
  BY <1>1, <1>5 DEF Answered
<1> QED
  BY <1>3, <1>4, <1>5

\* What becomes of a request whose thread is listed again.
LEMMA ClearingShape ==
  ASSUME NEW r \in Requests
  PROVE  /\ Clearing(r) \in Requests /\ Clearing(r).pc = "clear"
         /\ Clearing(r).thread = r.thread /\ Clearing(r).id = 0
  BY NoRequestShape DEF Clearing, Requests

\* Writing frames on the live connection adds them there and nothing else.
LEMMA Written ==
  ASSUME TypeOK, Shapes, NEW fs \in Seq(Frames), Write(fs)
  PROVE  /\ wire' \in [Conns -> Seq(Frames)]
         /\ \A c \in Conns : Elements(wire'[c]) \subseteq Elements(wire[c]) \cup Elements(fs)
<1>1. CASE live = None
  BY <1>1 DEF Write, Shapes
<1>2. CASE live # None
  <2>1. live \in Conns /\ wire[live] \in Seq(Frames)
    BY <1>2 DEF TypeOK, Shapes
  <2>2. wire[live] \o fs \in Seq(Frames)
    BY <2>1, ConcatElements
  <2>3. Elements(wire[live] \o fs) = Elements(wire[live]) \cup Elements(fs)
    BY <2>1, ConcatElements
  <2>4. \A c \in Conns : wire'[c] = IF c = live THEN wire[live] \o fs ELSE wire[c]
    BY <1>2 DEF Write, Shapes
  <2>5. wire' \in [Conns -> Seq(Frames)]
    BY <1>2, <2>2 DEF Write, Shapes
  <2> QED
    BY <2>3, <2>4, <2>5
<1> QED
  BY <1>1, <1>2

-----------------------------------------------------------------------------
(* Steps that make no request of the machine.                              *)

\* s is what is left to do of request r
Rest(r, s) ==
    /\ s \in Requests
    /\ s.pc # "waiting" /\ s.id \in {0, r.id}
    /\ s.pc # "idle" => s.thread \in Threads
    /\ s.pc = "failed" => /\ r.pc = "waiting" /\ r.again /\ s.again
                          /\ s.cmd = r.cmd /\ s.op = r.op
    /\ s.pc \in {"mark", "remove"} => Archived(s.thread)
    /\ s.pc \in {"track", "upsert", "clear", "rename"} => MayClear(s.thread)

Agreed == Asked /\ IdsAgree /\ ArchivedFirst /\ ClearsSafely

\* Nothing new is asked or answered, no thread comes or goes: what was agreed stays so.
LEMMA QuietStep ==
  ASSUME TypeOK, Shapes, Agreed,
         req' \in [Consoles -> Requests],
         \A k \in Consoles : req'[k] = req[k] \/ Rest(req[k], req'[k]),
         \A f \in Frames : InFlight(f)' => InFlight(f),
         Elements(commands') \subseteq Elements(commands),
         UNCHANGED <<born, held>>,
         requests' \in {requests, requests + 1},
         deleted' \subseteq deleted, raced' = raced
  PROVE  /\ \A k \in Consoles : req'[k].pc # "idle" => req'[k].thread \in Threads
         /\ Agreed'
<1> USE DEF Agreed
<1>1. /\ \A k \in Consoles : req[k] \in Requests /\ req[k].id \in Nat
      /\ requests \in Nat /\ requests' \in Nat /\ requests <= requests'
      /\ \A m \in Message : m.id \in Nat
      /\ \A f \in Frames : InFlight(f) => f.id \in Nat
  BY ThreadTablesAssumption, FrameShape DEF Shapes, Requests, TypeOK, InFlight, Ids
<1>2. \A k \in Consoles : req'[k].pc # "idle" => req'[k].thread \in Threads
  BY DEF Shapes, Rest
<1>3. Asked'
  BY DEF Asked, Rest
<1>4. \A k \in Consoles : req'[k].pc = "waiting" => req'[k] = req[k]
  BY DEF Rest
<1>5. IdsAgree'
  <2>1. \A k \in Consoles : req'[k].id <= requests'
    BY <1>1 DEF IdsAgree, Rest
  <2>2. \A m : m.id \in Nat /\ IsFor(m) => IsFor(m)'
    BY <1>1, <1>4 DEF IsFor
  <2>3. \A m \in Elements(commands') : m \in Elements(commands) /\ m \in Message
    <3>1. commands \in Seq(Message)
      BY DEF TypeOK
    <3>2. Elements(commands) \subseteq Message
      BY <3>1, ElementsType
    <3> QED
      BY <3>2
  <2> QED
    BY <1>1, <2>1, <2>2, <2>3 DEF IdsAgree
<1>6. ArchivedFirst'
  <2>1. \A t : Archived(t)' = Archived(t)
    BY DEF Archived
  <2>2. \A k \in Consoles : req'[k].pc \in {"mark", "remove"} => Archived(req'[k].thread)
    BY DEF ArchivedFirst, Rest
  <2> QED
    BY <2>1, <2>2 DEF ArchivedFirst
<1>7. ClearsSafely'
  <2>1. \A t : MayClear(t) => MayClear(t)'
    BY DEF MayClear
  <2>2. \A k \in Consoles : req'[k].pc \in {"track", "upsert", "clear", "rename"} =>
                               MayClear(req'[k].thread)
    BY DEF ClearsSafely, Rest
  <2> QED
    BY <1>4, <2>1, <2>2 DEF ClearsSafely
<1> QED
  BY <1>2, <1>3, <1>5, <1>6, <1>7

\* The same when no request moves.
LEMMA NoRequestMoves ==
  ASSUME TypeOK, Shapes, Agreed,
         \A f \in Frames : InFlight(f)' => InFlight(f),
         Elements(commands') \subseteq Elements(commands),
         UNCHANGED <<born, held, requests, req, deleted, raced>>
  PROVE  Agreed'
  BY QuietStep DEF Shapes

-----------------------------------------------------------------------------
(* Turns: the frames under way on the first connection.                    *)

\* A frame put behind q changes the turn q leads to as it changes the agent's.
LEMMA LeadAppend ==
  ASSUME NEW q \in Seq(Frames), NEW f \in Frames, NEW t \in Threads, NEW a, NEW r, NEW s,
         LeadTo(q, t, a, r),
         About(f, t) => s = TurnOf(f) /\ (f.kind = "ended" => r \in {f.turn, None}),
         ~About(f, t) => s = r
  PROVE  LeadTo(q \o <<f>>, t, a, s)
<1> DEFINE p == q \o <<f>>
<1>1. /\ Len(q) \in Nat /\ DOMAIN q = 1..Len(q) /\ DOMAIN p = 1..Len(q) + 1
      /\ p[Len(q) + 1] = f /\ \A i \in 1..Len(q) : p[i] = q[i]
  OBVIOUS
<1> HIDE DEF p
<1>2. Places(q, t) \subseteq 1..Len(q)
  BY <1>1 DEF Places
<1>3. CASE ~About(f, t)
  <2>1. Places(p, t) = Places(q, t)
    BY <1>1, <1>3 DEF Places
  <2>2. \A i \in Places(q, t) : p[i] = q[i]
    BY <1>1, <1>2
  <2>3. \A i, j : NextAfter(p, t, j, i) <=> NextAfter(q, t, j, i)
    BY <2>1 DEF NextAfter
  <2> QED
    BY <1>3, <2>1, <2>2, <2>3 DEF LeadTo, p
<1>4. CASE About(f, t)
  <2> DEFINE n == Len(q) + 1
  <2>1. Places(p, t) = Places(q, t) \cup {n}
    BY <1>1, <1>4 DEF Places
  <2>2. \A i \in Places(q, t) : p[i] = q[i] /\ i < n /\ ~(n <= i) /\ i <= n /\ i \in Nat
    BY <1>1, <1>2
  <2>3. Places(p, t) # {}
    BY <2>1
  <2>4. ASSUME NEW i \in Places(p, t), \A m \in Places(p, t) : m <= i
        PROVE  s = TurnOf(p[i])
    BY <1>1, <1>4, <2>1, <2>2, <2>4
  <2>5. ASSUME NEW i \in Places(p, t), p[i].kind = "ended", \A m \in Places(p, t) : i <= m
        PROVE  a \in {p[i].turn, None}
    <3>1. CASE i = n
      <4>1. Places(q, t) = {}
        BY <2>1, <2>2, <2>5, <3>1
      <4> QED
        BY <1>1, <1>4, <2>5, <3>1, <4>1 DEF LeadTo
    <3>2. CASE i \in Places(q, t)
      BY <2>1, <2>2, <2>5, <3>2 DEF LeadTo
    <3> QED
      BY <2>1, <3>1, <3>2
  <2>6. ASSUME NEW i \in Places(p, t), p[i].kind = "ended",
               NEW j \in Places(p, t), p[j].kind = "started", NextAfter(p, t, j, i)
        PROVE  p[j].turn = p[i].turn
    <3>1. j < i /\ j \in Places(q, t)
      BY <1>1, <2>1, <2>2, <2>6 DEF NextAfter
    <3>2. CASE i = n
      <4>1. \A m \in Places(q, t) : m <= j
        BY <2>1, <2>2, <2>6, <3>2 DEF NextAfter
      <4>2. r = TurnOf(q[j]) /\ q[j].turn \in Turns /\ p[j] = q[j]
        <5>1. q[j] \in Frames
          BY <1>1, <1>2, <3>1
        <5> QED
          BY <2>2, <2>6, <3>1, <4>1, <5>1, FrameShape DEF LeadTo
      <4> QED
        BY <1>1, <1>4, <2>6, <3>2, <4>2, ThreadTablesAssumption DEF TurnOf, Turns
    <3>3. CASE i \in Places(q, t)
      <4>1. NextAfter(q, t, j, i)
        BY <2>1, <2>6 DEF NextAfter
      <4> QED
        BY <2>2, <2>6, <3>1, <3>3, <4>1 DEF LeadTo
    <3> QED
      BY <2>1, <3>2, <3>3
  <2> QED
    BY <2>3, <2>4, <2>5, <2>6 DEF LeadTo, p
<1> QED
  BY <1>3, <1>4

\* The active turn a of t after frame f (TurnsAfter).
TurnAfter(f, a) ==
    IF f.kind = "ended" THEN IF a = f.turn THEN None ELSE a ELSE TurnOf(f)

\* When the head of q is applied, or is not about t, its tail leads to the same turn.
LEMMA LeadTail ==
  ASSUME NEW q \in Seq(Frames), q # <<>>, NEW t \in Threads, NEW a, NEW b, NEW r,
         LeadTo(q, t, a, r),
         b = IF About(Head(q), t) THEN TurnAfter(Head(q), a) ELSE a
  PROVE  LeadTo(Tail(q), t, b, r)
<1> DEFINE p == Tail(q)
           h == Head(q)
<1>1. /\ Len(q) \in Nat /\ Len(q) >= 1 /\ DOMAIN q = 1..Len(q) /\ DOMAIN p = 1..(Len(q) - 1)
      /\ h = q[1] /\ \A i \in 1..(Len(q) - 1) : p[i] = q[i + 1]
      /\ h \in Frames
  OBVIOUS
<1> HIDE DEF p, h
<1>2. \A i \in Places(p, t) : i \in 1..(Len(q) - 1) /\ i + 1 \in Places(q, t) /\ p[i] = q[i + 1]
  BY <1>1 DEF Places
<1>3. \A i \in Places(q, t) : i \in 1..Len(q) /\ (i # 1 => i - 1 \in Places(p, t))
  BY <1>1 DEF Places
<1>4. 1 \in Places(q, t) <=> About(h, t)
  BY <1>1 DEF Places
<1>5. About(h, t) => b \in {None, TurnOf(h)} /\ ((\A m \in Places(q, t) : m <= 1) => b = r)
  <2>1. ASSUME About(h, t) PROVE b = TurnOf(h)
    <3>1. \A m \in Places(q, t) : 1 <= m
      BY <1>3
    <3>2. CASE h.kind = "ended"
      <4>1. a \in {h.turn, None}
        BY <1>1, <1>4, <2>1, <3>1, <3>2 DEF LeadTo
      <4> QED
        BY <1>1, <2>1, <3>2, <4>1 DEF TurnAfter, TurnOf, h
    <3>3. CASE h.kind # "ended"
      BY <2>1, <3>3 DEF TurnAfter, h
    <3> QED
      BY <3>2, <3>3
  <2> QED
    BY <1>1, <1>4, <2>1 DEF LeadTo
<1>6. ~About(h, t) => b = a
  BY DEF h
<1>7. Places(p, t) = {} => b = r
  <2> SUFFICES ASSUME Places(p, t) = {} PROVE b = r
    OBVIOUS
  <2>1. \A m \in Places(q, t) : m = 1
    BY <1>3
  <2>2. CASE About(h, t)
    BY <1>5, <2>1, <2>2
  <2>3. CASE ~About(h, t)
    BY <1>4, <1>6, <2>1, <2>3 DEF LeadTo
  <2> QED
    BY <2>2, <2>3
<1>8. ASSUME NEW i \in Places(p, t), \A m \in Places(p, t) : m <= i
      PROVE  r = TurnOf(p[i])
  <2>1. \A m \in Places(q, t) : m <= i + 1
    BY <1>2, <1>3, <1>8
  <2> QED
    BY <1>2, <2>1 DEF LeadTo
<1>9. ASSUME NEW i \in Places(p, t), p[i].kind = "ended", \A m \in Places(p, t) : i <= m
      PROVE  b \in {p[i].turn, None}
  <2>1. CASE About(h, t)
    <3>1. CASE h.kind = "started"
      <4>1. NextAfter(q, t, 1, i + 1)
        BY <1>1, <1>2, <1>3, <1>9 DEF NextAfter
      <4> QED
        BY <1>1, <1>2, <1>4, <1>5, <1>9, <2>1, <3>1, <4>1 DEF LeadTo, TurnOf
    <3>2. CASE h.kind # "started"
      BY <1>5, <2>1, <3>2 DEF TurnOf
    <3> QED
      BY <3>1, <3>2
  <2>2. CASE ~About(h, t)
    <3>1. \A m \in Places(q, t) : i + 1 <= m
      BY <1>2, <1>3, <1>4, <1>9, <2>2
    <3> QED
      BY <1>2, <1>6, <1>9, <2>2, <3>1 DEF LeadTo
  <2> QED
    BY <2>1, <2>2
<1>10. ASSUME NEW i \in Places(p, t), p[i].kind = "ended",
              NEW j \in Places(p, t), p[j].kind = "started", NextAfter(p, t, j, i)
       PROVE  p[j].turn = p[i].turn
  <2>1. NextAfter(q, t, j + 1, i + 1)
    <3>1. j + 1 < i + 1
      BY <1>1, <1>2, <1>10 DEF NextAfter
    <3>2. ASSUME NEW n \in Places(q, t) PROVE n <= j + 1 \/ i + 1 <= n
      <4>1. CASE n = 1
        BY <1>1, <1>2, <4>1
      <4>2. CASE n # 1
        <5>1. n - 1 \in Places(p, t) /\ n \in Nat
          BY <1>3, <4>2
        <5>2. n - 1 <= j \/ i <= n - 1
          BY <1>10, <5>1 DEF NextAfter
        <5> QED
          BY <1>1, <1>2, <5>1, <5>2
      <4> QED
        BY <4>1, <4>2
    <3> QED
      BY <3>1, <3>2 DEF NextAfter
  <2> QED
    BY <1>2, <1>10, <2>1 DEF LeadTo
<1> QED
  BY <1>7, <1>8, <1>9, <1>10 DEF LeadTo, p

\* The frames under way stay the same, and so do the turns.
LEMMA TurnsUntouched ==
  ASSUME TurnsFollow, UNCHANGED <<running, live, strays, wire, owner, active>>,
         \A c \in Conns : /\ Pipe(c)' = Pipe(c)
                          /\ (connPC'[c] = "new") = (connPC[c] = "new")
  PROVE  TurnsFollow'
<1>1. \A c \in Conns : First(c)' = First(c)
  BY DEF First
<1> QED
  BY <1>1 DEF TurnsFollow

\* The same when neither the machine nor a connection's goroutine moves.
LEMMA TurnsStill ==
  ASSUME TurnsFollow,
         UNCHANGED <<running, live, strays, wire, owner, active, connPC, doing>>
  PROVE  TurnsFollow'
<1>1. \A c \in Conns : Pipe(c)' = Pipe(c)
  BY DEF Pipe
<1> QED
  BY <1>1, TurnsUntouched

\* The machine writes frames that change the turn they lead to as they change the
\* agent's.
LEMMA TurnsWritten ==
  ASSUME TypeOK, Shapes, TurnsFollow, NEW fs \in Seq(Frames), Write(fs),
         UNCHANGED <<live, strays, owner, active, connPC, doing>>,
         \A q \in Seq(Frames), t \in Threads :
            LeadTo(q, t, active[t], running[t]) =>
               LeadTo(q \o fs, t, active[t], running'[t]),
         (\A t \in Threads : running[t] = None) /\ live = None => running' = running
  PROVE  TurnsFollow'
<1>1. \A c \in Conns : First(c)' = First(c)
  BY DEF First
<1>2. (\A c \in Conns : connPC'[c] = "new") =>
          \A t \in Threads : active'[t] = None /\ running'[t] = None
  BY DEF TurnsFollow, TypeOK
<1>3. ASSUME NEW c \in Conns, First(c)
      PROVE  /\ owner = c \/ (wire'[c] # <<>> /\ Head(wire'[c]) = Register)
             /\ \A t \in Threads : LeadTo(Pipe(c), t, active[t], running[t])'
  <2>1. live = c /\ wire'[c] = wire[c] \o fs /\ wire[c] \in Seq(Frames) /\ doing[c] \in Frames
    BY <1>3, ThreadTablesAssumption DEF First, Write, Shapes
  <2>2. wire[c] # <<>> => wire'[c] # <<>> /\ Head(wire'[c]) = Head(wire[c])
    BY <2>1
  <2>3. Pipe(c) \in Seq(Frames) /\ Pipe(c)' = Pipe(c) \o fs
    <3>1. CASE connPC[c] = "apply"
      <4>1. <<doing[c]>> \o (wire[c] \o fs) = (<<doing[c]>> \o wire[c]) \o fs
        <5>1. <<doing[c]>> \in Seq(Frames)
          BY <2>1
        <5>2. \A x, y, z \in Seq(Frames) : (x \o y) \o z = x \o (y \o z)
          BY FramesAssociate, Zenon
        <5> QED
          BY <2>1, <5>1, <5>2, Zenon
      <4>2. Pipe(c) = <<doing[c]>> \o wire[c] /\ Pipe(c)' = <<doing[c]>> \o wire'[c]
        BY <3>1 DEF Pipe
      <4>3. Pipe(c) \in Seq(Frames)
        BY <2>1, <4>2
      <4> QED
        BY <2>1, <4>1, <4>2, <4>3, Zenon
    <3>2. CASE connPC[c] # "apply"
      BY <2>1, <3>2 DEF Pipe
    <3> QED
      BY <3>1, <3>2
  <2>4. \A t \in Threads : LeadTo(Pipe(c), t, active[t], running[t])
    BY <1>3 DEF TurnsFollow
  <2>5. \A t \in Threads : LeadTo(Pipe(c) \o fs, t, active[t], running'[t])
    BY <2>3, <2>4
  <2>6. ASSUME NEW t \in Threads PROVE LeadTo(Pipe(c), t, active[t], running[t])'
    BY <2>3, <2>5
  <2> QED
    BY <1>3, <2>2, <2>6 DEF TurnsFollow
<1> QED
  BY <1>1, <1>2, <1>3 DEF TurnsFollow

-----------------------------------------------------------------------------
(* The machine's steps.                                                    *)

\* Two or three frames written at once are written one after another.
LEMMA ConcatShort ==
  ASSUME NEW q \in Seq(Frames), NEW e \in Frames, NEW f \in Frames, NEW g \in Frames
  PROVE  /\ q \o <<e, f>> = (q \o <<e>>) \o <<f>>
         /\ q \o <<e, f, g>> = ((q \o <<e>>) \o <<f>>) \o <<g>>
         /\ q \o <<e>> \in Seq(Frames) /\ (q \o <<e>>) \o <<f>> \in Seq(Frames)
<1>1. /\ <<e>> \in Seq(Frames) /\ <<f>> \in Seq(Frames) /\ <<g>> \in Seq(Frames)
      /\ <<e, f>> \in Seq(Frames) /\ <<f, g>> \in Seq(Frames) /\ <<e, f, g>> \in Seq(Frames)
  BY ShortElements
<1>2. \A x, y, z \in Seq(Frames) : (x \o y) \o z = x \o (y \o z)
  BY FramesAssociate, Zenon
<1>3. <<e, f>> = <<e>> \o <<f>>
  <2>1. <<e>> \o <<f>> \in Seq(Frames) /\ Len(<<e>> \o <<f>>) = 2
    BY <1>1, ConcatProperties
  <2>2. Len(<<e, f>>) = 2 /\ \A i \in 1..Len(<<e, f>>) : <<e, f>>[i] = (<<e>> \o <<f>>)[i]
    OBVIOUS
  <2>3. \A x, y \in Seq(Frames) :
           Len(x) = Len(y) /\ (\A i \in 1..Len(x) : x[i] = y[i]) => x = y
    BY SeqEqual
  <2> QED
    BY <1>1, <2>1, <2>2, <2>3, Zenon
<1>4. <<e, f, g>> = <<e, f>> \o <<g>>
  OBVIOUS
<1>5. q \o <<e>> \in Seq(Frames) /\ q \o <<e, f>> \in Seq(Frames)
  BY <1>1, ConcatElements
<1>6. q \o <<e, f>> = (q \o <<e>>) \o <<f>>
  <2>1. q \o (<<e>> \o <<f>>) = (q \o <<e>>) \o <<f>>
    BY <1>1, <1>2, Zenon
  <2> QED
    BY <1>3, <2>1, Zenon
<1>7. q \o <<e, f, g>> = (q \o <<e, f>>) \o <<g>>
  <2>1. q \o (<<e, f>> \o <<g>>) = (q \o <<e, f>>) \o <<g>>
    BY <1>1, <1>2, Zenon
  <2> QED
    BY <1>4, <2>1, Zenon
<1> QED
  BY <1>5, <1>6, <1>7

\* A frame of no thread's turn leaves every turn alone.
LEMMA LeadAppendPlain ==
  ASSUME NEW q \in Seq(Frames), NEW f \in Frames, NEW t \in Threads, NEW a, NEW r,
         LeadTo(q, t, a, r), ~About(f, t)
  PROVE  LeadTo(q \o <<f>>, t, a, r)
  BY LeadAppend

\* The connection breaks.
LEMMA BreakStep ==
  ASSUME IInv, Break
  PROVE  IInv'
<1> USE DEF IInv
<1>1. commands' = <<>> /\ Elements(<<>>) = {} /\ <<>> \in Seq(Message)
  BY DEF Break, Elements
<1>6. strays' \subseteq Message
  <2>1. strays \subseteq Message /\ commands \in Seq(Message)
    BY DEF TypeOK
  <2>2. commands # <<>> => Head(commands) \in Message
    BY <2>1, TailElements
  <2> QED
    BY <2>1, <2>2 DEF Break
<1>2. TypeOK'
  BY <1>1, <1>6 DEF TypeOK, Break, hubVars, viewVars
<1>3. Shapes'
  BY DEF Shapes, Break, hubVars, viewVars
<1>4. Agreed'
  BY <1>1, NoRequestMoves DEF Break, hubVars, viewVars, InFlight, Agreed
<1>5. TurnsFollow'
  <2>1. live \in Conns /\ live # None /\ live' = None /\ connPC[live] # "new"
    BY DEF Break, TypeOK, TurnsFollow
  <2>2. \A c \in Conns : ~First(c)'
    BY <2>1, ThreadTablesAssumption DEF First
  <2>3. connPC' = connPC /\ running' = running /\ active' = active
    BY DEF Break, hubVars
  <2> QED
    BY <2>1, <2>2, <2>3, ThreadTablesAssumption DEF TurnsFollow
<1> QED
  BY <1>2, <1>3, <1>4, <1>5 DEF Agreed

\* The machine lists its threads.
LEMMA SendSnapshotStep ==
  ASSUME IInv, SendSnapshot
  PROVE  IInv'
<1> USE DEF IInv
<1> DEFINE f == Snapshot(held)
<1>1. f \in Frames /\ f.kind = "snapshot"
  BY FrameKinds DEF TypeOK, Snapshot
<1>2. /\ Write(<<f>>)
      /\ UNCHANGED <<born, held, running, turns, live, strays, commands, hubVars, viewVars,
                     req, requests, late>>
  BY DEF SendSnapshot
<1> HIDE DEF f
<1>3. <<f>> \in Seq(Frames) /\ Elements(<<f>>) = {f}
  BY <1>1, ShortElements
<1>4. /\ wire' \in [Conns -> Seq(Frames)]
      /\ \A c \in Conns : Elements(wire'[c]) \subseteq Elements(wire[c]) \cup {f}
  BY <1>2, <1>3, Written
<1>5. TypeOK'
  BY <1>2, <1>4 DEF TypeOK, SendSnapshot, hubVars, viewVars
<1>6. Shapes'
  BY <1>2, <1>4 DEF Shapes, hubVars, viewVars
<1>7. Agreed'
  <2>1. \A g \in Frames : InFlight(g)' => InFlight(g)
    BY <1>1, <1>2, <1>4 DEF InFlight, hubVars
  <2> QED
    BY <1>2, <2>1, NoRequestMoves DEF Agreed, viewVars
<1>8. TurnsFollow'
  <2>1. \A t : ~About(f, t)
    BY <1>1 DEF About
  <2>2. ASSUME NEW q \in Seq(Frames), NEW t \in Threads,
               LeadTo(q, t, active[t], running[t])
        PROVE  LeadTo(q \o <<f>>, t, active[t], running'[t])
    BY <1>1, <1>2, <2>1, <2>2, LeadAppendPlain
  <2> QED
    BY <1>2, <1>3, <2>2, TurnsWritten DEF hubVars
<1> QED
  BY <1>5, <1>6, <1>7, <1>8 DEF Agreed

\* A turn ends.
LEMMA TurnEndsStep ==
  ASSUME IInv, NEW t \in Threads, TurnEnds(t)
  PROVE  IInv'
<1> USE DEF IInv
<1> DEFINE f == Ended(t, running[t])
<1>1. /\ running[t] \in Turns /\ f \in Frames
      /\ f.kind = "ended" /\ f.thread = t /\ f.turn = running[t]
  BY FrameKinds DEF TypeOK, Ended, TurnEnds
<1>2. /\ Write(<<f>>) /\ running' = [running EXCEPT ![t] = None]
      /\ UNCHANGED <<born, held, turns, live, owes, strays, unlisted, commands, hubVars,
                     viewVars, req, requests, late>>
  BY DEF TurnEnds
<1> HIDE DEF f
<1>3. <<f>> \in Seq(Frames) /\ Elements(<<f>>) = {f}
  BY <1>1, ShortElements
<1>4. /\ wire' \in [Conns -> Seq(Frames)]
      /\ \A c \in Conns : Elements(wire'[c]) \subseteq Elements(wire[c]) \cup {f}
  BY <1>2, <1>3, Written
<1>5. TypeOK'
  BY <1>2, <1>4 DEF TypeOK, hubVars, viewVars
<1>6. Shapes'
  BY <1>2, <1>4 DEF Shapes, hubVars, viewVars
<1>7. Agreed'
  <2>1. \A g \in Frames : InFlight(g)' => InFlight(g)
    BY <1>1, <1>2, <1>4 DEF InFlight, hubVars
  <2> QED
    BY <1>2, <2>1, NoRequestMoves DEF Agreed, viewVars
<1>8. TurnsFollow'
  <2>1. \A u : About(f, u) <=> u = t
    BY <1>1 DEF About
  <2>2. \A u \in Threads : running'[u] = IF u = t THEN None ELSE running[u]
    BY <1>2 DEF TypeOK
  <2>3. ASSUME NEW q \in Seq(Frames), NEW u \in Threads,
               LeadTo(q, u, active[u], running[u])
        PROVE  LeadTo(q \o <<f>>, u, active[u], running'[u])
    <3>1. CASE u = t
      <4>1. running'[u] = TurnOf(f) /\ running[u] \in {f.turn, None}
        BY <1>1, <2>2, <3>1 DEF TurnOf
      <4> QED
        BY <1>1, <2>1, <2>3, <3>1, <4>1, LeadAppend
    <3>2. CASE u # t
      BY <1>1, <2>1, <2>2, <2>3, <3>2, LeadAppendPlain
    <3> QED
      BY <3>1, <3>2
  <2>4. running[t] # None
    BY DEF TurnEnds
  <2> QED
    BY <1>2, <1>3, <2>3, <2>4, TurnsWritten DEF hubVars
<1> QED
  BY <1>5, <1>6, <1>7, <1>8 DEF Agreed

\* f is the answer the machine gives to command m
AnswerTo(f, m) ==
    /\ f.kind = "done" /\ f.id = m.id /\ f.cmd = m.cmd
    /\ f.cmd = "create" \/ f.thread = m.thread
    /\ f.cmd = "archive" => Archived(f.thread)'
    /\ f.cmd \in {"create", "read", "resume"} => f.thread \in held'

\* A command writes frames that tell its effect on the turns, among them one answer.
Effective(m, fs) ==
    /\ Write(fs) /\ fs \in Seq(Frames)
    /\ \A f \in Elements(fs) : f.kind = "done" => AnswerTo(f, m)
    /\ born \subseteq born' /\ born' \subseteq Threads
    /\ held' \subseteq born' /\ held' \ held \subseteq Threads \ born
    /\ running' \in [Threads -> Turns \cup {None}]
    /\ turns' \in 0..MaxTurns /\ owes' \in BOOLEAN
    /\ \A q \in Seq(Frames), t \in Threads :
          LeadTo(q, t, active[t], running[t]) => LeadTo(q \o fs, t, active[t], running'[t])

\* The answer of a command is a frame.
LEMMA DoneShape ==
  ASSUME NEW m \in Message
  PROVE  /\ Done(m) \in Frames /\ Done(m).kind = "done" /\ Done(m).id = m.id
         /\ Done(m).cmd = m.cmd /\ Done(m).thread = m.thread
  BY FrameKinds DEF Done

\* thread.create
LEMMA CreateEffect ==
  ASSUME IInv, live # None, NEW m \in Message, CreateThread(m)
  PROVE  \E fs : Effective(m, fs)
<1> USE DEF IInv
<1>1. PICK n \in Threads \ born :
        /\ born' = born \cup {n} /\ held' = held \cup {n}
        /\ Write(<<Done([m EXCEPT !.thread = n])>>)
  BY DEF CreateThread, Creates
<1>2. m.cmd = "create" /\ UNCHANGED <<running, turns>> /\ owes' = TRUE
  BY DEF CreateThread, Creates
<1>3. /\ [m EXCEPT !.thread = n] \in Message
      /\ [m EXCEPT !.thread = n].cmd = m.cmd /\ [m EXCEPT !.thread = n].id = m.id
      /\ [m EXCEPT !.thread = n].thread = n
  BY <1>1
<1> DEFINE f == Done([m EXCEPT !.thread = n])
<1>4. f \in Frames /\ f.kind = "done" /\ f.id = m.id /\ f.cmd = "create" /\ f.thread = n
  BY <1>2, <1>3, DoneShape
<1>5. Write(<<f>>)
  BY <1>1
<1> HIDE DEF f
<1>6. <<f>> \in Seq(Frames) /\ Elements(<<f>>) = {f}
  BY <1>4, ShortElements
<1>7. AnswerTo(f, m)
  BY <1>1, <1>2, <1>4 DEF AnswerTo
<1>8. ASSUME NEW q \in Seq(Frames), NEW t \in Threads, LeadTo(q, t, active[t], running[t])
      PROVE  LeadTo(q \o <<f>>, t, active[t], running'[t])
  <2>1. ~About(f, t)
    BY <1>4 DEF About
  <2> QED
    BY <1>2, <1>4, <1>8, <2>1, LeadAppendPlain
<1>9. /\ born \subseteq born' /\ born' \subseteq Threads
      /\ held' \subseteq born' /\ held' \ held \subseteq Threads \ born
      /\ running' \in [Threads -> Turns \cup {None}]
      /\ turns' \in 0..MaxTurns /\ owes' \in BOOLEAN
  BY <1>1, <1>2 DEF TypeOK
<1>10. Effective(m, <<f>>)
  BY <1>5, <1>6, <1>7, <1>8, <1>9 DEF Effective
<1> QED
  BY <1>10

\* thread.read, thread.resume
LEMMA ReadOrResumeEffect ==
  ASSUME IInv, live # None, NEW m \in Message, ReadOrResumeThread(m)
  PROVE  \E fs : Effective(m, fs)
<1> USE DEF IInv
<1> DEFINE f == Done(m)
<1>1. /\ f \in Frames /\ f.kind = "done" /\ f.id = m.id /\ f.cmd = m.cmd
      /\ f.thread = m.thread /\ m.cmd \in {"read", "resume"} /\ m.thread \in held
      /\ Write(<<f>>) /\ owes' \in BOOLEAN /\ UNCHANGED <<born, held, running, turns>>
  BY DoneShape DEF ReadOrResumeThread
<1> HIDE DEF f
<1>2. <<f>> \in Seq(Frames) /\ Elements(<<f>>) = {f}
  BY <1>1, ShortElements
<1>3. AnswerTo(f, m)
  BY <1>1 DEF AnswerTo
<1>4. ASSUME NEW q \in Seq(Frames), NEW t \in Threads, LeadTo(q, t, active[t], running[t])
      PROVE  LeadTo(q \o <<f>>, t, active[t], running'[t])
  <2>1. ~About(f, t)
    BY <1>1 DEF About
  <2> QED
    BY <1>1, <1>4, <2>1, LeadAppendPlain
<1>5. Effective(m, <<f>>)
  BY <1>1, <1>2, <1>3, <1>4 DEF Effective, TypeOK
<1> QED
  BY <1>5

\* thread.archive
LEMMA ArchiveEffect ==
  ASSUME IInv, live # None, NEW m \in Message, ArchiveThread(m)
  PROVE  \E fs : Effective(m, fs)
<1> USE DEF IInv
<1> DEFINE f == Done(m)
<1>1. /\ f \in Frames /\ f.kind = "done" /\ f.id = m.id /\ f.cmd = "archive"
      /\ f.thread = m.thread /\ m.cmd = "archive" /\ m.thread \in held
      /\ Write(<<f>>) /\ owes' \in BOOLEAN /\ UNCHANGED <<born, turns>>
      /\ held' = held \ {m.thread} /\ running' = [running EXCEPT ![m.thread] = None]
  BY DoneShape DEF ArchiveThread, Archives
<1> HIDE DEF f
<1>2. <<f>> \in Seq(Frames) /\ Elements(<<f>>) = {f}
  BY <1>1, ShortElements
<1>3. AnswerTo(f, m)
  BY <1>1 DEF AnswerTo, Archived, TypeOK
<1>4. ASSUME NEW q \in Seq(Frames), NEW t \in Threads, LeadTo(q, t, active[t], running[t])
      PROVE  LeadTo(q \o <<f>>, t, active[t], running'[t])
  <2>1. running'[t] = IF t = m.thread THEN None ELSE running[t]
    BY <1>1 DEF TypeOK
  <2>2. CASE t = m.thread
    <3>1. running'[t] = TurnOf(f) /\ f.kind # "ended"
      BY <1>1, <2>1, <2>2 DEF TurnOf
    <3>2. About(f, t)
      BY <1>1, <2>2 DEF About
    <3> QED
      BY <1>1, <1>4, <3>1, <3>2, LeadAppend
  <2>3. CASE t # m.thread
    <3>1. ~About(f, t)
      BY <1>1, <2>3 DEF About
    <3> QED
      BY <1>1, <1>4, <2>1, <2>3, <3>1, LeadAppendPlain
  <2> QED
    BY <2>2, <2>3
<1>5. Effective(m, <<f>>)
  BY <1>1, <1>2, <1>3, <1>4 DEF Effective, TypeOK
<1> QED
  BY <1>5

\* turn.start: the event and the answer, in either order
LEMMA StartEffect ==
  ASSUME IInv, live # None, NEW m \in Message, StartTurn(m)
  PROVE  \E fs : Effective(m, fs)
<1> USE DEF IInv
<1> DEFINE f == Done(m)
           s == Started(m.thread, turns + 1)
<1>1. turns + 1 \in Turns /\ turns' \in 0..MaxTurns /\ turns' = turns + 1
  BY ThreadTablesAssumption DEF StartTurn, Starts, TypeOK, Turns
<1>2. /\ f \in Frames /\ f.kind = "done" /\ f.id = m.id /\ f.cmd = "start"
      /\ f.thread = m.thread /\ m.cmd = "start" /\ m.thread \in held
      /\ Write(<<s, f>>) \/ Write(<<f, s>>)
      /\ owes' \in BOOLEAN /\ UNCHANGED <<born, held>>
      /\ running' = [running EXCEPT ![m.thread] = turns + 1]
  BY DoneShape DEF StartTurn, Starts
<1>3. s \in Frames /\ s.kind = "started" /\ s.thread = m.thread /\ s.turn = turns + 1
  BY <1>1, FrameKinds DEF Started
<1> HIDE DEF f, s
<1>4. /\ <<s, f>> \in Seq(Frames) /\ Elements(<<s, f>>) = {s, f}
      /\ <<f, s>> \in Seq(Frames) /\ Elements(<<f, s>>) = {f, s}
  BY <1>2, <1>3, ShortElements, Zenon
<1>5. AnswerTo(f, m)
  BY <1>2 DEF AnswerTo
<1>6. \A t : ~About(f, t) /\ (About(s, t) <=> t = m.thread)
  BY <1>2, <1>3 DEF About
<1>7. ASSUME NEW q \in Seq(Frames), NEW t \in Threads, LeadTo(q, t, active[t], running[t])
      PROVE  LeadTo(q \o <<s>>, t, active[t], running'[t])
  <2>1. running'[t] = IF t = m.thread THEN turns + 1 ELSE running[t]
    BY <1>2 DEF TypeOK
  <2>2. CASE t = m.thread
    <3>1. running'[t] = TurnOf(s) /\ s.kind # "ended"
      BY <1>3, <2>1, <2>2 DEF TurnOf
    <3> QED
      BY <1>3, <1>6, <1>7, <2>2, <3>1, LeadAppend
  <2>3. CASE t # m.thread
    BY <1>3, <1>6, <1>7, <2>1, <2>3, LeadAppendPlain
  <2> QED
    BY <2>2, <2>3
<1>8. ASSUME NEW q \in Seq(Frames), NEW t \in Threads, LeadTo(q, t, active[t], running[t])
      PROVE  /\ LeadTo(q \o <<s, f>>, t, active[t], running'[t])
             /\ LeadTo(q \o <<f, s>>, t, active[t], running'[t])
  <2>1. /\ q \o <<s, f>> = (q \o <<s>>) \o <<f>> /\ q \o <<s>> \in Seq(Frames)
        /\ q \o <<f, s>> = (q \o <<f>>) \o <<s>> /\ q \o <<f>> \in Seq(Frames)
    BY <1>2, <1>3, ConcatShort
  <2>2. LeadTo((q \o <<s>>) \o <<f>>, t, active[t], running'[t])
    BY <1>2, <1>6, <1>7, <1>8, <2>1, LeadAppendPlain
  <2>3. LeadTo(q \o <<f>>, t, active[t], running[t])
    BY <1>2, <1>6, <1>8, LeadAppendPlain
  <2>4. LeadTo((q \o <<f>>) \o <<s>>, t, active[t], running'[t])
    BY <1>7, <2>1, <2>3
  <2> QED
    BY <2>1, <2>2, <2>4
<1>9. /\ running' \in [Threads -> Turns \cup {None}]
      /\ born \subseteq born' /\ born' \subseteq Threads
      /\ held' \subseteq born' /\ held' \ held \subseteq Threads \ born
  BY <1>1, <1>2 DEF TypeOK
<1>10. CASE Write(<<s, f>>)
  <2>1. Effective(m, <<s, f>>)
    BY <1>1, <1>2, <1>3, <1>4, <1>5, <1>8, <1>9, <1>10 DEF Effective
  <2> QED
    BY <2>1
<1>11. CASE Write(<<f, s>>)
  <2>1. Effective(m, <<f, s>>)
    BY <1>1, <1>2, <1>3, <1>4, <1>5, <1>8, <1>9, <1>11 DEF Effective
  <2> QED
    BY <2>1
<1> QED
  BY <1>2, <1>10, <1>11

\* turn.interrupt: the end is told twice
LEMMA InterruptEffect ==
  ASSUME IInv, live # None, NEW m \in Message, InterruptTurn(m)
  PROVE  \E fs : Effective(m, fs)
<1> USE DEF IInv
<1> DEFINE f == Done(m)
           e == Ended(m.thread, running[m.thread])
<1>1. /\ f \in Frames /\ f.kind = "done" /\ f.id = m.id /\ f.cmd = "interrupt"
      /\ f.thread = m.thread /\ m.cmd = "interrupt" /\ m.thread \in Threads
      /\ Write(<<e, f, e>>)
      /\ owes' \in BOOLEAN /\ UNCHANGED <<born, held, turns>>
      /\ running' = [running EXCEPT ![m.thread] = None]
  BY DoneShape DEF InterruptTurn, Interrupts
<1>2. /\ running[m.thread] \in Turns
      /\ e \in Frames /\ e.kind = "ended" /\ e.thread = m.thread
      /\ e.turn = running[m.thread]
  BY <1>1, FrameKinds DEF Ended, InterruptTurn, Interrupts, TypeOK
<1> HIDE DEF f, e
<1>3. <<e, f, e>> \in Seq(Frames) /\ Elements(<<e, f, e>>) = {e, f, e}
  BY <1>1, <1>2, ShortElements, Zenon
<1>4. AnswerTo(f, m)
  BY <1>1 DEF AnswerTo
<1>5. \A t : ~About(f, t) /\ (About(e, t) <=> t = m.thread)
  BY <1>1, <1>2 DEF About
<1>6. \A t \in Threads : running'[t] = IF t = m.thread THEN None ELSE running[t]
  BY <1>1 DEF TypeOK
<1>7. ASSUME NEW q \in Seq(Frames), NEW t \in Threads,
             LeadTo(q, t, active[t], running[t]) \/ LeadTo(q, t, active[t], running'[t])
      PROVE  LeadTo(q \o <<e>>, t, active[t], running'[t])
  <2>1. CASE t = m.thread
    <3>1. running'[t] = TurnOf(e) /\ running'[t] = None /\ running[t] = e.turn
      BY <1>2, <1>6, <2>1 DEF TurnOf
    <3>2. CASE LeadTo(q, t, active[t], running[t])
      BY <1>2, <1>5, <2>1, <3>1, <3>2, LeadAppend
    <3>3. CASE LeadTo(q, t, active[t], running'[t])
      BY <1>2, <1>5, <2>1, <3>1, <3>3, LeadAppend
    <3> QED
      BY <1>7, <3>2, <3>3
  <2>2. CASE t # m.thread
    BY <1>2, <1>5, <1>6, <1>7, <2>2, LeadAppendPlain
  <2> QED
    BY <2>1, <2>2
<1>8. ASSUME NEW q \in Seq(Frames), NEW t \in Threads, LeadTo(q, t, active[t], running[t])
      PROVE  LeadTo(q \o <<e, f, e>>, t, active[t], running'[t])
  <2>1. /\ q \o <<e, f, e>> = ((q \o <<e>>) \o <<f>>) \o <<e>>
        /\ q \o <<e>> \in Seq(Frames) /\ (q \o <<e>>) \o <<f>> \in Seq(Frames)
    <3>1. f \in Frames /\ e \in Frames
      BY <1>1, <1>2
    <3>2. ASSUME NEW x \in Frames, NEW y \in Frames, NEW z \in Frames
          PROVE  /\ q \o <<x, y, z>> = ((q \o <<x>>) \o <<y>>) \o <<z>>
                 /\ q \o <<x>> \in Seq(Frames) /\ (q \o <<x>>) \o <<y>> \in Seq(Frames)
      BY ConcatShort
    <3> QED
      BY <3>1, <3>2, Zenon
  <2>2. LeadTo(q \o <<e>>, t, active[t], running'[t])
    BY <1>7, <1>8
  <2>3. LeadTo((q \o <<e>>) \o <<f>>, t, active[t], running'[t])
    BY <1>1, <1>5, <2>1, <2>2, LeadAppendPlain
  <2> QED
    BY <1>7, <2>1, <2>3
<1>9. /\ running' \in [Threads -> Turns \cup {None}] /\ turns' \in 0..MaxTurns
      /\ born \subseteq born' /\ born' \subseteq Threads
      /\ held' \subseteq born' /\ held' \ held \subseteq Threads \ born
  BY <1>1 DEF TypeOK
<1>10. Effective(m, <<e, f, e>>)
  BY <1>1, <1>2, <1>3, <1>4, <1>8, <1>9 DEF Effective
<1> QED
  BY <1>10

\* The agent refuses.
LEMMA RejectEffect ==
  ASSUME IInv, live # None, NEW m \in Message, Reject(m)
  PROVE  \E fs : Effective(m, fs)
<1> USE DEF IInv
<1> DEFINE f == Rejected(m)
<1>1. /\ f \in Frames /\ f.kind = "rejected"
      /\ Write(<<f>>) /\ UNCHANGED <<born, held, running, turns, owes>>
  BY FrameKinds DEF Rejected, Reject
<1> HIDE DEF f
<1>2. <<f>> \in Seq(Frames) /\ Elements(<<f>>) = {f}
  BY <1>1, ShortElements
<1>3. ASSUME NEW q \in Seq(Frames), NEW t \in Threads, LeadTo(q, t, active[t], running[t])
      PROVE  LeadTo(q \o <<f>>, t, active[t], running'[t])
  <2>1. ~About(f, t)
    BY <1>1 DEF About
  <2> QED
    BY <1>1, <1>3, <2>1, LeadAppendPlain
<1>4. Effective(m, <<f>>)
  BY <1>1, <1>2, <1>3 DEF Effective, TypeOK
<1> QED
  BY <1>4

\* The machine handles a command.
LEMMA HandleCommandStep ==
  ASSUME IInv, HandleCommand
  PROVE  IInv'
<1> USE DEF IInv
<1> DEFINE m == Head(commands)
<1>1. commands \in Seq(Message) /\ commands # <<>>
  BY DEF TypeOK, HandleCommand
<1>2. /\ m \in Message /\ m \in Elements(commands)
      /\ commands' \in Seq(Message) /\ Elements(commands') \subseteq Elements(commands)
  BY <1>1, TailElements DEF HandleCommand
<1>3. /\ UNCHANGED <<live, strays, unlisted, hubVars, viewVars, req, requests, late>>
      /\ Effect(m) /\ live # None
  BY DEF HandleCommand
<1> HIDE DEF m
<1>4. PICK fs : Effective(m, fs)
  BY <1>2, <1>3, CreateEffect, ReadOrResumeEffect, ArchiveEffect, StartEffect,
     InterruptEffect, RejectEffect DEF Effect
<1>5. /\ wire' \in [Conns -> Seq(Frames)]
      /\ \A c \in Conns : Elements(wire'[c]) \subseteq Elements(wire[c]) \cup Elements(fs)
  BY <1>4, Written DEF Effective
<1>6. TypeOK'
  BY <1>2, <1>3, <1>4, <1>5 DEF TypeOK, Effective, hubVars, viewVars
<1>7. Shapes'
  BY <1>3, <1>5 DEF Shapes, hubVars
<1>8. \A f \in Frames : InFlight(f)' => InFlight(f) \/ AnswerTo(f, m)
  BY <1>3, <1>4, <1>5 DEF InFlight, Effective, hubVars
<1>9. \A t : Archived(t) => Archived(t)'
  BY <1>4 DEF Archived, Effective
<1>10. IsFor(m) /\ \A x : IsFor(x) => IsFor(x)'
  BY <1>2, <1>3 DEF IdsAgree, IsFor
<1>11. Asked'
  BY <1>3 DEF Asked
<1>12. IdsAgree'
  <2>1. \A f : AnswerTo(f, m) => IsFor(f)
    BY <1>10 DEF AnswerTo, IsFor
  <2> QED
    BY <1>2, <1>3, <1>8, <1>10, <2>1 DEF IdsAgree
<1>13. ArchivedFirst'
  BY <1>3, <1>8, <1>9 DEF ArchivedFirst, AnswerTo, viewVars
<1>14. ClearsSafely'
  <2>1. \A t : MayClear(t)' = MayClear(t)
    BY <1>3 DEF MayClear, viewVars
  <2>2. \A t \in held' : t \notin deleted
    BY <1>4 DEF ArchivedFirst, Archived, Effective
  <2>3. ASSUME NEW f \in Frames, NEW k \in Consoles, AnswerTo(f, m),
               req[k].pc = "waiting", req[k].id = f.id,
               req[k].op \in {"create", "read", "resume"}
        PROVE  MayClear(f.thread)
    <3>1. m.cmd = req[k].cmd
      BY <1>10, <2>3 DEF IsFor, AnswerTo
    <3>2. req[k].cmd \in {"create", "read", "resume"}
      BY <2>3 DEF Asked
    <3> QED
      BY <2>2, <2>3, <3>1, <3>2 DEF AnswerTo, MayClear
  <2> QED
    BY <1>3, <1>8, <2>1, <2>3 DEF ClearsSafely
<1>15. TurnsFollow'
  BY <1>3, <1>4, TurnsWritten DEF Effective, hubVars
<1> QED
  BY <1>6, <1>7, <1>11, <1>12, <1>13, <1>14, <1>15

\* The loop of a lost connection gets through with its command: then the live one is
\* not the first, and nothing is answered.
LEMMA FinishStrayStep ==
  ASSUME IInv, NEW m \in strays, FinishStray(m)
  PROVE  IInv'
<1> USE DEF IInv
<1>1. /\ m \in Message /\ strays' \subseteq strays /\ unlisted' \in BOOLEAN
      /\ UNCHANGED <<live, owes, commands, hubVars, viewVars, req, requests, late>>
  BY DEF FinishStray, TypeOK
<1>2. /\ wire' \in [Conns -> Seq(Frames)]
      /\ \A c \in Conns : \A f \in Elements(wire'[c]) :
            f \in Elements(wire[c]) \/ f.kind \in {"started", "ended"}
  <2>1. ASSUME NEW f \in Frames, f.kind \in {"started", "ended"}, Write(<<f>>)
        PROVE  /\ wire' \in [Conns -> Seq(Frames)]
               /\ \A c \in Conns : \A g \in Elements(wire'[c]) :
                     g \in Elements(wire[c]) \/ g.kind \in {"started", "ended"}
    <3>1. <<f>> \in Seq(Frames) /\ Elements(<<f>>) = {f}
      BY ShortElements
    <3> QED
      BY <2>1, <3>1, Written
  <2>2. CASE wire' = wire
    BY <2>2 DEF Shapes
  <2>3. CASE Starts(m.thread) /\ Write(<<Started(m.thread, turns + 1)>>)
    <3>1. turns + 1 \in Turns
      BY <2>3, ThreadTablesAssumption DEF Starts, TypeOK, Turns
    <3>2. Started(m.thread, turns + 1) \in Frames
      BY <1>1, <3>1, FrameKinds
    <3>3. Started(m.thread, turns + 1).kind = "started"
      BY DEF Started
    <3> QED
      BY <2>1, <2>3, <3>2, <3>3
  <2>4. CASE Interrupts(m.thread) /\ Write(<<Ended(m.thread, running[m.thread])>>)
    <3>1. running[m.thread] \in Turns
      BY <1>1, <2>4 DEF Interrupts, TypeOK
    <3>2. Ended(m.thread, running[m.thread]) \in Frames
      BY <1>1, <3>1, FrameKinds
    <3>3. Ended(m.thread, running[m.thread]).kind = "ended"
      BY DEF Ended
    <3> QED
      BY <2>1, <2>4, <3>2, <3>3
  <2> QED
    BY <2>2, <2>3, <2>4 DEF FinishStray
<1>3. /\ born \subseteq born' /\ born' \subseteq Threads
      /\ held' \subseteq born' /\ held' \ held \subseteq Threads \ born
      /\ running' \in [Threads -> Turns \cup {None}] /\ turns' \in 0..MaxTurns
  <2>1. CASE \E n \in Threads : Creates(n)
    BY <2>1 DEF Creates, TypeOK
  <2>2. CASE Archives(m.thread)
    BY <1>1, <2>2 DEF Archives, TypeOK
  <2>3. CASE Starts(m.thread)
    BY <1>1, <2>3, ThreadTablesAssumption DEF Starts, TypeOK, Turns
  <2>4. CASE Interrupts(m.thread)
    BY <1>1, <2>4 DEF Interrupts, TypeOK
  <2>5. CASE UNCHANGED <<born, held, running, turns>>
    BY <2>5 DEF TypeOK
  <2> QED
    BY <2>1, <2>2, <2>3, <2>4, <2>5 DEF FinishStray
<1>4. TypeOK'
  BY <1>1, <1>2, <1>3 DEF TypeOK, hubVars, viewVars
<1>5. Shapes'
  BY <1>1, <1>2 DEF Shapes, hubVars
<1>6. \A f \in Frames : InFlight(f)' => InFlight(f)
  BY <1>1, <1>2 DEF InFlight, hubVars
<1>7. \A t : Archived(t) => Archived(t)'
  BY <1>3 DEF Archived
<1>8. Asked'
  BY <1>1 DEF Asked
<1>9. IdsAgree'
  <2>1. \A x : IsFor(x)' = IsFor(x)
    BY <1>1 DEF IsFor
  <2> QED
    BY <1>1, <1>6, <2>1 DEF IdsAgree
<1>10. ArchivedFirst'
  BY <1>1, <1>6, <1>7 DEF ArchivedFirst, viewVars
<1>11. ClearsSafely'
  <2>1. \A t : MayClear(t)' = MayClear(t)
    BY <1>1 DEF MayClear, viewVars
  <2> QED
    BY <1>1, <1>6, <2>1 DEF ClearsSafely
<1>12. TurnsFollow'
  <2>1. PICK d \in Conns : connPC[d] # "new" /\ d # live
    BY DEF TurnsFollow
  <2>2. connPC' = connPC /\ live' = live
    BY <1>1 DEF hubVars
  <2>3. \A c \in Conns : ~First(c)'
    BY <2>1, <2>2 DEF First
  <2> QED
    BY <1>1, <2>1, <2>2, <2>3 DEF TurnsFollow
<1> QED
  BY <1>4, <1>5, <1>8, <1>9, <1>10, <1>11, <1>12

-----------------------------------------------------------------------------
(* The goroutine of a connection.                                          *)

\* A connection is made.
LEMMA ConnectStep ==
  ASSUME IInv, NEW c \in Conns, Connect(c)
  PROVE  IInv'
<1> USE DEF IInv
<1>1. Register \in Frames /\ Register.kind = "register"
  BY FrameKinds DEF Register
<1>2. <<Register>> \in Seq(Frames) /\ Elements(<<Register>>) = {Register}
  BY <1>1, ShortElements
<1>3. /\ wire' = [wire EXCEPT ![c] = <<Register>>]
      /\ wire' \in [Conns -> Seq(Frames)] /\ wire'[c] = <<Register>>
      /\ connPC' = [connPC EXCEPT ![c] = "reading"] /\ connPC[c] = "new"
      /\ live = None /\ live' = c /\ owes' = TRUE
      /\ UNCHANGED <<born, held, running, turns, strays, unlisted, commands, owner, doing,
                     copy, snap, hasSnap, active, viewVars, req, requests, late>>
  BY <1>2 DEF Connect, Shapes
<1>4. TypeOK'
  BY <1>3 DEF TypeOK, viewVars
<1>5. Shapes'
  BY <1>3 DEF Shapes, TypeOK
<1>6. Agreed'
  <2>1. \A f \in Frames : InFlight(f)' => InFlight(f)
    BY <1>1, <1>2, <1>3 DEF InFlight, Shapes
  <2> QED
    BY <1>3, <2>1, NoRequestMoves DEF Agreed, viewVars
<1>7. TurnsFollow'
  <2>1. \A d \in Conns : connPC'[d] = IF d = c THEN "reading" ELSE connPC[d]
    BY <1>3 DEF TypeOK
  <2>2. ASSUME NEW d \in Conns, First(d)'
        PROVE  /\ d = c /\ \A e \in Conns : connPC[e] = "new"
    BY <1>3, <2>1, <2>2 DEF First
  <2>3. ASSUME First(c)', NEW t \in Threads
        PROVE  LeadTo(Pipe(c), t, active[t], running[t])'
    <3>1. active[t] = running[t]
      BY <2>2, <2>3 DEF TurnsFollow
    <3>2. Pipe(c)' = <<Register>>
      BY <1>3, <2>1 DEF Pipe
    <3>3. Places(<<Register>>, t) = {}
      <4>1. ~About(Register, t)
        BY <1>1 DEF About
      <4>2. \A i \in DOMAIN <<Register>> : <<Register>>[i] = Register
        OBVIOUS
      <4> QED
        BY <4>1, <4>2 DEF Places
    <3>4. LeadTo(<<Register>>, t, active[t], running[t])
      BY <3>1, <3>3 DEF LeadTo
    <3> QED
      BY <1>3, <3>2, <3>4
  <2>4. Head(wire'[c]) = Register /\ wire'[c] # <<>>
    BY <1>3
  <2>5. ~(\A d \in Conns : connPC'[d] = "new")
    BY <2>1
  <2>6. \A d \in Conns : connPC'[d] = "new" => live' # d
    BY <1>3, <2>1
  <2>7. strays' # {} => \E d \in Conns : connPC'[d] # "new" /\ d # live'
    BY <1>3, <2>1 DEF TurnsFollow
  <2> QED
    BY <2>2, <2>3, <2>4, <2>5, <2>6, <2>7 DEF TurnsFollow
<1> QED
  BY <1>4, <1>5, <1>6, <1>7 DEF Agreed

\* What the head of a queue that is not empty leaves behind.
LEMMA HeadBack ==
  ASSUME NEW q \in Seq(Frames), q # <<>>
  PROVE  <<Head(q)>> \o Tail(q) = q
<1>1. /\ Head(q) \in Frames /\ Tail(q) \in Seq(Frames) /\ Len(Tail(q)) = Len(q) - 1
      /\ Len(q) \in Nat /\ Len(q) >= 1 /\ Head(q) = q[1]
      /\ \A i \in 1..(Len(q) - 1) : Tail(q)[i] = q[i + 1]
  OBVIOUS
<1>2. <<Head(q)>> \in Seq(Frames) /\ Len(<<Head(q)>>) = 1 /\ <<Head(q)>>[1] = q[1]
  BY <1>1
<1>3. ASSUME NEW x \in Seq(Frames), Len(x) = 1, x[1] = q[1]
      PROVE  x \o Tail(q) = q
  <2>1. /\ x \o Tail(q) \in Seq(Frames) /\ Len(x \o Tail(q)) = Len(q)
        /\ \A i \in 1..Len(q) : (x \o Tail(q))[i] = q[i]
    <3>1. /\ x \o Tail(q) \in Seq(Frames) /\ Len(x \o Tail(q)) = Len(q)
          /\ \A i \in 1..Len(q) : (x \o Tail(q))[i] = IF i <= 1 THEN x[i] ELSE Tail(q)[i - 1]
      <4>1. /\ Len(x \o Tail(q)) = Len(x) + Len(Tail(q)) /\ x \o Tail(q) \in Seq(Frames)
            /\ \A i \in 1..Len(x) + Len(Tail(q)) :
                   (x \o Tail(q))[i] = IF i <= Len(x) THEN x[i] ELSE Tail(q)[i - Len(x)]
        BY <1>1, <1>3, FramesConcat, Zenon
      <4> QED
        BY <1>1, <1>3, <4>1
    <3>2. \A i \in 1..Len(q) : i > 1 => Tail(q)[i - 1] = q[i]
      BY <1>1
    <3> QED
      BY <1>1, <1>3, <3>1, <3>2
  <2> QED
    BY <2>1, SeqEqual
<1> QED
  BY <1>2, <1>3, Zenon

\* A goroutine reads a frame.
LEMMA ReadFrameStep ==
  ASSUME IInv, NEW c \in Conns, ReadFrame(c)
  PROVE  IInv'
<1> USE DEF IInv
<1> DEFINE f == Head(wire[c])
           plain == \/ f.kind = "rejected"
                    \/ f.kind = "done" /\ f.cmd \notin {"create", "resume", "archive"}
<1>1. /\ wire[c] \in Seq(Frames) /\ wire[c] # <<>> /\ connPC[c] = "reading"
      /\ wire' = [wire EXCEPT ![c] = Tail(@)]
      /\ UNCHANGED <<machineVars, commands, copy, snap, hasSnap, active, viewVars, req,
                     requests, late>>
  BY DEF ReadFrame, Shapes
<1>2. f \in Frames /\ f \in Elements(wire[c]) /\ Tail(wire[c]) \in Seq(Frames)
  BY <1>1, TailElements
<1>3. /\ wire' \in [Conns -> Seq(Frames)] /\ wire'[c] = Tail(wire[c])
      /\ \A d \in Conns : d # c => wire'[d] = wire[d]
      /\ \A d \in Conns : Elements(wire'[d]) \subseteq Elements(wire[d])
  <2>1. Elements(Tail(wire[c])) \subseteq Elements(wire[c])
    BY <1>1, TailElements
  <2> QED
    BY <1>1, <1>2, <2>1 DEF Shapes
<1>4. \/ f = Register /\ owner' = c /\ UNCHANGED <<doing, connPC>>
      \/ /\ f # Register /\ owner = c /\ UNCHANGED owner
         /\ doing' = [doing EXCEPT ![c] = f]
         /\ connPC' = [connPC EXCEPT ![c] = IF plain THEN "answer" ELSE "apply"]
      \/ f # Register /\ owner # c /\ UNCHANGED <<owner, doing, connPC>>
  BY DEF ReadFrame
<1>5. TypeOK'
  <2>1. /\ owner' \in Conns \cup {None}
        /\ connPC' \in [Conns -> {"new", "reading", "apply", "store", "route", "answer", "gone"}]
    BY <1>4 DEF TypeOK
  <2>2. \A d \in Conns : doing'[d] \in Frames
    BY <1>2, <1>4 DEF Shapes
  <2> QED
    BY <1>1, <1>3, <2>1, <2>2 DEF TypeOK, machineVars, viewVars
<1>6. Shapes'
  <2>1. CASE UNCHANGED <<doing, connPC>>
    BY <1>1, <1>3, <2>1 DEF Shapes
  <2>2. CASE /\ f # Register /\ doing' = [doing EXCEPT ![c] = f]
             /\ connPC' = [connPC EXCEPT ![c] = IF plain THEN "answer" ELSE "apply"]
    <3>1. f.kind # "register" /\ f.kind \in {"snapshot", "started", "ended", "done", "rejected"}
      BY <1>2, <2>2, FrameShape
    <3>2. /\ doing' \in [Conns -> Frames] /\ doing'[c] = f
          /\ connPC'[c] = IF plain THEN "answer" ELSE "apply"
          /\ \A d \in Conns \ {c} : doing'[d] = doing[d] /\ connPC'[d] = connPC[d]
      BY <1>2, <2>2 DEF Shapes, TypeOK
    <3> HIDE DEF f
    <3>3. connPC'[c] = "answer" => f.kind \in {"done", "rejected"}
      BY <3>2
    <3>4. connPC'[c] # "answer" =>
             /\ connPC'[c] = "apply"
             /\ \/ f.kind \in {"snapshot", "started", "ended"}
                \/ f.kind = "done" /\ f.cmd \in {"create", "resume", "archive"}
      BY <1>2, <3>1, <3>2, FrameShape DEF Commands
    <3> QED
      BY <1>1, <1>3, <3>2, <3>3, <3>4 DEF Shapes
  <2> QED
    BY <1>4, <2>1, <2>2
<1>7. Agreed'
  <2>1. \A d \in Conns : doing'[d] = doing[d] \/ (d = c /\ doing'[d] = f)
    BY <1>4 DEF Shapes
  <2>2. \A g \in Frames : InFlight(g)' => InFlight(g)
    BY <1>2, <1>3, <2>1 DEF InFlight
  <2> QED
    BY <1>1, <2>2, NoRequestMoves DEF Agreed, machineVars, viewVars
<1>8. TurnsFollow'
  <2>1. \A d \in Conns : (connPC'[d] = "new") = (connPC[d] = "new")
    BY <1>1, <1>4 DEF TypeOK
  <2>2. live' = live /\ running' = running /\ active' = active
    BY <1>1 DEF machineVars
  <2>3. \A d \in Conns : First(d)' = First(d)
    BY <2>1, <2>2 DEF First
  <2>4. \A d \in Conns : First(d) => d = c
    BY <1>1 DEF First
  <2>5. ASSUME First(c)
        PROVE  owner' = c /\ \A t \in Threads : LeadTo(Pipe(c), t, active[t], running[t])'
    <3>1. /\ owner = c \/ f = Register
          /\ \A t \in Threads : LeadTo(Pipe(c), t, active[t], running[t])
      BY <2>5 DEF TurnsFollow
    <3>2. Pipe(c) = wire[c]
      BY <1>1 DEF Pipe
    <3>3. owner' = c
      BY <1>4, <3>1
    <3>4. CASE Pipe(c)' = wire[c]
      BY <2>2, <3>1, <3>2, <3>3, <3>4
    <3>5. CASE Pipe(c)' = Tail(wire[c]) /\ \A t : ~About(f, t)
      <4>1. ASSUME NEW t \in Threads PROVE LeadTo(Tail(wire[c]), t, active[t], running[t])
        <5>1. LeadTo(wire[c], t, active[t], running[t])
          BY <3>1, <3>2
        <5> QED
          BY <1>1, <3>5, <5>1, LeadTail
      <4> QED
        BY <2>2, <3>3, <3>5, <4>1
    <3>6. CASE f = Register
      <4>1. f.kind = "register"
        BY <3>6 DEF Register
      <4>2. \A t : ~About(f, t)
        BY <4>1 DEF About
      <4>3. Pipe(c)' = Tail(wire[c])
        BY <1>1, <1>3, <1>4, <3>6 DEF Pipe
      <4> QED
        BY <3>5, <4>2, <4>3
    <3>7. CASE f # Register /\ plain
      <4>1. \A t : ~About(f, t)
        BY <3>7 DEF About
      <4>2. connPC'[c] = "answer"
        BY <1>4, <3>1, <3>7 DEF TypeOK
      <4>3. Pipe(c)' = Tail(wire[c])
        BY <1>3, <4>2 DEF Pipe
      <4> QED
        BY <3>5, <4>1, <4>3
    <3>8. CASE f # Register /\ ~plain
      <4>1. connPC'[c] = "apply" /\ doing'[c] = f
        BY <1>4, <3>1, <3>8 DEF TypeOK, Shapes
      <4>2. Pipe(c)' = <<doing'[c]>> \o wire'[c]
        BY <4>1 DEF Pipe
      <4>3. Pipe(c)' = wire[c]
        BY <1>1, <1>3, <4>1, <4>2, HeadBack
      <4> QED
        BY <3>4, <4>3
    <3> QED
      BY <3>6, <3>7, <3>8
  <2> QED
    BY <2>1, <2>2, <2>3, <2>4, <2>5, <1>1 DEF TurnsFollow, machineVars
<1> QED
  BY <1>5, <1>6, <1>7, <1>8 DEF Agreed

\* What a frame that is being applied leaves of the active turns and of the threads.
LEMMA AfterShape ==
  ASSUME TypeOK, NEW f \in Frames,
         \/ f.kind \in {"snapshot", "started", "ended"}
         \/ f.kind = "done" /\ f.cmd \in {"create", "resume", "archive"}
  PROVE  /\ TurnsAfter(f) \in [Threads -> Turns \cup {None}]
         /\ \A t \in Threads : TurnsAfter(f)[t] = IF About(f, t) THEN TurnAfter(f, active[t])
                                                                 ELSE active[t]
         /\ SnapshotAfter(f) \in [Threads -> Entry]
<1> USE DEF About, TurnAfter, TurnOf
<1>1. CASE f.kind = "snapshot"
  BY <1>1, FrameShape DEF TypeOK, TurnsAfter, SnapshotAfter, Known, Entry
<1>2. CASE f.kind = "started"
  BY <1>2, FrameShape DEF TypeOK, TurnsAfter, SnapshotAfter, Entry
<1>3. CASE f.kind = "ended"
  BY <1>3, FrameShape DEF TypeOK, TurnsAfter, SnapshotAfter, Entry
<1>4. CASE f.kind = "done"
  BY <1>4, FrameShape DEF TypeOK, TurnsAfter, SnapshotAfter, Entry
<1> QED
  BY <1>1, <1>2, <1>3, <1>4

\* A goroutine applies a frame.
LEMMA ApplyStep ==
  ASSUME IInv, NEW c \in Conns, Apply(c)
  PROVE  IInv'
<1> USE DEF IInv
<1>1. /\ connPC[c] = "apply" /\ doing[c] \in Frames
      /\ active' = TurnsAfter(doing[c]) /\ snap' = SnapshotAfter(doing[c])
      /\ hasSnap' = TRUE /\ copy' = [copy EXCEPT ![c] = snap']
      /\ connPC' = [connPC EXCEPT ![c] = "store"] /\ late' = (late \/ owner # c)
      /\ UNCHANGED <<machineVars, wire, commands, owner, doing, viewVars, req, requests>>
  BY DEF Apply, Shapes
<1>2. /\ active' \in [Threads -> Turns \cup {None}] /\ snap' \in [Threads -> Entry]
      /\ \A t \in Threads : active'[t] = IF About(doing[c], t)
                                         THEN TurnAfter(doing[c], active[t]) ELSE active[t]
  BY <1>1, AfterShape DEF Shapes
<1>3. TypeOK'
  BY <1>1, <1>2 DEF TypeOK, machineVars, viewVars
<1>4. Shapes'
  BY <1>1 DEF Shapes, TypeOK
<1>5. Agreed'
  <2>1. \A f \in Frames : InFlight(f)' => InFlight(f)
    BY <1>1 DEF InFlight
  <2> QED
    BY <1>1, <2>1, NoRequestMoves DEF Agreed, machineVars, viewVars
<1>6. TurnsFollow'
  <2>1. \A d \in Conns : (connPC'[d] = "new") = (connPC[d] = "new")
    BY <1>1 DEF TypeOK
  <2>2. live' = live /\ running' = running /\ wire' = wire /\ owner' = owner
    BY <1>1 DEF machineVars
  <2>3. \A d \in Conns : First(d)' = First(d)
    BY <2>1, <2>2 DEF First
  <2>4. \A d \in Conns : First(d) => d = c
    BY <1>1 DEF First
  <2>5. ASSUME First(c), NEW t \in Threads
        PROVE  LeadTo(Pipe(c), t, active[t], running[t])'
    <3>1. Pipe(c) = <<doing[c]>> \o wire[c] /\ wire[c] \in Seq(Frames)
      BY <1>1 DEF Pipe, Shapes
    <3>2. Pipe(c)' = wire[c]
      BY <1>1, <2>2 DEF Pipe, TypeOK
    <3>3. /\ Pipe(c) \in Seq(Frames) /\ Pipe(c) # <<>>
          /\ Head(Pipe(c)) = doing[c] /\ Tail(Pipe(c)) = wire[c]
      BY <1>1, <3>1
    <3>4. LeadTo(Pipe(c), t, active[t], running[t])
      BY <2>5 DEF TurnsFollow
    <3>5. LeadTo(Tail(Pipe(c)), t, active'[t], running[t])
      BY <1>2, <3>3, <3>4, LeadTail
    <3> QED
      BY <2>2, <3>2, <3>3, <3>5
  <2> QED
    BY <1>1, <2>1, <2>2, <2>3, <2>4, <2>5 DEF TurnsFollow, machineVars
<1> QED
  BY <1>3, <1>4, <1>5, <1>6 DEF Agreed

\* A goroutine that has applied its frame goes on, or returns.
GoesOn(c, p) ==
    /\ connPC[c] \in {"store", "route", "answer"} /\ p \in {"reading", "route", "answer"}
    /\ connPC' = [connPC EXCEPT ![c] = p]
    /\ doing' = [doing EXCEPT ![c] = IF p = "reading" THEN Register ELSE @]
    /\ UNCHANGED <<machineVars, wire, commands, owner, active, deleted, raced, requests>>

LEMMA GoesOnStep ==
  ASSUME IInv, NEW c \in Conns, NEW p, GoesOn(c, p),
         p = "route" => doing[c].kind \in {"snapshot", "done"},
         p = "answer" => doing[c].kind \in {"done", "rejected"},
         req' \in [Consoles -> Requests],
         \A k \in Consoles : req'[k] = req[k] \/ Rest(req[k], req'[k])
  PROVE  Shapes' /\ Agreed' /\ TurnsFollow'
<1> USE DEF IInv
<1>1. /\ doing' \in [Conns -> Frames]
      /\ doing'[c] = IF p = "reading" THEN Register ELSE doing[c]
      /\ connPC'[c] = p
      /\ \A d \in Conns \ {c} : doing'[d] = doing[d] /\ connPC'[d] = connPC[d]
  BY FrameKinds DEF GoesOn, Shapes, TypeOK
<1>2. \A f \in Frames : InFlight(f)' => InFlight(f)
  BY <1>1 DEF InFlight, GoesOn, Register
<1>3. /\ \A k \in Consoles : req'[k].pc # "idle" => req'[k].thread \in Threads
      /\ Agreed'
  BY <1>2, QuietStep DEF GoesOn, machineVars, Agreed
<1>4. Shapes'
  BY <1>1, <1>3 DEF Shapes, GoesOn
<1>5. TurnsFollow'
  <2>1. \A d \in Conns : Pipe(d)' = Pipe(d) /\ (connPC'[d] = "new") = (connPC[d] = "new")
    BY <1>1 DEF Pipe, GoesOn
  <2> QED
    BY <2>1, TurnsUntouched DEF GoesOn, machineVars
<1> QED
  BY <1>3, <1>4, <1>5

\* A goroutine stores its copy in the index.
LEMMA StoreStep ==
  ASSUME IInv, NEW c \in Conns, Store(c)
  PROVE  IInv'
<1> USE DEF IInv
<1> DEFINE f == doing[c]
           p == IF f.kind = "snapshot" \/ (f.kind = "done" /\ f.cmd # "archive") THEN "route"
                ELSE IF f.kind = "done" THEN "answer" ELSE "reading"
<1>1. /\ connPC[c] = "store" /\ connPC' = [connPC EXCEPT ![c] = p]
      /\ index' = copy[c] /\ copy' = [copy EXCEPT ![c] = Nothing]
      /\ late' = (late \/ owner # c)
      /\ UNCHANGED <<machineVars, wire, commands, owner, snap, hasSnap, active,
                     router, deleted, raced, req, requests>>
  BY DEF Store
<1>2. connPC'[c] = p
  BY <1>1 DEF TypeOK
<1>3. GoesOn(c, p)
  BY <1>1, <1>2 DEF GoesOn, Store, Returned
<1>4. Shapes' /\ Agreed' /\ TurnsFollow'
  BY <1>1, <1>3, GoesOnStep DEF Shapes
<1>5. TypeOK'
  <2>1. doing'[c] \in Frames /\ \A d \in Conns : doing'[d] \in Frames
    BY <1>4 DEF Shapes
  <2>2. index' \in [Threads -> Entry] /\ copy' \in [Conns -> [Threads -> Entry]]
    BY <1>1 DEF TypeOK, Nothing, Known, Entry
  <2> QED
    BY <1>1, <2>1, <2>2 DEF TypeOK, machineVars
<1> QED
  BY <1>4, <1>5 DEF Agreed

\* A goroutine writes the routes.
LEMMA RouteStep ==
  ASSUME IInv, NEW c \in Conns, Route(c)
  PROVE  IInv'
<1> USE DEF IInv
<1> DEFINE p == IF doing[c].kind = "done" THEN "answer" ELSE "reading"
<1>1. /\ connPC[c] = "route" /\ connPC' = [connPC EXCEPT ![c] = p]
      /\ router' = RoutesAfter(doing[c]) /\ late' = (late \/ owner # c)
      /\ doing[c] \in Frames /\ doing[c].kind \in {"snapshot", "done"}
      /\ UNCHANGED <<machineVars, wire, commands, owner, copy, snap, hasSnap, active,
                     index, deleted, raced, req, requests>>
  BY DEF Route, Shapes
<1>2. connPC'[c] = p
  BY <1>1 DEF TypeOK
<1>3. GoesOn(c, p)
  BY <1>1, <1>2 DEF GoesOn, Route, Returned
<1>4. Shapes' /\ Agreed' /\ TurnsFollow'
  BY <1>1, <1>3, GoesOnStep DEF Shapes
<1>5. router' \subseteq Threads
  BY <1>1, FrameShape DEF RoutesAfter, TypeOK
<1>6. TypeOK'
  <2>1. \A d \in Conns : doing'[d] \in Frames
    BY <1>4 DEF Shapes
  <2> QED
    BY <1>1, <1>5, <2>1 DEF TypeOK, machineVars
<1> QED
  BY <1>4, <1>6 DEF Agreed

\* A goroutine hands an answer to the request that waits for it.
LEMMA AnswerStep ==
  ASSUME IInv, NEW c \in Conns, Answer(c)
  PROVE  IInv'
<1> USE DEF IInv
<1> DEFINE f == doing[c]
<1>1. /\ connPC[c] = "answer" /\ connPC' = [connPC EXCEPT ![c] = "reading"]
      /\ UNCHANGED <<machineVars, wire, commands, owner, copy, snap, hasSnap, active,
                     viewVars, requests, late>>
      /\ f \in Frames /\ f.kind \in {"done", "rejected"}
      /\ req' = [k \in Consoles |->
                   IF req[k].pc = "waiting" /\ req[k].id = f.id
                   THEN IF f.kind = "done" THEN Answered(req[k], f.thread, c)
                                           ELSE Failed(req[k])
                   ELSE req[k]]
  BY DEF Answer, Shapes
<1>2. connPC'[c] = "reading"
  BY <1>1 DEF TypeOK
<1>3. GoesOn(c, "reading")
  BY <1>1, <1>2 DEF GoesOn, Answer, Returned, viewVars
<1>4. ASSUME NEW k \in Consoles
      PROVE  req'[k] \in Requests /\ (req'[k] = req[k] \/ Rest(req[k], req'[k]))
  <2>1. req[k] \in Requests /\ (req[k].pc # "idle" => req[k].thread \in Threads)
    BY DEF Shapes
  <2>2. CASE ~(req[k].pc = "waiting" /\ req[k].id = f.id)
    BY <1>1, <2>1, <2>2
  <2>3. CASE req[k].pc = "waiting" /\ req[k].id = f.id /\ f.kind = "rejected"
    <3>1. req'[k] = Failed(req[k])
      BY <1>1, <2>3
    <3>2. Rest(req[k], Failed(req[k]))
      BY <2>1, <2>3, FailedShape DEF Rest
    <3> QED
      BY <3>1, <3>2 DEF Rest
  <2>4. CASE req[k].pc = "waiting" /\ req[k].id = f.id /\ f.kind = "done"
    <3> DEFINE s == Answered(req[k], f.thread, c)
    <3>1. req'[k] = s
      BY <1>1, <2>4
    <3>2. f.thread \in Threads
      BY <1>1, <2>4, FrameShape
    <3>3. /\ s \in Requests /\ s.pc \in {"idle", "mark", "track"} /\ s.id = 0
          /\ s.pc # "idle" => s.thread = f.thread
          /\ s.pc = "mark" => req[k].op = "delete"
          /\ s.pc = "track" => req[k].op \in {"create", "read", "resume"}
      BY <2>1, <3>2, AnsweredShape
    <3>4. InFlight(f)
      BY <2>4 DEF InFlight
    <3>5. s.pc = "mark" => Archived(f.thread)
      <4>1. f.cmd = req[k].cmd
        BY <1>1, <2>4, <3>4 DEF IdsAgree, IsFor
      <4> QED
        BY <1>1, <2>4, <3>3, <3>4, <4>1 DEF Asked, ArchivedFirst
    <3>6. s.pc = "track" => MayClear(f.thread)
      BY <1>1, <2>4, <3>3, <3>4 DEF ClearsSafely
    <3> HIDE DEF s
    <3>7. Rest(req[k], s)
      BY <3>2, <3>3, <3>5, <3>6 DEF Rest
    <3> QED
      BY <3>1, <3>3, <3>7
  <2> QED
    BY <1>1, <2>2, <2>3, <2>4
<1>5. req' \in [Consoles -> Requests]
  BY <1>1, <1>4
<1>6. Shapes' /\ Agreed' /\ TurnsFollow'
  BY <1>3, <1>4, <1>5, GoesOnStep
<1>7. TypeOK'
  <2>1. /\ \A d \in Conns : doing'[d] \in Frames
        /\ \A k \in Consoles : req'[k].op \in Ops \cup {"none"} /\
             req'[k].pc \in {"idle", "waiting", "failed", "track", "upsert", "clear",
                             "mark", "remove", "rename"}
    BY <1>5, <1>6 DEF Shapes, Requests
  <2> QED
    BY <1>1, <2>1 DEF TypeOK, machineVars, viewVars
<1> QED
  BY <1>6, <1>7 DEF Agreed

\* The hub cleans up after a connection.
LEMMA DisconnectStep ==
  ASSUME IInv, NEW c \in Conns, Disconnect(c)
  PROVE  IInv'
<1> USE DEF IInv
<1>1. /\ connPC[c] = "reading" /\ c # live
      /\ connPC' = [connPC EXCEPT ![c] = "gone"] /\ wire' = [wire EXCEPT ![c] = <<>>]
      /\ UNCHANGED <<machineVars, commands, doing, copy, hasSnap, active, deleted, raced,
                     requests, late>>
      /\ owner' \in {owner, None}
  BY DEF Disconnect
<1>2. /\ wire' \in [Conns -> Seq(Frames)]
      /\ \A d \in Conns : Elements(wire'[d]) \subseteq Elements(wire[d])
  <2>1. <<>> \in Seq(Frames) /\ Elements(<<>>) = {}
    BY DEF Elements
  <2> QED
    BY <1>1, <2>1 DEF Shapes
<1>3. /\ req' \in [Consoles -> Requests]
      /\ \A k \in Consoles : req'[k] = req[k] \/ Rest(req[k], req'[k])
  <2>1. CASE req' = req
    BY <2>1 DEF Shapes
  <2>2. CASE req' = [k \in Consoles |->
                       IF req[k].pc = "waiting" THEN Failed(req[k]) ELSE req[k]]
    <3>1. ASSUME NEW k \in Consoles
          PROVE  req'[k] \in Requests /\ (req'[k] = req[k] \/ Rest(req[k], req'[k]))
      <4>1. req[k] \in Requests /\ (req[k].pc # "idle" => req[k].thread \in Threads)
        BY DEF Shapes
      <4>2. CASE req[k].pc = "waiting"
        <5>1. Rest(req[k], Failed(req[k]))
          BY <4>1, <4>2, FailedShape DEF Rest
        <5> QED
          BY <2>2, <4>2, <5>1 DEF Rest
      <4>3. CASE req[k].pc # "waiting"
        BY <2>2, <4>1, <4>3
      <4> QED
        BY <4>2, <4>3
    <3> QED
      BY <2>2, <3>1
  <2> QED
    BY <2>1, <2>2 DEF Disconnect
<1>4. /\ snap' \in [Threads -> Entry] /\ index' \in [Threads -> Entry]
      /\ router' \subseteq Threads
  BY DEF Disconnect, ForgetMachine, Mark, TypeOK, Entry
<1>5. /\ \A k \in Consoles : req'[k].pc # "idle" => req'[k].thread \in Threads
      /\ Agreed'
  <2>1. \A f \in Frames : InFlight(f)' => InFlight(f)
    BY <1>1, <1>2 DEF InFlight
  <2> QED
    BY <1>1, <1>3, <2>1, QuietStep DEF Agreed, machineVars
<1>6. TypeOK'
  <2>1. \A k \in Consoles : /\ req'[k].op \in Ops \cup {"none"}
                            /\ req'[k].pc \in {"idle", "waiting", "failed", "track",
                                 "upsert", "clear", "mark", "remove", "rename"}
    BY <1>3 DEF Requests
  <2> QED
    BY <1>1, <1>2, <1>4, <2>1 DEF TypeOK, machineVars
<1>7. Shapes'
  BY <1>1, <1>2, <1>3, <1>5 DEF Shapes, TypeOK
<1>8. TurnsFollow'
  <2>1. \A d \in Conns : connPC'[d] = IF d = c THEN "gone" ELSE connPC[d]
    BY <1>1 DEF TypeOK
  <2>2. \A d \in Conns : ~First(d)'
    BY <1>1, <2>1 DEF First, machineVars
  <2> QED
    BY <1>1, <2>1, <2>2 DEF TurnsFollow, machineVars
<1> QED
  BY <1>5, <1>6, <1>7, <1>8 DEF Agreed

-----------------------------------------------------------------------------
(* The HTTP handlers.                                                      *)

\* A handler sends a command: req[k] becomes r and waits, or has failed.
LEMMA SendStep ==
  ASSUME IInv, NEW k \in Consoles, NEW r \in Requests, Send(k, r),
         UNCHANGED <<machineVars, wire, hubVars, viewVars, late>>,
         r.id <= requests, r.thread \in Threads, r.cmd \in Commands, (r.cmd = "create") = (r.op = "create"),
         r.op = "read" => r.cmd \in {"read", "resume"},
         r.op = "resume" => r.cmd = "resume",
         r.op = "delete" => r.cmd = "archive",
         r.again => r.op = "read"
  PROVE  IInv'
<1> USE DEF IInv
<1>0. PICK i : i = requests + 1
  OBVIOUS
<1> DEFINE m == [cmd |-> r.cmd, thread |-> r.thread, id |-> i]
           w == [r EXCEPT !.id = i, !.pc = "waiting"]
<1>1. /\ requests \in Nat /\ i \in Ids /\ requests' = i /\ i = requests + 1
      /\ i \in 0..MaxRequests
      /\ m \in Message /\ m.id = i /\ m.cmd = r.cmd /\ m.thread = r.thread
  BY <1>0, ThreadTablesAssumption DEF TypeOK, Send, Ids
<1>2. commands' \in Seq(Message) /\ Elements(commands') \subseteq Elements(commands) \cup {m}
  <2>1. commands \in Seq(Message)
    BY DEF TypeOK
  <2>2. Append(commands, m) = commands \o <<m>> /\ <<m>> \in Seq(Message)
    BY <1>1, <2>1, AppendIsConcat
  <2>3. Elements(<<m>>) = {m}
    BY <1>1 DEF Elements
  <2>4. Append(commands, m) \in Seq(Message)
    BY <1>1, <2>1
  <2>5. Elements(commands \o <<m>>) = Elements(commands) \cup Elements(<<m>>)
    BY <2>1, <2>2, ConcatElements
  <2>6. commands' \in {commands, Append(commands, m)}
    BY <1>0 DEF Send
  <2> QED
    BY <2>1, <2>2, <2>3, <2>4, <2>5, <2>6
<1>3. /\ w \in Requests /\ w.id = i /\ w.pc = "waiting" /\ w.thread = r.thread
      /\ w.cmd = r.cmd /\ w.op = r.op /\ w.again = r.again
  BY <1>1 DEF Requests
<1>4. req' \in [Consoles -> Requests] /\ req'[k] \in {Failed(r), w}
      /\ \A j \in Consoles \ {k} : req'[j] = req[j]
  <2>1. req' \in {[req EXCEPT ![k] = Failed(r)], [req EXCEPT ![k] = w]}
    BY <1>0 DEF Send
  <2>2. Failed(r) \in Requests
    BY FailedShape
  <2> HIDE DEF w
  <2> QED
    BY <1>3, <2>1, <2>2 DEF Shapes
<1>5. /\ req'[k].pc \in {"idle", "failed", "waiting"}
      /\ req'[k].pc \in {"failed", "waiting"} =>
            /\ req'[k].op = r.op /\ req'[k].cmd = r.cmd /\ req'[k].thread = r.thread
            /\ req'[k].again => r.again
            /\ req'[k].pc = "failed" => r.again
      /\ req'[k].pc = "waiting" => req'[k].id = i
      /\ req'[k].id <= i
  <2>1. r.id \in 0..MaxRequests
    BY DEF Requests
  <2>2. CASE req'[k] = w
    BY <1>1, <1>3, <2>2
  <2>3. CASE req'[k] = Failed(r)
    <3>1. r.id <= i
      BY <1>1, <2>1
    <3> QED
      BY <1>1, <2>1, <2>3, <3>1, FailedShape
  <2> QED
    BY <1>4, <2>2, <2>3
<1> HIDE DEF m, w
<1>6. \A f \in Frames : InFlight(f)' <=> InFlight(f)
  BY DEF InFlight, hubVars
<1>7. TypeOK'
  <2>1. \A j \in Consoles : /\ req'[j].op \in Ops \cup {"none"}
                            /\ req'[j].pc \in {"idle", "waiting", "failed", "track",
                                 "upsert", "clear", "mark", "remove", "rename"}
    BY <1>4 DEF Requests
  <2> QED
    BY <1>1, <1>2, <2>1 DEF TypeOK, machineVars, hubVars, viewVars
<1>8. Shapes'
  <2>1. \A j \in Consoles : req'[j].pc # "idle" => req'[j].thread \in Threads
    BY <1>4, <1>5 DEF Shapes
  <2> QED
    BY <1>4, <2>1 DEF Shapes, hubVars
<1>9. Asked'
  BY <1>4, <1>5 DEF Asked
<1>10. IdsAgree'
  <2>1. \A j \in Consoles : req'[j].id <= requests'
    <3>1. \A j \in Consoles : req[j].id \in Nat
      BY DEF Shapes, Requests
    <3> QED
      BY <1>1, <1>4, <1>5, <3>1 DEF IdsAgree
  <2>2. ASSUME NEW x, x.id \in Nat, IsFor(x)
        PROVE  IsFor(x)'
    BY <1>1, <1>4, <1>5, <2>2 DEF IsFor
  <2>3. IsFor(m)'
    <3>1. \A j \in Consoles : req[j].id \in Nat /\ req[j].id <= requests
      BY DEF Shapes, Requests, IdsAgree
    <3>2. m.id <= requests' /\ m.id > requests
      BY <1>1
    <3>3. ASSUME NEW j \in Consoles, req'[j].pc = "waiting", req'[j].id = m.id
          PROVE  m.cmd = req'[j].cmd /\ m.thread = req'[j].thread
      <4>1. j = k
        BY <1>1, <1>4, <3>1, <3>2, <3>3
      <4> QED
        BY <1>1, <1>5, <3>3, <4>1
    <3> QED
      BY <3>2, <3>3 DEF IsFor
  <2>4. \A x \in Elements(commands) : x.id \in Nat
    <3>1. commands \in Seq(Message)
      BY DEF TypeOK
    <3>2. Elements(commands) \subseteq Message
      BY <3>1, ElementsType
    <3> QED
      BY <3>2 DEF Ids
  <2>5. \A f \in Frames : InFlight(f) => f.id \in Nat
    BY FrameShape DEF InFlight, Ids
  <2>6. \A x \in Elements(commands') : IsFor(x)'
    BY <1>2, <2>2, <2>3, <2>4 DEF IdsAgree
  <2>7. \A f \in Frames : InFlight(f)' => IsFor(f)'
    BY <1>6, <2>2, <2>5 DEF IdsAgree
  <2> QED
    BY <2>1, <2>6, <2>7 DEF IdsAgree
<1>11. ArchivedFirst'
  BY <1>4, <1>5, <1>6 DEF ArchivedFirst, Archived, machineVars, viewVars
<1>12. ClearsSafely'
  <2>1. \A t : MayClear(t)' = MayClear(t)
    BY DEF MayClear, viewVars
  <2>2. \A f \in Frames : InFlight(f) => f.id <= requests /\ f.id \in Nat
    BY FrameShape DEF InFlight, Ids, IdsAgree, IsFor
  <2>3. \A f \in Frames : InFlight(f) => f.id # i
    BY <1>1, <2>2
  <2> QED
    BY <1>4, <1>5, <1>6, <2>1, <2>3 DEF ClearsSafely
<1>13. TurnsFollow'
  BY TurnsStill DEF machineVars, hubVars
<1> QED
  BY <1>7, <1>8, <1>9, <1>10, <1>11, <1>12, <1>13

\* A console makes a request of one thread.
LEMMA RequestStep ==
  ASSUME IInv, NEW k \in Consoles, NEW op \in Ops, NEW t \in Threads, NEW cmd \in Commands,
         Request(k, op, t, cmd),
         (cmd = "create") = (op = "create"), op = "read" => cmd \in {"read", "resume"},
         op = "resume" => cmd = "resume", op = "delete" => cmd = "archive"
  PROVE  IInv'
<1> DEFINE r == [NoRequest EXCEPT !.op = op, !.thread = t, !.cmd = cmd, !.again = (op = "read")]
<1>1. r \in Requests
  BY NoRequestShape DEF Requests
<1>2. /\ r.op = op /\ r.thread = t /\ r.cmd = cmd /\ r.again = (op = "read")
      /\ r.id = 0
  BY NoRequestShape DEF Requests
<1>3. Send(k, r) /\ UNCHANGED <<machineVars, wire, hubVars, viewVars, late>>
  BY DEF Request
<1>4. r.id <= requests
  BY <1>2 DEF IInv, TypeOK
<1> HIDE DEF r
<1> QED
  BY <1>1, <1>2, <1>3, <1>4, SendStep

\* A handler does its next step, or its last: what it asked was answered before.
LEMMA HandlerStep ==
  ASSUME IInv, NEW k \in Consoles, NEW s, Rest(req[k], s),
         req' = [req EXCEPT ![k] = s],
         UNCHANGED <<machineVars, wire, commands, hubVars, raced>>,
         requests' \in {requests, requests + 1}, requests' \in 0..MaxRequests,
         deleted' \subseteq deleted,
         index' \in [Threads -> Entry], router' \subseteq Threads, late' \in BOOLEAN
  PROVE  IInv'
<1> USE DEF IInv
<1>1. /\ req' \in [Consoles -> Requests]
      /\ \A j \in Consoles : req'[j] = req[j] \/ Rest(req[j], req'[j])
  BY DEF Shapes, Rest
<1>2. \A f \in Frames : InFlight(f)' => InFlight(f)
  BY DEF InFlight, hubVars
<1>3. /\ \A j \in Consoles : req'[j].pc # "idle" => req'[j].thread \in Threads
      /\ Agreed'
  BY <1>1, <1>2, QuietStep DEF Agreed, machineVars
<1>4. Shapes'
  BY <1>1, <1>3 DEF Shapes, hubVars
<1>5. TypeOK'
  <2>1. \A j \in Consoles : /\ req'[j].op \in Ops \cup {"none"}
                            /\ req'[j].pc \in {"idle", "waiting", "failed", "track",
                                 "upsert", "clear", "mark", "remove", "rename"}
    BY <1>1 DEF Requests
  <2> QED
    BY <2>1 DEF TypeOK, machineVars, hubVars
<1>6. TurnsFollow'
  BY TurnsStill DEF machineVars, hubVars
<1> QED
  BY <1>3, <1>4, <1>5, <1>6 DEF Agreed

\* A console asks.
LEMMA AskStep ==
  ASSUME IInv, NEW k \in Consoles, Ask(k)
  PROVE  IInv'
<1> USE DEF Ops, Commands
<1>1. CASE PostThread(k)
  <2>1. (CHOOSE t \in Threads : TRUE) \in Threads
    BY ThreadTablesAssumption
  <2> QED
    BY <1>1, <2>1, RequestStep DEF PostThread
<1>2. CASE GetThread(k)
  <2>1. PICK t \in router \ deleted, cmd \in {"read", "resume"} : Request(k, "read", t, cmd)
    BY <1>2 DEF GetThread
  <2>2. t \in Threads
    BY DEF IInv, TypeOK
  <2> QED
    BY <2>1, <2>2, RequestStep
<1>3. CASE PostResumeOrArchive(k)
  BY <1>3, RequestStep DEF PostResumeOrArchive
<1>4. CASE DeleteThread(k)
  BY <1>4, RequestStep DEF DeleteThread, Listed
<1>5. CASE PostTurn(k)
  BY <1>5, RequestStep DEF PostTurn
<1>6. CASE PostInterrupt(k)
  BY <1>6, RequestStep DEF PostInterrupt
<1>7. CASE Rename(k)
  <2>1. PICK t \in Threads :
          /\ requests' = requests + 1 /\ t \notin deleted
          /\ req' = [req EXCEPT ![k] =
                [NoRequest EXCEPT !.op = "rename", !.pc = "rename", !.thread = t,
                                  !.seen = IF index[t] = "absent" THEN "unknown" ELSE index[t]]]
          /\ UNCHANGED <<machineVars, wire, commands, hubVars, viewVars, late>>
    BY <1>7 DEF Rename, MayRename
  <2> DEFINE s == [NoRequest EXCEPT !.op = "rename", !.pc = "rename", !.thread = t,
                           !.seen = IF index[t] = "absent" THEN "unknown" ELSE index[t]]
  <2>2. s \in Requests /\ s.pc = "rename" /\ s.thread = t /\ s.id = 0
    <3>1. (IF index[t] = "absent" THEN "unknown" ELSE index[t]) \in Entry
      BY DEF IInv, TypeOK, Entry
    <3> QED
      BY <3>1, NoRequestShape DEF Requests
  <2>3. Rest(req[k], s)
    BY <2>1, <2>2 DEF Rest, MayClear
  <2>4. requests' \in 0..MaxRequests /\ index' \in [Threads -> Entry] /\ router' \subseteq Threads
        /\ late' \in BOOLEAN /\ deleted' = deleted /\ raced' = raced
    BY <2>1, ThreadTablesAssumption DEF Ask, IInv, TypeOK, viewVars
  <2> QED
    BY <2>1, <2>3, <2>4, HandlerStep
<1> QED
  BY <1>1, <1>2, <1>3, <1>4, <1>5, <1>6, <1>7 DEF Ask

\* A read tries its second command.
LEMMA TryAgainStep ==
  ASSUME IInv, NEW k \in Consoles, TryAgain(k)
  PROVE  IInv'
<1> DEFINE r == [req[k] EXCEPT !.again = FALSE, !.cmd = IF @ = "read" THEN "resume" ELSE "read"]
<1>1. /\ req[k] \in Requests /\ req[k].thread \in Threads /\ req[k].op = "read"
      /\ req[k].id <= requests
  BY DEF IInv, Shapes, Asked, IdsAgree, TryAgain
<1>2. /\ r \in Requests /\ r.op = "read" /\ r.cmd \in {"read", "resume"} /\ r.again = FALSE
      /\ r.thread = req[k].thread /\ r.id = req[k].id
  BY <1>1 DEF Requests, Commands
<1>3. Send(k, r) /\ UNCHANGED <<machineVars, wire, hubVars, viewVars, late>>
  BY DEF TryAgain
<1> HIDE DEF r
<1> QED
  BY <1>1, <1>2, <1>3, SendStep DEF Commands

\* What a handler that does not wait goes on to.
LEMMA NextSteps ==
  ASSUME IInv, NEW k \in Consoles, req[k].pc # "idle"
  PROVE  /\ req[k] \in Requests /\ req[k].thread \in Threads
         /\ req[k].pc = "waiting" => Rest(req[k], Failed(req[k]))
         /\ Rest(req[k], NoRequest)
         /\ req[k].pc \in {"upsert", "rename"} => Rest(req[k], Clearing(req[k]))
         /\ req[k].pc = "track" => Rest(req[k], [req[k] EXCEPT !.pc = "upsert"])
<1> USE DEF IInv
<1>1. req[k] \in Requests /\ req[k].thread \in Threads
  BY DEF Shapes
<1>2. req[k].pc = "waiting" => Rest(req[k], Failed(req[k]))
  BY <1>1, FailedShape DEF Rest
<1>3. Rest(req[k], NoRequest)
  BY NoRequestShape DEF Rest
<1>4. req[k].pc \in {"track", "upsert", "rename"} => MayClear(req[k].thread)
  BY DEF ClearsSafely
<1>5. req[k].pc \in {"upsert", "rename"} => Rest(req[k], Clearing(req[k]))
  BY <1>1, <1>4, ClearingShape DEF Rest
<1>6. req[k].pc = "track" => Rest(req[k], [req[k] EXCEPT !.pc = "upsert"])
  <2>1. /\ [req[k] EXCEPT !.pc = "upsert"] \in Requests
        /\ [req[k] EXCEPT !.pc = "upsert"].pc = "upsert"
        /\ [req[k] EXCEPT !.pc = "upsert"].thread = req[k].thread
        /\ [req[k] EXCEPT !.pc = "upsert"].id = req[k].id
    BY <1>1 DEF Requests
  <2> QED
    BY <1>1, <1>4, <2>1 DEF Rest
<1> QED
  BY <1>1, <1>2, <1>3, <1>5, <1>6

\* The steps of a handler after its answer, and those of one that gives up.
LEMMA RenameStoreStep ==
  ASSUME IInv, NEW k \in Consoles, RenameStore(k)
  PROVE  IInv'
<1>1. /\ req[k] \in Requests /\ req[k].thread \in Threads
      /\ Rest(req[k], Clearing(req[k]))
  BY NextSteps DEF RenameStore
<1>2. req[k].seen \in Entry
  BY <1>1 DEF Requests
<1>3. /\ requests' \in 0..MaxRequests /\ requests' = requests /\ deleted' = deleted
      /\ index' \in [Threads -> Entry] /\ router' \subseteq Threads /\ late' \in BOOLEAN
  BY <1>1, <1>2 DEF RenameStore, IInv, TypeOK
<1> QED
  BY <1>1, <1>3, HandlerStep DEF RenameStore

LEMMA ExpireStep ==
  ASSUME IInv, NEW k \in Consoles, Expire(k)
  PROVE  IInv'
<1>1. Rest(req[k], Failed(req[k]))
  BY NextSteps DEF Expire
<1>2. /\ requests' \in 0..MaxRequests /\ requests' = requests /\ deleted' = deleted
      /\ raced' = raced
      /\ index' \in [Threads -> Entry] /\ router' \subseteq Threads /\ late' \in BOOLEAN
  BY DEF Expire, IInv, TypeOK, viewVars
<1> QED
  BY <1>1, <1>2, HandlerStep DEF Expire

LEMMA FinishStep ==
  ASSUME IInv, NEW k \in Consoles, Finish(k)
  PROVE  IInv'
<1>1. Rest(req[k], NoRequest)
  BY NextSteps DEF Finish
<1>2. /\ requests' \in 0..MaxRequests /\ requests' = requests /\ deleted' = deleted
      /\ raced' = raced
      /\ index' \in [Threads -> Entry] /\ router' \subseteq Threads /\ late' \in BOOLEAN
  BY DEF Finish, IInv, TypeOK, viewVars
<1> QED
  BY <1>1, <1>2, HandlerStep DEF Finish

LEMMA TrackStep ==
  ASSUME IInv, NEW k \in Consoles, Track(k)
  PROVE  IInv'
<1>1. req[k].thread \in Threads /\ Rest(req[k], [req[k] EXCEPT !.pc = "upsert"])
  BY NextSteps DEF Track
<1>2. /\ requests' \in 0..MaxRequests /\ requests' = requests /\ deleted' = deleted
      /\ index' \in [Threads -> Entry] /\ router' \subseteq Threads /\ late' \in BOOLEAN
  BY <1>1 DEF Track, Stale, IInv, TypeOK
<1>3. req' = [req EXCEPT ![k] = [req[k] EXCEPT !.pc = "upsert"]]
  BY DEF Track
<1> QED
  BY <1>1, <1>2, <1>3, HandlerStep DEF Track

LEMMA UpsertStep ==
  ASSUME IInv, NEW k \in Consoles, Upsert(k)
  PROVE  IInv'
<1>1. req[k].thread \in Threads /\ Rest(req[k], Clearing(req[k]))
  BY NextSteps DEF Upsert
<1>2. /\ requests' \in 0..MaxRequests /\ requests' = requests /\ deleted' = deleted
      /\ index' \in [Threads -> Entry] /\ router' \subseteq Threads /\ late' \in BOOLEAN
  BY <1>1 DEF Upsert, Stale, IInv, TypeOK, Entry
<1> QED
  BY <1>1, <1>2, HandlerStep DEF Upsert

LEMMA ClearStep ==
  ASSUME IInv, NEW k \in Consoles, Clear(k)
  PROVE  IInv'
<1>1. Rest(req[k], NoRequest)
  BY NextSteps DEF Clear
<1>2. /\ requests' \in 0..MaxRequests /\ requests' = requests /\ deleted' \subseteq deleted
      /\ index' \in [Threads -> Entry] /\ router' \subseteq Threads /\ late' \in BOOLEAN
  BY DEF Clear, IInv, TypeOK
<1> QED
  BY <1>1, <1>2, HandlerStep DEF Clear

LEMMA RemoveStep ==
  ASSUME IInv, NEW k \in Consoles, Remove(k)
  PROVE  IInv'
<1>1. req[k].thread \in Threads /\ Rest(req[k], NoRequest)
  BY NextSteps DEF Remove
<1>2. /\ requests' \in 0..MaxRequests /\ requests' = requests /\ deleted' = deleted
      /\ index' \in [Threads -> Entry] /\ router' \subseteq Threads /\ late' \in BOOLEAN
  BY <1>1 DEF Remove, IInv, TypeOK, Entry
<1> QED
  BY <1>1, <1>2, HandlerStep DEF Remove

\* DELETE marks a thread: every other request that could clear the mark is recorded.
LEMMA MarkDeletedStep ==
  ASSUME IInv, NEW k \in Consoles, MarkDeleted(k)
  PROVE  IInv'
<1> USE DEF IInv
<1> DEFINE t == req[k].thread
           s == [req[k] EXCEPT !.pc = "remove"]
<1>1. /\ req[k].pc = "mark" /\ req[k] \in Requests /\ t \in Threads /\ Archived(t)
      /\ deleted' = deleted \cup {t} /\ req' = [req EXCEPT ![k] = s]
      /\ raced' = raced \cup {u \in {t} :
                     \E j \in Consoles \ {k} : req[j].thread = u \/ req[j].op = "create"}
      /\ UNCHANGED <<machineVars, wire, commands, hubVars, index, router, requests, late>>
  BY DEF MarkDeleted, Shapes, ArchivedFirst
<1>2. s \in Requests /\ s.pc = "remove" /\ s.thread = t /\ s.id = req[k].id
  BY <1>1 DEF Requests
<1>3. req' \in [Consoles -> Requests] /\ req'[k] = s /\ \A j \in Consoles \ {k} : req'[j] = req[j]
  BY <1>1, <1>2 DEF Shapes
<1> HIDE DEF s
<1>4. Shapes'
  BY <1>1, <1>2, <1>3 DEF Shapes, hubVars
<1>5. TypeOK'
  <2>1. \A j \in Consoles : /\ req'[j].op \in Ops \cup {"none"}
                            /\ req'[j].pc \in {"idle", "waiting", "failed", "track",
                                 "upsert", "clear", "mark", "remove", "rename"}
    BY <1>3 DEF Requests
  <2>2. deleted' \subseteq Threads /\ raced' \subseteq Threads
    BY <1>1 DEF TypeOK
  <2> QED
    BY <1>1, <2>1, <2>2 DEF TypeOK, machineVars, hubVars
<1>6. \A f \in Frames : InFlight(f)' <=> InFlight(f)
  BY <1>1 DEF InFlight, hubVars
<1>7. Asked'
  BY <1>2, <1>3 DEF Asked
<1>8. IdsAgree'
  <2>1. \A x : IsFor(x) => IsFor(x)'
    BY <1>1, <1>2, <1>3 DEF IsFor
  <2> QED
    BY <1>1, <1>2, <1>3, <1>6, <2>1 DEF IdsAgree
<1>9. ArchivedFirst'
  <2>1. \A u : Archived(u)' = Archived(u)
    BY <1>1 DEF Archived, machineVars
  <2> QED
    BY <1>1, <1>2, <1>3, <1>6, <2>1 DEF ArchivedFirst
<1>10. ClearsSafely'
  <2>1. \A u : MayClear(u) /\ u # t => MayClear(u)'
    BY <1>1 DEF MayClear
  <2>2. \A j \in Consoles \ {k} : req[j].thread = t \/ req[j].op = "create" => t \in raced'
    BY <1>1
  <2>3. \A j \in Consoles : req'[j].pc \in {"track", "upsert", "clear", "rename"} =>
                               MayClear(req[j].thread)'
    <3>1. ASSUME NEW j \in Consoles, req'[j].pc \in {"track", "upsert", "clear", "rename"}
          PROVE  j # k /\ req'[j] = req[j] /\ MayClear(req[j].thread)
      BY <1>2, <1>3, <3>1 DEF ClearsSafely
    <3>2. ASSUME NEW j \in Consoles, j # k, req'[j] = req[j], MayClear(req[j].thread)
          PROVE  MayClear(req[j].thread)'
      BY <2>1, <2>2, <3>2 DEF MayClear
    <3> QED
      BY <3>1, <3>2
  <2>4. ASSUME NEW f \in Frames, NEW j \in Consoles, InFlight(f), req'[j].pc = "waiting",
               req'[j].id = f.id, req'[j].op \in {"create", "read", "resume"}
        PROVE  MayClear(f.thread)'
    <3>1. j # k /\ req'[j] = req[j]
      BY <1>2, <1>3, <2>4
    <3>2. MayClear(f.thread)
      BY <2>4, <3>1 DEF ClearsSafely
    <3>3. CASE f.thread = t
      <4>1. f.cmd = req[j].cmd /\ (f.cmd = "create" \/ f.thread = req[j].thread)
        BY <2>4, <3>1 DEF IdsAgree, IsFor
      <4>2. req[j].cmd = "create" => req[j].op = "create"
        BY <2>4, <3>1 DEF Asked
      <4> QED
        BY <2>2, <3>1, <3>3, <4>1, <4>2 DEF MayClear
    <3>4. CASE f.thread # t
      BY <2>1, <3>2, <3>4
    <3> QED
      BY <3>3, <3>4
  <2> QED
    BY <1>6, <2>3, <2>4 DEF ClearsSafely
<1>11. TurnsFollow'
  BY <1>1, TurnsStill DEF machineVars, hubVars
<1> QED
  BY <1>4, <1>5, <1>7, <1>8, <1>9, <1>10, <1>11

-----------------------------------------------------------------------------
(* The theorems.                                                           *)

\* The initial states satisfy the inductive invariant.
LEMMA InitInv == Init => IInv
<1> SUFFICES ASSUME Init PROVE IInv
  OBVIOUS
<1> USE ThreadTablesAssumption DEF Init
<1>1. Elements(<<>>) = {} /\ <<>> \in Seq(Frames) /\ <<>> \in Seq(Message)
  BY DEF Elements
<1>2. Register \in Frames /\ Register.kind = "register"
  BY FrameKinds DEF Register
<1>3. \A k \in Consoles : /\ req[k] \in Requests /\ req[k].op = "none" /\ req[k].pc = "idle"
                          /\ req[k].id = 0
  BY NoRequestShape
<1>4. TypeOK
  <2>1. /\ Nothing \in [Threads -> Entry] /\ [t \in Threads |-> None] \in [Threads -> Turns \cup {None}]
        /\ turns \in 0..MaxTurns /\ requests \in 0..MaxRequests
        /\ \A c \in Conns : wire[c] \in Seq(Frames)
    BY <1>1 DEF Nothing, Known, Entry
  <2>2. \A k \in Consoles : req[k].op \in Ops \cup {"none"}
    BY <1>3
  <2> QED
    BY <1>1, <1>3, <2>1, <2>2 DEF TypeOK
<1>5. Shapes
  BY <1>1, <1>2, <1>3 DEF Shapes
<1>6. \A f : ~InFlight(f)
  BY <1>1, <1>2 DEF InFlight
<1>7. Asked /\ IdsAgree /\ ArchivedFirst /\ ClearsSafely
  BY <1>1, <1>3, <1>6 DEF Asked, IdsAgree, ArchivedFirst, ClearsSafely
<1>8. TurnsFollow
  BY DEF TurnsFollow, First
<1> QED
  BY <1>4, <1>5, <1>7, <1>8 DEF IInv

\* Every step preserves the inductive invariant.
LEMMA NextStep == IInv /\ [Next]_vars => IInv'
<1> SUFFICES ASSUME IInv, [Next]_vars PROVE IInv'
  OBVIOUS
<1>1. CASE Machine
  BY <1>1, BreakStep, SendSnapshotStep, HandleCommandStep, TurnEndsStep,
     FinishStrayStep DEF Machine
<1>2. ASSUME NEW c \in Conns, Goroutine(c) PROVE IInv'
  BY <1>2, ConnectStep, ReadFrameStep, ApplyStep, StoreStep, RouteStep, AnswerStep,
     DisconnectStep DEF Goroutine
<1>3. ASSUME NEW k \in Consoles, Handler(k) PROVE IInv'
  BY <1>3, AskStep, TryAgainStep, RenameStoreStep, ExpireStep, FinishStep, TrackStep,
     UpsertStep, ClearStep, MarkDeletedStep, RemoveStep DEF Handler
<1>4. CASE UNCHANGED vars
  <2>1. TypeOK' /\ Shapes'
    BY <1>4 DEF IInv, TypeOK, Shapes, vars, machineVars, hubVars, viewVars
  <2>2. \A f \in Frames : InFlight(f)' => InFlight(f)
    BY <1>4 DEF InFlight, vars, hubVars
  <2>3. Agreed'
    BY <1>4, <2>2, NoRequestMoves DEF IInv, Agreed, vars, machineVars, viewVars
  <2>4. TurnsFollow'
    BY <1>4, TurnsStill DEF IInv, vars, machineVars, hubVars
  <2> QED
    BY <2>1, <2>3, <2>4 DEF IInv, Agreed
<1> QED
  BY <1>1, <1>2, <1>3, <1>4 DEF Next

\* The inductive invariant holds in every reachable state.
THEOREM Invariance == Spec => []IInv
  BY InitInv, NextStep, PTL DEF Spec

\* Every variable keeps its type, for any threads, connections, consoles and bounds.
THEOREM TypeCorrect == Spec => []TypeOK
<1>1. IInv => TypeOK
  BY DEF IInv
<1> QED
  BY <1>1, Invariance, PTL

\* DELETE marks only threads the machine has archived, whatever becomes of the
\* thread.archive it sends and of its answer (markDeleted).
THEOREM Hidden == Spec => []HiddenIsArchived
<1>1. IInv => HiddenIsArchived
  BY DEF IInv, ArchivedFirst, Archived, HiddenIsArchived
<1> QED
  BY <1>1, Invariance, PTL

\* The mark is cleared only by a request that was under way when it was made.
THEOREM StaysDeleted == Spec => DeletedStaysDeleted
<1>1. ASSUME IInv, [Next]_vars
      PROVE  [\A t \in deleted \ deleted' : t \in raced]_vars
  <2>1. ASSUME NEW t \in deleted \ deleted' PROVE t \in raced
    <3>1. ASSUME NEW k \in Consoles, Clear(k) PROVE t \in raced
      <4>1. t = req[k].thread /\ req[k].pc = "clear"
        BY <3>1 DEF Clear
      <4> QED
        BY <1>1, <4>1 DEF IInv, ClearsSafely, MayClear
    <3>2. CASE Machine \/ \E c \in Conns : Goroutine(c)
      BY <3>2 DEF Machine, Goroutine, Break, SendSnapshot, HandleCommand, TurnEnds,
         FinishStray, Connect,
         ReadFrame, Apply, Store, Route, Answer, Disconnect, viewVars
    <3>3. ASSUME NEW k \in Consoles, Handler(k), ~Clear(k) PROVE t \in raced
      <4>1. CASE Ask(k) \/ TryAgain(k)
        BY <4>1 DEF Ask, TryAgain, PostThread, GetThread, PostResumeOrArchive,
           DeleteThread,
           PostTurn, PostInterrupt, Rename, Request, viewVars
      <4>2. CASE \/ RenameStore(k) \/ Expire(k) \/ Finish(k) \/ Track(k) \/ Upsert(k)
                 \/ MarkDeleted(k) \/ Remove(k)
        BY <4>2 DEF RenameStore, Expire, Finish, Track, Upsert, MarkDeleted, Remove,
           viewVars
      <4> QED
        BY <3>3, <4>1, <4>2 DEF Handler
    <3>4. CASE UNCHANGED vars
      BY <3>4 DEF vars, viewVars
    <3> QED
      BY <1>1, <3>1, <3>2, <3>3, <3>4 DEF Next
  <2> QED
    BY <2>1
<1> QED
  BY <1>1, Invariance, PTL DEF Spec, DeletedStaysDeleted

\* On a machine's first connection the gateway's active turns are the agent's once the
\* frames under way are handled, whatever the order of starts, ends, interrupts and
\* archives (setActiveTurn, clearActiveTurn, removeThreadSnapshot).
THEOREM TurnKnown == Spec => []RunningTurnKnown
<1>1. ASSUME IInv PROVE RunningTurnKnown
  <2> SUFFICES ASSUME Recovered, \A c \in Conns : c # live => connPC[c] = "new"
               PROVE  active = running
    BY DEF RunningTurnKnown
  <2>1. live \in Conns /\ First(live) /\ wire[live] = <<>> /\ connPC[live] # "apply"
    BY <1>1 DEF Recovered, Settled, First, IInv, TypeOK
  <2>2. Pipe(live) = <<>>
    BY <2>1 DEF Pipe
  <2>3. ASSUME NEW t \in Threads PROVE active[t] = running[t]
    <3>1. LeadTo(<<>>, t, active[t], running[t])
      BY <1>1, <2>1, <2>2 DEF IInv, TurnsFollow
    <3>2. Places(<<>>, t) = {}
      BY DEF Places
    <3> QED
      BY <3>1, <3>2 DEF LeadTo
  <2> QED
    BY <1>1, <2>3 DEF IInv, TypeOK
<1> QED
  BY <1>1, Invariance, PTL

-----------------------------------------------------------------------------
(* Views: the frames that change the list.                                 *)

\* Frames put behind a queue keep the places of those in front of them.
LEMMA Behind ==
  ASSUME NEW q \in Seq(Frames), NEW fs \in Seq(Frames)
  PROVE  /\ \A i \in DOMAIN q : i \in DOMAIN (q \o fs) /\ (q \o fs)[i] = q[i]
         /\ \A i \in DOMAIN (q \o fs) : i \notin DOMAIN q =>
               \E j \in DOMAIN fs : (q \o fs)[i] = fs[j]
<1>1. /\ q \o fs \in Seq(Frames) /\ Len(q \o fs) = Len(q) + Len(fs)
      /\ \A i \in 1..Len(q) + Len(fs) :
             (q \o fs)[i] = IF i <= Len(q) THEN q[i] ELSE fs[i - Len(q)]
  BY FramesConcat
<1>2. /\ Len(q) \in Nat /\ Len(fs) \in Nat /\ DOMAIN q = 1..Len(q) /\ DOMAIN fs = 1..Len(fs)
      /\ DOMAIN (q \o fs) = 1..(Len(q) + Len(fs))
  BY <1>1
<1>3. ASSUME NEW i \in DOMAIN (q \o fs), i \notin DOMAIN q
      PROVE  \E j \in DOMAIN fs : (q \o fs)[i] = fs[j]
  <2>1. i - Len(q) \in DOMAIN fs /\ (q \o fs)[i] = fs[i - Len(q)]
    BY <1>1, <1>2, <1>3
  <2> QED
    BY <2>1
<1> QED
  BY <1>1, <1>2, <1>3

\* Frames that neither register nor change the list change nothing of what a queue
\* says of both.
LEMMA PlainBehind ==
  ASSUME NEW q \in Seq(Frames), NEW fs \in Seq(Frames), NEW S,
         Register \notin Elements(fs)
  PROVE  /\ Registers(q \o fs) = Registers(q)
         /\ (\A f \in Elements(fs) : ~Lists(f)) =>
               /\ ListsIn(q \o fs) = ListsIn(q)
               /\ EndsIn(q, S) => EndsIn(q \o fs, S)
<1>1. /\ \A i \in DOMAIN q : i \in DOMAIN (q \o fs) /\ (q \o fs)[i] = q[i]
      /\ \A i \in DOMAIN (q \o fs) : i \notin DOMAIN q => (q \o fs)[i] \in Elements(fs)
  BY Behind DEF Elements
<1>2. Registers(q \o fs) = Registers(q)
  BY <1>1 DEF Registers
<1>3. (\A f \in Elements(fs) : ~Lists(f)) => ListsIn(q \o fs) = ListsIn(q)
  BY <1>1 DEF ListsIn
<1>4. ASSUME \A f \in Elements(fs) : ~Lists(f), EndsIn(q, S) PROVE EndsIn(q \o fs, S)
  <2>1. \A i \in ListsIn(q) : i \in DOMAIN q
    BY DEF ListsIn
  <2> QED
    BY <1>1, <1>3, <1>4, <2>1 DEF EndsIn
<1> QED
  BY <1>2, <1>3, <1>4

\* A snapshot put behind a queue is the last frame of it that changes the list.
LEMMA SnapshotLast ==
  ASSUME NEW q \in Seq(Frames), NEW S \in SUBSET Threads
  PROVE  /\ Registers(q \o <<Snapshot(S)>>) = Registers(q)
         /\ ListsIn(q \o <<Snapshot(S)>>) # {}
         /\ EndsIn(q \o <<Snapshot(S)>>, S)
<1> DEFINE f == Snapshot(S)
           p == q \o <<f>>
<1>1. f \in Frames /\ Lists(f) /\ f # Register
  BY FrameKinds DEF Snapshot, Lists, Register
<1>2. <<f>> \in Seq(Frames) /\ Elements(<<f>>) = {f} /\ Len(<<f>>) = 1 /\ <<f>>[1] = f
  BY <1>1, ShortElements
<1>3. Registers(p) = Registers(q)
  BY <1>1, <1>2, PlainBehind
<1>4. /\ p \in Seq(Frames) /\ Len(p) = Len(q) + 1 /\ Len(q) \in Nat
      /\ p[Len(q) + 1] = f /\ DOMAIN p = 1..(Len(q) + 1)
  <2>1. /\ p \in Seq(Frames) /\ Len(p) = Len(q) + Len(<<f>>)
        /\ \A i \in 1..Len(q) + Len(<<f>>) :
               p[i] = IF i <= Len(q) THEN q[i] ELSE <<f>>[i - Len(q)]
    BY <1>2, FramesConcat
  <2>2. Len(q) \in Nat /\ Len(q) + 1 \in 1..Len(q) + 1 /\ ~(Len(q) + 1 <= Len(q))
        /\ Len(q) + 1 - Len(q) = 1
    OBVIOUS
  <2>3. Len(p) = Len(q) + 1 /\ p[Len(q) + 1] = f
    BY <1>2, <2>1, <2>2
  <2> QED
    BY <2>1, <2>2, <2>3
<1> HIDE DEF p, f
<1>5. Len(q) + 1 \in ListsIn(p) /\ \A i \in ListsIn(p) : i \in 1..(Len(q) + 1)
  BY <1>1, <1>4 DEF ListsIn
<1>6. EndsIn(p, S)
  <2>1. ASSUME NEW i \in ListsIn(p), \A n \in ListsIn(p) : n <= i PROVE p[i] = f
    <3>1. i = Len(q) + 1
      BY <1>4, <1>5, <2>1
    <3> QED
      BY <1>4, <3>1
  <2> QED
    BY <2>1 DEF EndsIn, f
<1> QED
  BY <1>3, <1>5, <1>6 DEF p, f

\* What the head of a queue says of the list, and what its tail still says.
LEMMA TakenOff ==
  ASSUME NEW q \in Seq(Frames), q # <<>>, NEW S
  PROVE  /\ Registers(q) \subseteq {1} => Registers(Tail(q)) = {}
         /\ Head(q) = Register /\ ListsIn(q) # {} => ListsIn(Tail(q)) # {}
         /\ ~Lists(Head(q)) => (ListsIn(Tail(q)) = {} => ListsIn(q) = {})
         /\ Head(q) = Register => Registers(q) # {}
         /\ EndsIn(q, S) =>
               /\ EndsIn(Tail(q), S)
               /\ Lists(Head(q)) /\ ListsIn(Tail(q)) = {} => Head(q) = Snapshot(S)
<1> DEFINE r == Tail(q)
           h == Head(q)
<1>1. /\ Len(q) \in Nat /\ Len(q) >= 1 /\ DOMAIN q = 1..Len(q) /\ DOMAIN r = 1..(Len(q) - 1)
      /\ h = q[1] /\ \A i \in 1..(Len(q) - 1) : r[i] = q[i + 1]
  OBVIOUS
<1> HIDE DEF r, h
<1>2. /\ \A i \in DOMAIN r : i \in Nat /\ i >= 1 /\ i + 1 \in DOMAIN q /\ r[i] = q[i + 1]
      /\ \A i \in DOMAIN q : i \in Nat /\ i >= 1
      /\ \A i \in DOMAIN q : i # 1 => i - 1 \in DOMAIN r /\ r[i - 1] = q[i]
      /\ 1 \in DOMAIN q
  <2>1. \A i \in 1..Len(q) : i # 1 =>
           i - 1 \in 1..(Len(q) - 1) /\ r[i - 1] = q[(i - 1) + 1] /\ (i - 1) + 1 = i
    BY <1>1
  <2> QED
    BY <1>1, <2>1
<1>3. Registers(q) \subseteq {1} => Registers(r) = {}
  BY <1>2 DEF Registers
<1>4. ~Lists(h) => (ListsIn(r) = {} => ListsIn(q) = {})
  BY <1>1, <1>2 DEF ListsIn
<1>5. h = Register => ~Lists(h) /\ Registers(q) # {}
  <2>1. Register.kind = "register"
    BY DEF Register
  <2>2. ~Lists(Register)
    BY <2>1 DEF Lists
  <2> QED
    BY <1>1, <1>2, <2>2 DEF Registers
<1>6. ASSUME EndsIn(q, S), Lists(h), ListsIn(r) = {} PROVE h = Snapshot(S)
  <2>1. \A n \in ListsIn(q) : n = 1
    BY <1>2, <1>6 DEF ListsIn
  <2>2. 1 \in ListsIn(q) /\ q[1] = h
    BY <1>1, <1>2, <1>6 DEF ListsIn
  <2> QED
    BY <1>6, <2>1, <2>2 DEF EndsIn
<1>7. ASSUME EndsIn(q, S) PROVE EndsIn(r, S)
  <2>1. ASSUME NEW i \in ListsIn(r), \A n \in ListsIn(r) : n <= i PROVE r[i] = Snapshot(S)
    <3>1. i \in Nat /\ i >= 1 /\ i + 1 \in ListsIn(q) /\ r[i] = q[i + 1]
      BY <1>2, <2>1 DEF ListsIn
    <3>2. ASSUME NEW n \in ListsIn(q) PROVE n <= i + 1
      <4>1. CASE n = 1
        BY <3>1, <4>1
      <4>2. CASE n # 1
        <5>1. n \in DOMAIN q /\ Lists(q[n])
          BY <3>2 DEF ListsIn
        <5>2. n \in Nat /\ n - 1 \in ListsIn(r)
          BY <1>2, <4>2, <5>1 DEF ListsIn
        <5>3. n - 1 <= i
          BY <2>1, <5>2
        <5> QED
          BY <3>1, <5>2, <5>3
      <4> QED
        BY <4>1, <4>2
    <3> QED
      BY <1>7, <3>1, <3>2 DEF EndsIn
  <2> QED
    BY <2>1 DEF EndsIn
<1> QED
  BY <1>3, <1>4, <1>5, <1>6, <1>7 DEF r, h

-----------------------------------------------------------------------------
(* Views: the steps of the machine and of the handlers.                    *)

\* What IInv says of the live connection.
LEMMA LiveFacts ==
  ASSUME IInv
  PROVE  /\ live \in Conns \cup {None} /\ owner \in Conns \cup {None} /\ None \notin Conns
         /\ held \in SUBSET Threads
         /\ \A c \in Conns : wire[c] \in Seq(Frames) /\ doing[c] \in Frames
         /\ live # None => live \in Conns
         /\ index \in [Threads -> Entry] /\ snap \in [Threads -> Entry]
  BY ThreadTablesAssumption DEF IInv, TypeOK, Shapes

\* Only a thread that the machine has is listed as known.
LEMMA KnownHeld ==
  ASSUME NEW S \in SUBSET Threads
  PROVE  /\ Known(S) \in [Threads -> Entry]
         /\ \A t \in Threads : t \in S => Known(S)[t] = "known"
         /\ \A t \in Threads : t \notin S => Known(S)[t] = "absent"
         /\ \A t \in Threads : Known(S)[t] # "absent" => t \in S
  BY DEF Known, Entry

\* The machine writes: a snapshot, frames that do not change the list, or others
\* that a snapshot is to follow.
LEMMA WriteViews ==
  ASSUME IInv, ViewsCome, NEW fs \in Seq(Frames), Write(fs), Register \notin Elements(fs),
         UNCHANGED <<live, hubVars, viewVars, req>>,
         \/ owes' = TRUE
         \/ /\ owes' = owes /\ unlisted' = unlisted /\ held' = held
            /\ \A f \in Elements(fs) : ~Lists(f)
         \/ fs = <<Snapshot(held)>> /\ held' = held
  PROVE  ViewsCome'
<1>1. /\ \A k \in Consoles : req'[k].pc \in {"track", "upsert"} => req'[k].via # None
      /\ owner' = None => router' = {} /\ \A t \in Threads : index'[t] # "known"
  BY DEF ViewsCome, hubVars, viewVars
<1>2. CASE live = None
  BY <1>1, <1>2 DEF ViewsCome
<1>3. CASE live # None
  <2> DEFINE q == wire[live]
  <2>1. live \in Conns /\ q \in Seq(Frames) /\ held \in SUBSET Threads /\ live' = live
    BY <1>3, LiveFacts
  <2>2. wire'[live] = q \o fs
    BY <1>3, <2>1 DEF Write, IInv, Shapes
  <2>3. Registers(wire'[live]) = Registers(q) /\ Registers(q) \subseteq {1}
    BY <1>3, <2>1, <2>2, PlainBehind DEF ViewsCome
  <2>4. CASE owes' = TRUE
    BY <1>1, <2>1, <2>3, <2>4 DEF ViewsCome
  <2>5. CASE fs = <<Snapshot(held)>> /\ held' = held
    <3>1. ListsIn(wire'[live]) # {} /\ EndsIn(wire'[live], held)
      BY <2>1, <2>2, <2>5, SnapshotLast
    <3> QED
      BY <1>1, <2>1, <2>3, <2>5, <3>1 DEF ViewsCome
  <2>6. CASE /\ owes' = owes /\ unlisted' = unlisted /\ held' = held
             /\ \A f \in Elements(fs) : ~Lists(f)
    <3>1. /\ ListsIn(wire'[live]) = ListsIn(q)
          /\ EndsIn(q, held) => EndsIn(wire'[live], held)
      BY <2>1, <2>2, <2>6, PlainBehind
    <3>2. UpToDate(live)' = UpToDate(live)
      BY <2>1, <2>6 DEF UpToDate, Renews, hubVars, viewVars
    <3>3. /\ ~owes' /\ ~unlisted' => EndsIn(wire'[live], held')
          /\ ~owes' /\ ~unlisted' /\ Registers(wire'[live]) # {} => ListsIn(wire'[live]) # {}
      BY <1>3, <2>3, <2>6, <3>1 DEF ViewsCome
    <3>4. owner' = owner
      BY DEF hubVars
    <3>5. ~owes' /\ ~unlisted' /\ owner' = live /\ ListsIn(wire'[live]) = {} => UpToDate(live)'
      BY <1>3, <2>6, <3>1, <3>2, <3>4 DEF ViewsCome
    <3> QED
      BY <1>1, <2>1, <2>3, <3>3, <3>5 DEF ViewsCome
  <2> QED
    BY <2>4, <2>5, <2>6
<1> QED
  BY <1>2, <1>3

\* A handler writes to no table, or what the table says already where it matters.
LEMMA HandlerViews ==
  ASSUME ViewsCome, UNCHANGED <<machineVars, wire, hubVars>>,
         \A k \in Consoles : req'[k].pc \in {"track", "upsert"} => req'[k].via # None,
         owner = None => /\ router' = router
                         /\ \A t \in Threads : index'[t] = "known" => index[t] = "known",
         live # None /\ owner = live /\ UpToDate(live) => UpToDate(live)'
  PROVE  ViewsCome'
<1>1. /\ live' = live /\ held' = held /\ owes' = owes /\ unlisted' = unlisted
      /\ owner' = owner /\ wire' = wire
  BY DEF machineVars, hubVars
<1>2. owner' = None => router' = {} /\ \A t \in Threads : index'[t] # "known"
  BY <1>1 DEF ViewsCome
<1>3. ASSUME live # None
      PROVE  /\ Registers(wire'[live]) \subseteq {1}
             /\ ~owes' /\ ~unlisted' =>
                  /\ EndsIn(wire'[live], held')
                  /\ Registers(wire'[live]) # {} => ListsIn(wire'[live]) # {}
                  /\ owner' = live /\ ListsIn(wire'[live]) = {} => UpToDate(live)'
  BY <1>1, <1>3 DEF ViewsCome
<1> QED
  BY <1>1, <1>2, <1>3 DEF ViewsCome

\* Nor does a step that leaves the tables alone.
LEMMA TablesStay ==
  ASSUME ViewsCome, UNCHANGED <<machineVars, wire, hubVars, index, router>>,
         \A k \in Consoles : req'[k].pc \in {"track", "upsert"} => req'[k].via # None
  PROVE  ViewsCome'
<1>1. live # None /\ owner = live /\ UpToDate(live) => UpToDate(live)'
  BY DEF UpToDate, Renews, machineVars, hubVars
<1> QED
  BY <1>1, HandlerViews

\* What the machine does.
LEMMA MachineViews ==
  ASSUME IInv, ViewsCome, Machine
  PROVE  ViewsCome'
<1>1. held \in SUBSET Threads /\ running \in [Threads -> Turns \cup {None}]
  BY DEF IInv, TypeOK
<1>2. CASE Break
  BY <1>2 DEF Break, ViewsCome, hubVars, viewVars
<1>3. CASE SendSnapshot
  <2> DEFINE f == Snapshot(held)
  <2>1. f \in Frames /\ f # Register
    BY <1>1, FrameKinds DEF Snapshot, Register
  <2>2. <<f>> \in Seq(Frames) /\ Elements(<<f>>) = {f} /\ Register \notin Elements(<<f>>)
    BY <2>1, ShortElements
  <2>3. Write(<<f>>) /\ UNCHANGED <<live, held, hubVars, viewVars, req>>
    BY <1>3 DEF SendSnapshot
  <2> HIDE DEF f
  <2> QED
    BY <2>2, <2>3, WriteViews DEF f
<1>4. ASSUME NEW t \in Threads, TurnEnds(t) PROVE ViewsCome'
  <2> DEFINE f == Ended(t, running[t])
  <2>1. f \in Frames /\ f # Register /\ ~Lists(f)
    BY <1>1, <1>4, FrameKinds DEF TurnEnds, Ended, Register, Lists
  <2>2. <<f>> \in Seq(Frames) /\ Elements(<<f>>) = {f}
    BY <2>1, ShortElements
  <2>3. Write(<<f>>) /\ UNCHANGED <<live, held, owes, unlisted, hubVars, viewVars, req>>
    BY <1>4 DEF TurnEnds
  <2> HIDE DEF f
  <2> QED
    BY <2>1, <2>2, <2>3, WriteViews
<1>5. CASE HandleCommand
  <2> DEFINE m == Head(commands)
  <2>1. m \in Message
    <3>1. commands \in Seq(Message) /\ commands # <<>>
      BY <1>5 DEF IInv, TypeOK, HandleCommand
    <3> QED
      BY <3>1, TailElements
  <2>2. Effect(m) /\ ~owes /\ UNCHANGED <<live, unlisted, hubVars, viewVars, req>>
    BY <1>5 DEF HandleCommand
  <2> HIDE DEF m
  <2>3. Done(m) \in Frames /\ Done(m) # Register /\ Done(m).kind = "done" /\ Done(m).cmd = m.cmd
    BY <2>1, DoneShape DEF Register
  <2>4. \A e \in Frames : <<e>> \in Seq(Frames) /\ Elements(<<e>>) = {e}
    BY ShortElements
  <2>5. CASE CreateThread(m)
    <3>1. PICK n \in Threads : Write(<<Done([m EXCEPT !.thread = n])>>) /\ owes' = TRUE
      BY <2>5 DEF CreateThread
    <3> DEFINE f == Done([m EXCEPT !.thread = n])
    <3>2. [m EXCEPT !.thread = n] \in Message
      BY <2>1, <3>1
    <3>3. f \in Frames /\ f # Register
      BY <3>2, DoneShape DEF Register
    <3> HIDE DEF f
    <3>4. <<f>> \in Seq(Frames) /\ Register \notin Elements(<<f>>)
      BY <2>4, <3>3
    <3> QED
      BY <2>2, <3>1, <3>4, WriteViews DEF f
  <2>6. CASE ArchiveThread(m)
    <3>1. Write(<<Done(m)>>) /\ owes' = TRUE
      BY <2>6 DEF ArchiveThread
    <3> QED
      BY <2>2, <2>3, <2>4, <3>1, WriteViews
  <2>7. CASE ReadOrResumeThread(m)
    <3>1. Write(<<Done(m)>>) /\ held' = held /\ owes' = (m.cmd = "resume")
          /\ m.cmd \in {"read", "resume"}
      BY <2>7 DEF ReadOrResumeThread
    <3>2. owes' = TRUE \/ (owes' = owes /\ ~Lists(Done(m)))
      <4>1. CASE m.cmd = "resume"
        BY <3>1, <4>1
      <4>2. CASE m.cmd = "read"
        <5>1. ~Lists(Done(m))
          BY <2>3, <4>2 DEF Lists
        <5>2. owes' = FALSE
          BY <3>1, <4>2
        <5>3. owes = FALSE
          BY <2>2 DEF IInv, TypeOK
        <5> QED
          BY <5>1, <5>2, <5>3
      <4> QED
        BY <3>1, <4>1, <4>2
    <3> QED
      BY <2>2, <2>3, <2>4, <3>1, <3>2, WriteViews
  <2>8. CASE StartTurn(m)
    <3> DEFINE s == Started(m.thread, turns + 1)
               d == Done(m)
    <3>1. /\ Write(<<s, d>>) \/ Write(<<d, s>>)
          /\ held' = held /\ owes' = FALSE /\ m.cmd = "start"
          /\ turns + 1 \in Turns
      BY <2>8, ThreadTablesAssumption DEF StartTurn, Starts, IInv, TypeOK, Turns
    <3>2. s \in Frames /\ s # Register /\ ~Lists(s)
      BY <2>1, <3>1, FrameKinds DEF Started, Register, Lists
    <3>3. d \in Frames /\ d # Register /\ ~Lists(d)
      BY <2>3, <3>1 DEF Lists
    <3>4. owes' = owes
      BY <2>2, <3>1 DEF IInv, TypeOK
    <3> HIDE DEF s, d
    <3>5. /\ <<s, d>> \in Seq(Frames) /\ Elements(<<s, d>>) = {s, d}
          /\ <<d, s>> \in Seq(Frames) /\ Elements(<<d, s>>) = {s, d}
      BY <3>2, <3>3, ShortElements
    <3>6. CASE Write(<<s, d>>)
      BY <2>2, <3>1, <3>2, <3>3, <3>4, <3>5, <3>6, WriteViews
    <3>7. CASE Write(<<d, s>>)
      BY <2>2, <3>1, <3>2, <3>3, <3>4, <3>5, <3>7, WriteViews
    <3> QED
      BY <3>1, <3>6, <3>7
  <2>9. CASE InterruptTurn(m)
    <3> DEFINE e == Ended(m.thread, running[m.thread])
               d == Done(m)
    <3>1. Write(<<e, d, e>>) /\ owes' = TRUE /\ running[m.thread] \in Turns
      BY <1>1, <2>1, <2>9 DEF InterruptTurn, Interrupts
    <3>2. e \in Frames /\ e # Register /\ d \in Frames /\ d # Register
      BY <2>1, <2>3, <3>1, FrameKinds DEF Ended, Register
    <3> HIDE DEF e, d
    <3>3. <<e, d, e>> \in Seq(Frames) /\ Elements(<<e, d, e>>) = {e, d}
      BY <3>2, ShortElements
    <3> QED
      BY <2>2, <3>1, <3>2, <3>3, WriteViews
  <2>10. CASE Reject(m)
    <3> DEFINE f == Rejected(m)
    <3>1. Write(<<f>>) /\ UNCHANGED <<held, owes>>
      BY <2>10 DEF Reject
    <3>2. f \in Frames /\ f # Register /\ ~Lists(f)
      BY <2>1, FrameKinds DEF Rejected, Register, Lists
    <3> HIDE DEF f
    <3> QED
      BY <2>2, <2>4, <3>1, <3>2, WriteViews
  <2> QED
    BY <2>2, <2>5, <2>6, <2>7, <2>8, <2>9, <2>10 DEF Effect
<1>6. ASSUME NEW m \in strays, FinishStray(m) PROVE ViewsCome'
  <2>1. m \in Message /\ UNCHANGED <<live, owes, hubVars, viewVars, req>>
    BY <1>6 DEF FinishStray, IInv, TypeOK
  <2>2. unlisted' = (unlisted \/ (held' # held /\ live # None /\ ~owes))
    BY <1>6 DEF FinishStray
  <2>3. CASE held' # held /\ wire' = wire
    BY <2>1, <2>2, <2>3 DEF ViewsCome, hubVars, viewVars
  <2>4. CASE held' = held /\ wire' = wire
    <3>1. \A c \in Conns : UpToDate(c)' = UpToDate(c)
      BY <2>1, <2>4 DEF UpToDate, Renews, hubVars, viewVars
    <3>2. live # None => live \in Conns
      BY LiveFacts
    <3> QED
      BY <2>1, <2>2, <2>4, <3>1, <3>2 DEF ViewsCome, hubVars, viewVars
  <2>5. CASE Starts(m.thread) /\ Write(<<Started(m.thread, turns + 1)>>)
    <3> DEFINE f == Started(m.thread, turns + 1)
    <3>1. turns + 1 \in Turns /\ held' = held
      BY <2>5, ThreadTablesAssumption DEF Starts, IInv, TypeOK, Turns
    <3>2. f \in Frames /\ f # Register /\ ~Lists(f)
      BY <2>1, <3>1, FrameKinds DEF Started, Register, Lists
    <3>3. <<f>> \in Seq(Frames) /\ Elements(<<f>>) = {f}
      BY <3>2, ShortElements
    <3>4. Write(<<f>>)
      BY <2>5
    <3> HIDE DEF f
    <3> QED
      BY <2>1, <2>2, <3>1, <3>2, <3>3, <3>4, WriteViews DEF IInv, TypeOK
  <2>6. CASE Interrupts(m.thread) /\ Write(<<Ended(m.thread, running[m.thread])>>)
    <3> DEFINE f == Ended(m.thread, running[m.thread])
    <3>1. running[m.thread] \in Turns /\ held' = held
      BY <1>1, <2>1, <2>6 DEF Interrupts
    <3>2. f \in Frames /\ f # Register /\ ~Lists(f)
      BY <2>1, <3>1, FrameKinds DEF Ended, Register, Lists
    <3>3. <<f>> \in Seq(Frames) /\ Elements(<<f>>) = {f}
      BY <3>2, ShortElements
    <3>4. Write(<<f>>)
      BY <2>6
    <3> HIDE DEF f
    <3> QED
      BY <2>1, <2>2, <3>1, <3>2, <3>3, <3>4, WriteViews DEF IInv, TypeOK
  <2> QED
    BY <1>6, <2>3, <2>4, <2>5, <2>6 DEF FinishStray
<1> QED
  BY <1>2, <1>3, <1>4, <1>5, <1>6 DEF Machine

\* A request that is failed or cleared writes nothing; one that is answered knows the
\* connection it was answered on.
LEMMA ViaShapes ==
  /\ \A r \in Requests : /\ Failed(r).pc \notin {"track", "upsert"}
                         /\ Clearing(r).pc \notin {"track", "upsert"}
  /\ NoRequest.pc \notin {"track", "upsert"}
  /\ \A r \in Requests, t \in Threads, c \in Conns :
        Answered(r, t, c).pc \in {"track", "upsert"} => Answered(r, t, c).via = c
<1>1. \A r \in Requests : /\ Failed(r).pc \in {"idle", "failed"}
                          /\ Clearing(r).pc = "clear"
  BY FailedShape, ClearingShape
<1>2. ASSUME NEW r \in Requests, NEW t \in Threads, NEW c \in Conns
      PROVE  Answered(r, t, c).pc \in {"track", "upsert"} => Answered(r, t, c).via = c
  <2>1. [NoRequest EXCEPT !.thread = t, !.via = c, !.pc = "track"].via = c
    BY DEF NoRequest
  <2>2. Answered(r, t, c).pc \in {"track", "upsert"} => r.op \in {"create", "read", "resume"}
    BY AnsweredShape
  <2> QED
    BY <2>1, <2>2 DEF Answered
<1> QED
  BY <1>1, <1>2, NoRequestShape

\* A handler's step sets the program counter of its own request only.
LEMMA SetViews ==
  ASSUME IInv, ViewsCome, NEW k \in Consoles, NEW s, req' = [req EXCEPT ![k] = s],
         s.pc \in {"track", "upsert"} => s.via # None
  PROVE  \A j \in Consoles : req'[j].pc \in {"track", "upsert"} => req'[j].via # None
<1>1. \A j \in Consoles : req'[j] = IF j = k THEN s ELSE req[j]
  BY DEF IInv, Shapes
<1> QED
  BY <1>1 DEF ViewsCome

\* Sending a command.
LEMMA SendViews ==
  ASSUME IInv, ViewsCome, NEW k \in Consoles, NEW r \in Requests, Send(k, r),
         UNCHANGED <<machineVars, wire, hubVars, viewVars, late>>
  PROVE  ViewsCome'
<1>1. PICK i : i = requests + 1
  OBVIOUS
<1>2. [r EXCEPT !.id = i, !.pc = "waiting"].pc = "waiting"
  BY DEF Requests
<1>3. PICK s : req' = [req EXCEPT ![k] = s] /\ s.pc \notin {"track", "upsert"}
  <2>1. Failed(r).pc \notin {"track", "upsert"}
    BY ViaShapes
  <2>2. CASE owner = None
    <3>1. req' = [req EXCEPT ![k] = Failed(r)]
      BY <2>2 DEF Send
    <3> QED
      BY <2>1, <3>1
  <2>3. CASE owner # None
    <3>1. req' = [req EXCEPT ![k] = [r EXCEPT !.id = i, !.pc = "waiting"]]
      BY <1>1, <2>3 DEF Send
    <3> QED
      BY <1>2, <3>1
  <2> QED
    BY <2>2, <2>3
<1>4. \A j \in Consoles : req'[j].pc \in {"track", "upsert"} => req'[j].via # None
  BY <1>3, SetViews
<1> QED
  BY <1>4, TablesStay DEF viewVars

\* A console asks.
LEMMA AskViews ==
  ASSUME IInv, ViewsCome, NEW k \in Consoles, Ask(k)
  PROVE  ViewsCome'
<1>1. ASSUME NEW op \in Ops, NEW t \in Threads, NEW cmd \in Commands, Request(k, op, t, cmd)
      PROVE  ViewsCome'
  <2> DEFINE r == [NoRequest EXCEPT !.op = op, !.thread = t, !.cmd = cmd,
                                    !.again = (op = "read")]
  <2>1. r \in Requests
    BY NoRequestShape DEF Requests
  <2>2. Send(k, r) /\ UNCHANGED <<machineVars, wire, hubVars, viewVars, late>>
    BY <1>1 DEF Request
  <2> HIDE DEF r
  <2> QED
    BY <2>1, <2>2, SendViews
<1> USE DEF Ops, Commands
<1>2. CASE PostThread(k)
  <2>1. (CHOOSE t \in Threads : TRUE) \in Threads
    BY ThreadTablesAssumption
  <2> QED
    BY <1>1, <1>2, <2>1 DEF PostThread
<1>3. CASE GetThread(k)
  BY <1>1, <1>3 DEF GetThread, IInv, TypeOK
<1>4. CASE PostResumeOrArchive(k)
  BY <1>1, <1>4 DEF PostResumeOrArchive
<1>5. CASE DeleteThread(k)
  BY <1>1, <1>5 DEF DeleteThread, Listed
<1>6. CASE PostTurn(k)
  BY <1>1, <1>6 DEF PostTurn
<1>7. CASE PostInterrupt(k)
  BY <1>1, <1>7 DEF PostInterrupt
<1>8. CASE Rename(k)
  <2>1. PICK t \in Threads :
          /\ req' = [req EXCEPT ![k] =
                [NoRequest EXCEPT !.op = "rename", !.pc = "rename", !.thread = t,
                                  !.seen = IF index[t] = "absent" THEN "unknown" ELSE index[t]]]
          /\ UNCHANGED <<machineVars, wire, commands, hubVars, viewVars, late>>
    BY <1>8 DEF Rename
  <2> DEFINE s == [NoRequest EXCEPT !.op = "rename", !.pc = "rename", !.thread = t,
                           !.seen = IF index[t] = "absent" THEN "unknown" ELSE index[t]]
  <2>2. s.pc = "rename"
    BY DEF NoRequest
  <2> HIDE DEF s
  <2>3. \A j \in Consoles : req'[j].pc \in {"track", "upsert"} => req'[j].via # None
    <3>1. req' = [req EXCEPT ![k] = s]
      BY <2>1 DEF s
    <3> QED
      BY <2>2, <3>1, SetViews
  <2> QED
    BY <2>1, <2>3, TablesStay DEF viewVars
<1> QED
  BY <1>2, <1>3, <1>4, <1>5, <1>6, <1>7, <1>8 DEF Ask

\* What a handler writes for a thread it was told of is there already, unless the
\* snapshot that is being handled is still to be written.
LEMMA HandlersViews ==
  ASSUME IInv, ViewsCome, NEW k \in Consoles, Handler(k), ~late'
  PROVE  ViewsCome'
<1> DEFINE t == req[k].thread
<1>1. req[k].pc # "idle" => req[k] \in Requests /\ t \in Threads
  BY DEF IInv, Shapes
<1>2. CASE Ask(k)
  BY <1>2, AskViews
<1>3. CASE TryAgain(k)
  <2> DEFINE r == [req[k] EXCEPT !.again = FALSE,
                                 !.cmd = IF @ = "read" THEN "resume" ELSE "read"]
  <2>1. r \in Requests
    BY <1>1, <1>3 DEF TryAgain, Requests, Commands
  <2>2. Send(k, r) /\ UNCHANGED <<machineVars, wire, hubVars, viewVars, late>>
    BY <1>3 DEF TryAgain
  <2> HIDE DEF r
  <2> QED
    BY <2>1, <2>2, SendViews
<1>4. CASE Expire(k) \/ Finish(k) \/ Clear(k)
  <2>1. PICK s : req' = [req EXCEPT ![k] = s] /\ s.pc \notin {"track", "upsert"}
    BY <1>1, <1>4, ViaShapes DEF Expire, Finish, Clear
  <2>2. \A j \in Consoles : req'[j].pc \in {"track", "upsert"} => req'[j].via # None
    BY <2>1, SetViews
  <2>3. UNCHANGED <<machineVars, wire, hubVars, index, router>>
    BY <1>4 DEF Expire, Finish, Clear, viewVars
  <2> QED
    BY <2>2, <2>3, TablesStay
<1>5. CASE MarkDeleted(k)
  <2> DEFINE s == [req[k] EXCEPT !.pc = "remove"]
  <2>1. s.pc = "remove" /\ req' = [req EXCEPT ![k] = s]
    BY <1>1, <1>5 DEF MarkDeleted, Requests
  <2> HIDE DEF s
  <2>2. \A j \in Consoles : req'[j].pc \in {"track", "upsert"} => req'[j].via # None
    BY <2>1, SetViews
  <2> QED
    BY <1>5, <2>2, TablesStay DEF MarkDeleted
<1>6. CASE RenameStore(k)
  <2>1. index' = index
    BY <1>1, <1>6, LiveFacts DEF RenameStore
  <2>2. \A j \in Consoles : req'[j].pc \in {"track", "upsert"} => req'[j].via # None
    BY <1>1, <1>6, SetViews, ViaShapes DEF RenameStore
  <2> QED
    BY <1>6, <2>1, <2>2, TablesStay DEF RenameStore
<1>7. CASE Track(k)
  <2> DEFINE s == [req[k] EXCEPT !.pc = "upsert"]
  <2>1. /\ req[k].pc = "track" /\ router' = router \cup {t} /\ owner = req[k].via
        /\ snap[t] # "absent" /\ req' = [req EXCEPT ![k] = s]
        /\ UNCHANGED <<machineVars, wire, commands, hubVars, index>>
    BY <1>7 DEF Track, Stale
  <2>2. s.via = req[k].via /\ owner # None
    BY <1>1, <2>1 DEF Requests, ViewsCome
  <2> HIDE DEF s
  <2>3. \A j \in Consoles : req'[j].pc \in {"track", "upsert"} => req'[j].via # None
    BY <2>1, <2>2, SetViews
  <2>4. ASSUME live # None, UpToDate(live) PROVE UpToDate(live)'
    <3>1. snap = Known(held) => router' = router \cup {t} /\ t \in held
      BY <1>1, <2>1, KnownHeld, LiveFacts
    <3>2. /\ live' = live /\ held' = held /\ UNCHANGED <<connPC, doing, copy, snap, index>>
      BY <2>1 DEF machineVars, hubVars
    <3>3. \A c : Renews(c)' = Renews(c)
      BY <3>2 DEF Renews
    <3> QED
      BY <2>4, <3>1, <3>2, <3>3 DEF UpToDate
  <2> QED
    BY <2>1, <2>2, <2>3, <2>4, HandlerViews
<1>8. CASE Upsert(k)
  <2>1. /\ req[k].pc = "upsert" /\ index' = [index EXCEPT ![t] = "known"]
        /\ owner = req[k].via /\ snap[t] # "absent" /\ req' = [req EXCEPT ![k] = Clearing(@)]
        /\ UNCHANGED <<machineVars, wire, commands, hubVars, router>>
    BY <1>8 DEF Upsert, Stale
  <2>2. owner # None
    BY <2>1 DEF ViewsCome
  <2>3. \A j \in Consoles : req'[j].pc \in {"track", "upsert"} => req'[j].via # None
    BY <1>1, <2>1, SetViews, ViaShapes
  <2>4. ASSUME live # None, UpToDate(live) PROVE UpToDate(live)'
    <3>1. snap = Known(held) /\ index = Known(held) => index' = index
      BY <1>1, <2>1, KnownHeld, LiveFacts
    <3>2. /\ live' = live /\ held' = held /\ UNCHANGED <<connPC, doing, copy, snap, router>>
      BY <2>1 DEF machineVars, hubVars
    <3>3. \A c : Renews(c)' = Renews(c)
      BY <3>2 DEF Renews
    <3> QED
      BY <2>4, <3>1, <3>2, <3>3 DEF UpToDate
  <2> QED
    BY <2>1, <2>2, <2>3, <2>4, HandlerViews
<1>9. CASE Remove(k)
  <2>1. /\ req[k].pc = "remove" /\ index' = [index EXCEPT ![t] = "absent"]
        /\ req' = [req EXCEPT ![k] = NoRequest] /\ t \notin held
        /\ UNCHANGED <<machineVars, wire, commands, hubVars, router>>
    BY <1>9 DEF Remove, IInv, ArchivedFirst, Archived
  <2>2. \A j \in Consoles : req'[j].pc \in {"track", "upsert"} => req'[j].via # None
    BY <2>1, SetViews, ViaShapes
  <2>3. \A u \in Threads : index'[u] = "known" => index[u] = "known"
    BY <1>1, <2>1, LiveFacts
  <2>4. ASSUME live # None, UpToDate(live) PROVE UpToDate(live)'
    <3>1. index = Known(held) => index' = index
      BY <1>1, <2>1, KnownHeld, LiveFacts
    <3>2. /\ live' = live /\ held' = held /\ UNCHANGED <<connPC, doing, copy, snap, router>>
      BY <2>1 DEF machineVars, hubVars
    <3>3. \A c : Renews(c)' = Renews(c)
      BY <3>2 DEF Renews
    <3> QED
      BY <2>4, <3>1, <3>2, <3>3 DEF UpToDate
  <2> QED
    BY <2>1, <2>2, <2>3, <2>4, HandlerViews
<1> QED
  BY <1>2, <1>3, <1>4, <1>5, <1>6, <1>7, <1>8, <1>9 DEF Handler

-----------------------------------------------------------------------------
(* Views: the goroutine of a connection.                                   *)

\* A connection is made.
LEMMA ConnectViews ==
  ASSUME IInv, ViewsCome, NEW c \in Conns, Connect(c)
  PROVE  ViewsCome'
<1>1. /\ live' = c /\ owes' = TRUE /\ wire'[c] = <<Register>> /\ owner' = owner
      /\ UNCHANGED <<viewVars, req>>
  BY DEF Connect, IInv, Shapes
<1>2. Registers(<<Register>>) \subseteq {1}
  BY DEF Registers
<1> QED
  BY <1>1, <1>2 DEF ViewsCome, viewVars

\* The goroutine of a connection other than the live one changes nothing of what the
\* tables come to while the live one has the machine.
LEMMA OtherViews ==
  ASSUME IInv, ViewsCome, NEW c \in Conns, c # live, UNCHANGED <<held, owes, unlisted, live>>,
         live # None => wire'[live] = wire[live],
         \A k \in Consoles : req'[k].pc \in {"track", "upsert"} => req'[k].via # None,
         owner' = None => router' = {} /\ \A t \in Threads : index'[t] # "known",
         live # None /\ owner' = live =>
            /\ owner = live /\ UNCHANGED <<snap, index, router>>
            /\ connPC'[live] = connPC[live] /\ doing'[live] = doing[live]
            /\ copy'[live] = copy[live]
  PROVE  ViewsCome'
<1>1. ASSUME live # None, owner' = live PROVE UpToDate(live)' = UpToDate(live)
  BY <1>1 DEF UpToDate, Renews
<1>2. ASSUME live # None
      PROVE  /\ Registers(wire'[live]) \subseteq {1}
             /\ ~owes' /\ ~unlisted' =>
                  /\ EndsIn(wire'[live], held')
                  /\ Registers(wire'[live]) # {} => ListsIn(wire'[live]) # {}
                  /\ owner' = live /\ ListsIn(wire'[live]) = {} => UpToDate(live)'
  BY <1>1, <1>2 DEF ViewsCome
<1> QED
  BY <1>2 DEF ViewsCome

\* The goroutine of the live connection: what is to be shown of it.
LEMMA LiveViews ==
  ASSUME ViewsCome, NEW c \in Conns, c = live, UNCHANGED <<held, owes, unlisted, live>>,
         None \notin Conns,
         wire'[c] = wire[c],
         \A k \in Consoles : req'[k].pc \in {"track", "upsert"} => req'[k].via # None,
         owner = c, owner' = c,
         UpToDate(c) => UpToDate(c)'
  PROVE  ViewsCome'
<1>1. live # None /\ owner # None
  OBVIOUS
<1>2. /\ Registers(wire'[live]) \subseteq {1}
      /\ ~owes' /\ ~unlisted' =>
           /\ EndsIn(wire'[live], held')
           /\ Registers(wire'[live]) # {} => ListsIn(wire'[live]) # {}
           /\ owner' = live /\ ListsIn(wire'[live]) = {} => UpToDate(live)'
  BY <1>1 DEF ViewsCome
<1> QED
  BY <1>1, <1>2 DEF ViewsCome

\* A frame is read: one that changes the list is a snapshot of what the machine has,
\* or another one is to come.
LEMMA ReadFrameViews ==
  ASSUME IInv, ViewsCome, NEW c \in Conns, ReadFrame(c)
  PROVE  ViewsCome'
<1> DEFINE f == Head(wire[c])
           plain == \/ f.kind = "rejected"
                    \/ f.kind = "done" /\ f.cmd \notin {"create", "resume", "archive"}
<1>1. /\ wire[c] \in Seq(Frames) /\ wire[c] # <<>> /\ connPC[c] = "reading"
      /\ wire'[c] = Tail(wire[c]) /\ \A d \in Conns \ {c} : wire'[d] = wire[d]
      /\ UNCHANGED <<machineVars, copy, snap, viewVars, req>>
      /\ UNCHANGED <<held, owes, unlisted, live, router, index>>
  BY DEF ReadFrame, IInv, Shapes, machineVars, viewVars
<1>2. \/ f = Register /\ owner' = c /\ UNCHANGED <<doing, connPC>>
      \/ /\ f # Register /\ owner = c /\ UNCHANGED owner
         /\ doing' = [doing EXCEPT ![c] = f]
         /\ connPC' = [connPC EXCEPT ![c] = IF plain THEN "answer" ELSE "apply"]
      \/ f # Register /\ owner # c /\ UNCHANGED <<owner, doing, connPC>>
  BY DEF ReadFrame
<1>3. c # None /\ plain \in BOOLEAN /\ (plain => ~Lists(f))
  <2>1. c # None /\ plain \in BOOLEAN
    BY LiveFacts
  <2>2. plain => ~Lists(f)
    BY DEF Lists
  <2> QED
    BY <2>1, <2>2
<1> HIDE DEF plain
<1>4. /\ \A k \in Consoles : req'[k].pc \in {"track", "upsert"} => req'[k].via # None
      /\ owner' = None => router' = {} /\ \A t \in Threads : index'[t] # "known"
  BY <1>1, <1>2, <1>3 DEF ViewsCome
<1>5. /\ Registers(wire[c]) \subseteq {1} => Registers(wire'[c]) = {}
      /\ f = Register /\ ListsIn(wire[c]) # {} => ListsIn(wire'[c]) # {}
      /\ ~Lists(f) => (ListsIn(wire'[c]) = {} => ListsIn(wire[c]) = {})
      /\ f = Register => Registers(wire[c]) # {}
      /\ EndsIn(wire[c], held) =>
            /\ EndsIn(wire'[c], held)
            /\ Lists(f) /\ ListsIn(wire'[c]) = {} => f = Snapshot(held)
  <2> DEFINE q == wire[c]
  <2>1. q \in Seq(Frames) /\ q # <<>> /\ wire'[c] = Tail(q) /\ f = Head(q)
    BY <1>1
  <2> HIDE DEF f, q
  <2>2. /\ Registers(q) \subseteq {1} => Registers(Tail(q)) = {}
        /\ Head(q) = Register /\ ListsIn(q) # {} => ListsIn(Tail(q)) # {}
        /\ ~Lists(Head(q)) => (ListsIn(Tail(q)) = {} => ListsIn(q) = {})
        /\ Head(q) = Register => Registers(q) # {}
        /\ EndsIn(q, held) =>
              /\ EndsIn(Tail(q), held)
              /\ Lists(Head(q)) /\ ListsIn(Tail(q)) = {} => Head(q) = Snapshot(held)
    BY <2>1, TakenOff
  <2>3. /\ Registers(q) \subseteq {1} => Registers(wire'[c]) = {}
        /\ f = Register /\ ListsIn(q) # {} => ListsIn(wire'[c]) # {}
        /\ ~Lists(f) => (ListsIn(wire'[c]) = {} => ListsIn(q) = {})
        /\ f = Register => Registers(q) # {}
        /\ EndsIn(q, held) =>
              /\ EndsIn(wire'[c], held)
              /\ Lists(f) /\ ListsIn(wire'[c]) = {} => f = Snapshot(held)
    BY <2>1, <2>2
  <2> QED
    BY <2>3 DEF q
<1> HIDE DEF f
<1>6. CASE c # live
  <2>1. live # None => live \in Conns /\ live # c
    BY <1>6, LiveFacts
  <2>2. live # None => wire'[live] = wire[live] /\ copy'[live] = copy[live]
    BY <1>1, <2>1
  <2>3. live # None /\ owner' = live =>
           owner = live /\ connPC'[live] = connPC[live] /\ doing'[live] = doing[live]
    BY <1>2, <2>1
  <2> QED
    BY <1>1, <1>4, <1>6, <2>2, <2>3, OtherViews
<1>7. CASE c = live
  <2>1. ASSUME ~owes, ~unlisted
        PROVE  /\ EndsIn(wire'[c], held)
               /\ Lists(f) /\ ListsIn(wire'[c]) = {} => f = Snapshot(held)
               /\ f = Register => ListsIn(wire'[c]) # {}
    BY <1>3, <1>5, <1>7, <2>1 DEF ViewsCome
  <2>2. Registers(wire'[c]) = {}
    BY <1>3, <1>5, <1>7 DEF ViewsCome
  <2>3. ASSUME ~owes, ~unlisted, owner' = c, ListsIn(wire'[c]) = {} PROVE UpToDate(c)'
    <3>1. /\ f # Register /\ owner = c /\ doing'[c] = f
          /\ connPC'[c] = IF plain THEN "answer" ELSE "apply"
      BY <1>2, <2>1, <2>3 DEF IInv, Shapes, TypeOK
    <3>2. CASE Lists(f)
      <4>1. f = Snapshot(held) /\ connPC'[c] = "apply"
        BY <1>3, <2>1, <2>3, <3>1, <3>2
      <4>2. Renews(c)'
        BY <1>1, <3>1, <4>1 DEF Renews
      <4> QED
        BY <4>1, <4>2 DEF UpToDate
    <3>3. CASE ~Lists(f)
      <4>1. UpToDate(c)
        BY <1>3, <1>5, <1>7, <2>3, <3>1, <3>3 DEF ViewsCome
      <4>2. snap = Known(held) /\ index = Known(held) /\ router = held
        BY <1>1, <4>1 DEF UpToDate
      <4>3. ~Renews(c)'
        <5>1. Lists(Snapshot(held))
          BY DEF Lists, Snapshot
        <5> QED
          BY <1>1, <3>1, <3>3, <5>1 DEF Renews
      <4>4. connPC'[c] \in {"answer", "apply"} /\ ~Lists(doing'[c])
        BY <3>1, <3>3
      <4>5. snap' = Known(held)' /\ index' = Known(held)' /\ router' = held'
        BY <1>1, <4>2
      <4> QED
        BY <4>3, <4>4, <4>5 DEF UpToDate
    <3> QED
      BY <3>2, <3>3
  <2> QED
    BY <1>1, <1>3, <1>4, <1>7, <2>1, <2>2, <2>3 DEF ViewsCome
<1> QED
  BY <1>6, <1>7

\* The part of a frame that is handled under h.mu.
LEMMA ApplyViews ==
  ASSUME IInv, ViewsCome, NEW c \in Conns, Apply(c), ~late'
  PROVE  ViewsCome'
<1>1. /\ connPC[c] = "apply" /\ connPC'[c] = "store" /\ owner = c /\ owner' = c
      /\ snap' = SnapshotAfter(doing[c]) /\ copy'[c] = snap' /\ doing' = doing
      /\ UNCHANGED <<machineVars, wire, viewVars, req>>
      /\ UNCHANGED <<held, owes, unlisted, live, router, index>>
  BY DEF Apply, IInv, TypeOK, machineVars, viewVars
<1>2. /\ \A k \in Consoles : req'[k].pc \in {"track", "upsert"} => req'[k].via # None
      /\ owner' = None => router' = {} /\ \A t \in Threads : index'[t] # "known"
  BY <1>1, LiveFacts DEF ViewsCome
<1>3. CASE c # live
  BY <1>1, <1>2, <1>3, OtherViews
<1>4. CASE c = live
  <2>1. ASSUME UpToDate(c) PROVE UpToDate(c)'
    <3>1. Renews(c) \/ (~Lists(doing[c]) /\ snap = Known(held))
      BY <1>1, <2>1 DEF UpToDate
    <3>2. Renews(c)' = Renews(c) /\ Lists(doing'[c]) = Lists(doing[c])
      BY <1>1 DEF Renews
    <3>3. snap' = Known(held)
      <4>1. CASE Renews(c)
        <5>1. SnapshotAfter(Snapshot(held)) = Known(held)
          BY DEF SnapshotAfter, Snapshot
        <5> QED
          BY <1>1, <4>1, <5>1 DEF Renews
      <4>2. CASE ~Lists(doing[c]) /\ snap = Known(held)
        <5>1. doing[c].kind \in {"started", "ended"} /\ doing[c].thread \in Threads
          BY <1>1, <4>2, FrameShape DEF IInv, Shapes, Lists
        <5> DEFINE t == doing[c].thread
        <5>2. snap' = [snap EXCEPT ![t] = IF @ = "absent" THEN @ ELSE "known"]
          BY <1>1, <5>1 DEF SnapshotAfter
        <5>3. held \in SUBSET Threads
          BY LiveFacts
        <5>4. /\ Known(held) \in [Threads -> Entry]
              /\ Known(held)[t] = "known" \/ Known(held)[t] = "absent"
          BY <5>1, <5>3, KnownHeld
        <5> QED
          BY <4>2, <5>1, <5>2, <5>4
      <4> QED
        BY <3>1, <4>1, <4>2
    <3>4. ~Renews(c) => router' = held
      BY <1>1, <2>1 DEF UpToDate
    <3>5. snap' = Known(held)' /\ copy'[c] = Known(held)'
      BY <1>1, <3>3
    <3>6. held' = held
      BY <1>1
    <3> QED
      BY <1>1, <3>1, <3>2, <3>4, <3>5, <3>6 DEF UpToDate
  <2> QED
    BY <1>1, <1>2, <1>4, <2>1, LiveFacts, LiveViews
<1> QED
  BY <1>3, <1>4

\* The copy goes to the index.
LEMMA StoreViews ==
  ASSUME IInv, ViewsCome, NEW c \in Conns, Store(c), ~late'
  PROVE  ViewsCome'
<1> DEFINE f == doing[c]
           next == IF f.kind = "snapshot" \/ (f.kind = "done" /\ f.cmd # "archive") THEN "route"
                   ELSE IF f.kind = "done" THEN "answer"
                   ELSE "reading"
<1>1. /\ connPC[c] = "store" /\ connPC'[c] = next /\ owner = c /\ owner' = c
      /\ index' = copy[c]
      /\ doing'[c] = IF next = "reading" THEN Register ELSE doing[c]
      /\ UNCHANGED <<machineVars, wire, snap, router, req>>
      /\ UNCHANGED <<held, owes, unlisted, live>>
  BY DEF Store, Returned, IInv, TypeOK, Shapes, machineVars
<1>2. /\ \A k \in Consoles : req'[k].pc \in {"track", "upsert"} => req'[k].via # None
      /\ owner' = None => router' = {} /\ \A t \in Threads : index'[t] # "known"
  BY <1>1, LiveFacts DEF ViewsCome
<1>3. CASE c # live
  BY <1>1, <1>2, <1>3, OtherViews
<1>4. CASE c = live
  <2>1. ASSUME UpToDate(c) PROVE UpToDate(c)'
    <3>1. /\ snap = Known(held) /\ copy[c] = Known(held) /\ (Renews(c) \/ ~Lists(f))
          /\ ~Renews(c) => router = held
      BY <1>1, <2>1 DEF UpToDate
    <3>2. snap' = Known(held)' /\ index' = Known(held)' /\ held' = held
      BY <1>1, <3>1
    <3>3. CASE Renews(c)
      <4>1. f.kind = "snapshot"
        BY <3>3 DEF Renews, Snapshot
      <4>2. connPC'[c] = "route" /\ doing'[c] = f
        BY <1>1, <4>1
      <4>3. Renews(c)'
        BY <1>1, <3>3, <4>2 DEF Renews
      <4> QED
        BY <3>2, <4>2, <4>3 DEF UpToDate
    <3>4. CASE ~Renews(c)
      <4>1. f.kind \in {"started", "ended"}
        BY <1>1, <3>1, <3>4 DEF IInv, Shapes, Lists
      <4>2. connPC'[c] = "reading"
        BY <1>1, <4>1
      <4>3. router' = held'
        BY <1>1, <3>1, <3>4
      <4> QED
        BY <3>2, <4>2, <4>3 DEF UpToDate
    <3> QED
      BY <3>3, <3>4
  <2> QED
    BY <1>1, <1>2, <1>4, <2>1, LiveFacts, LiveViews
<1> QED
  BY <1>3, <1>4

\* The routes are replaced or added to.
LEMMA RouteViews ==
  ASSUME IInv, ViewsCome, NEW c \in Conns, Route(c), ~late'
  PROVE  ViewsCome'
<1> DEFINE f == doing[c]
<1>1. /\ connPC[c] = "route" /\ owner = c /\ owner' = c
      /\ connPC'[c] = IF f.kind = "done" THEN "answer" ELSE "reading"
      /\ router' = RoutesAfter(f)
      /\ UNCHANGED <<machineVars, wire, snap, copy, index, req>>
      /\ UNCHANGED <<held, owes, unlisted, live>>
  BY DEF Route, IInv, TypeOK, machineVars
<1>2. /\ \A k \in Consoles : req'[k].pc \in {"track", "upsert"} => req'[k].via # None
      /\ owner' = None => router' = {} /\ \A t \in Threads : index'[t] # "known"
  BY <1>1, LiveFacts DEF ViewsCome
<1>3. CASE c # live
  BY <1>1, <1>2, <1>3, OtherViews
<1>4. CASE c = live
  <2>1. ASSUME UpToDate(c) PROVE UpToDate(c)'
    <3>1. snap = Known(held) /\ index = Known(held) /\ Renews(c)
      BY <1>1, <2>1 DEF UpToDate
    <3>2. connPC'[c] = "reading" /\ router' = held
      BY <1>1, <3>1 DEF Renews, RoutesAfter, Snapshot
    <3>3. snap' = Known(held)' /\ index' = Known(held)' /\ router' = held'
      BY <1>1, <3>1, <3>2
    <3> QED
      BY <3>2, <3>3 DEF UpToDate
  <2> QED
    BY <1>1, <1>2, <1>4, <2>1, LiveFacts, LiveViews
<1> QED
  BY <1>3, <1>4

\* A request is answered.
LEMMA AnswerViews ==
  ASSUME IInv, ViewsCome, NEW c \in Conns, Answer(c)
  PROVE  ViewsCome'
<1> DEFINE f == doing[c]
<1>1. /\ connPC[c] = "answer" /\ connPC' = [connPC EXCEPT ![c] = "reading"]
      /\ doing' = [doing EXCEPT ![c] = IF connPC'[c] = "reading" THEN Register ELSE @]
      /\ UNCHANGED <<machineVars, wire, owner, copy, snap, viewVars>>
      /\ UNCHANGED <<held, owes, unlisted, live, router, index>>
      /\ f \in Frames /\ f.kind \in {"done", "rejected"}
  BY DEF Answer, Returned, machineVars, viewVars, IInv, Shapes
<1>2. ASSUME NEW k \in Consoles, req'[k].pc \in {"track", "upsert"} PROVE req'[k].via # None
  <2>1. req[k] \in Requests /\ c # None
    BY LiveFacts DEF IInv, Shapes
  <2>2. \/ req'[k] = req[k]
        \/ req'[k] = Failed(req[k])
        \/ f.kind = "done" /\ req'[k] = Answered(req[k], f.thread, c)
    BY DEF Answer
  <2>3. CASE req'[k] = req[k]
    BY <1>2, <2>3 DEF ViewsCome
  <2>4. CASE req'[k] = Failed(req[k])
    BY <1>2, <2>1, <2>4, ViaShapes
  <2>5. CASE f.kind = "done" /\ req'[k] = Answered(req[k], f.thread, c)
    <3>1. f.thread \in Threads
      BY <1>1, <2>5, FrameShape
    <3> HIDE DEF f
    <3> QED
      BY <1>2, <2>1, <2>5, <3>1, ViaShapes
  <2> QED
    BY <2>2, <2>3, <2>4, <2>5
<1>3. owner' = None => router' = {} /\ \A t \in Threads : index'[t] # "known"
  BY <1>1 DEF ViewsCome
<1>4. CASE c # live \/ owner # c
  <2>1. ASSUME live # None, owner' = live
        PROVE  connPC'[live] = connPC[live] /\ doing'[live] = doing[live]
    BY <1>1, <1>4, <2>1, LiveFacts DEF IInv, Shapes, TypeOK
  <2>2. ASSUME live # None, owner' = live PROVE UpToDate(live)' = UpToDate(live)
    BY <1>1, <2>1, <2>2 DEF UpToDate, Renews
  <2>3. ASSUME live # None
        PROVE  /\ Registers(wire'[live]) \subseteq {1}
               /\ ~owes' /\ ~unlisted' =>
                    /\ EndsIn(wire'[live], held')
                    /\ Registers(wire'[live]) # {} => ListsIn(wire'[live]) # {}
                    /\ owner' = live /\ ListsIn(wire'[live]) = {} => UpToDate(live)'
    BY <1>1, <2>2, <2>3 DEF ViewsCome
  <2> QED
    BY <1>1, <1>2, <1>3, <2>3 DEF ViewsCome
<1>5. CASE c = live /\ owner = c
  <2>1. ASSUME UpToDate(c) PROVE UpToDate(c)'
    <3>1. snap = Known(held) /\ index = Known(held) /\ router = held
      BY <1>1, <2>1 DEF UpToDate
    <3>2. connPC'[c] = "reading"
      BY <1>1 DEF IInv, TypeOK
    <3>3. snap' = Known(held)' /\ index' = Known(held)' /\ router' = held'
      BY <1>1, <3>1
    <3> QED
      BY <3>2, <3>3 DEF UpToDate
  <2> QED
    BY <1>1, <1>2, <1>5, <2>1, LiveFacts, LiveViews
<1> QED
  BY <1>4, <1>5

\* The machine is forgotten with the connection that has it: nothing is known of its
\* threads any more and nothing leads to them.
LEMMA DisconnectViews ==
  ASSUME IInv, ViewsCome, NEW c \in Conns, Disconnect(c)
  PROVE  ViewsCome'
<1>1. /\ c # live /\ wire' = [wire EXCEPT ![c] = <<>>]
      /\ connPC' = [connPC EXCEPT ![c] = "gone"]
      /\ UNCHANGED <<machineVars, doing, copy>> /\ UNCHANGED <<held, owes, unlisted, live>>
  BY DEF Disconnect, machineVars
<1>2. ASSUME NEW k \in Consoles, req'[k].pc \in {"track", "upsert"} PROVE req'[k].via # None
  <2>1. req[k] \in Requests
    BY DEF IInv, Shapes
  <2>2. req'[k] = req[k] \/ req'[k] = Failed(req[k])
    BY DEF Disconnect
  <2> QED
    BY <1>2, <2>1, <2>2, ViaShapes DEF ViewsCome
<1>3. owner' = None => router' = {} /\ \A t \in Threads : index'[t] # "known"
  <2>1. CASE owner = c
    <3>1. router' = {} /\ index' \in {Mark(snap), Mark(index)}
      BY <2>1 DEF Disconnect, ForgetMachine
    <3>2. \A t \in Threads : Mark(snap)[t] # "known" /\ Mark(index)[t] # "known"
      BY DEF Mark
    <3> QED
      BY <3>1, <3>2
  <2>2. CASE owner # c
    BY <2>2 DEF Disconnect, ViewsCome
  <2> QED
    BY <2>1, <2>2
<1>4. live # None =>
         /\ wire'[live] = wire[live]
         /\ connPC'[live] = connPC[live] /\ doing'[live] = doing[live]
         /\ copy'[live] = copy[live]
  BY <1>1, LiveFacts DEF IInv, Shapes, TypeOK
<1>5. live # None /\ owner' = live => owner = live /\ UNCHANGED <<snap, index, router>>
  BY DEF Disconnect
<1> QED
  BY <1>1, <1>2, <1>3, <1>4, <1>5, OtherViews

-----------------------------------------------------------------------------
(* Views: the theorem.                                                     *)

\* What was written late stays so.
LEMMA LateStays ==
  ASSUME IInv, [Next]_vars, ~late'
  PROVE  ~late
<1>1. CASE Machine
  BY <1>1 DEF Machine, Break, SendSnapshot, TurnEnds, HandleCommand, FinishStray
<1>2. ASSUME NEW c \in Conns, Goroutine(c) PROVE ~late
  BY <1>2 DEF Goroutine, Connect, ReadFrame, Apply, Store, Route, Answer, Disconnect
<1>3. ASSUME NEW k \in Consoles, Handler(k) PROVE ~late
  <2>1. CASE Ask(k) \/ TryAgain(k)
    BY <2>1 DEF Ask, TryAgain, PostThread, GetThread, PostResumeOrArchive, DeleteThread,
       PostTurn, PostInterrupt, Rename, Request
  <2>2. CASE \/ RenameStore(k) \/ Expire(k) \/ Finish(k) \/ Track(k) \/ Upsert(k)
             \/ Clear(k) \/ MarkDeleted(k) \/ Remove(k)
    BY <2>2 DEF RenameStore, Expire, Finish, Track, Upsert, Clear, MarkDeleted, Remove
  <2> QED
    BY <1>3, <2>1, <2>2 DEF Handler
<1>4. CASE UNCHANGED vars
  BY <1>4 DEF vars
<1> QED
  BY <1>1, <1>2, <1>3, <1>4 DEF Next

\* It holds at first.
LEMMA InitViews == Init => ViewInv
<1> SUFFICES ASSUME Init PROVE ViewsCome
  BY DEF ViewInv
<1>1. \A k \in Consoles : req[k].pc = "idle"
  BY NoRequestShape DEF Init
<1>2. live = None /\ router = {} /\ \A t \in Threads : index[t] # "known"
  BY DEF Init, Nothing, Known
<1> QED
  BY <1>1, <1>2 DEF ViewsCome

\* Every step preserves it.
LEMMA ViewStep == IInv /\ ViewInv /\ [Next]_vars => ViewInv'
<1> SUFFICES ASSUME IInv, ViewInv, [Next]_vars, ~late' PROVE ViewsCome'
  BY DEF ViewInv
<1>1. ViewsCome
  BY LateStays DEF ViewInv
<1>2. CASE Machine
  BY <1>1, <1>2, MachineViews
<1>3. ASSUME NEW c \in Conns, Goroutine(c) PROVE ViewsCome'
  BY <1>1, <1>3, ConnectViews, ReadFrameViews, ApplyViews, StoreViews, RouteViews,
     AnswerViews, DisconnectViews DEF Goroutine
<1>4. ASSUME NEW k \in Consoles, Handler(k) PROVE ViewsCome'
  BY <1>1, <1>4, HandlersViews
<1>5. CASE UNCHANGED vars
  <2>1. \A k \in Consoles : req'[k].pc \in {"track", "upsert"} => req'[k].via # None
    BY <1>1, <1>5 DEF ViewsCome, vars
  <2> QED
    BY <1>1, <1>5, <2>1, TablesStay DEF vars, viewVars
<1> QED
  BY <1>2, <1>3, <1>4, <1>5 DEF Next

\* Once every frame is handled and every request answered, and unless something was
\* written late, the index and the router list exactly the machine's threads while it
\* is connected (and no command of a lost connection has changed them since the last
\* snapshot), and know of none while it is not (replaceMachineSnapshot,
\* upsertThreadSnapshot, removeThreadSnapshot, cleanupMachineLocked, TrackThread,
\* UpsertThread, RemoveThread).
THEOREM ViewsFollow == Spec => []ViewsFollowMachine
<1>1. ASSUME IInv, ViewInv PROVE ViewsFollowMachine
  <2> SUFFICES ASSUME Settled, ViewsCome
               PROVE  /\ owner = None => router = {} /\ \A t \in Threads : index[t] # "known"
                      /\ Recovered /\ ~unlisted => router = held /\ index = Known(held)
    BY <1>1 DEF ViewsFollowMachine, ViewInv
  <2>1. ASSUME Recovered, ~unlisted PROVE router = held /\ index = Known(held)
    <3>1. live \in Conns /\ live # None /\ owner = live /\ ~owes
          /\ wire[live] = <<>> /\ connPC[live] \in {"new", "reading", "gone"}
      BY <1>1, <2>1, LiveFacts DEF Recovered, Settled
    <3>2. ListsIn(wire[live]) = {}
      BY <3>1 DEF ListsIn
    <3>3. UpToDate(live)
      BY <2>1, <3>1, <3>2 DEF ViewsCome
    <3> QED
      BY <3>1, <3>3 DEF UpToDate
  <2> QED
    BY <2>1 DEF ViewsCome
<1> QED
  BY <1>1, InitViews, ViewStep, Invariance, PTL DEF Spec
=============================================================================
