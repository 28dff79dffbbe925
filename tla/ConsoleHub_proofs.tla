-------------------------- MODULE ConsoleHub_proofs --------------------------
(***************************************************************************)
(* TLAPS proofs about ConsoleHub, for every number of consoles, sources,   *)
(* threads and events and every capacity.  The inductive invariant is      *)
(* IInv: one lemma per conjunct, with one step per action.                 *)
(***************************************************************************)
EXTENDS ConsoleHub, SequenceTheorems, TLAPS

\* One event more in a queue, one event less.
LEMMA Appended ==
    \A q \in Seq(Event), e \in Event : \E n \in Nat :
       /\ Append(q, e) \in Seq(Event)
       /\ DOMAIN q = 1..n /\ DOMAIN Append(q, e) = 1..(n + 1) /\ Append(q, e)[n + 1] = e
       /\ \A i \in 1..n : i \in 1..(n + 1) /\ Append(q, e)[i] = q[i]
       /\ \A i \in 1..(n + 1) : i \in 1..n \/ i = n + 1
<1> SUFFICES ASSUME NEW q \in Seq(Event), NEW e \in Event
             PROVE  \E n \in Nat :
                /\ Append(q, e) \in Seq(Event)
                /\ DOMAIN q = 1..n /\ DOMAIN Append(q, e) = 1..(n + 1) /\ Append(q, e)[n + 1] = e
                /\ \A i \in 1..n : i \in 1..(n + 1) /\ Append(q, e)[i] = q[i]
                /\ \A i \in 1..(n + 1) : i \in 1..n \/ i = n + 1
  OBVIOUS
<1>1. PICK n \in Nat : n = Len(q)
  OBVIOUS
<1>2. /\ DOMAIN q = 1..n /\ DOMAIN Append(q, e) = 1..(n + 1) /\ Append(q, e)[n + 1] = e
      /\ \A i \in 1..n : Append(q, e)[i] = q[i]
  BY <1>1
<1>3. 1..n \subseteq 1..(n + 1) /\ \A i \in 1..(n + 1) : i \in 1..n \/ i = n + 1
  OBVIOUS
<1>4. Append(q, e) \in Seq(Event)
  OBVIOUS
<1> QED  BY <1>2, <1>3, <1>4

LEMMA Beheaded ==
    \A q \in Seq(Event) : q # <<>> =>
       \E n \in Nat :
          /\ Head(q) = q[1] /\ DOMAIN q = 1..(n + 1) /\ DOMAIN Tail(q) = 1..n
          /\ \A i \in 1..n : i + 1 \in 1..(n + 1) /\ Tail(q)[i] = q[i + 1]
<1> SUFFICES ASSUME NEW q \in Seq(Event), q # <<>>
             PROVE  \E n \in Nat :
                       /\ Head(q) = q[1] /\ DOMAIN q = 1..(n + 1) /\ DOMAIN Tail(q) = 1..n
                       /\ \A i \in 1..n : i + 1 \in 1..(n + 1) /\ Tail(q)[i] = q[i + 1]
  OBVIOUS
<1>1. /\ Head(q) = q[1] /\ Tail(q) \in Seq(Event) /\ Len(q) \in Nat /\ Len(q) # 0
      /\ Len(Tail(q)) = Len(q) - 1 /\ \A i \in 1..Len(Tail(q)) : Tail(q)[i] = q[i + 1]
  BY HeadTailProperties
<1>2. PICK n \in Nat : n + 1 = Len(q)
  <2>1. Len(q) - 1 \in Nat /\ (Len(q) - 1) + 1 = Len(q)
    BY <1>1
  <2> QED  BY <2>1
<1>3. Len(Tail(q)) = n /\ Len(q) = n + 1
  <2>1. (n + 1) - 1 = n
    OBVIOUS
  <2> QED  BY <1>1, <1>2, <2>1, Zenon
<1>4. DOMAIN q = 1..(n + 1) /\ DOMAIN Tail(q) = 1..n
  BY <1>1, <1>3
<1>5. \A i \in 1..n : i + 1 \in 1..(n + 1)
  OBVIOUS
<1> QED  BY <1>1, <1>3, <1>4, <1>5

\* A step of removeClient, by whichever goroutine, keeps the types of what it changes.
LEMMA RemoveTypes ==
  ASSUME TypeOK, NEW c \in Consoles, NEW pc, NEW next, NEW end, RemoveStep(c, pc, next, end)
  PROVE  /\ clients' \subseteq Consoles /\ closes' \in [Consoles -> 0..1]
         /\ socket' \in [Consoles -> {"none", "open", "closing", "closed"}]
<1>1. CASE Delete(c, pc)
  BY <1>1 DEF TypeOK, Delete
<1>2. CASE CloseDone(c, pc)
  <2>1. closes' \in [Consoles -> 0..1]
    <3>1. 1 \in 0..1
      OBVIOUS
    <3> QED
      BY <1>2, <3>1 DEF TypeOK, CloseDone
  <2>2. socket' \in [Consoles -> {"none", "open", "closing", "closed"}]
    BY <1>2 DEF TypeOK, CloseDone
  <2> QED
    BY <1>2, <2>1, <2>2 DEF TypeOK, CloseDone
<1>3. CASE CloseConn(c, pc)
  BY <1>3 DEF TypeOK, CloseConn
<1>4. CASE OnceDone(c, pc)
  BY <1>4 DEF TypeOK, OnceDone, removeVars
<1> QED
  BY <1>1, <1>2, <1>3, <1>4 DEF RemoveStep

\* Every step preserves the type invariant.
LEMMA TypeStep == IInv /\ [Next]_vars => TypeOK'
<1> SUFFICES ASSUME IInv, [Next]_vars PROVE TypeOK'
  OBVIOUS
<1> USE ConsoleAssumption DEF Removing
<1>1. ASSUME NEW c \in Consoles, NEW t \in Threads \cup {None}, Connect(c, t) PROVE TypeOK'
  BY <1>1 DEF IInv, TypeOK, ConsoleState, Connect, queueVars, removeVars, sourceVars
<1>2. ASSUME NEW c \in Consoles, Hangup(c) PROVE TypeOK'
  BY <1>2 DEF IInv, TypeOK, ConsoleState, Hangup, queueVars, removeVars, sourceVars
<1>3. ASSUME NEW c \in Consoles, ReadFails(c) PROVE TypeOK'
  BY <1>3 DEF IInv, TypeOK, ConsoleState, ReadFails, queueVars, removeVars, sourceVars
<1>4. ASSUME NEW c \in Consoles, HandlerRemoves(c) PROVE TypeOK'
  <2> PICK next \in {"once", "close", "stopped"} :
            /\ RemoveStep(c, handler[c], next, "stopped")
            /\ handler' = [handler EXCEPT ![c] = next]
    BY <1>4 DEF HandlerRemoves
  <2>1. UNCHANGED <<filter, queueVars, writer, sourceVars>>
    BY <1>4 DEF HandlerRemoves
  <2>2. handler' \in [Consoles -> {"none", "reading", "stopped"} \cup Removing]
    BY DEF IInv, TypeOK
  <2>3. /\ clients' \subseteq Consoles /\ closes' \in [Consoles -> 0..1]
        /\ socket' \in [Consoles -> {"none", "open", "closing", "closed"}]
    BY RemoveTypes DEF IInv
  <2> QED
    BY <2>1, <2>2, <2>3 DEF IInv, TypeOK, queueVars, sourceVars
<1>5. ASSUME NEW c \in Consoles, WriterStops(c) PROVE TypeOK'
  BY <1>5 DEF IInv, TypeOK, ConsoleState, WriterStops, queueVars, removeVars, sourceVars
<1>6. ASSUME NEW c \in Consoles, WriterTakes(c) PROVE TypeOK'
  BY <1>6 DEF IInv, TypeOK, ConsoleState, WriterTakes, queueVars, removeVars, sourceVars
<1>7. ASSUME NEW c \in Consoles, WriteFails(c) PROVE TypeOK'
  BY <1>7 DEF IInv, TypeOK, ConsoleState, WriteFails, queueVars, removeVars, sourceVars
<1>8. ASSUME NEW c \in Consoles, WriterRemoves(c) PROVE TypeOK'
  <2> PICK next \in {"once", "close", "stopped"} :
            /\ RemoveStep(c, writer[c], next, "stopped")
            /\ writer' = [writer EXCEPT ![c] = next]
    BY <1>8 DEF WriterRemoves
  <2>1. UNCHANGED <<filter, queueVars, handler, sourceVars>>
    BY <1>8 DEF WriterRemoves
  <2>2. writer' \in [Consoles -> {"none", "select", "writing", "stopped"} \cup Removing]
    BY DEF IInv, TypeOK
  <2>3. /\ clients' \subseteq Consoles /\ closes' \in [Consoles -> 0..1]
        /\ socket' \in [Consoles -> {"none", "open", "closing", "closed"}]
    BY RemoveTypes DEF IInv
  <2> QED
    BY <2>1, <2>2, <2>3 DEF IInv, TypeOK, queueVars, sourceVars
<1>9. ASSUME NEW c \in Consoles, WriteSucceeds(c) PROVE TypeOK'
  BY <1>9 DEF IInv, TypeOK, ConsoleState, WriteSucceeds, queueVars, removeVars,
     sourceVars
<1>10. ASSUME NEW s \in Sources, NEW t \in Threads \cup {None}, Broadcast(s, t) PROVE TypeOK'
  BY <1>10 DEF IInv, TypeOK, ConsoleState, Broadcast, queueVars, removeVars, sourceVars
<1>11. ASSUME NEW s \in Sources, NEW c \in Consoles, Enqueue(s, c) PROVE TypeOK'
  BY <1>11 DEF IInv, TypeOK, ConsoleState, Enqueue, queueVars, removeVars, sourceVars,
     Event
<1>12. ASSUME NEW s \in Sources, NEW c \in Consoles, QueueFull(s, c) PROVE TypeOK'
  BY <1>12 DEF IInv, TypeOK, ConsoleState, QueueFull, queueVars, removeVars, sourceVars
<1>13. ASSUME NEW s \in Sources, EndBroadcast(s) PROVE TypeOK'
  BY <1>13 DEF IInv, TypeOK, ConsoleState, EndBroadcast, queueVars, removeVars,
     sourceVars
<1>14. ASSUME NEW s \in Sources, SourceRemoves(s) PROVE TypeOK'
  <2> PICK next \in {"once", "close", "sending"} :
            /\ RemoveStep(victim[s], source[s], next, "sending")
            /\ source' = [source EXCEPT ![s] = next]
    BY <1>14 DEF SourceRemoves
  <2>1. UNCHANGED <<filter, queueVars, handler, writer, sent, targets, overflowed>>
    BY <1>14 DEF SourceRemoves
  <2>2. source' \in [Sources -> {"idle", "sending"} \cup Removing]
    BY DEF IInv, TypeOK
  <2>3. victim' \in [Sources -> Consoles \cup {None}] /\ victim[s] \in Consoles
    BY <1>14 DEF IInv, TypeOK, SourceRemoves
  <2>4. /\ clients' \subseteq Consoles /\ closes' \in [Consoles -> 0..1]
        /\ socket' \in [Consoles -> {"none", "open", "closing", "closed"}]
    BY <2>3, RemoveTypes DEF IInv
  <2> QED
    BY <2>1, <2>2, <2>3, <2>4 DEF IInv, TypeOK, queueVars, sourceVars
<1>15. CASE UNCHANGED vars
  BY <1>15 DEF IInv, TypeOK, ConsoleState, vars, queueVars, removeVars, sourceVars
<1> QED
  BY <1>1, <1>2, <1>3, <1>4, <1>5, <1>6, <1>7, <1>8, <1>9, <1>10, <1>11, <1>12, <1>13,
     <1>14, <1>15 DEF Next, HandlerStep, WriterStep, SourceStep

\* Every step keeps a console that has not connected out of everybody's hands.
LEMMA ConsoleStateStep == IInv /\ [Next]_vars => ConsoleState'
<1> SUFFICES ASSUME IInv, [Next]_vars PROVE ConsoleState'
  OBVIOUS
<1> USE ConsoleAssumption DEF Removing
<1>1. ASSUME NEW c \in Consoles, NEW t \in Threads \cup {None}, Connect(c, t) PROVE ConsoleState'
  BY <1>1 DEF IInv, TypeOK, ConsoleState, Unconnected, Connect, queueVars, removeVars,
     sourceVars
<1>2. ASSUME NEW c \in Consoles, Hangup(c) PROVE ConsoleState'
  BY <1>2 DEF IInv, TypeOK, ConsoleState, Unconnected, Hangup, queueVars, removeVars,
     sourceVars
<1>3. ASSUME NEW c \in Consoles, ReadFails(c) PROVE ConsoleState'
  BY <1>3 DEF IInv, TypeOK, ConsoleState, Unconnected, ReadFails, queueVars,
     removeVars, sourceVars
<1>4. ASSUME NEW c \in Consoles, HandlerRemoves(c) PROVE ConsoleState'
  BY <1>4 DEF IInv, TypeOK, ConsoleState, Unconnected, HandlerRemoves, RemoveStep,
     Delete, CloseDone, CloseConn, OnceDone, queueVars, removeVars, sourceVars
<1>5. ASSUME NEW c \in Consoles, WriterStops(c) PROVE ConsoleState'
  BY <1>5 DEF IInv, TypeOK, ConsoleState, Unconnected, WriterStops, queueVars,
     removeVars, sourceVars
<1>6. ASSUME NEW c \in Consoles, WriterTakes(c) PROVE ConsoleState'
  BY <1>6 DEF IInv, TypeOK, ConsoleState, Unconnected, WriterTakes, queueVars,
     removeVars, sourceVars
<1>7. ASSUME NEW c \in Consoles, WriteFails(c) PROVE ConsoleState'
  BY <1>7 DEF IInv, TypeOK, ConsoleState, Unconnected, WriteFails, queueVars,
     removeVars, sourceVars
<1>8. ASSUME NEW c \in Consoles, WriterRemoves(c) PROVE ConsoleState'
  BY <1>8 DEF IInv, TypeOK, ConsoleState, Unconnected, WriterRemoves, RemoveStep,
     Delete, CloseDone, CloseConn, OnceDone, queueVars, removeVars, sourceVars
<1>9. ASSUME NEW c \in Consoles, WriteSucceeds(c) PROVE ConsoleState'
  BY <1>9 DEF IInv, TypeOK, ConsoleState, Unconnected, WriteSucceeds, queueVars,
     removeVars, sourceVars
<1>10. ASSUME NEW s \in Sources, NEW t \in Threads \cup {None}, Broadcast(s, t) PROVE ConsoleState'
  BY <1>10 DEF IInv, TypeOK, ConsoleState, Unconnected, Broadcast, queueVars,
     removeVars, sourceVars
<1>11. ASSUME NEW s \in Sources, NEW c \in Consoles, Enqueue(s, c) PROVE ConsoleState'
  BY <1>11 DEF IInv, TypeOK, ConsoleState, Unconnected, Enqueue, queueVars, removeVars,
     sourceVars, Event
<1>12. ASSUME NEW s \in Sources, NEW c \in Consoles, QueueFull(s, c) PROVE ConsoleState'
  BY <1>12 DEF IInv, TypeOK, ConsoleState, Unconnected, QueueFull, queueVars,
     removeVars, sourceVars
<1>13. ASSUME NEW s \in Sources, EndBroadcast(s) PROVE ConsoleState'
  BY <1>13 DEF IInv, TypeOK, ConsoleState, Unconnected, EndBroadcast, queueVars,
     removeVars, sourceVars
<1>14. ASSUME NEW s \in Sources, SourceRemoves(s) PROVE ConsoleState'
  BY <1>14 DEF IInv, TypeOK, ConsoleState, Unconnected, SourceRemoves, RemoveStep,
     Delete, CloseDone, CloseConn, OnceDone, queueVars, removeVars, sourceVars
<1>15. CASE UNCHANGED vars
  BY <1>15 DEF IInv, TypeOK, ConsoleState, Unconnected, vars, queueVars, removeVars,
     sourceVars
<1> QED
  BY <1>1, <1>2, <1>3, <1>4, <1>5, <1>6, <1>7, <1>8, <1>9, <1>10, <1>11, <1>12, <1>13,
     <1>14, <1>15 DEF Next, HandlerStep, WriterStep, SourceStep

\* No step brings back a console that has been removed.
LEMMA RemovedStep == IInv /\ [Next]_vars => RemovedForGood'
<1> SUFFICES ASSUME IInv, [Next]_vars PROVE RemovedForGood'
  OBVIOUS
<1> USE ConsoleAssumption DEF Removing
<1>1. ASSUME NEW c \in Consoles, NEW t \in Threads \cup {None}, Connect(c, t) PROVE RemovedForGood'
  BY <1>1 DEF IInv, TypeOK, ConsoleState, Unconnected, RemovedForGood, Removed,
     Connect, queueVars, removeVars, sourceVars
<1>2. ASSUME NEW c \in Consoles, Hangup(c) PROVE RemovedForGood'
  BY <1>2 DEF IInv, TypeOK, ConsoleState, Unconnected, RemovedForGood, Removed, Hangup,
     queueVars, removeVars, sourceVars
<1>3. ASSUME NEW c \in Consoles, ReadFails(c) PROVE RemovedForGood'
  BY <1>3 DEF IInv, TypeOK, ConsoleState, Unconnected, RemovedForGood, Removed,
     ReadFails, queueVars, removeVars, sourceVars
<1>4. ASSUME NEW c \in Consoles, HandlerRemoves(c) PROVE RemovedForGood'
  BY <1>4 DEF IInv, TypeOK, ConsoleState, Unconnected, RemovedForGood, Removed,
     HandlerRemoves, RemoveStep, Delete, CloseDone, CloseConn, OnceDone, queueVars,
     removeVars, sourceVars
<1>5. ASSUME NEW c \in Consoles, WriterStops(c) PROVE RemovedForGood'
  BY <1>5 DEF IInv, TypeOK, ConsoleState, Unconnected, RemovedForGood, Removed,
     WriterStops, queueVars, removeVars, sourceVars
<1>6. ASSUME NEW c \in Consoles, WriterTakes(c) PROVE RemovedForGood'
  BY <1>6 DEF IInv, TypeOK, ConsoleState, Unconnected, RemovedForGood, Removed,
     WriterTakes, queueVars, removeVars, sourceVars
<1>7. ASSUME NEW c \in Consoles, WriteFails(c) PROVE RemovedForGood'
  BY <1>7 DEF IInv, TypeOK, ConsoleState, Unconnected, RemovedForGood, Removed,
     WriteFails, queueVars, removeVars, sourceVars
<1>8. ASSUME NEW c \in Consoles, WriterRemoves(c) PROVE RemovedForGood'
  BY <1>8 DEF IInv, TypeOK, ConsoleState, Unconnected, RemovedForGood, Removed,
     WriterRemoves, RemoveStep, Delete, CloseDone, CloseConn, OnceDone, queueVars,
     removeVars, sourceVars
<1>9. ASSUME NEW c \in Consoles, WriteSucceeds(c) PROVE RemovedForGood'
  BY <1>9 DEF IInv, TypeOK, ConsoleState, Unconnected, RemovedForGood, Removed,
     WriteSucceeds, queueVars, removeVars, sourceVars
<1>10. ASSUME NEW s \in Sources, NEW t \in Threads \cup {None}, Broadcast(s, t) PROVE RemovedForGood'
  BY <1>10 DEF IInv, TypeOK, ConsoleState, Unconnected, RemovedForGood, Removed,
     Broadcast, queueVars, removeVars, sourceVars
<1>11. ASSUME NEW s \in Sources, NEW c \in Consoles, Enqueue(s, c) PROVE RemovedForGood'
  BY <1>11 DEF IInv, TypeOK, ConsoleState, Unconnected, RemovedForGood, Removed,
     Enqueue, queueVars, removeVars, sourceVars, Event
<1>12. ASSUME NEW s \in Sources, NEW c \in Consoles, QueueFull(s, c) PROVE RemovedForGood'
  BY <1>12 DEF IInv, TypeOK, ConsoleState, Unconnected, RemovedForGood, Removed,
     QueueFull, queueVars, removeVars, sourceVars
<1>13. ASSUME NEW s \in Sources, EndBroadcast(s) PROVE RemovedForGood'
  BY <1>13 DEF IInv, TypeOK, ConsoleState, Unconnected, RemovedForGood, Removed,
     EndBroadcast, queueVars, removeVars, sourceVars
<1>14. ASSUME NEW s \in Sources, SourceRemoves(s) PROVE RemovedForGood'
  BY <1>14 DEF IInv, TypeOK, ConsoleState, Unconnected, RemovedForGood, Removed,
     SourceRemoves, RemoveStep, Delete, CloseDone, CloseConn, OnceDone, queueVars,
     removeVars, sourceVars
<1>15. CASE UNCHANGED vars
  BY <1>15 DEF IInv, TypeOK, ConsoleState, Unconnected, RemovedForGood, Removed, vars,
     queueVars, removeVars, sourceVars
<1> QED
  BY <1>1, <1>2, <1>3, <1>4, <1>5, <1>6, <1>7, <1>8, <1>9, <1>10, <1>11, <1>12, <1>13,
     <1>14, <1>15 DEF Next, HandlerStep, WriterStep, SourceStep

\* A source between broadcasts holds nobody, and hands on an event it has.
LEMMA SourceStateStep == IInv /\ [Next]_vars => SourceState'
<1> SUFFICES ASSUME IInv, [Next]_vars PROVE SourceState'
  OBVIOUS
<1> USE ConsoleAssumption DEF Removing
<1>1. ASSUME UNCHANGED sourceVars PROVE SourceState'
  BY <1>1 DEF IInv, SourceState, sourceVars
<1>2. ASSUME NEW s \in Sources, NEW t \in Threads \cup {None}, Broadcast(s, t) PROVE SourceState'
  <2>1. /\ victim[s] = None /\ targets[s] = {} /\ sent[s] \in Seq(Threads \cup {None})
        /\ sent'[s] = Append(sent[s], t) /\ targets'[s] \subseteq Consoles
        /\ source' = [source EXCEPT ![s] = "sending"] /\ victim' = victim
        /\ \A r \in Sources \ {s} : sent'[r] = sent[r] /\ targets'[r] = targets[r]
    BY <1>2 DEF IInv, TypeOK, SourceState, Broadcast
  <2>2. sent'[s] # <<>>
    BY <2>1, AppendProperties
  <2> QED
    BY <2>1, <2>2 DEF IInv, TypeOK, SourceState
<1>3. ASSUME NEW s \in Sources, NEW c \in Consoles, Enqueue(s, c) PROVE SourceState'
  BY <1>3 DEF IInv, TypeOK, SourceState, Enqueue
<1>4. ASSUME NEW s \in Sources, NEW c \in Consoles, QueueFull(s, c) PROVE SourceState'
  BY <1>4 DEF IInv, TypeOK, SourceState, QueueFull
<1>5. ASSUME NEW s \in Sources, EndBroadcast(s) PROVE SourceState'
  BY <1>5 DEF IInv, TypeOK, SourceState, EndBroadcast
<1>6. ASSUME NEW s \in Sources, SourceRemoves(s) PROVE SourceState'
  BY <1>6 DEF IInv, TypeOK, SourceState, SourceRemoves
<1> QED
  BY <1>1, <1>2, <1>3, <1>4, <1>5, <1>6 DEF Next, HandlerStep, WriterStep, SourceStep,
     Connect, Hangup, ReadFails, HandlerRemoves, WriterStops, WriterTakes, WriteFails,
     WriterRemoves, WriteSucceeds, vars

\* What a console holds are events.
LEMMA HeldAreEvents ==
  ASSUME IInv, NEW c \in Consoles
  PROVE  /\ \A e \in Held(c) : e \in Event /\ e.source \in Sources /\ e.number \in Nat
         /\ Carried(c) \subseteq Held(c) /\ Coming(c) \subseteq Held(c)
         /\ \A i \in DOMAIN received[c] : received[c][i] \in Carried(c)
<1>1. received[c] \in Seq(Event) /\ outbound[c] \in Seq(Event)
  BY DEF IInv, TypeOK
<1>2. \A e \in Carried(c) : e \in Event
  BY <1>1 DEF Carried
<1>3. \A e \in Coming(c) : e \in Event
  BY <1>1 DEF Coming, IInv, ConsoleState
<1> QED
  BY <1>2, <1>3 DEF Held, Event, Carried

\* A step that touches no queue, and starts no writeLoop, keeps the order.
LEMMA OrderKept ==
  ASSUME IInv, UNCHANGED queueVars,
         \A c \in Consoles : writer'[c] = writer[c]
             \/ (writer[c] \notin {"select", "writing"} /\ writer'[c] \notin {"select", "writing"})
  PROVE  /\ InOrder'
         /\ \A c \in Consoles : /\ Carried(c)' = Carried(c)
                                /\ Coming(c)' = Coming(c)
                                /\ Held(c)' = Held(c)
<1>1. ASSUME NEW c \in Consoles
      PROVE  /\ Carried(c)' = Carried(c)
             /\ Coming(c)' = Coming(c)
             /\ Held(c)' = Held(c)
  BY DEF Carried, Coming, Held, queueVars
<1>2. InOrder'
  BY <1>1 DEF IInv, InOrder, queueVars
<1> QED
  BY <1>1, <1>2

\* Nor does it open a gap, if it also adds nobody to the set or to a broadcast.
LEMMA CompleteKept ==
  ASSUME IInv, UNCHANGED <<filter, sent>>,
         \A c \in Consoles : /\ Held(c)' = Held(c)
                             /\ writer'[c] \in {"select", "writing"} => writer[c] \in {"select", "writing"},
         \A c \in Consoles, s \in Sources :
            /\ c \in targets'[s] => c \in targets[s]
            /\ c \in clients' \ (targets'[s] \cup {victim'[s]}) =>
                  c \in clients \ (targets[s] \cup {victim[s]})
  PROVE  Complete'
<1>1. \A c \in Consoles : \A t : Delivers(c, t)' = Delivers(c, t)
  BY DEF Delivers
<1>2. \A c \in Consoles, s \in Sources : \A n : Whole(c, s, n) => Whole(c, s, n)'
  BY <1>1 DEF Whole
<1> QED
  BY <1>1, <1>2 DEF IInv, Complete

\* When writeLoop ends, what the socket has carried has no gap: what it drops comes after.
LEMMA WriterEnds ==
  ASSUME IInv, NEW c \in Consoles,
         UNCHANGED <<filter, sent, targets, clients, victim, received, outbound>>,
         inFlight' = [inFlight EXCEPT ![c] = inFlight'[c]],
         writer' = [writer EXCEPT ![c] = writer'[c]],
         writer'[c] \notin {"select", "writing"}
  PROVE  InOrder' /\ Complete'
<1>1. /\ \A d \in Consoles : Carried(d)' = Carried(d)
      /\ Coming(c)' = {} /\ Held(c)' = Carried(c)
      /\ \A d \in Consoles \ {c} : /\ Coming(d)' = Coming(d)
                                   /\ Held(d)' = Held(d)
                                   /\ writer'[d] = writer[d] /\ inFlight'[d] = inFlight[d]
  <2>1. \A d \in Consoles \ {c} : writer'[d] = writer[d] /\ inFlight'[d] = inFlight[d]
    BY DEF IInv, TypeOK
  <2>2. \A d \in Consoles : Carried(d)' = Carried(d)
    BY DEF Carried
  <2>3. Coming(c)' = {}
    BY DEF Coming
  <2>4. \A d \in Consoles \ {c} : Coming(d)' = Coming(d)
    BY <2>1 DEF Coming
  <2> QED
    BY <2>1, <2>2, <2>3, <2>4 DEF Held
<1>2. InOrder'
  BY <1>1 DEF IInv, InOrder
<1>3. \A d \in Consoles : \A t : Delivers(d, t)' = Delivers(d, t)
  BY DEF Delivers
<1>4. ASSUME NEW s \in Sources, NEW e \in Carried(c), e.source = s
      PROVE  Whole(c, s, e.number)'
  <2>1. Whole(c, s, e.number) /\ e.number \in Nat
    BY <1>4, HeldAreEvents DEF IInv, Complete
  <2> SUFFICES ASSUME NEW f \in Carried(c), f.source = s, NEW m \in f.number + 1..e.number,
                      Delivers(c, sent[s][m])
               PROVE  [source |-> s, number |-> m] \in Carried(c)
    BY <1>1, <1>3 DEF Whole
  <2>2. [source |-> s, number |-> m] \in Held(c) /\ f.number \in Nat
    BY <2>1, HeldAreEvents DEF Whole
  <2>3. CASE [source |-> s, number |-> m] \in Coming(c)
    <3>1. Before(e, [source |-> s, number |-> m])
      BY <2>3 DEF IInv, InOrder
    <3>2. e.number < m
      BY <1>4, <3>1 DEF Before
    <3> QED
      BY <2>1, <2>2, <3>2
  <2> QED
    BY <2>2, <2>3 DEF Held
<1>5. ASSUME NEW d \in Consoles \ {c}, NEW s \in Sources, NEW n
      PROVE  Whole(d, s, n) => Whole(d, s, n)'
  BY <1>1, <1>3 DEF Whole
<1>6. Complete'
  <2>1. ASSUME NEW s \in Sources, NEW e \in Held(c)', e.source = s
        PROVE  /\ e.number \in 1..Len(sent'[s]) /\ Delivers(c, sent[s][e.number])'
               /\ Whole(c, s, e.number)'
               /\ c \in targets'[s] => e.number < Len(sent'[s])
    BY <1>1, <1>3, <1>4, <2>1, HeldAreEvents DEF IInv, Complete
  <2> QED
    BY <1>1, <1>3, <1>5, <2>1 DEF IInv, Complete
<1> QED
  BY <1>2, <1>6

LEMMA ConnectKeeps ==
  ASSUME IInv, NEW c \in Consoles, NEW t \in Threads \cup {None}, Connect(c, t)
  PROVE  InOrder' /\ Complete'
<1>1. /\ received[c] = <<>> /\ outbound[c] = <<>> /\ writer[c] = "none" /\ writer'[c] = "select"
      /\ \A s \in Sources : c \notin targets[s]
      /\ UNCHANGED <<received, outbound, inFlight, sent, targets, victim>>
      /\ clients' = clients \cup {c}
      /\ \A d \in Consoles \ {c} : writer'[d] = writer[d] /\ filter'[d] = filter[d]
  BY DEF IInv, TypeOK, ConsoleState, Unconnected, Connect, queueVars, sourceVars
<1>2. /\ Carried(c)' = {} /\ Coming(c)' = {} /\ Held(c)' = {}
      /\ \A d \in Consoles \ {c} : /\ Carried(d)' = Carried(d)
                                   /\ Coming(d)' = Coming(d)
                                   /\ Held(d)' = Held(d)
  <2>1. Carried(c)' = {}
    BY <1>1 DEF Carried
  <2>2. Coming(c)' = {}
    BY <1>1 DEF Coming
  <2>3. \A d \in Consoles \ {c} : Carried(d)' = Carried(d)
    BY <1>1 DEF Carried
  <2>4. \A d \in Consoles \ {c} : Coming(d)' = Coming(d)
    BY <1>1 DEF Coming
  <2> QED
    BY <2>1, <2>2, <2>3, <2>4 DEF Held
<1>3. InOrder'
  BY <1>1, <1>2 DEF IInv, InOrder
<1>4. \A d \in Consoles \ {c} : \A s : Delivers(d, s)' = Delivers(d, s)
  BY <1>1 DEF Delivers
<1>5. \A d \in Consoles \ {c}, s \in Sources : \A n : Whole(d, s, n) => Whole(d, s, n)'
  BY <1>1, <1>2, <1>4 DEF Whole
<1>6. \A s \in Sources : \A n : Whole(c, s, n)'
  BY <1>2 DEF Whole
<1>7. Complete'
  BY <1>1, <1>2, <1>4, <1>5, <1>6 DEF IInv, Complete
<1> QED
  BY <1>3, <1>7

LEMMA TakeKeeps ==
  ASSUME IInv, NEW c \in Consoles, WriterTakes(c)
  PROVE  InOrder' /\ Complete'
<1>1. /\ writer[c] = "select" /\ writer'[c] = "writing" /\ outbound[c] # <<>>
      /\ outbound[c] \in Seq(Event)
      /\ inFlight'[c] = Head(outbound[c]) /\ outbound'[c] = Tail(outbound[c])
      /\ \A d \in Consoles \ {c} : /\ writer'[d] = writer[d] /\ inFlight'[d] = inFlight[d]
                                   /\ outbound'[d] = outbound[d]
      /\ UNCHANGED <<filter, received, sent, targets, victim, clients>>
  BY DEF IInv, TypeOK, WriterTakes, sourceVars, removeVars
<1>2. PICK n \in Nat :
         /\ DOMAIN outbound[c] = 1..(n + 1) /\ DOMAIN outbound'[c] = 1..n
         /\ inFlight'[c] = outbound[c][1]
         /\ \A i \in 1..n : i + 1 \in 1..(n + 1) /\ outbound'[c][i] = outbound[c][i + 1]
  BY <1>1, Beheaded
<1>3. /\ 1 \in 1..(n + 1) /\ \A i \in 1..n : 1 < i + 1
      /\ \A i, j \in 1..n : i < j => i + 1 < j + 1
      /\ \A i \in 1..(n + 1) : i = 1 \/ \E j \in 1..n : i = j + 1
  <2>1. \A i \in 1..(n + 1) : i = 1 \/ (i - 1 \in 1..n /\ i = (i - 1) + 1)
    OBVIOUS
  <2> QED
    BY <2>1
<1>4. \A d \in Consoles : /\ Carried(d)' = Carried(d)
                          /\ Coming(d)' = Coming(d)
                          /\ Held(d)' = Held(d)
  <2>1. Coming(c)' = {outbound'[c][i] : i \in 1..n} \cup {outbound[c][1]}
    BY <1>1, <1>2 DEF Coming
  <2>2. Coming(c) = {outbound[c][i] : i \in 1..(n + 1)}
    BY <1>1, <1>2 DEF Coming
  <2>3. ASSUME NEW e PROVE e \in Coming(c)' <=> e \in Coming(c)
    <3>1. e \in Coming(c)' <=> (e = outbound[c][1] \/ \E i \in 1..n : e = outbound[c][i + 1])
      BY <1>2, <2>1
    <3>2. e \in Coming(c) <=> \E i \in 1..(n + 1) : e = outbound[c][i]
      BY <2>2
    <3> QED
      BY <1>2, <1>3, <3>1, <3>2
  <2>4. Coming(c)' = Coming(c)
    BY <2>3
  <2>5. \A d \in Consoles \ {c} : Coming(d)' = Coming(d)
    BY <1>1 DEF Coming
  <2>6. \A d \in Consoles : Carried(d)' = Carried(d)
    BY <1>1 DEF Carried
  <2> QED
    BY <2>4, <2>5, <2>6 DEF Held
<1>5. InOrder'
  <2>1. \A i, j \in 1..n : i < j => Before(outbound'[c][i], outbound'[c][j])
    BY <1>1, <1>2, <1>3 DEF IInv, InOrder
  <2>2. \A i \in 1..n : Before(inFlight'[c], outbound'[c][i])
    BY <1>1, <1>2, <1>3 DEF IInv, InOrder
  <2> QED
    BY <1>1, <1>2, <1>4, <2>1, <2>2 DEF IInv, InOrder
<1>6. Complete'
  BY <1>1, <1>4, CompleteKept
<1> QED
  BY <1>5, <1>6

LEMMA WriteKeeps ==
  ASSUME IInv, NEW c \in Consoles, WriteSucceeds(c)
  PROVE  InOrder' /\ Complete'
<1>1. /\ writer[c] = "writing" /\ writer'[c] = "select" /\ received[c] \in Seq(Event)
      /\ inFlight[c] \in Event /\ received'[c] = Append(received[c], inFlight[c])
      /\ \A d \in Consoles \ {c} : /\ writer'[d] = writer[d] /\ inFlight'[d] = inFlight[d]
                                   /\ received'[d] = received[d]
      /\ UNCHANGED <<filter, outbound, sent, targets, victim, clients>>
  BY DEF IInv, TypeOK, ConsoleState, WriteSucceeds, sourceVars, removeVars
<1>2. PICK n \in Nat :
         /\ DOMAIN received[c] = 1..n /\ DOMAIN received'[c] = 1..(n + 1)
         /\ received'[c][n + 1] = inFlight[c]
         /\ \A i \in 1..n : i \in 1..(n + 1) /\ received'[c][i] = received[c][i]
         /\ \A i \in 1..(n + 1) : i \in 1..n \/ i = n + 1
  <2>1. PICK q \in Seq(Event), e \in Event :
           q = received[c] /\ e = inFlight[c] /\ received'[c] = Append(q, e)
    BY <1>1
  <2>2. PICK n \in Nat :
           /\ DOMAIN q = 1..n /\ DOMAIN Append(q, e) = 1..(n + 1) /\ Append(q, e)[n + 1] = e
           /\ \A i \in 1..n : i \in 1..(n + 1) /\ Append(q, e)[i] = q[i]
           /\ \A i \in 1..(n + 1) : i \in 1..n \/ i = n + 1
    BY Appended
  <2> QED
    BY <2>1, <2>2
<1>3. n + 1 \in 1..(n + 1) /\ \A i, j \in 1..(n + 1) : i < j => i \in 1..n
  OBVIOUS
<1>4. /\ Carried(c)' = Carried(c) \cup {inFlight[c]}
      /\ Coming(c) = Coming(c)' \cup {inFlight[c]}
      /\ Coming(c)' = {outbound[c][i] : i \in DOMAIN outbound[c]}
      /\ Held(c)' = Held(c)
  <2>1. Carried(c)' = Carried(c) \cup {inFlight[c]}
    BY <1>2, <1>3 DEF Carried
  <2>2. Coming(c)' = {outbound[c][i] : i \in DOMAIN outbound[c]}
        /\ Coming(c) = Coming(c)' \cup {inFlight[c]}
    BY <1>1 DEF Coming
  <2> QED
    BY <2>1, <2>2 DEF Held
<1>5. \A d \in Consoles \ {c} : /\ Carried(d)' = Carried(d)
                                /\ Coming(d)' = Coming(d)
                                /\ Held(d)' = Held(d)
  <2>1. ASSUME NEW d \in Consoles \ {c}
        PROVE  /\ received'[d] = received[d] /\ outbound'[d] = outbound[d]
               /\ inFlight'[d] = inFlight[d] /\ writer'[d] = writer[d]
               /\ (writer'[d] = "writing") = (writer[d] = "writing")
    BY <1>1
  <2>2. ASSUME NEW d \in Consoles \ {c} PROVE Carried(d)' = Carried(d)
    BY <2>1 DEF Carried
  <2>3. ASSUME NEW d \in Consoles \ {c} PROVE Coming(d)' = Coming(d)
    BY <2>1 DEF Coming
  <2>4. ASSUME NEW d \in Consoles \ {c} PROVE Held(d)' = Held(d)
    BY <2>2, <2>3 DEF Held
  <2> QED
    BY <2>2, <2>3, <2>4
<1>6. InOrder'
  <2>1. \A i, j \in DOMAIN received'[c] : i < j => Before(received'[c][i], received'[c][j])
    <3>1. \A i \in 1..n : received[c][i] \in Carried(c)
      BY <1>2 DEF Carried
    <3> QED
      BY <1>2, <1>3, <1>4, <3>1 DEF IInv, InOrder
  <2>2. \A e \in Carried(c)', f \in Coming(c)' : Before(e, f)
    BY <1>1, <1>4 DEF IInv, InOrder
  <2>3. \A i, j \in DOMAIN outbound'[c] : i < j => Before(outbound'[c][i], outbound'[c][j])
    BY <1>1 DEF IInv, InOrder
  <2> QED
    <3>1. \A d \in Consoles \ {c} : UNCHANGED <<received[d], outbound[d], inFlight[d], writer[d]>>
      BY <1>1
    <3>2. ASSUME NEW d \in Consoles
          PROVE  /\ \A i, j \in DOMAIN received'[d] :
                       i < j => Before(received'[d][i], received'[d][j])
                 /\ \A e \in Carried(d)', f \in Coming(d)' : Before(e, f)
                 /\ writer'[d] \in {"select", "writing"} =>
                       \A i, j \in DOMAIN outbound'[d] :
                          i < j => Before(outbound'[d][i], outbound'[d][j])
                 /\ writer'[d] = "writing" =>
                       \A i \in DOMAIN outbound'[d] : Before(inFlight'[d], outbound'[d][i])
      <4>1. CASE d = c
        BY <1>1, <2>1, <2>2, <2>3, <4>1
      <4>2. CASE d # c
        BY <1>5, <3>1, <4>2 DEF IInv, InOrder
      <4> QED
        BY <4>1, <4>2
    <3> QED
      BY <3>2 DEF InOrder
<1>7. Complete'
  BY <1>1, <1>4, <1>5, CompleteKept
<1> QED
  BY <1>6, <1>7

LEMMA BroadcastKeeps ==
  ASSUME IInv, NEW s \in Sources, NEW t \in Threads \cup {None}, Broadcast(s, t)
  PROVE  InOrder' /\ Complete'
<1>1. /\ targets[s] = {} /\ victim[s] = None /\ sent[s] \in Seq(Threads \cup {None})
      /\ sent'[s] = Append(sent[s], t) /\ targets'[s] = {c \in clients : Delivers(c, t)}
      /\ victim' = victim
      /\ \A r \in Sources \ {s} : sent'[r] = sent[r] /\ targets'[r] = targets[r]
      /\ UNCHANGED <<filter, queueVars, clients, writer>>
      /\ None \notin Consoles
  BY ConsoleAssumption DEF IInv, TypeOK, SourceState, Broadcast, removeVars
<1>2. PICK n \in Nat : n = Len(sent[s])
  BY <1>1
<1>3. /\ Len(sent'[s]) = n + 1 /\ sent'[s][n + 1] = t
      /\ \A i \in 1..n : sent'[s][i] = sent[s][i]
  BY <1>1, <1>2
<1>4. /\ InOrder'
      /\ \A c \in Consoles : Held(c)' = Held(c)
  BY <1>1, OrderKept
<1>5. \A c \in Consoles : \A u : Delivers(c, u)' = Delivers(c, u)
  BY <1>1 DEF Delivers
<1>6. \A c \in Consoles, r \in Sources \ {s} : \A k : Whole(c, r, k) => Whole(c, r, k)'
  BY <1>1, <1>4, <1>5 DEF Whole
<1>7. ASSUME NEW c \in Consoles, NEW k \in 0..n, Whole(c, s, k) PROVE Whole(c, s, k)'
  <2> SUFFICES ASSUME NEW e \in Held(c), e.source = s, NEW m \in e.number + 1..k,
                      Delivers(c, sent'[s][m])
               PROVE  [source |-> s, number |-> m] \in Held(c)
    BY <1>4, <1>5 DEF Whole
  <2>1. e.number \in Nat
    BY HeldAreEvents
  <2>2. m \in 1..n
    BY <2>1
  <2> QED
    BY <1>3, <1>7, <2>2 DEF Whole
<1>8. ASSUME NEW c \in Consoles, ~Delivers(c, t), Whole(c, s, n)' PROVE Whole(c, s, n + 1)'
  <2> SUFFICES ASSUME NEW e \in Held(c), e.source = s, NEW m \in e.number + 1..(n + 1),
                      Delivers(c, sent'[s][m])
               PROVE  [source |-> s, number |-> m] \in Held(c)
    BY <1>4, <1>5 DEF Whole
  <2>1. e.number \in Nat /\ m # n + 1
    BY <1>3, <1>8, HeldAreEvents
  <2>2. m \in e.number + 1..n
    BY <2>1
  <2> QED
    BY <1>4, <1>5, <1>8, <2>2 DEF Whole
<1>9. Complete'
  <2>1. ASSUME NEW c \in Consoles, NEW e \in Held(c), e.source = s
        PROVE  /\ e.number \in 1..n /\ e.number \in 1..(n + 1) /\ e.number < n + 1
               /\ Delivers(c, sent'[s][e.number]) /\ Whole(c, s, e.number)'
    <3>1. e.number \in 1..n /\ Delivers(c, sent[s][e.number]) /\ Whole(c, s, e.number)
      BY <1>2, <2>1 DEF IInv, Complete
    <3>2. e.number \in 1..(n + 1) /\ e.number < n + 1 /\ e.number \in 0..n
      BY <3>1
    <3> QED
      BY <1>3, <1>7, <3>1, <3>2
  <2>2. ASSUME NEW c \in clients, c \in Consoles, writer[c] \in {"select", "writing"}
        PROVE  Whole(c, s, n)'
    <3>1. Whole(c, s, n)
      BY <1>1, <1>2, <2>2 DEF IInv, Complete
    <3>2. n \in 0..n
      OBVIOUS
    <3> QED
      BY <1>7, <2>2, <3>1, <3>2
  <2>3. ASSUME NEW c \in Consoles
        PROVE  /\ \A e \in Held(c)' : e.source = s =>
                     /\ e.number \in 1..Len(sent'[s]) /\ Delivers(c, sent[s][e.number])'
                     /\ Whole(c, s, e.number)'
                     /\ c \in targets'[s] => e.number < Len(sent'[s])
               /\ c \in targets'[s] => Delivers(c, sent[s][Len(sent[s])])'
               /\ writer'[c] \in {"select", "writing"} =>
                     /\ c \in targets'[s] => Whole(c, s, Len(sent[s]) - 1)'
                     /\ c \in clients' \ (targets'[s] \cup {victim'[s]}) =>
                           Whole(c, s, Len(sent[s]))'
    <3>1. (n + 1) - 1 = n
      OBVIOUS
    <3>2. c \in targets'[s] => Delivers(c, sent[s][Len(sent[s])])'
      BY <1>1, <1>3, <1>5
    <3>3. ASSUME writer'[c] \in {"select", "writing"}, c \in targets'[s]
          PROVE  Whole(c, s, Len(sent[s]) - 1)'
      <4>1. Whole(c, s, n)'
        BY <1>1, <2>2, <3>3
      <4> QED
        BY <1>3, <3>1, <4>1
    <3>4. ASSUME writer'[c] \in {"select", "writing"}, c \in clients' \ (targets'[s] \cup {victim'[s]})
          PROVE  Whole(c, s, Len(sent[s]))'
      <4>1. Whole(c, s, n)' /\ ~Delivers(c, t)
        BY <1>1, <2>2, <3>4
      <4> QED
        BY <1>3, <1>8, <4>1
    <3> QED
      BY <1>3, <1>4, <1>5, <2>1, <3>2, <3>3, <3>4
  <2>4. \A c \in Consoles, r \in Sources \ {s} :
           /\ \A e \in Held(c)' : e.source = r =>
                 /\ e.number \in 1..Len(sent'[r]) /\ Delivers(c, sent[r][e.number])'
                 /\ Whole(c, r, e.number)'
                 /\ c \in targets'[r] => e.number < Len(sent'[r])
           /\ c \in targets'[r] => Delivers(c, sent[r][Len(sent[r])])'
           /\ writer'[c] \in {"select", "writing"} =>
                 /\ c \in targets'[r] => Whole(c, r, Len(sent[r]) - 1)'
                 /\ c \in clients' \ (targets'[r] \cup {victim'[r]}) =>
                       Whole(c, r, Len(sent[r]))'
    BY <1>1, <1>4, <1>5, <1>6 DEF IInv, Complete
  <2> QED
    BY <2>3, <2>4 DEF Complete
<1> QED
  BY <1>4, <1>9

LEMMA EnqueueKeeps ==
  ASSUME IInv, NEW s \in Sources, NEW c \in Consoles, Enqueue(s, c)
  PROVE  InOrder' /\ Complete'
<1> DEFINE alive == writer[c] \in {"select", "writing"}
<1>1. PICK n \in Nat : n = Len(sent[s])
  BY DEF IInv, TypeOK
<1>2. PICK new : new = [source |-> s, number |-> n]
  OBVIOUS
<1>3. new \in Event /\ new.source = s /\ new.number = n /\ n > 0
  <2>1. n # 0
    BY <1>1 DEF Enqueue, IInv, TypeOK, SourceState
  <2> QED
    BY <1>2, <2>1 DEF Event
<1>4. /\ c \in targets[s] /\ outbound[c] \in Seq(Event) /\ outbound'[c] = Append(outbound[c], new)
      /\ \A d \in Consoles \ {c} : outbound'[d] = outbound[d]
      /\ targets' = [targets EXCEPT ![s] = targets[s] \ {c}] /\ targets \in [Sources -> SUBSET Consoles]
      /\ UNCHANGED <<filter, inFlight, received, clients, writer, sent, victim>>
  BY <1>1, <1>2 DEF IInv, TypeOK, Enqueue, removeVars
<1>5. PICK l \in Nat :
         /\ DOMAIN outbound[c] = 1..l /\ DOMAIN outbound'[c] = 1..(l + 1)
         /\ outbound'[c][l + 1] = new
         /\ \A i \in 1..l : i \in 1..(l + 1) /\ outbound'[c][i] = outbound[c][i]
         /\ \A i \in 1..(l + 1) : i \in 1..l \/ i = l + 1
  BY <1>3, <1>4, Appended
<1>6. l + 1 \in 1..(l + 1) /\ \A i, j \in 1..(l + 1) : i < j => i \in 1..l
  OBVIOUS
<1>7. /\ \A d \in Consoles : Carried(d)' = Carried(d)
      /\ alive => Coming(c)' = Coming(c) \cup {new}
      /\ ~alive => Coming(c)' = Coming(c)
      /\ \A d \in Consoles \ {c} : Coming(d)' = Coming(d)
  <2>1. {outbound'[c][i] : i \in DOMAIN outbound'[c]}
            = {outbound[c][i] : i \in DOMAIN outbound[c]} \cup {new}
    BY <1>5, <1>6
  <2>2. \A d \in Consoles : Carried(d)' = Carried(d)
    BY <1>4 DEF Carried
  <2>3. \A d \in Consoles \ {c} : Coming(d)' = Coming(d)
    BY <1>4 DEF Coming
  <2>4. alive => Coming(c)' = Coming(c) \cup {new}
    BY <1>4, <2>1 DEF Coming
  <2>5. ~alive => Coming(c)' = Coming(c)
    BY <1>4 DEF Coming
  <2> QED
    BY <2>2, <2>3, <2>4, <2>5
<1>8. /\ alive => Held(c)' = Held(c) \cup {new}
      /\ ~alive => Held(c)' = Held(c)
      /\ \A d \in Consoles \ {c} : Held(d)' = Held(d)
  BY <1>7 DEF Held
<1>9. \A e \in Held(c) : e.source = s => e.number < n
  BY <1>1, <1>4 DEF IInv, Complete
<1>10. \A e \in Held(c) : Before(e, new)
  BY <1>3, <1>9 DEF Before
<1>11. InOrder'
  <2>1. ASSUME alive
        PROVE  /\ \A i, j \in DOMAIN outbound'[c] : i < j => Before(outbound'[c][i], outbound'[c][j])
               /\ writer[c] = "writing" => \A i \in DOMAIN outbound'[c] : Before(inFlight[c], outbound'[c][i])
    <3>1. \A i \in 1..l : outbound[c][i] \in Held(c)
      BY <1>5, <2>1 DEF Held, Coming
    <3>2. writer[c] = "writing" => inFlight[c] \in Held(c)
      BY DEF Held, Coming
    <3> QED
      BY <1>5, <1>6, <1>10, <2>1, <3>1, <3>2 DEF IInv, InOrder
  <2>2. \A e \in Carried(c)', f \in Coming(c)' : Before(e, f)
    BY <1>7, <1>10, HeldAreEvents DEF IInv, InOrder
  <2> QED
    BY <1>4, <1>7, <2>1, <2>2 DEF IInv, InOrder
<1>12. \A d \in Consoles : \A u : Delivers(d, u)' = Delivers(d, u)
  BY <1>4 DEF Delivers
<1>13. ASSUME NEW d \in Consoles, NEW r \in Sources, NEW k, Whole(d, r, k),
              d # c \/ r # s \/ ~alive
       PROVE  Whole(d, r, k)'
  BY <1>3, <1>4, <1>8, <1>12, <1>13 DEF Whole
<1>14. ASSUME alive PROVE Whole(c, s, n)'
  <2>1. Whole(c, s, n - 1)
    BY <1>1, <1>4, <1>14 DEF IInv, Complete
  <2> SUFFICES ASSUME NEW e \in Held(c) \cup {new}, e.source = s, NEW m \in e.number + 1..n,
                      Delivers(c, sent[s][m])
               PROVE  [source |-> s, number |-> m] \in Held(c) \cup {new}
    BY <1>4, <1>8, <1>12, <1>14 DEF Whole
  <2>2. e \in Held(c) /\ e.number \in Nat
    BY <1>3, HeldAreEvents
  <2>3. m = n \/ m \in e.number + 1..n - 1
    BY <2>2
  <2> QED
    BY <1>2, <2>1, <2>2, <2>3 DEF Whole
<1>15. ASSUME alive, NEW k \in Nat, k <= n PROVE Whole(c, s, k)'
  <2>1. \A e \in Held(c)' : e.number \in Nat =>
          \A m \in e.number + 1..k : m \in e.number + 1..n
    BY <1>15
  <2>2. \A e \in Held(c)' : e.number \in Nat
    BY <1>3, <1>8, <1>15, HeldAreEvents
  <2> QED
    BY <1>14, <1>15, <2>1, <2>2 DEF Whole
<1>16. Complete'
  <2>1. ASSUME NEW e \in Held(c)', e.source = s
        PROVE  /\ e.number \in 1..Len(sent'[s]) /\ Delivers(c, sent[s][e.number])'
               /\ Whole(c, s, e.number)'
    <3>1. CASE e \in Held(c)
      <4>1. e.number \in 1..n /\ Delivers(c, sent[s][e.number]) /\ Whole(c, s, e.number)
        BY <1>1, <2>1, <3>1 DEF IInv, Complete
      <4>2. e.number \in Nat /\ e.number <= n
        BY <4>1
      <4> QED
        BY <1>1, <1>4, <1>12, <1>13, <1>15, <4>1, <4>2
    <3>2. CASE e = new /\ alive
      <4>1. n \in 1..n /\ Delivers(c, sent[s][n])
        BY <1>1, <1>3, <1>4 DEF IInv, Complete
      <4> QED
        BY <1>1, <1>3, <1>4, <1>12, <1>14, <3>2, <4>1
    <3> QED
      BY <1>8, <3>1, <3>2
  <2>2. ASSUME NEW d \in Consoles, NEW r \in Sources, NEW e \in Held(d)', e.source = r, d # c \/ r # s
        PROVE  /\ e.number \in 1..Len(sent'[r]) /\ Delivers(d, sent[r][e.number])'
               /\ Whole(d, r, e.number)'
               /\ d \in targets'[r] => e.number < Len(sent'[r])
    <3>1. e \in Held(d)
      BY <1>3, <1>8, <2>2
    <3>2. d \in targets'[r] => d \in targets[r]
      BY <1>4
    <3> QED
      BY <1>4, <1>12, <1>13, <2>2, <3>1, <3>2 DEF IInv, Complete
  <2>3. c \notin targets'[s] /\ (alive => Whole(c, s, Len(sent[s]))')
    BY <1>1, <1>4, <1>14
  <2>4. ASSUME NEW d \in Consoles, NEW r \in Sources, d # c \/ r # s
        PROVE  /\ d \in targets'[r] <=> d \in targets[r]
               /\ d \in targets[r] => Delivers(d, sent[r][Len(sent[r])])'
               /\ writer[d] \in {"select", "writing"} =>
                     /\ d \in targets[r] => Whole(d, r, Len(sent[r]) - 1)'
                     /\ d \in clients \ (targets[r] \cup {victim[r]}) =>
                           Whole(d, r, Len(sent[r]))'
    <3>1. d \in targets'[r] <=> d \in targets[r]
      BY <1>4, <2>4
    <3> QED
      BY <1>4, <1>12, <1>13, <2>4, <3>1 DEF IInv, Complete
  <2> QED
    BY <1>4, <2>1, <2>2, <2>3, <2>4 DEF Complete
<1> QED
  BY <1>11, <1>16

\* Every step keeps the streams of the consoles in order and without a gap.
LEMMA StreamStep == IInv /\ [Next]_vars => InOrder' /\ Complete'
<1> SUFFICES ASSUME IInv, [Next]_vars PROVE InOrder' /\ Complete'
  OBVIOUS
<1> USE DEF Removing
<1>1. ASSUME UNCHANGED <<filter, queueVars, sent>>,
             \A c \in Consoles : writer'[c] = writer[c]
                \/ (writer[c] \notin {"select", "writing"} /\ writer'[c] \notin {"select", "writing"}),
             \A c \in Consoles, s \in Sources :
                /\ c \in targets'[s] => c \in targets[s]
                /\ c \in clients' \ (targets'[s] \cup {victim'[s]}) =>
                      c \in clients \ (targets[s] \cup {victim[s]})
      PROVE  InOrder' /\ Complete'
  <2>1. InOrder' /\ \A c \in Consoles : Held(c)' = Held(c)
    BY <1>1, OrderKept
  <2> QED
    BY <1>1, <2>1, CompleteKept
<1>2. ASSUME NEW c \in Consoles, NEW pc, NEW next, NEW end, RemoveStep(c, pc, next, end)
      PROVE  clients' \subseteq clients
  BY <1>2 DEF RemoveStep, Delete, CloseDone, CloseConn, OnceDone, removeVars
<1>3. ASSUME NEW c \in Consoles, Hangup(c) \/ ReadFails(c) \/ HandlerRemoves(c)
      PROVE  InOrder' /\ Complete'
  <2>1. clients' \subseteq clients /\ UNCHANGED <<filter, queueVars, writer, sourceVars>>
    BY <1>2, <1>3 DEF Hangup, ReadFails, HandlerRemoves, removeVars
  <2> QED
    BY <1>1, <2>1 DEF sourceVars
<1>4. ASSUME NEW c \in Consoles, WriterRemoves(c) PROVE InOrder' /\ Complete'
  <2>1. /\ clients' \subseteq clients /\ UNCHANGED <<filter, queueVars, sourceVars>>
        /\ writer[c] \in {"delete", "once", "close"} /\ writer'[c] \in {"once", "close", "stopped"}
        /\ \A d \in Consoles \ {c} : writer'[d] = writer[d]
    BY <1>2, <1>4 DEF WriterRemoves, RemoveStep, Delete, CloseDone, CloseConn, OnceDone, IInv, TypeOK
  <2> QED
    BY <1>1, <2>1 DEF sourceVars
<1>5. ASSUME NEW s \in Sources, EndBroadcast(s) PROVE InOrder' /\ Complete'
  <2>1. UNCHANGED <<filter, queueVars, clients, writer, sent, targets, victim>>
    BY <1>5 DEF EndBroadcast, removeVars
  <2> QED
    BY <1>1, <2>1
<1>6. ASSUME NEW s \in Sources, NEW c \in Consoles, QueueFull(s, c) PROVE InOrder' /\ Complete'
  <2>1. /\ UNCHANGED <<filter, queueVars, clients, writer, sent>>
        /\ targets' = [targets EXCEPT ![s] = targets[s] \ {c}] /\ victim' = [victim EXCEPT ![s] = c]
        /\ victim[s] = None /\ None \notin Consoles
        /\ targets \in [Sources -> SUBSET Consoles] /\ victim \in [Sources -> Consoles \cup {None}]
    BY <1>6, ConsoleAssumption DEF QueueFull, removeVars, IInv, TypeOK, SourceState
  <2> QED
    BY <1>1, <2>1
<1>7. ASSUME NEW s \in Sources, SourceRemoves(s) PROVE InOrder' /\ Complete'
  <2>1. PICK next \in {"once", "close", "sending"} :
           /\ RemoveStep(victim[s], source[s], next, "sending")
           /\ victim' = [victim EXCEPT ![s] = IF next = "sending" THEN None ELSE @]
    BY <1>7 DEF SourceRemoves
  <2>2. /\ UNCHANGED <<filter, queueVars, writer, sent, targets>> /\ victim[s] \in Consoles
        /\ victim \in [Sources -> Consoles \cup {None}] /\ clients \subseteq Consoles
    BY <1>7 DEF SourceRemoves, IInv, TypeOK
  <2>3. clients' \subseteq clients
    BY <1>2, <2>1, <2>2
  <2>4. next = "sending" => victim[s] \notin clients
    BY <2>1, <2>2 DEF RemoveStep, Delete, CloseDone, CloseConn, OnceDone, IInv, RemovedForGood, Removed
  <2>5. \A r \in Sources : victim'[r] = victim[r] \/ victim[r] \notin clients
    BY <2>1, <2>2, <2>4
  <2> QED
    BY <1>1, <2>2, <2>3, <2>5
<1>8. ASSUME NEW c \in Consoles, WriterStops(c) PROVE InOrder' /\ Complete'
  <2>1. /\ UNCHANGED <<filter, sent, targets, clients, victim, received, outbound>>
        /\ inFlight' = [inFlight EXCEPT ![c] = inFlight'[c]]
        /\ writer' = [writer EXCEPT ![c] = writer'[c]]
        /\ writer'[c] \notin {"select", "writing"}
    BY <1>8 DEF WriterStops, queueVars, removeVars, sourceVars, IInv, TypeOK
  <2> QED
    BY <2>1, WriterEnds
<1>9. ASSUME NEW c \in Consoles, WriteFails(c) PROVE InOrder' /\ Complete'
  <2>1. /\ UNCHANGED <<filter, sent, targets, clients, victim, received, outbound>>
        /\ inFlight' = [inFlight EXCEPT ![c] = inFlight'[c]]
        /\ writer' = [writer EXCEPT ![c] = writer'[c]]
        /\ writer'[c] \notin {"select", "writing"}
    BY <1>9 DEF WriteFails, removeVars, sourceVars, IInv, TypeOK
  <2> QED
    BY <2>1, WriterEnds
<1>10. CASE UNCHANGED vars
  BY <1>1, <1>10 DEF vars, removeVars, sourceVars
<1> QED
  BY <1>3, <1>4, <1>5, <1>6, <1>7, <1>8, <1>9, <1>10, ConnectKeeps, TakeKeeps, WriteKeeps,
     BroadcastKeeps, EnqueueKeeps DEF Next, HandlerStep, WriterStep, SourceStep

\* The initial states satisfy the inductive invariant.
LEMMA InitInv == Init => IInv
<1> SUFFICES ASSUME Init PROVE IInv
  OBVIOUS
<1>1. TypeOK /\ ConsoleState /\ RemovedForGood /\ SourceState
  BY ConsoleAssumption DEF Init, TypeOK, ConsoleState, Unconnected, RemovedForGood,
     Removed, Removing, SourceState
<1>2. /\ clients = {} /\ \A c \in Consoles : received[c] = <<>> /\ writer[c] = "none"
      /\ \A s \in Sources : targets[s] = {}
  BY DEF Init
<1>3. \A c \in Consoles : Carried(c) = {} /\ Coming(c) = {} /\ Held(c) = {}
  BY <1>2 DEF Carried, Coming, Held
<1> QED
  BY <1>1, <1>2, <1>3 DEF IInv, InOrder, Complete

\* The inductive invariant holds in every reachable state.
THEOREM Invariance == Spec => []IInv
<1>1. IInv /\ [Next]_vars => IInv'
  BY TypeStep, ConsoleStateStep, RemovedStep, SourceStateStep, StreamStep DEF IInv
<1> QED
  BY InitInv, <1>1, PTL DEF Spec

\* Every variable keeps its type: in particular no done channel is closed twice,
\* which would panic, and no queue outgrows its capacity.
THEOREM TypeCorrect == Spec => []TypeOK
<1>1. IInv => TypeOK
  BY DEF IInv
<1> QED
  BY <1>1, Invariance, PTL

\* A console in the set has both its goroutines, whoever is removing consoles.
THEOREM Served == Spec => []ClientsAreServed
<1>1. IInv => ClientsAreServed
  BY DEF IInv, TypeOK, ConsoleState, Unconnected, RemovedForGood, Removed, Removing,
     ClientsAreServed
<1> QED
  BY <1>1, Invariance, PTL

\* Of each source a console sees the events it asked for in order and without a gap,
\* whatever overflows, disconnects and broadcasts meet (Broadcast, enqueue, writeLoop).
THEOREM Gapless == Spec => []NoGap
<1>1. IInv => NoGap
  <2> SUFFICES ASSUME IInv, NEW c \in Consoles, NEW s \in Sources,
                      NEW i \in DOMAIN received[c], received[c][i].source = s
               PROVE  /\ Delivers(c, sent[s][received[c][i].number])
                      /\ \A j \in DOMAIN received[c] : received[c][j].source = s /\ i < j =>
                            /\ received[c][i].number < received[c][j].number
                            /\ \A n \in received[c][i].number + 1..received[c][j].number - 1 :
                                  Delivers(c, sent[s][n]) =>
                                     \E k \in DOMAIN received[c] :
                                        received[c][k].source = s /\ received[c][k].number = n
    BY DEF NoGap
  <2>1. received[c][i] \in Held(c) /\ received[c][i].number \in Nat
    BY HeldAreEvents
  <2>2. Delivers(c, sent[s][received[c][i].number])
    BY <2>1 DEF IInv, Complete
  <2>3. ASSUME NEW j \in DOMAIN received[c], received[c][j].source = s, i < j
        PROVE  received[c][i].number < received[c][j].number
    BY <2>3 DEF IInv, InOrder, Before
  <2>4. ASSUME NEW j \in DOMAIN received[c], received[c][j].source = s,
               NEW n \in received[c][i].number + 1..received[c][j].number - 1,
               Delivers(c, sent[s][n])
        PROVE  \E k \in DOMAIN received[c] : received[c][k].source = s /\ received[c][k].number = n
    <3>1. received[c][j] \in Held(c) /\ received[c][j].number \in Nat /\ received[c][j] \in Carried(c)
      BY HeldAreEvents
    <3>2. Whole(c, s, received[c][j].number)
      BY <2>4, <3>1 DEF IInv, Complete
    <3>3. n \in received[c][i].number + 1..received[c][j].number /\ n < received[c][j].number
      BY <2>1, <3>1
    <3>4. [source |-> s, number |-> n] \in Held(c)
      BY <2>1, <2>4, <3>2, <3>3 DEF Whole
    <3>5. [source |-> s, number |-> n] \notin Coming(c)
      <4>1. Before(received[c][j], [source |-> s, number |-> n]) => received[c][j].number < n
        BY <2>4 DEF Before
      <4>2. ~(received[c][j].number < n)
        BY <2>1, <3>1, <3>3
      <4> QED
        BY <3>1, <4>1, <4>2 DEF IInv, InOrder
    <3>6. [source |-> s, number |-> n] \in Carried(c)
      BY <3>4, <3>5 DEF Held
    <3> QED
      BY <3>6 DEF Carried
  <2> QED
    BY <2>2, <2>3, <2>4
<1> QED
  BY <1>1, Invariance, PTL
=============================================================================
