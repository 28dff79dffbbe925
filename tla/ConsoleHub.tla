----------------------------- MODULE ConsoleHub -----------------------------
(***************************************************************************)
(* The gateway's fan-out of events to the browser consoles:                *)
(* gateway/internal/websocket/console_hub.go.                              *)
(*                                                                         *)
(* Each console has a goroutine that reads its socket and one that writes  *)
(* it from a bounded queue.  Broadcast runs on the goroutine of whoever    *)
(* has an event, usually a machine connection of the ClientHub.  It never  *)
(* waits for a console: one whose queue is full is removed.  So three      *)
(* kinds of goroutines may run removeClient on one console at once.        *)
(*                                                                         *)
(* An event is who broadcast it and its number there; sent remembers which *)
(* thread it is about.  A browser that reconnects is another console.      *)
(***************************************************************************)
EXTENDS Naturals, Sequences, FiniteSetsExt

CONSTANTS Consoles,    \* console connections
          Sources,     \* goroutines that broadcast
          Threads,     \* thread ids that events are about
          None,        \* an event about no thread; a console without ?threadId=
          Capacity,    \* consoleOutboundBufferSize
          MaxEvents    \* bound: events in all

ASSUME ConsoleAssumption ==
    None \notin Threads \cup Consoles /\ Capacity \in Nat \ {0} /\ MaxEvents \in Nat

VARIABLES
    clients,   \* h.clients
    filter,    \* each console's threadID
    outbound,  \* its queue
    inFlight,  \* the event its writeLoop is writing, or None
    received,  \* what its socket has carried (history)
    closes,    \* how often its done channel has been closed; twice would panic
    socket,    \* closing: conn.Close has begun its handshake
    handler,   \* where the console's reading goroutine is
    writer,    \* where its writeLoop is
    sent,      \* per source, the thread of each event it has broadcast
    source,    \* where each source is
    targets,   \* the consoles its current Broadcast has yet to reach
    victim,    \* the console it is removing, or None
    overflowed \* consoles that have lost an event to a full queue (history)

queueVars == <<outbound, inFlight, received>>
removeVars == <<clients, closes, socket>>
sourceVars == <<sent, source, targets, victim, overflowed>>
vars == <<filter, queueVars, removeVars, handler, writer, sourceVars>>

Event == [source : Sources, number : Nat]

\* removeClient: take h.mu and delete, then closeOnce.Do of close(done), conn.Close
Removing == {"delete", "once", "close"}

TypeOK ==
    /\ clients \subseteq Consoles
    /\ filter \in [Consoles -> Threads \cup {None}]
    /\ outbound \in [Consoles -> Seq(Event)]
    /\ inFlight \in [Consoles -> Event \cup {None}]
    /\ received \in [Consoles -> Seq(Event)]
    /\ \A c \in Consoles : Len(outbound[c]) <= Capacity
    /\ closes \in [Consoles -> 0..1]
    /\ socket \in [Consoles -> {"none", "open", "closing", "closed"}]
    /\ handler \in [Consoles -> {"none", "reading", "stopped"} \cup Removing]
    /\ writer \in [Consoles -> {"none", "select", "writing", "stopped"} \cup Removing]
    /\ sent \in [Sources -> Seq(Threads \cup {None})]
    /\ source \in [Sources -> {"idle", "sending"} \cup Removing]
    /\ targets \in [Sources -> SUBSET Consoles]
    /\ victim \in [Sources -> Consoles \cup {None}]
    /\ overflowed \subseteq Consoles

Init ==
    /\ clients = {}
    /\ filter = [c \in Consoles |-> None]
    /\ outbound = [c \in Consoles |-> <<>>]
    /\ inFlight = [c \in Consoles |-> None]
    /\ received = [c \in Consoles |-> <<>>]
    /\ closes = [c \in Consoles |-> 0]
    /\ socket = [c \in Consoles |-> "none"]
    /\ handler = [c \in Consoles |-> "none"]
    /\ writer = [c \in Consoles |-> "none"]
    /\ sent = [s \in Sources |-> <<>>]
    /\ source = [s \in Sources |-> "idle"]
    /\ targets = [s \in Sources |-> {}]
    /\ victim = [s \in Sources |-> None]
    /\ overflowed = {}

-----------------------------------------------------------------------------
\* Handler: accept, enter the set, start writeLoop
Connect(c, t) ==
    /\ socket[c] = "none"
    /\ socket' = [socket EXCEPT ![c] = "open"]
    /\ filter' = [filter EXCEPT ![c] = t]
    /\ clients' = clients \cup {c}
    /\ handler' = [handler EXCEPT ![c] = "reading"]
    /\ writer' = [writer EXCEPT ![c] = "select"]
    /\ UNCHANGED <<queueVars, closes, sourceVars>>

\* the browser goes away
Hangup(c) ==
    /\ socket[c] \in {"open", "closing"}
    /\ socket' = [socket EXCEPT ![c] = "closed"]
    /\ UNCHANGED <<filter, queueVars, clients, closes, handler, writer, sourceVars>>

\* conn.Read fails, perhaps with the browser's answer to our close frame: the
\* deferred removeClient runs
ReadFails(c) ==
    /\ handler[c] = "reading" /\ socket[c] \in {"closing", "closed"}
    /\ handler' = [handler EXCEPT ![c] = "delete"]
    /\ UNCHANGED <<filter, queueVars, removeVars, writer, sourceVars>>

-----------------------------------------------------------------------------
(* writeLoop.  After done is closed its select may still choose the queue. *)

WriterStops(c) ==
    /\ writer[c] = "select" /\ closes[c] > 0
    /\ writer' = [writer EXCEPT ![c] = "stopped"]
    /\ UNCHANGED <<filter, queueVars, removeVars, handler, sourceVars>>

WriterTakes(c) ==
    /\ writer[c] = "select" /\ outbound[c] # <<>>
    /\ inFlight' = [inFlight EXCEPT ![c] = Head(outbound[c])]
    /\ outbound' = [outbound EXCEPT ![c] = Tail(@)]
    /\ writer' = [writer EXCEPT ![c] = "writing"]
    /\ UNCHANGED <<filter, received, removeVars, handler, sourceVars>>

\* the browser takes the frame, which it may never do
WriteSucceeds(c) ==
    /\ writer[c] = "writing" /\ socket[c] \in {"open", "closing"}
    /\ received' = [received EXCEPT ![c] = Append(@, inFlight[c])]
    /\ inFlight' = [inFlight EXCEPT ![c] = None]
    /\ writer' = [writer EXCEPT ![c] = "select"]
    /\ UNCHANGED <<filter, outbound, removeVars, handler, sourceVars>>

WriteFails(c) ==
    /\ writer[c] = "writing" /\ socket[c] \in {"closing", "closed"}
    /\ inFlight' = [inFlight EXCEPT ![c] = None]
    /\ writer' = [writer EXCEPT ![c] = "delete"]
    /\ UNCHANGED <<filter, outbound, received, removeVars, handler, sourceVars>>

-----------------------------------------------------------------------------
(* Broadcast.                                                              *)

\* shouldDeliverEnvelope
Delivers(c, t) == filter[c] = None \/ (t # None /\ filter[c] = t)

EventsSent == MapThenSumSet(LAMBDA r : Len(sent[r]), Sources)

\* a new event: copy h.clients, keep those it is for
Broadcast(s, t) ==
    /\ source[s] = "idle"
    /\ EventsSent < MaxEvents
    /\ sent' = [sent EXCEPT ![s] = Append(@, t)]
    /\ targets' = [targets EXCEPT ![s] = {c \in clients : Delivers(c, t)}]
    /\ source' = [source EXCEPT ![s] = "sending"]
    /\ UNCHANGED <<filter, queueVars, removeVars, handler, writer, victim, overflowed>>

\* mutant: the capacity is checked one too late
EnqueueBeyond(s, c) ==
    /\ source[s] = "sending" /\ c \in targets[s]
    /\ Len(outbound[c]) <= Capacity
    /\ outbound' = [outbound EXCEPT ![c] =
                        Append(@, [source |-> s, number |-> Len(sent[s])])]
    /\ targets' = [targets EXCEPT ![s] = @ \ {c}]
    /\ UNCHANGED <<filter, inFlight, received, removeVars, handler, writer, sent, source,
                   victim, overflowed>>

Enqueue(s, c) ==
    /\ source[s] = "sending" /\ c \in targets[s]
    /\ Len(outbound[c]) < Capacity
    /\ outbound' = [outbound EXCEPT ![c] =
                        Append(@, [source |-> s, number |-> Len(sent[s])])]
    /\ targets' = [targets EXCEPT ![s] = @ \ {c}]
    /\ UNCHANGED <<filter, inFlight, received, removeVars, handler, writer, sent, source,
                   victim, overflowed>>

\* mutant: a full queue loses the event and the console stays
DropEvent(s, c) ==
    /\ source[s] = "sending" /\ c \in targets[s]
    /\ Len(outbound[c]) >= Capacity
    /\ overflowed' = overflowed \cup {c}
    /\ targets' = [targets EXCEPT ![s] = @ \ {c}]
    /\ UNCHANGED <<filter, queueVars, removeVars, handler, writer, sent, source, victim>>

\* the default case of the select: remove the console
QueueFull(s, c) ==
    /\ source[s] = "sending" /\ c \in targets[s]
    /\ Len(outbound[c]) >= Capacity
    /\ overflowed' = overflowed \cup {c}
    /\ targets' = [targets EXCEPT ![s] = @ \ {c}]
    /\ victim' = [victim EXCEPT ![s] = c]
    /\ source' = [source EXCEPT ![s] = "delete"]
    /\ UNCHANGED <<filter, queueVars, removeVars, handler, writer, sent>>

EndBroadcast(s) ==
    /\ source[s] = "sending" /\ targets[s] = {}
    /\ source' = [source EXCEPT ![s] = "idle"]
    /\ UNCHANGED <<filter, queueVars, removeVars, handler, writer, sent, targets, victim,
                   overflowed>>

-----------------------------------------------------------------------------
(* removeClient, for the goroutine whose pc is given.  closeOnce.Do makes  *)
(* later callers wait for the first, conn.Close included, which ends by    *)
(* its own timeouts whatever the browser does.                             *)

\* mutant: the console stays in the set
DeleteNothing(c, pc) == pc = "delete" /\ UNCHANGED removeVars

Delete(c, pc) ==
    /\ pc = "delete"
    /\ clients' = clients \ {c}
    /\ UNCHANGED <<closes, socket>>

\* mutant: only the connection is closed
KeepDoneOpen(c, pc) ==
    /\ pc = "once" /\ closes[c] = 0
    /\ socket' = [socket EXCEPT ![c] = IF @ = "open" THEN "closing" ELSE @]
    /\ UNCHANGED <<clients, closes>>

CloseDone(c, pc) ==
    /\ pc = "once" /\ closes[c] = 0
    /\ closes' = [closes EXCEPT ![c] = 1]
    /\ socket' = [socket EXCEPT ![c] = IF @ = "open" THEN "closing" ELSE @]
    /\ UNCHANGED clients

CloseConn(c, pc) ==
    /\ pc = "close"
    /\ socket' = [socket EXCEPT ![c] = "closed"]
    /\ UNCHANGED <<clients, closes>>

\* somebody else's closeOnce.Do has ended
OnceDone(c, pc) ==
    /\ pc = "once" /\ closes[c] > 0
    /\ "close" \notin {handler[c], writer[c]}
    /\ \A s \in Sources : victim[s] = c => source[s] # "close"
    /\ UNCHANGED removeVars

\* one step of removeClient(c), and where it takes a caller that ends in "end"
RemoveStep(c, pc, next, end) ==
    \/ Delete(c, pc) /\ next = "once"
    \/ CloseDone(c, pc) /\ next = "close"
    \/ CloseConn(c, pc) /\ next = end
    \/ OnceDone(c, pc) /\ next = end

HandlerRemoves(c) ==
    \E next \in {"once", "close", "stopped"} :
        /\ RemoveStep(c, handler[c], next, "stopped")
        /\ handler' = [handler EXCEPT ![c] = next]
        /\ UNCHANGED <<filter, queueVars, writer, sourceVars>>

WriterRemoves(c) ==
    \E next \in {"once", "close", "stopped"} :
        /\ RemoveStep(c, writer[c], next, "stopped")
        /\ writer' = [writer EXCEPT ![c] = next]
        /\ UNCHANGED <<filter, queueVars, handler, sourceVars>>

SourceRemoves(s) ==
    \E next \in {"once", "close", "sending"} :
        /\ victim[s] # None
        /\ RemoveStep(victim[s], source[s], next, "sending")
        /\ source' = [source EXCEPT ![s] = next]
        /\ victim' = [victim EXCEPT ![s] = IF next = "sending" THEN None ELSE @]
        /\ UNCHANGED <<filter, queueVars, handler, writer, sent, targets, overflowed>>

-----------------------------------------------------------------------------
HandlerStep(c) == ReadFails(c) \/ HandlerRemoves(c)

WriterStep(c) ==
    WriterStops(c) \/ WriterTakes(c) \/ WriteFails(c) \/ WriterRemoves(c)

SourceStep(s) ==
    \/ \E c \in Consoles : Enqueue(s, c) \/ QueueFull(s, c)
    \/ EndBroadcast(s)
    \/ SourceRemoves(s)

Next ==
    \/ \E c \in Consoles, t \in Threads \cup {None} : Connect(c, t)
    \/ \E c \in Consoles : Hangup(c) \/ HandlerStep(c) \/ WriterStep(c) \/ WriteSucceeds(c)
    \/ \E s \in Sources, t \in Threads \cup {None} : Broadcast(s, t)
    \/ \E s \in Sources : SourceStep(s)

\* Goroutines that can run do run.  A browser may stop reading for ever, so
\* WriteSucceeds is not fair, and nothing makes it hang up.
Fairness ==
    /\ \A c \in Consoles : WF_vars(HandlerStep(c)) /\ WF_vars(WriterStep(c))
    /\ \A s \in Sources : WF_vars(SourceStep(s))

Spec == Init /\ [][Next]_vars /\ Fairness

-----------------------------------------------------------------------------
(* Properties.                                                             *)

\* Of each source a console sees events it asked for, in order and without a gap:
\* it misses some only before the first or after the last, never in between, even
\* when it overflows while other goroutines still hold it in their copy.
NoGap ==
    \A c \in Consoles, s \in Sources :
        LET got == {i \in DOMAIN received[c] : received[c][i].source = s}
            number(i) == received[c][i].number
        IN  /\ \A i \in got : Delivers(c, sent[s][number(i)])
            /\ \A i, j \in got : i < j =>
                   /\ number(i) < number(j)
                   /\ \A n \in number(i) + 1..number(j) - 1 :
                          Delivers(c, sent[s][n]) => \E k \in got : number(k) = n

\* A console that Broadcast still finds has both its goroutines: its queue is
\* drained and its socket's end is noticed, or it is about to be removed.
ClientsAreServed ==
    \A c \in clients :
        /\ handler[c] \in {"reading", "delete"}
        /\ writer[c] \in {"select", "writing", "delete"}

\* A browser that never reads holds up neither those who broadcast nor the two
\* goroutines of its console, which end: the socket of a console that has lost an
\* event is closed, and a closed socket stops both.
GoroutinesEnd ==
    /\ \A c \in Consoles : c \in overflowed ~> socket[c] = "closed"
    /\ \A s \in Sources : source[s] # "idle" ~> source[s] = "idle"
    /\ \A c \in Consoles :
           socket[c] = "closed" ~> handler[c] = "stopped" /\ writer[c] = "stopped"

\* The inductive invariant of the proofs.  A console that has not connected is in
\* nobody's hands; one that anybody has deleted, or closed, is out of the set for
\* good; writeLoop writes an event.
Unconnected(c) ==
    /\ c \notin clients /\ closes[c] = 0
    /\ \A s \in Sources : c \notin targets[s] /\ victim[s] # c
    /\ received[c] = <<>> /\ outbound[c] = <<>>
Removed(c) ==
    \/ closes[c] > 0
    \/ handler[c] \in {"once", "close", "stopped"}
    \/ writer[c] \in {"once", "close", "stopped"}
    \/ \E s \in Sources : victim[s] = c /\ source[s] \in {"once", "close"}
ConsoleState ==
    \A c \in Consoles :
        /\ handler[c] = "none" <=> socket[c] = "none"
        /\ writer[c] = "none" <=> socket[c] = "none"
        /\ socket[c] = "none" => Unconnected(c)
        /\ writer[c] = "writing" => inFlight[c] \in Event
RemovedForGood == \A c \in Consoles : Removed(c) => c \notin clients

\* A source that is between broadcasts holds nobody.
SourceState ==
    \A s \in Sources :
        /\ source[s] = "idle" => targets[s] = {}
        /\ source[s] \in {"idle", "sending"} <=> victim[s] = None
        /\ victim[s] \notin targets[s]
        /\ targets[s] # {} => sent[s] # <<>>

\* The events a console's socket has carried, and those writeLoop has yet to write.
Carried(c) == {received[c][i] : i \in DOMAIN received[c]}
Coming(c) ==
    IF writer[c] \notin {"select", "writing"} THEN {}
    ELSE {outbound[c][i] : i \in DOMAIN outbound[c]}
             \cup {e \in {inFlight[c]} : writer[c] = "writing"}
Held(c) == Carried(c) \cup Coming(c)

Before(e, f) == e.source = f.source => e.number < f.number

\* Each source's events are in order: on the socket, in writeLoop, in the queue.
InOrder ==
    \A c \in Consoles :
        /\ \A i, j \in DOMAIN received[c] : i < j => Before(received[c][i], received[c][j])
        /\ \A e \in Carried(c), f \in Coming(c) : Before(e, f)
        /\ writer[c] \in {"select", "writing"} =>
              \A i, j \in DOMAIN outbound[c] : i < j => Before(outbound[c][i], outbound[c][j])
        /\ writer[c] = "writing" =>
              \A i \in DOMAIN outbound[c] : Before(inFlight[c], outbound[c][i])

\* c has all the events of s it asked for, from the first it has to number n.
Whole(c, s, n) ==
    \A e \in Held(c) : e.source = s =>
        \A m \in e.number + 1..n :
            Delivers(c, sent[s][m]) => [source |-> s, number |-> m] \in Held(c)

\* The event of s that c is about to be handed is newer than all it has, and what is
\* missing before it c did not ask for, nor later while c is in the set.
Complete ==
    \A c \in Consoles, s \in Sources :
        /\ \A e \in Held(c) : e.source = s =>
              /\ e.number \in 1..Len(sent[s]) /\ Delivers(c, sent[s][e.number])
              /\ Whole(c, s, e.number)
              /\ c \in targets[s] => e.number < Len(sent[s])
        /\ c \in targets[s] => Delivers(c, sent[s][Len(sent[s])])
        /\ writer[c] \in {"select", "writing"} =>
              /\ c \in targets[s] => Whole(c, s, Len(sent[s]) - 1)
              /\ c \in clients \ (targets[s] \cup {victim[s]}) => Whole(c, s, Len(sent[s]))

IInv == TypeOK /\ ConsoleState /\ RemovedForGood /\ SourceState /\ InOrder /\ Complete
=============================================================================
