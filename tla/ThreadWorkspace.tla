--------------------------- MODULE ThreadWorkspace ---------------------------
(***************************************************************************)
(* One thread as one browser page shows it.  The agent's notifications     *)
(* become timeline events, each followed by the legacy frame of its kind   *)
(* (codex/appserver_client.go, cmd/client/main.go); the gateway marks the  *)
(* active turn, keeps the event and broadcasts it (client_hub.go,          *)
(* registry/store.go); the page reads what was kept once, when it opens,   *)
(* and follows the broadcasts of a socket it reconnects but never catches  *)
(* up (common/api/ws.ts, use-thread-workspace.ts, timeline-model.ts).      *)
(*                                                                         *)
(* The machine's connection holds (ClientHub and ThreadTables are about    *)
(* its loss) and the browser's queue does not overflow (ConsoleHub is).    *)
(* A turn has any number of final messages, one after the other: each is   *)
(* streamed in chunks and then repeated whole.  Its other items are        *)
(* "quiet" when they show nothing, and an approval stands for those that   *)
(* show.  Process text and the line of a failed turn are left out: only    *)
(* the text of the final messages is followed.                             *)
(***************************************************************************)
EXTENDS Naturals, Sequences, FiniteSets, SequencesExt

CONSTANTS MaxTurns,   \* bound: turns of the thread
          MaxChunks,  \* bound: chunks of a turn's final messages together
          MaxPipe,    \* bound: events not yet handled by the gateway
          MaxWire,    \* bound: frames not yet handled by the page
          MaxSubmits, \* bound: prompts sent from the page
          MaxStops,   \* bound: interrupts sent from the page
          MaxBreaks,  \* bound: times the page's socket breaks; with 0 the page misses
                      \* nothing and its GET does not fail
          QuietTurns, \* bound: turns that begin with a quiet item
          AskingTurns, \* bound: turns that ask for an approval
          Limit       \* s.timelineLimit, 500 in the code

ASSUME ThreadWorkspaceAssumption ==
    /\ MaxTurns \in Nat \ {0} /\ MaxChunks \in Nat \ {0}
    /\ MaxPipe \in Nat \ {0} /\ MaxWire \in Nat \ {0}
    /\ QuietTurns \cup AskingTurns \subseteq 1 .. MaxTurns
    /\ MaxSubmits \in Nat /\ MaxStops \in Nat /\ MaxBreaks \in Nat /\ Limit \in Nat \ {0}

Turns == 1 .. MaxTurns

VARIABLES
    running,  \* the turn the agent is working on, or 0
    begun,    \* turns begun: turn t is the t-th of them
    said,     \* chunks of each turn's final messages streamed
    whole,    \* chunks of those that are complete
    first,    \* chunks before the last one that is complete
    asked,    \* each turn's approval: "no", "open" or "done"
    sequence, \* c.timelineSequence
    stopping, \* the turn whose interruption the command loop has yet to report, or 0
    pipe,     \* events sent by the client and not yet handled
    stage,    \* how far the gateway is with the first of them
    active,   \* h.activeTurns[thread], or 0
    kept,     \* registry.timelineEvents[thread]
    sock,     \* the page's socket: "closed" until the page opens
    breaks,   \* times it broke
    wire,     \* frames broadcast to it and not yet handled
    get,      \* the page's GET /threads/{id}
    page,     \* the state of useThreadWorkspace
    post,     \* the page's POST .../turns
    stop,     \* the page's POST .../interrupt
    submits,  \* prompts sent
    stops,    \* interrupts sent
    past,     \* history: what disturbed the page's view
    got       \* history: <<turn, chunks>>, chunks streamed up to the end of a message
              \* that the page was told of

agentVars == <<running, begun, said, whole, first, asked, sequence, stopping>>
hubVars == <<stage, active, kept>>
netVars == <<sock, breaks, wire>>
counts == <<submits, stops>>
vars == <<agentVars, pipe, hubVars, netVars, get, page, post, stop, counts, past, got>>

Kinds == {"started", "quiet", "delta", "answer", "asked", "resolved", "ended"}

\* The kinds that have a frame of the older protocol.
LegacyKinds == {"started", "delta", "ended"}

Events == [kind : Kinds, turn : Turns, seq : Nat, after : 0 .. MaxChunks,
           chunk : 0 .. MaxChunks, legacy : BOOLEAN]
Messages == [kind : {"user", "agent"}, turn : 0 .. MaxTurns, sub : 0 .. MaxSubmits,
             text : Seq(1 .. MaxChunks), pending : BOOLEAN]

\* Every variable keeps its type; the page's own requests are one of each kind.
TypeOK ==
    /\ running \in 0 .. begun /\ begun \in 0 .. MaxTurns
    /\ said \in [Turns -> 0 .. MaxChunks]
    /\ whole \in [Turns -> 0 .. MaxChunks] /\ first \in [Turns -> 0 .. MaxChunks]
    /\ \A t \in Turns : first[t] <= whole[t] /\ whole[t] <= said[t]
    /\ asked \in [Turns -> {"no", "open", "done"}] /\ sequence \in [Turns -> Nat]
    /\ stopping \in 0 .. begun
    /\ pipe \in Seq(Events) /\ stage \in {"take", "keep", "send", "legacy"}
    /\ active \in 0 .. begun /\ kept \in Seq(Events) /\ Len(kept) <= Limit
    /\ sock \in {"closed", "down", "up"} /\ breaks \in 0 .. MaxBreaks
    /\ wire \in Seq(Events) /\ (wire # <<>> => sock = "up")
    /\ get \in [pc : {"none", "asked", "read", "ready", "done"},
                events : Seq(Events), active : 0 .. MaxTurns]
    /\ page \in [messages : Seq(Messages), active : 0 .. MaxTurns, busy : BOOLEAN,
                 over : SUBSET Turns, timeline : SUBSET Turns, waiting : 0 .. MaxSubmits]
    /\ page.over \subseteq page.timeline \cup 1 .. begun
    /\ post \in [pc : {"none", "sent", "ok", "refused"}, turn : 0 .. MaxTurns]
    /\ stop \in [pc : {"none", "sent", "ok", "refused"}, turn : 0 .. MaxTurns]
    /\ submits \in 0 .. MaxSubmits /\ stops \in 0 .. MaxStops
    /\ past \subseteq {"missed", "crossed", "cut", "early"} 
    /\ got \subseteq Turns \X (1 .. MaxChunks)

NoGet == [pc |-> "none", events |-> <<>>, active |-> 0]
NoRequest == [pc |-> "none", turn |-> 0]
FreshPage == [messages |-> <<>>, active |-> 0, busy |-> FALSE, over |-> {},
              timeline |-> {}, waiting |-> 0]

Init ==
    /\ running = 0 /\ begun = 0 /\ said = [t \in Turns |-> 0]
    /\ whole = [t \in Turns |-> 0] /\ first = [t \in Turns |-> 0]
    /\ asked = [t \in Turns |-> "no"] /\ sequence = [t \in Turns |-> 0] /\ stopping = 0
    /\ pipe = <<>> /\ stage = "take" /\ active = 0 /\ kept = <<>>
    /\ sock = "closed" /\ breaks = 0 /\ wire = <<>>
    /\ get = NoGet /\ page = FreshPage /\ post = NoRequest /\ stop = NoRequest
    /\ submits = 0 /\ stops = 0 /\ past = {} /\ got = {}

-----------------------------------------------------------------------------
(* The agent and the client: every event is numbered within its turn.      *)

\* History: beside the worst that disturbed the page's view, the rest is not noted.
Noted(what) ==
    LET all == past \cup what
    IN  IF "missed" \in all THEN {"missed"}
        ELSE IF "crossed" \in all THEN {"crossed"} ELSE all

\* An event sent now crosses the page's loading.
Loading == IF get.pc \in {"asked", "read", "ready"} THEN {"crossed"} ELSE {}

Event(kind, t, chunk) ==
    [kind |-> kind, turn |-> t, seq |-> sequence[t] + 1,
     after |-> IF kind = "answer" THEN whole[t] ELSE 0, chunk |-> chunk, legacy |-> FALSE]

Emit(kind, t, chunk) ==
    /\ Len(pipe) < MaxPipe
    /\ pipe' = Append(pipe, Event(kind, t, chunk))
    /\ past' = Noted(IF t = running THEN Loading ELSE {"crossed"})

\* handleNotification, turn/started.  The count of a turn goes with its end.
\* The command that starts it waits for the loop to be done with the one before.
Begin(t) ==
    /\ running = 0 /\ stopping = 0 /\ t = begun + 1 /\ t \in Turns
    /\ Len(pipe) < MaxPipe
    /\ running' = t /\ begun' = t
    /\ pipe' = Append(pipe, Event("started", t, 0))
    /\ sequence' = [sequence EXCEPT ![t] = @ + 1]
    /\ past' = Noted(Loading)
    /\ UNCHANGED <<said, whole, first, asked, stopping>>

\* Another console starts a turn.
BeginElsewhere ==
    /\ Begin(begun + 1)
    /\ UNCHANGED <<hubVars, netVars, get, page, post, stop, counts, got>>

\* An item whose start shows nothing: isQuietLifecycleItem.
BeginQuietItem ==
    /\ running \in QuietTurns /\ sequence[running] = 1
    /\ Emit("quiet", running, 0)
    /\ sequence' = [sequence EXCEPT ![running] = @ + 1]
    /\ UNCHANGED <<running, begun, said, whole, first, asked, stopping, hubVars, netVars, get,
                   page, post, stop, counts, got>>

\* handleNotification, item/agentMessage/delta of a final message.
Stream ==
    /\ running # 0 /\ said[running] < MaxChunks
    /\ Emit("delta", running, said[running] + 1)
    /\ said' = [said EXCEPT ![running] = @ + 1]
    /\ sequence' = [sequence EXCEPT ![running] = @ + 1]
    /\ UNCHANGED <<running, begun, whole, first, asked, stopping, hubVars, netVars, get,
                   page, post, stop, counts, got>>

\* item/completed of the message: its whole text, to replace what was streamed.
\* What is streamed next is another message of the turn.
FinishAnswer ==
    /\ running # 0 /\ whole[running] < said[running]
    /\ Emit("answer", running, said[running])
    /\ first' = [first EXCEPT ![running] = whole[running]]
    /\ whole' = [whole EXCEPT ![running] = said[running]]
    /\ sequence' = [sequence EXCEPT ![running] = @ + 1]
    /\ UNCHANGED <<running, begun, said, asked, stopping, hubVars, netVars, get, page,
                   post, stop, counts, got>>

\* The agent asks for an approval.
Ask ==
    /\ running \in AskingTurns /\ asked[running] = "no"
    /\ Emit("asked", running, 0)
    /\ asked' = [asked EXCEPT ![running] = "open"]
    /\ sequence' = [sequence EXCEPT ![running] = @ + 1]
    /\ UNCHANGED <<running, begun, said, whole, first, stopping, hubVars, netVars, get, page,
                   post, stop, counts, got>>

\* Some console answers it: the command loop emits approval.resolved itself,
\* whether or not the turn has ended.  A turn that has is counted anew.
Resolve(t) ==
    /\ asked[t] = "open"
    /\ Emit("resolved", t, 0)
    /\ asked' = [asked EXCEPT ![t] = "done"]
    /\ sequence' = [sequence EXCEPT ![t] = @ + 1]
    /\ UNCHANGED <<running, begun, said, whole, first, stopping, hubVars, netVars, get, page,
                   post, stop, counts, got>>

\* turn/completed, of its own accord or because the turn is interrupted.
End ==
    /\ running # 0
    /\ Emit("ended", running, 0)
    /\ running' = 0
    /\ sequence' = [sequence EXCEPT ![running] = 0]
    /\ UNCHANGED <<begun, said, whole, first, asked>>

Complete ==
    /\ End
    /\ UNCHANGED <<stopping, hubVars, netVars, get, page, post, stop, counts, got>>

\* handleCommandEnvelope, turn.start: the agent takes it when it is at rest.  The
\* page may be told of a failure all the same: the command had timed out.
StartTurn ==
    /\ post.pc = "sent"
    /\ Begin(begun + 1)
    /\ \E told \in {"ok", "refused"} : post' = [pc |-> told, turn |-> begun + 1]
    /\ UNCHANGED <<hubVars, netVars, get, page, stop, counts, got>>

\* The agent, the client or the gateway refuses, or the command is lost.
RefuseTurn ==
    /\ post.pc = "sent"
    /\ post' = [post EXCEPT !.pc = "refused"]
    /\ UNCHANGED <<agentVars, pipe, hubVars, netVars, get, page, stop, counts, past, got>>

\* handleCommandEnvelope, turn.interrupt: the turn ends, the command is
\* answered, and the loop adds a legacy turn.completed of its own.
InterruptTurn ==
    /\ stop.pc = "sent" /\ running = stop.turn
    /\ End
    /\ stopping' = running
    /\ \E told \in {"ok", "refused"} : stop' = [stop EXCEPT !.pc = told]
    /\ UNCHANGED <<hubVars, netVars, get, page, post, counts, got>>

ReportInterrupt ==
    /\ stopping # 0 /\ Len(pipe) < MaxPipe
    /\ pipe' = Append(pipe, [kind |-> "ended", turn |-> stopping, seq |-> 0, after |-> 0,
                             chunk |-> 0, legacy |-> TRUE])
    /\ stopping' = 0
    /\ past' = Noted(Loading)
    /\ UNCHANGED <<running, begun, said, whole, first, asked, sequence, hubVars, netVars, get,
                   page, post, stop, counts, got>>

RefuseInterrupt ==
    /\ stop.pc = "sent"
    /\ stop' = [stop EXCEPT !.pc = "refused"]
    /\ UNCHANGED <<agentVars, pipe, hubVars, netVars, get, page, post, counts, past, got>>

-----------------------------------------------------------------------------
(* The gateway: handleEventEnvelope, one event at a time.                  *)

\* setActiveTurn and clearActiveTurn.
ActiveAfter(e, current) ==
    CASE e.kind = "started" -> e.turn
      [] e.kind = "ended" /\ current = e.turn -> 0
      [] OTHER -> current

\* applyTurnLifecycleEvent of a timeline event or of a legacy frame alone.
MarkActive ==
    /\ pipe # <<>> /\ stage = "take"
    /\ active' = ActiveAfter(Head(pipe), active)
    /\ stage' = IF Head(pipe).legacy THEN "legacy" ELSE "keep"
    /\ UNCHANGED <<agentVars, pipe, kept, netVars, get, page, post, stop, counts, past, got>>

\* mutant: the events of a thread pile up.
KeepEverything ==
    /\ stage = "keep"
    /\ kept' = Append(kept, Head(pipe))
    /\ stage' = "send"
    /\ UNCHANGED <<agentVars, pipe, active, netVars, get, page, post, stop, counts, past, got>>

\* AppendTimelineEvent: the oldest go when there are more than the limit.
KeepEvent ==
    /\ stage = "keep"
    /\ LET all == Append(kept, Head(pipe))
           full == Len(all) > Limit
       IN  /\ kept' = IF full THEN SubSeq(all, Len(all) - Limit + 1, Len(all)) ELSE all
           /\ past' = Noted(IF full /\ get.pc \in {"none", "asked"} THEN {"crossed"} ELSE {})
    /\ stage' = "send"
    /\ UNCHANGED <<agentVars, pipe, active, netVars, get, page, post, stop, counts, got>>

\* consoleHub.Broadcast: to the page if its socket is up.
Broadcast(frame) ==
    /\ Len(wire) < MaxWire /\ (sock = "down" => MaxBreaks > 0)
    /\ wire' = IF sock = "up" THEN Append(wire, frame) ELSE wire
    /\ past' = Noted(IF sock = "down" THEN {"missed"} ELSE {})
    /\ UNCHANGED <<agentVars, active, kept, sock, breaks, get, page, post, stop, counts, got>>

SendTimeline ==
    /\ stage = "send"
    /\ Broadcast(Head(pipe))
    /\ IF Head(pipe).kind \in LegacyKinds
         THEN stage' = "legacy" /\ UNCHANGED pipe
         ELSE stage' = "take" /\ pipe' = Tail(pipe)

\* The legacy frame that emitLegacyTurnEventForTimeline sends after the event.
SendLegacy ==
    /\ stage = "legacy"
    /\ Broadcast([Head(pipe) EXCEPT !.legacy = TRUE])
    /\ stage' = "take" /\ pipe' = Tail(pipe)

-----------------------------------------------------------------------------
(* The page's messages.                                                    *)

\* The chunks from the one after the b-th to the n-th.
Chunks(b, n) == [i \in 1 .. n - b |-> b + i]

IsAgent(m, t) == m.kind = "agent" /\ m.turn = t

Settle(m) == [m EXCEPT !.pending = FALSE]

\* mutant: the complete text is appended to what was streamed.
MergeTextAppended(text, e) ==
    CASE e.kind = "delta" -> Append(text, e.chunk)
      [] e.kind = "answer" -> text \o Chunks(e.after, e.chunk)
      [] OTHER -> text

\* mergeAgentTimelineEvent: a delta is appended, a complete text replaces all that the
\* turn shows, an earlier message of the turn included.
MergeText(text, e) ==
    CASE e.kind = "delta" -> Append(text, e.chunk)
      [] e.kind = "answer" -> Chunks(e.after, e.chunk)
      [] OTHER -> text

\* What the first message of the turn becomes, or what a new one is.  An item
\* that shows nothing leaves even the pending mark.
MergeMessage(m, e) ==
    IF e.kind = "quiet" THEN m ELSE [Settle(m) EXCEPT !.text = MergeText(@, e)]

NewMessage(t) == [kind |-> "agent", turn |-> t, sub |-> 0, text |-> <<>>, pending |-> FALSE]

Mine(messages, t) == {i \in DOMAIN messages : IsAgent(messages[i], t)}

\* mergeTimelineEventIntoMessages
Merge(messages, e) ==
    LET mine == Mine(messages, e.turn)
    IN  IF mine # {} THEN [messages EXCEPT ![Min(mine)] = MergeMessage(@, e)]
        ELSE IF e.kind \in {"started", "quiet", "ended"} THEN messages
        ELSE Append(messages, MergeMessage(NewMessage(e.turn), e))

\* The i-th event comes no earlier than the j-th.  A stable sort.
NoLater(events, j, i) ==
    events[j].seq < events[i].seq \/ (events[j].seq = events[i].seq /\ j <= i)
Place(events, i) == Cardinality({j \in DOMAIN events : NoLater(events, j, i)})

\* [...events].sort((left, right) => left.sequence - right.sequence)
BySequence(events) ==
    [n \in DOMAIN events |-> events[CHOOSE i \in DOMAIN events : Place(events, i) = n]]

\* buildTimelineWorkspaceMessages: the events are merged one by one.
MergeAll(events) ==
    LET upTo[n \in 0 .. Len(events)] ==
            IF n = 0 THEN <<>> ELSE Merge(upTo[n - 1], events[n])
    IN  upTo[Len(events)]

History(events) == MergeAll(BySequence(events))

IsPlaceholder(p, m) == m.kind = "agent" /\ p.waiting # 0 /\ m.sub = p.waiting

\* bindPendingAgentMessageToTurn
Bind(p, t) ==
    [p EXCEPT !.waiting = 0,
              !.messages = [i \in DOMAIN @ |->
                  IF IsPlaceholder(p, @[i]) THEN [Settle(@[i]) EXCEPT !.turn = t] ELSE @[i]]]

Placeholders(p) == {i \in DOMAIN p.messages : IsPlaceholder(p, p.messages[i])}

\* messages.filter(...): no two messages have the same id.
DropPlaceholder(p) ==
    [p EXCEPT !.waiting = 0,
              !.messages = IF Placeholders(p) = {} THEN @ ELSE RemoveAt(@, Min(Placeholders(p)))]

Else(current, t) == IF current = 0 THEN t ELSE current
Unless(current, t) == IF current = t THEN 0 ELSE current

\* The page's handling of a completion the timeline reports.
Completed(p, t) ==
    DropPlaceholder([p EXCEPT !.over = @ \cup {t}, !.busy = FALSE,
                              !.active = Unless(@, t)])

\* Of any other timeline event.
Progressed(p, e) ==
    Bind([p EXCEPT !.over = @ \ {e.turn}, !.busy = FALSE,
                   !.active = IF e.kind = "started" THEN e.turn ELSE Else(@, e.turn)], e.turn)

HandleTimeline(p, e) ==
    LET seen == [p EXCEPT !.timeline = @ \cup {e.turn}]
        next == IF e.kind = "ended" THEN Completed(seen, e.turn) ELSE Progressed(seen, e)
    IN  [next EXCEPT !.messages = Merge(@, e)]

\* The message takes the turn and the chunk.
Lengthened(m, e) == [Settle(m) EXCEPT !.turn = e.turn, !.text = Append(@, e.chunk)]

\* appendTurnDelta: into the last message if it is the turn's or the placeholder.
LegacyDelta(p, e) ==
    LET last == Len(p.messages)
        base == [p EXCEPT !.over = @ \ {e.turn}, !.busy = FALSE, !.active = Else(@, e.turn)]
        mine == last # 0 /\ (IsAgent(p.messages[last], e.turn) \/ IsPlaceholder(p, p.messages[last]))
    IN  IF mine
        THEN [base EXCEPT !.waiting = IF IsPlaceholder(p, p.messages[last]) THEN 0 ELSE @,
                          !.messages[last] = Lengthened(@, e)]
        ELSE [base EXCEPT !.messages =
                  Append(@, [NewMessage(e.turn) EXCEPT !.text = <<e.chunk>>])]

LegacyStarted(p, t) ==
    Bind([p EXCEPT !.over = @ \ {t}, !.busy = FALSE, !.active = t], t)

LegacyEnded(p, t) ==
    [p EXCEPT !.over = @ \cup {t}, !.active = Unless(@, t),
              !.messages = [i \in DOMAIN @ |->
                  IF IsAgent(@[i], t) THEN Settle(@[i]) ELSE @[i]]]

\* mutant: both protocols' frames count.
HandleLegacyAlways(p, e) ==
    CASE e.kind = "started" -> LegacyStarted(p, e.turn)
      [] e.kind = "delta" -> LegacyDelta(p, e)
      [] OTHER -> LegacyEnded(p, e.turn)

\* A legacy frame counts only for a turn no timeline event has told of.
HandleLegacy(p, e) ==
    CASE e.turn \in p.timeline -> p
      [] e.turn \notin p.timeline /\ e.kind = "started" -> LegacyStarted(p, e.turn)
      [] e.turn \notin p.timeline /\ e.kind = "delta" -> LegacyDelta(p, e)
      [] OTHER -> LegacyEnded(p, e.turn)

-----------------------------------------------------------------------------
(* The page.                                                               *)

\* The two effects of useThreadWorkspace: fetch the thread, open the socket.
Open ==
    /\ get.pc = "none"
    /\ get' = [get EXCEPT !.pc = "asked"]
    /\ sock' = "down"
    /\ past' = Noted(IF running # 0 \/ pipe # <<>> \/ stopping # 0 THEN {"crossed"} ELSE {})
    /\ UNCHANGED <<agentVars, pipe, hubVars, breaks, wire, page, post, stop, counts, got>>

\* GET /threads/{threadId} reads the events, then the active turn.
ReadEvents ==
    /\ get.pc = "asked"
    /\ get' = [get EXCEPT !.pc = "read", !.events = kept]
    /\ UNCHANGED <<agentVars, pipe, hubVars, netVars, page, post, stop, counts, past, got>>

ReadActive ==
    /\ get.pc = "read"
    /\ get' = [get EXCEPT !.pc = "ready", !.active = active]
    /\ UNCHANGED <<agentVars, pipe, hubVars, netVars, page, post, stop, counts, past, got>>

\* What loadWorkspace makes of the answer: only what is not there yet.
Loaded(p) ==
    [p EXCEPT !.active = Else(@, get.active),
              !.messages = IF @ = <<>> THEN History(get.events) ELSE @]

LoadAnswered ==
    /\ get.pc = "ready"
    /\ page' = Loaded(page)
    /\ get' = [NoGet EXCEPT !.pc = "done"]
    /\ UNCHANGED <<agentVars, pipe, hubVars, netVars, post, stop, counts, past, got>>

LoadFailed ==
    /\ get.pc \in {"asked", "ready"} /\ MaxBreaks > 0
    /\ get' = [NoGet EXCEPT !.pc = "done"]
    /\ past' = Noted({"missed"})
    /\ UNCHANGED <<agentVars, pipe, hubVars, netVars, page, post, stop, counts, got>>

\* connectConsoleSocket: a socket that breaks is made again, and that is all.
Connect ==
    /\ sock = "down"
    /\ sock' = "up"
    /\ UNCHANGED <<agentVars, pipe, hubVars, breaks, wire, get, page, post, stop, counts,
                   past, got>>

Break ==
    /\ sock = "up" /\ breaks < MaxBreaks
    /\ sock' = "down" /\ breaks' = breaks + 1 /\ wire' = <<>>
    /\ past' = Noted(IF wire # <<>> THEN {"missed"} ELSE {})
    /\ UNCHANGED <<agentVars, pipe, hubVars, get, page, post, stop, counts, got>>

\* The socket's handler.
HandleFrame ==
    /\ wire # <<>>
    /\ LET e == Head(wire)
       IN  /\ page' = IF e.legacy THEN HandleLegacy(page, e) ELSE HandleTimeline(page, e)
           /\ got' = IF e.kind = "answer" THEN got \cup {<<e.turn, e.chunk>>} ELSE got
    /\ wire' = Tail(wire)
    /\ UNCHANGED <<agentVars, pipe, hubVars, sock, breaks, get, post, stop, counts, past>>

\* handlePromptSubmit up to its await: the prompt and a placeholder are shown.
Submitted(p, n) ==
    [p EXCEPT !.busy = TRUE, !.waiting = n,
              !.messages = @ \o <<
                  [kind |-> "user", turn |-> 0, sub |-> n, text |-> <<>>, pending |-> FALSE],
                  [kind |-> "agent", turn |-> 0, sub |-> n, text |-> <<>>, pending |-> TRUE]>>]

Submit ==
    /\ get.pc # "none" /\ post.pc = "none" /\ page.active = 0 /\ submits < MaxSubmits
    /\ submits' = submits + 1 /\ UNCHANGED stops
    /\ page' = Submitted(page, submits + 1)
    /\ post' = [pc |-> "sent", turn |-> 0]
    /\ past' = Noted(IF get.pc # "done" THEN {"crossed"}
                      ELSE IF pipe # <<>> \/ wire # <<>> \/ running # 0 THEN {"early"}
                      ELSE {})
    /\ UNCHANGED <<agentVars, pipe, hubVars, netVars, get, stop, got>>

\* mutant: the turn of the answer is the active one though it is over.
AcceptedAnyhow(p, t) ==
    LET idle == [p EXCEPT !.busy = FALSE]
    IN  [IF p.waiting = submits THEN Bind(idle, t) ELSE idle
           EXCEPT !.active = Else(p.active, t)]

\* After the await: the turn is the page's unless it is over already.
Accepted(p, t) ==
    LET idle == [p EXCEPT !.busy = FALSE]
    IN  IF t \in p.over THEN idle
        ELSE [IF p.waiting = submits THEN Bind(idle, t) ELSE idle
                EXCEPT !.active = Else(p.active, t)]

SubmitAnswered ==
    /\ post.pc = "ok"
    /\ page' = Accepted(page, post.turn)
    /\ post' = NoRequest
    /\ UNCHANGED <<agentVars, pipe, hubVars, netVars, get, stop, counts, past, got>>

\* mutant: a refused prompt leaves the reply it awaited.
RejectedKeepsAwaited(p) == [p EXCEPT !.busy = FALSE]

\* The error path of handlePromptSubmit.
Rejected(p) ==
    LET idle == [p EXCEPT !.busy = FALSE]
    IN  IF p.waiting = submits THEN DropPlaceholder(idle) ELSE idle

SubmitRefused ==
    /\ post.pc = "refused"
    /\ page' = Rejected(page)
    /\ post' = NoRequest
    /\ UNCHANGED <<agentVars, pipe, hubVars, netVars, get, stop, counts, past, got>>

\* handleInterrupt, which clears the active turn whichever it is by then.
Interrupt ==
    /\ page.active # 0 /\ stop.pc = "none" /\ stops < MaxStops
    /\ stops' = stops + 1 /\ UNCHANGED submits
    /\ stop' = [pc |-> "sent", turn |-> page.active]
    /\ UNCHANGED <<agentVars, pipe, hubVars, netVars, get, page, post, past, got>>

InterruptAnswered ==
    /\ stop.pc = "ok"
    /\ page' = [page EXCEPT !.active = 0]
    /\ past' = Noted(IF page.active \notin {0, stop.turn} THEN {"cut"} ELSE {})
    /\ stop' = NoRequest
    /\ UNCHANGED <<agentVars, pipe, hubVars, netVars, get, post, counts, got>>

InterruptRefused ==
    /\ stop.pc = "refused"
    /\ stop' = NoRequest
    /\ UNCHANGED <<agentVars, pipe, hubVars, netVars, get, page, post, counts, past, got>>

-----------------------------------------------------------------------------
Next ==
    \/ BeginElsewhere \/ BeginQuietItem \/ Stream \/ FinishAnswer \/ Ask
    \/ \E t \in Turns : Resolve(t)
    \/ Complete \/ StartTurn \/ RefuseTurn
    \/ InterruptTurn \/ ReportInterrupt \/ RefuseInterrupt
    \/ MarkActive \/ KeepEvent \/ SendTimeline \/ SendLegacy
    \/ Open \/ ReadEvents \/ ReadActive \/ LoadAnswered \/ LoadFailed
    \/ Connect \/ Break \/ HandleFrame
    \/ Submit \/ SubmitAnswered \/ SubmitRefused
    \/ Interrupt \/ InterruptAnswered \/ InterruptRefused

Spec == Init /\ [][Next]_vars

-----------------------------------------------------------------------------
\* Nothing is under way and the page has loaded and is connected.
Settled ==
    /\ pipe = <<>> /\ wire = <<>> /\ stopping = 0
    /\ get.pc = "done" /\ sock = "up" /\ post.pc = "none" /\ stop.pc = "none"

TextsShown(t) ==
    {page.messages[i].text : i \in {j \in DOMAIN page.messages : IsAgent(page.messages[j], t)}}

\* What a turn shows: its last complete message and what was streamed after it.  It is
\* all of a turn of one message; of a turn of several the design (timeline design:269)
\* lets each have a bubble of its own, but the page keeps none before the last complete.
Answer(t) == Chunks(first[t], said[t])

\* Once the page was told of the complete text of a turn's last message, it shows
\* exactly that text for the turn, whatever it lost, repeated or read out of order
\* before.
AnswerIsWhole == \A t \in DOMAIN said : <<t, said[t]>> \in got => Answer(t) \in TextsShown(t)

\* A page that lost nothing, was not opened into the middle of a turn and sent no
\* prompt before the end of the turn before had reached it shows for every turn, in one
\* message, its last complete message and every chunk after it, once and in order:
\* neither the legacy frames nor the answers to its own requests repeat or tear
\* anything, and the reload shows what the stream did.
CalmTextIsTrue ==
    Settled /\ past \subseteq {"cut"} =>
        \A t \in DOMAIN said :
            TextsShown(t) \subseteq {Answer(t)} /\ (said[t] > 0 => TextsShown(t) # {})

\* Such a page, its prompts early or not, offers a prompt exactly when the agent is
\* at rest, also when the answer to its own prompt comes after that prompt's turn.
CalmActiveIsTrue == Settled /\ past \subseteq {"early"} => page.active = running

\* A page with no prompt on its way shows no reply as awaited, unless it lost
\* frames.
PlaceholderGoes ==
    post.pc = "none" /\ "missed" \notin past =>
        \A i \in DOMAIN page.messages : ~page.messages[i].pending

-----------------------------------------------------------------------------
(* The inductive invariant.  Its parts are about ever calmer pages.        *)

\* Nothing that is not over crossed the page's loading, and no frame was lost.
Smooth == past \subseteq {"early", "cut"}

\* The frames of the timeline still to come to the page, and the events still to
\* reach the gateway's marking and its store.
ToSend == {i \in DOMAIN pipe : ~pipe[i].legacy /\ (i = 1 => stage # "legacy")}
ToKeep == {i \in DOMAIN pipe : ~pipe[i].legacy /\ (i = 1 => stage \in {"take", "keep"})}
ToMark == {i \in DOMAIN pipe : i = 1 => stage = "take"}
Sent == {i \in DOMAIN wire : ~wire[i].legacy}
Coming == {wire[i] : i \in Sent} \cup {pipe[i] : i \in ToSend}

\* What an event says was so when it was sent and has not changed.
Sound(e) ==
    /\ e.turn <= begun
    /\ e.kind = "delta" => e.chunk \in 1 .. said[e.turn]
    /\ e.kind = "answer" =>
          /\ e.after < e.chunk /\ e.chunk <= whole[e.turn]
          /\ e.chunk = whole[e.turn] => e.after = first[e.turn]
    /\ e.legacy => e.kind \in LegacyKinds

EventInv ==
    /\ \A i \in DOMAIN pipe : Sound(pipe[i]) /\ (pipe[i].legacy => pipe[i].kind = "ended")
    /\ \A i \in DOMAIN wire : Sound(wire[i])
    /\ \A i \in DOMAIN kept : Sound(kept[i]) /\ ~kept[i].legacy
    /\ \A i \in DOMAIN get.events : Sound(get.events[i]) /\ ~get.events[i].legacy
    /\ \A x \in got : x[2] <= whole[x[1]]

\* Where the agent, the gateway, the page and its requests can be together.
StageInv ==
    /\ running \in {0, begun} /\ \A t \in Turns : asked[t] # "no" => t <= begun
    /\ stage # "take" => pipe # <<>>
    /\ stage \in {"keep", "send"} => ~Head(pipe).legacy
    /\ stage = "legacy" => Head(pipe).kind \in LegacyKinds
    /\ get.pc = "none" <=> sock = "closed"
    /\ get.pc = "none" =>
          get = NoGet /\ page = FreshPage /\ post.pc = "none" /\ stop.pc = "none"
    /\ post.pc # "none" => page.waiting \in {0, submits} /\ submits # 0
    /\ post.pc = "ok" => post.turn \in 1 .. begun
    /\ stop.pc = "ok" => stop.turn \in 1 .. begun /\ stop.turn # running

\* No chunk comes after the complete text that ends the turn's chunks.
IsLast(e) == e.kind = "answer" /\ e.chunk = said[e.turn]
AnswerLast ==
    /\ \A i, j \in DOMAIN pipe :
          i < j /\ IsLast(pipe[i]) /\ pipe[j].turn = pipe[i].turn =>
              pipe[j].kind \notin {"delta", "answer"}
    /\ \A i, j \in DOMAIN wire :
          i < j /\ IsLast(wire[i]) /\ wire[j].turn = wire[i].turn =>
              wire[j].kind \notin {"delta", "answer"}
    /\ \A i \in DOMAIN wire, j \in DOMAIN pipe :
          IsLast(wire[i]) /\ pipe[j].turn = wire[i].turn =>
              pipe[j].kind \notin {"delta", "answer"}
    /\ \A i \in DOMAIN wire :
          <<wire[i].turn, said[wire[i].turn]>> \in got => wire[i].kind \notin {"delta", "answer"}
    /\ \A j \in DOMAIN pipe :
          <<pipe[j].turn, said[pipe[j].turn]>> \in got => pipe[j].kind \notin {"delta", "answer"}

\* The one message that may be awaited is the last prompt's, of no turn yet.
AwaitedInv ==
    /\ page.waiting \in {0, submits} /\ page.timeline \subseteq 1 .. begun
    /\ \A i \in DOMAIN page.messages :
          /\ page.messages[i].sub <= submits
          /\ page.messages[i].turn <= begun
          /\ IsPlaceholder(page, page.messages[i]) =>
                page.messages[i].turn = 0 /\ page.messages[i].text = <<>>
    /\ \A i, j \in DOMAIN page.messages :
          IsPlaceholder(page, page.messages[i]) /\ IsPlaceholder(page, page.messages[j]) => i = j

\* The page hears of the turn from its timeline first.
Told(t) ==
    \/ t \in page.timeline
    \/ \E k \in Sent : wire[k].turn = t /\ \A j \in DOMAIN wire : j < k => wire[j].turn # t
    \/ /\ \A j \in DOMAIN wire : wire[j].turn # t
       /\ \E k \in ToSend : pipe[k].turn = t /\ \A j \in DOMAIN pipe : j < k => pipe[j].turn # t

\* A page that lost no frame awaits the reply of its own prompt alone, until it hears
\* of the turn of that prompt.
PendingInv ==
    "missed" \notin past =>
        /\ \A i \in DOMAIN page.messages :
              page.messages[i].pending => IsPlaceholder(page, page.messages[i])
        /\ page.waiting # 0 => post.pc # "none"
        /\ post.pc = "ok" => /\ Told(post.turn)
                             /\ post.turn \in page.over => post.turn \in page.timeline
                             /\ post.turn \in page.timeline => page.waiting = 0

\* The gateway's active turn is the agent's, but for the events it has yet to mark.
ActiveInv ==
    /\ \A i, j \in DOMAIN pipe :
          i < j /\ pipe[j].kind = "started" => pipe[i].turn < pipe[j].turn
    /\ \A i \in DOMAIN pipe : pipe[i].kind = "ended" => pipe[i].turn # running
    /\ stopping # 0 => stopping # running
    /\ \A i \in ToMark : pipe[i].kind = "started" =>
          /\ active < pipe[i].turn
          /\ pipe[i].turn = running
                \/ \E j \in ToMark : pipe[j].kind = "ended" /\ pipe[j].turn = pipe[i].turn
    /\ running # 0 =>
          \/ active = running
          \/ \E i \in ToMark : pipe[i].kind = "started" /\ pipe[i].turn = running
    /\ active \in {0, running}
          \/ \E j \in ToMark : pipe[j].kind = "ended" /\ pipe[j].turn = active

\* The order in which the agent's events come: turns do not overlap, numbers grow,
\* the chunks are in order and the text of a message between its chunks and the next.
Spoken == {"delta", "answer"}
Before(e, f) ==
    /\ e.turn <= f.turn
    /\ e.turn = f.turn =>
          /\ e.seq < f.seq /\ e.kind # "ended"
          /\ e.kind \in Spoken /\ f.kind \in Spoken =>
                e.chunk < f.chunk \/ (e.chunk = f.chunk /\ e.kind = "delta" /\ f.kind = "answer")

Ordered(events) ==
    \A i, j \in DOMAIN events :
        i < j /\ ~events[i].legacy /\ ~events[j].legacy => Before(events[i], events[j])

\* The next event of the running turn comes after this one.
Past(e) ==
    e.turn = running => e.seq <= sequence[running] /\ e.kind # "ended"

OrderInv ==
    Smooth =>
        /\ Ordered(pipe) /\ Ordered(wire) /\ Ordered(kept) /\ Ordered(get.events)
        /\ \A i \in Sent, j \in ToSend : Before(wire[i], pipe[j])
        /\ \A i \in DOMAIN kept, j \in ToKeep : Before(kept[i], pipe[j])
        /\ \A i \in DOMAIN pipe : ~pipe[i].legacy => Past(pipe[i])
        /\ \A i \in Sent : Past(wire[i])
        /\ \A i \in DOMAIN kept : Past(kept[i])

IsChunk(e, t, d) == e.kind = "delta" /\ e.turn = t /\ e.chunk = d

\* The complete text of the turn's last complete message, if there is one.
IsText(e, t) == e.kind = "answer" /\ e.turn = t /\ e.chunk = whole[t]

\* Every chunk of every turn is among the events, and the last complete text.
Whole(events) ==
    \A t \in Turns :
        /\ \A d \in 1 .. said[t] : \E i \in DOMAIN events : IsChunk(events[i], t, d)
        /\ whole[t] # 0 => \E i \in DOMAIN events : IsText(events[i], t)

\* What a page that opens between turns can read.
KeptInv ==
    Smooth =>
        /\ get.pc = "none" =>
              \A t \in Turns :
                  /\ \A d \in 1 .. said[t] :
                        \/ \E i \in DOMAIN kept : IsChunk(kept[i], t, d)
                        \/ \E i \in ToKeep : IsChunk(pipe[i], t, d)
                  /\ whole[t] # 0 =>
                        \/ \E i \in DOMAIN kept : IsText(kept[i], t)
                        \/ \E i \in ToKeep : IsText(pipe[i], t)
        /\ get.pc \in {"asked", "read", "ready"} =>
              /\ running = 0 /\ stopping = 0 /\ pipe = <<>> /\ wire = <<>>
              /\ page = FreshPage /\ post.pc = "none" /\ stop.pc = "none"
              /\ get.active = 0
        /\ get.pc = "asked" => Whole(kept)
        /\ get.pc \in {"read", "ready"} => Whole(get.events)

\* Nothing of the turn is to come.
Silent(t) ==
    /\ running # t /\ stopping # t
    /\ \A i \in DOMAIN pipe : pipe[i].turn # t
    /\ \A i \in DOMAIN wire : wire[i].turn # t

\* What is to come to a page that opened between turns and lost nothing.
FrameInv ==
    Smooth /\ get.pc = "done" =>
        /\ \A t \in Turns : Told(t) \/ Silent(t)
        /\ \A e \in Coming :
              /\ \A t \in page.timeline : t <= e.turn
              /\ e.turn = running \/ \E f \in Coming : f.kind = "ended" /\ f.turn = e.turn
        /\ \A t \in page.timeline \ page.over :
              t = running \/ \E f \in Coming : f.kind = "ended" /\ f.turn = t
        /\ running # 0 =>
              \/ running \in page.timeline
              \/ \E e \in Coming : e.kind = "started" /\ e.turn = running

\* The page's active turn is the agent's, but for the frames that are to come.
PageActiveInv ==
    past \subseteq {"early"} /\ get.pc = "done" =>
        /\ running # 0 =>
              \/ page.active = running /\ running \in page.timeline
              \/ \E e \in Coming : e.kind = "started" /\ e.turn = running
        /\ page.active \in {0, running}
              \/ \E e \in Coming : e.kind = "ended" /\ e.turn = page.active

\* The turn has at most one message, which shows the chunks from b to k.
Shows(messages, t, b, k) ==
    /\ \A i \in Mine(messages, t) : messages[i].text = Chunks(b, k)
    /\ \A i, j \in Mine(messages, t) : i = j
    /\ Mine(messages, t) = {} => b = 0 /\ k = 0

\* The page shows the chunks that are not to come, from where the last complete message
\* begins unless its text is to come, and binds the reply it awaits to a turn that has
\* no message.
TextInv ==
    past \subseteq {"cut"} /\ get.pc = "done" =>
        /\ \A t \in Turns : \E k \in 0 .. said[t] : \E b \in 0 .. k :
              /\ Shows(page.messages, t, b, k)
              /\ \A d \in 1 .. said[t] : d > k <=> \E e \in Coming : IsChunk(e, t, d)
              /\ \A e \in Coming : e.kind = "answer" /\ e.turn = t => k <= e.chunk
              /\ \/ \E e \in Coming : IsText(e, t)
                 \/ b = first[t] /\ \A e \in Coming : ~(e.kind = "answer" /\ e.turn = t)
        /\ page.waiting # 0 =>
              \A t \in Turns :
                  (t = running \/ \E e \in Coming : e.turn = t) => Mine(page.messages, t) = {}

IInv ==
    /\ TypeOK /\ EventInv /\ StageInv /\ AnswerLast /\ AnswerIsWhole /\ AwaitedInv
    /\ PendingInv /\ ActiveInv /\ OrderInv /\ KeptInv /\ FrameInv /\ PageActiveInv /\ TextInv
=============================================================================
