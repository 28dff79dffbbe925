---------------------------- MODULE ThreadTables ----------------------------
(***************************************************************************)
(* What the gateway knows of the threads of one machine, kept in five      *)
(* tables with a lock each: snapshotByMachine and activeTurns of           *)
(* gateway/internal/websocket/client_hub.go (h.mu), runtimeindex/store.go, *)
(* routing/router.go, and deletedThreads of api/server.go.                 *)
(*                                                                         *)
(* They are written by the goroutine of each connection the machine makes, *)
(* one frame at a time and one lock after another, and by the handlers of  *)
(* the HTTP API after the answer to their command has come.  An action is  *)
(* one critical section.                                                   *)
(*                                                                         *)
(* A thread's entry keeps only whether its status is known: everything     *)
(* else of domain.Thread (title, activity, messages) is abstracted.  All   *)
(* threads are of one machine, so a route is the fact that there is one,   *)
(* and the index's own threadRoutes are the threads it lists.  Waiters and *)
(* timeouts are ClientHub's: here a waiting request may just fail.         *)
(***************************************************************************)
EXTENDS Naturals, Sequences, FiniteSets

CONSTANTS Threads,     \* public thread ids
          Existing,    \* those the agent has when the client starts
          Conns,       \* connections of the machine, each made at most once
          Consoles,    \* HTTP callers, each with one request at a time
          None,        \* no connection, no turn, no thread
          MaxTurns,    \* bound: turns started
          MaxRequests  \* bound: HTTP requests made

ASSUME ThreadTablesAssumption ==
    /\ Threads # {} /\ Existing \subseteq Threads
    /\ None \notin Conns \cup Threads
    /\ MaxTurns \in Nat /\ None \notin 1..MaxTurns
    /\ MaxRequests \in Nat

VARIABLES
    \* the machine (external): its agent and its current connection
    born,      \* threads ever created
    held,      \* threads the agent has and has not archived
    running,   \* the turn the agent runs in a thread, or None
    turns,     \* turns started so far: the next turn id
    live,      \* the connection the client process uses, or None
    owes,      \* its command loop owes a thread.snapshot
    wire,      \* frames written by the machine and not yet read
    strays,    \* commands that command loops of lost connections are still at
    unlisted,  \* history: such a command has changed the agent's threads after the
               \* last thread.snapshot of the live connection
    commands,  \* commands written to the machine and not yet handled
    \* the gateway
    owner,     \* h.clients[machine]
    connPC,    \* each connection's goroutine
    doing,     \* the frame it handles
    copy,      \* threadsToStore: its copy of the snapshot, made under h.mu
    snap,      \* h.snapshotByMachine[machine].threads
    hasSnap,   \* whether h.snapshotByMachine has the machine
    active,    \* h.activeTurns
    index,     \* runtimeIndex.threadsByMachine[machine]
    router,    \* threads the router has a route for
    deleted,   \* deletedThreads
    req,       \* each console's HTTP request
    requests,  \* requests made so far: the last request id
    late,      \* history: something was written on behalf of a connection
               \* that had lost the machine, or from a stale copy of a thread
    raced      \* history: threads marked deleted while another request on the
               \* thread was under way

machineVars == <<born, held, running, turns, live, owes, strays, unlisted>>
hubVars == <<owner, connPC, doing, copy, snap, hasSnap, active>>
viewVars == <<index, router, deleted, raced>>
vars == <<machineVars, wire, commands, hubVars, viewVars, req, requests, late>>

Entry == {"absent", "known", "unknown"}
Turns == 1..MaxTurns
Ids == 1..MaxRequests

\* the operations of the API on one thread, and the commands they send
Ops == {"create", "read", "resume", "archive", "delete", "rename", "start", "interrupt"}
Commands == {"create", "read", "resume", "archive", "start", "interrupt"}

Snapshot(S) == [kind |-> "snapshot", threads |-> S]
Started(t, u) == [kind |-> "started", thread |-> t, turn |-> u]
Ended(t, u) == [kind |-> "ended", thread |-> t, turn |-> u]
Done(m) == [kind |-> "done", cmd |-> m.cmd, thread |-> m.thread, id |-> m.id]
Rejected(m) == [kind |-> "rejected", id |-> m.id]
Register == [kind |-> "register"]

Frames ==
    [kind : {"snapshot"}, threads : SUBSET Threads]
        \cup [kind : {"started", "ended"}, thread : Threads, turn : Turns]
        \cup [kind : {"done"}, cmd : Commands, thread : Threads, id : Ids]
        \cup [kind : {"rejected"}, id : Ids]
        \cup {Register}

NoRequest == [op |-> "none", pc |-> "idle", thread |-> None, id |-> 0,
              cmd |-> "none", via |-> None, seen |-> "absent", again |-> FALSE]

TypeOK ==
    /\ born \subseteq Threads /\ held \subseteq born
    /\ running \in [Threads -> Turns \cup {None}]
    /\ turns \in 0..MaxTurns
    /\ live \in Conns \cup {None} /\ owes \in BOOLEAN
    /\ \A c \in Conns : wire[c] \in Seq(Frames)
    /\ strays \subseteq [cmd : Commands, thread : Threads, id : Ids]
    /\ unlisted \in BOOLEAN
    /\ commands \in Seq([cmd : Commands, thread : Threads, id : Ids])
    /\ owner \in Conns \cup {None}
    /\ connPC \in [Conns -> {"new", "reading", "apply", "store", "route", "answer", "gone"}]
    /\ \A c \in Conns : connPC[c] \in {"apply", "store", "route", "answer"} => doing[c] \in Frames
    /\ copy \in [Conns -> [Threads -> Entry]]
    /\ snap \in [Threads -> Entry] /\ hasSnap \in BOOLEAN
    /\ active \in [Threads -> Turns \cup {None}]
    /\ index \in [Threads -> Entry]
    /\ router \subseteq Threads /\ deleted \subseteq Threads
    /\ requests \in 0..MaxRequests
    /\ late \in BOOLEAN /\ raced \subseteq Threads
    /\ \A k \in Consoles :
          /\ req[k].op \in Ops \cup {"none"}
          /\ req[k].pc \in {"idle", "waiting", "failed", "track", "upsert", "clear",
                            "mark", "remove", "rename"}

\* the entries of a snapshot that lists S: normalizeThreads, mergeThreadActivities
Known(S) == [t \in Threads |-> IF t \in S THEN "known" ELSE "absent"]
Nothing == Known({})
Mark(table) == [t \in Threads |-> IF table[t] = "absent" THEN "absent" ELSE "unknown"]
Listed(table) == {t \in Threads : table[t] # "absent"}

Init ==
    /\ born = Existing
    /\ held = Existing
    /\ running = [t \in Threads |-> None]
    /\ turns = 0
    /\ live = None
    /\ owes = FALSE
    /\ strays = {}
    /\ unlisted = FALSE
    /\ wire = [c \in Conns |-> <<>>]
    /\ commands = <<>>
    /\ owner = None
    /\ connPC = [c \in Conns |-> "new"]
    /\ doing = [c \in Conns |-> Register]
    /\ copy = [c \in Conns |-> Nothing]
    /\ snap = Nothing
    /\ hasSnap = FALSE
    /\ active = [t \in Threads |-> None]
    /\ index = Nothing
    /\ router = {}
    /\ deleted = {}
    /\ req = [k \in Consoles |-> NoRequest]
    /\ requests = 0
    /\ late = FALSE
    /\ raced = {}

-----------------------------------------------------------------------------
(* The machine, modelled from what the gateway and the client send each    *)
(* other: one connection at a time, one command loop per connection, and a *)
(* thread.snapshot after each command that may change the list.  The loop  *)
(* of a lost connection still finishes the command it is at, perhaps when  *)
(* the next connection has long sent its snapshot.                         *)

Write(frames) ==
    wire' = IF live = None THEN wire ELSE [wire EXCEPT ![live] = @ \o frames]

\* runClient: dial, register, and the first snapshot to come
Connect(c) ==
    /\ live = None
    /\ connPC[c] = "new"
    /\ live' = c
    /\ owes' = TRUE
    /\ wire' = [wire EXCEPT ![c] = <<Register>>]
    /\ connPC' = [connPC EXCEPT ![c] = "reading"]
    /\ UNCHANGED <<born, held, running, turns, strays, unlisted, commands, owner, doing,
                   copy, snap, hasSnap, active, viewVars, req, requests, late>>

\* The connection breaks: commands on it are lost, frames may still be read.
\* runConnection does not wait for runCommandLoop, which may be inside a command.
Break ==
    /\ live # None
    /\ live' = None
    /\ owes' = FALSE
    /\ commands' = <<>>
    /\ \/ UNCHANGED strays
       \/ ~owes /\ commands # <<>> /\ strays' = strays \cup {Head(commands)}
    /\ UNCHANGED <<born, held, running, turns, unlisted, wire, hubVars, viewVars, req,
                   requests, late>>

\* refreshThreadSnapshot, and sendLiveSnapshot of a new session
SendSnapshot ==
    /\ live # None /\ owes
    /\ owes' = FALSE
    /\ unlisted' = FALSE
    /\ Write(<<Snapshot(held)>>)
    /\ UNCHANGED <<born, held, running, turns, live, strays, commands, hubVars, viewVars,
                   req, requests, late>>

\* a turn ends by itself; without a connection its event is lost
TurnEnds(t) ==
    /\ running[t] # None
    /\ running' = [running EXCEPT ![t] = None]
    /\ Write(<<Ended(t, running[t])>>)
    /\ UNCHANGED <<born, held, turns, live, owes, strays, unlisted, commands, hubVars,
                   viewVars, req, requests, late>>

\* what the commands do to the agent
Creates(n) ==
    /\ n \in Threads \ born
    /\ born' = born \cup {n} /\ held' = held \cup {n}
    /\ UNCHANGED <<running, turns>>

Archives(t) ==
    /\ t \in held
    /\ held' = held \ {t}
    /\ running' = [running EXCEPT ![t] = None]
    /\ UNCHANGED <<born, turns>>

Starts(t) ==
    /\ t \in held /\ running[t] = None
    /\ turns < MaxTurns /\ turns' = turns + 1
    /\ running' = [running EXCEPT ![t] = turns + 1]
    /\ UNCHANGED <<born, held>>

Interrupts(t) ==
    /\ running[t] # None
    /\ running' = [running EXCEPT ![t] = None]
    /\ UNCHANGED <<born, held, turns>>

\* The frames that the command loop sends of it.  Each turn event is sent as
\* timeline.event and again as turn.*: one frame here, since the second changes
\* nothing.
CreateThread(m) ==
    /\ m.cmd = "create"
    /\ \E n \in Threads : Creates(n) /\ Write(<<Done([m EXCEPT !.thread = n])>>)
    /\ owes' = TRUE

ReadOrResumeThread(m) ==
    /\ m.cmd \in {"read", "resume"} /\ m.thread \in held
    /\ Write(<<Done(m)>>)
    /\ owes' = (m.cmd = "resume")
    /\ UNCHANGED <<born, held, running, turns>>

ArchiveThread(m) ==
    /\ m.cmd = "archive" /\ Archives(m.thread)
    /\ Write(<<Done(m)>>)
    /\ owes' = TRUE

StartTurn(m) ==
    LET started == Started(m.thread, turns + 1) IN
    /\ m.cmd = "start" /\ Starts(m.thread)
    /\ Write(<<started, Done(m)>>) \/ Write(<<Done(m), started>>)
    /\ owes' = FALSE

\* an interrupted turn is reported by the agent's event and by the command loop
InterruptTurn(m) ==
    LET ended == Ended(m.thread, running[m.thread]) IN
    /\ m.cmd = "interrupt" /\ Interrupts(m.thread)
    /\ Write(<<ended, Done(m), ended>>)
    /\ owes' = TRUE

\* the agent refuses, or the command is for a thread it does not have
Reject(m) == Write(<<Rejected(m)>>) /\ UNCHANGED <<born, held, running, turns, owes>>

Effect(m) ==
    \/ CreateThread(m) \/ ReadOrResumeThread(m) \/ ArchiveThread(m)
    \/ StartTurn(m) \/ InterruptTurn(m) \/ Reject(m)

\* one turn of runCommandLoop
HandleCommand ==
    /\ live # None /\ ~owes /\ commands # <<>>
    /\ commands' = Tail(commands)
    /\ Effect(Head(commands))
    /\ UNCHANGED <<live, strays, unlisted, hubVars, viewVars, req, requests, late>>

\* The command loop of a lost connection gets through with its command.  What it
\* sends is lost, the snapshot too; an event of the agent goes to the live connection,
\* which runClient has bound the runtimes to.
FinishStray(m) ==
    /\ strays' = strays \ {m}
    /\ \/ m.cmd = "create" /\ (\E n \in Threads : Creates(n)) /\ UNCHANGED wire
       \/ m.cmd = "archive" /\ Archives(m.thread) /\ UNCHANGED wire
       \/ m.cmd = "start" /\ Starts(m.thread) /\ Write(<<Started(m.thread, turns + 1)>>)
       \/ m.cmd = "interrupt" /\ Interrupts(m.thread)
          /\ Write(<<Ended(m.thread, running[m.thread])>>)
       \/ UNCHANGED <<born, held, running, turns, wire>>
    /\ unlisted' = (unlisted \/ (held' # held /\ live # None /\ ~owes))
    /\ UNCHANGED <<live, owes, commands, hubVars, viewVars, req, requests, late>>

-----------------------------------------------------------------------------
(* The goroutine of connection c.                                          *)

\* handleEventEnvelope and handleSnapshotEnvelope test isCurrentOwner once,
\* before anything else; client.register takes the machine over
ReadFrame(c) ==
    /\ connPC[c] = "reading"
    /\ wire[c] # <<>>
    /\ wire' = [wire EXCEPT ![c] = Tail(@)]
    /\ LET f == Head(wire[c])
           plain == \/ f.kind = "rejected"
                    \/ f.kind = "done" /\ f.cmd \notin {"create", "resume", "archive"}
       IN  IF f = Register
           THEN owner' = c /\ UNCHANGED <<doing, connPC>>
           ELSE IF owner = c
           THEN /\ doing' = [doing EXCEPT ![c] = f]
                /\ connPC' = [connPC EXCEPT ![c] = IF plain THEN "answer" ELSE "apply"]
                /\ UNCHANGED owner
           ELSE UNCHANGED <<owner, doing, connPC>>
    /\ UNCHANGED <<machineVars, commands, copy, snap, hasSnap, active, viewVars, req,
                   requests, late>>

\* mutant: an archived thread keeps its active turn
TurnsAfterKeepingArchived(f) ==
    CASE f.kind = "started" -> [active EXCEPT ![f.thread] = f.turn]
      [] f.kind = "ended" -> [active EXCEPT ![f.thread] = IF @ = f.turn THEN None ELSE @]
      [] OTHER -> active

\* mutant: the end of a turn stores the empty turn id instead of deleting the entry
TurnsAfterEmptied(f) ==
    CASE f.kind = "started" -> [active EXCEPT ![f.thread] = f.turn]
      [] f.kind = "ended" -> [active EXCEPT ![f.thread] = IF @ = f.turn THEN 0 ELSE @]
      [] f.kind = "done" /\ f.cmd = "archive" -> [active EXCEPT ![f.thread] = None]
      [] OTHER -> active

\* activeTurns after frame f: only the turn that is recorded can be cleared
TurnsAfter(f) ==
    CASE f.kind = "started" -> [active EXCEPT ![f.thread] = f.turn]
      [] f.kind = "ended" -> [active EXCEPT ![f.thread] = IF @ = f.turn THEN None ELSE @]
      [] f.kind = "done" /\ f.cmd = "archive" -> [active EXCEPT ![f.thread] = None]
      [] OTHER -> active

\* the machine's threads after frame f: replaceMachineSnapshot, setActiveTurn
\* and clearActiveTurn (the status of a listed thread), upsertThreadSnapshot,
\* removeThreadSnapshot
SnapshotAfter(f) ==
    CASE f.kind = "snapshot" ->
            Known(f.threads)
      [] f.kind \in {"started", "ended"} ->
            [snap EXCEPT ![f.thread] = IF @ = "absent" THEN @ ELSE "known"]
      [] f.kind = "done" ->
            [snap EXCEPT ![f.thread] = IF f.cmd = "archive" THEN "absent" ELSE "known"]

\* the part of the five functions that holds h.mu
Apply(c) ==
    /\ connPC[c] = "apply"
    /\ active' = TurnsAfter(doing[c])
    /\ snap' = SnapshotAfter(doing[c])
    /\ hasSnap' = TRUE
    /\ copy' = [copy EXCEPT ![c] = snap']
    /\ connPC' = [connPC EXCEPT ![c] = "store"]
    /\ late' = (late \/ owner # c)
    /\ UNCHANGED <<machineVars, wire, commands, owner, doing, viewVars, req, requests>>

\* the frame is forgotten when its handler returns
Returned(c) == [doing EXCEPT ![c] = IF connPC'[c] = "reading" THEN Register ELSE @]

\* runtimeIndex.ReplaceSnapshot with the copy, after the unlock
Store(c) ==
    /\ connPC[c] = "store"
    /\ index' = copy[c]
    /\ connPC' = [connPC EXCEPT ![c] =
          LET f == doing[c] IN
          IF f.kind = "snapshot" \/ (f.kind = "done" /\ f.cmd # "archive") THEN "route"
          ELSE IF f.kind = "done" THEN "answer"
          ELSE "reading"]
    /\ copy' = [copy EXCEPT ![c] = Nothing]
    /\ doing' = Returned(c)
    /\ late' = (late \/ owner # c)
    /\ UNCHANGED <<machineVars, wire, commands, owner, snap, hasSnap, active,
                   router, deleted, raced, req, requests>>

\* mutant: ReplaceSnapshot of the router adds routes and removes none
RoutesAdded(f) ==
    IF f.kind = "snapshot" THEN router \cup f.threads ELSE router \cup {f.thread}

\* router.ReplaceSnapshot, router.TrackThread
RoutesAfter(f) ==
    IF f.kind = "snapshot" THEN f.threads ELSE router \cup {f.thread}

Route(c) ==
    /\ connPC[c] = "route"
    /\ router' = RoutesAfter(doing[c])
    /\ connPC' = [connPC EXCEPT ![c] = IF doing[c].kind = "done" THEN "answer" ELSE "reading"]
    /\ doing' = Returned(c)
    /\ late' = (late \/ owner # c)
    /\ UNCHANGED <<machineVars, wire, commands, owner, copy, snap, hasSnap, active,
                   index, deleted, raced, req, requests>>

\* mutant: DELETE marks the thread whatever became of thread.archive
FailedYetMarked(r) ==
    IF r.op = "delete" THEN [r EXCEPT !.pc = "mark"]
    ELSE IF r.again THEN [r EXCEPT !.pc = "failed"] ELSE NoRequest

\* a request whose command failed: only a read has a second command to try
Failed(r) == IF r.again THEN [r EXCEPT !.pc = "failed"] ELSE NoRequest

\* a request whose command was answered with thread t on connection c; archive,
\* start and interrupt have nothing left to do
Answered(r, t, c) ==
    IF r.op \in {"create", "read", "resume", "delete"}
    THEN [NoRequest EXCEPT !.thread = t, !.via = c,
                           !.pc = IF r.op = "delete" THEN "mark" ELSE "track"]
    ELSE NoRequest

\* resolvePendingCommand: nobody waits for the answer of a request that gave up
Answer(c) ==
    /\ connPC[c] = "answer"
    /\ connPC' = [connPC EXCEPT ![c] = "reading"]
    /\ req' = [k \in Consoles |->
          IF req[k].pc = "waiting" /\ req[k].id = doing[c].id
          THEN IF doing[c].kind = "done"
               THEN Answered(req[k], doing[c].thread, c)
               ELSE Failed(req[k])
          ELSE req[k]]
    /\ doing' = Returned(c)
    /\ UNCHANGED <<machineVars, wire, commands, owner, copy, snap, hasSnap, active,
                   viewVars, requests, late>>

\* cleanupMachineLocked: the snapshot and the index become unknown, the routes
\* go; activeTurns and deletedThreads are left alone
ForgetMachine ==
    /\ snap' = Mark(snap)
    /\ index' = IF hasSnap THEN Mark(snap) ELSE Mark(index)
    /\ router' = {}

\* disconnectClient, after the read on a connection that is gone
Disconnect(c) ==
    /\ connPC[c] = "reading"
    /\ c # live
    /\ connPC' = [connPC EXCEPT ![c] = "gone"]
    /\ wire' = [wire EXCEPT ![c] = <<>>]
    /\ IF owner = c
       THEN /\ owner' = None
            /\ ForgetMachine
            /\ req' = [k \in Consoles |->
                         IF req[k].pc = "waiting" THEN Failed(req[k]) ELSE req[k]]
       ELSE UNCHANGED <<owner, snap, index, router, req>>
    /\ UNCHANGED <<machineVars, commands, doing, copy, hasSnap, active, deleted, raced,
                   requests, late>>

-----------------------------------------------------------------------------
(* The HTTP handlers.                                                      *)

\* resolveThreadRoute: the router, else the index
Routable(t) == t \in router \/ t \in Listed(index)

\* SendCommand: refused without a connection; written to a connection that is
\* broken, the command is lost
Send(k, r) ==
    /\ requests < MaxRequests
    /\ requests' = requests + 1
    /\ LET m == [cmd |-> r.cmd, thread |-> r.thread, id |-> requests + 1] IN
       /\ commands' = IF owner # None /\ owner = live THEN Append(commands, m) ELSE commands
       /\ req' = [req EXCEPT ![k] =
             IF owner = None THEN Failed(r)
                             ELSE [r EXCEPT !.id = requests + 1, !.pc = "waiting"]]

\* a request to do op on thread t, which begins with command cmd
Request(k, op, t, cmd) ==
    /\ Send(k, [NoRequest EXCEPT !.op = op, !.thread = t, !.cmd = cmd,
                                 !.again = (op = "read")])
    /\ UNCHANGED <<machineVars, wire, hubVars, viewVars, late>>

\* POST /threads: the command names no thread, so any will do
PostThread(k) == Request(k, "create", CHOOSE t \in Threads : TRUE, "create")

\* GET /threads/{id}: loadLiveThreadDetail tries resume and read, in the order the
\* indexed thread suggests
GetThread(k) ==
    \E t \in router \ deleted, cmd \in {"read", "resume"} : Request(k, "read", t, cmd)

\* POST /threads/{id}/resume and /archive
PostResumeOrArchive(k) ==
    \E t \in Threads, op \in {"resume", "archive"} : Routable(t) /\ Request(k, op, t, op)

\* DELETE /threads/{id}
DeleteThread(k) == \E t \in Listed(index) \ deleted : Request(k, "delete", t, "archive")

\* POST /threads/{id}/turns
PostTurn(k) == \E t \in Threads : Routable(t) /\ Request(k, "start", t, "start")

\* POST /threads/{id}/turns/{turnId}/interrupt
PostInterrupt(k) == \E t \in Threads : Routable(t) /\ Request(k, "interrupt", t, "interrupt")

\* the second attempt of loadLiveThreadDetail
TryAgain(k) ==
    /\ req[k].pc = "failed"
    /\ Send(k, [req[k] EXCEPT !.again = FALSE,
                              !.cmd = IF @ = "read" THEN "resume" ELSE "read"])
    /\ UNCHANGED <<machineVars, wire, hubVars, viewVars, late>>

\* mutant: PATCH does not test isDeleted
MayRenameDeleted(t) == Routable(t)

MayRename(t) == t \notin deleted /\ Routable(t)

\* PATCH /threads/{id}: findThread, or an unknown thread with just a route
Rename(k) ==
    \E t \in Threads :
        /\ requests' = requests + 1
        /\ MayRename(t)
        /\ req' = [req EXCEPT ![k] =
              [NoRequest EXCEPT !.op = "rename", !.pc = "rename", !.thread = t,
                                !.seen = IF index[t] = "absent" THEN "unknown" ELSE index[t]]]
        /\ UNCHANGED <<machineVars, wire, commands, hubVars, viewVars, late>>

\* a request that has only the deleted mark of its thread left to clear
Clearing(r) == [NoRequest EXCEPT !.pc = "clear", !.thread = r.thread]

\* ... and, after the new title is stored, idx.UpsertThread of what it found
RenameStore(k) ==
    LET t == req[k].thread IN
    /\ req[k].pc = "rename"
    /\ index' = [index EXCEPT ![t] = req[k].seen]
    /\ late' = (late \/ index[t] # req[k].seen)
    /\ req' = [req EXCEPT ![k] = Clearing(@)]
    /\ UNCHANGED <<machineVars, wire, commands, hubVars, router, deleted, raced, requests>>

\* the command times out; the machine may still run it
Expire(k) ==
    /\ req[k].pc = "waiting"
    /\ req' = [req EXCEPT ![k] = Failed(@)]
    /\ UNCHANGED <<machineVars, wire, commands, hubVars, viewVars, requests, late>>

\* loadLiveThreadDetail gives up
Finish(k) ==
    /\ req[k].pc = "failed"
    /\ requests = MaxRequests
    /\ req' = [req EXCEPT ![k] = NoRequest]
    /\ UNCHANGED <<machineVars, wire, commands, hubVars, viewVars, requests, late>>

\* what k was answered is out of date: its connection has lost the machine, or the
\* thread has been archived since
Stale(k) == owner # req[k].via \/ snap[req[k].thread] = "absent"

\* POST /threads, GET and resume: router.TrackThread, ...
Track(k) ==
    /\ req[k].pc = "track"
    /\ router' = router \cup {req[k].thread}
    /\ late' = (late \/ Stale(k))
    /\ req' = [req EXCEPT ![k].pc = "upsert"]
    /\ UNCHANGED <<machineVars, wire, commands, hubVars, index, deleted, raced, requests>>

\* ... idx.UpsertThread ...
Upsert(k) ==
    /\ req[k].pc = "upsert"
    /\ index' = [index EXCEPT ![req[k].thread] = "known"]
    /\ late' = (late \/ Stale(k))
    /\ req' = [req EXCEPT ![k] = Clearing(@)]
    /\ UNCHANGED <<machineVars, wire, commands, hubVars, router, deleted, raced, requests>>

\* ... and clearDeleted
Clear(k) ==
    /\ req[k].pc = "clear"
    /\ deleted' = deleted \ {req[k].thread}
    /\ req' = [req EXCEPT ![k] = NoRequest]
    /\ UNCHANGED <<machineVars, wire, commands, hubVars, index, router, raced, requests,
                   late>>

\* DELETE, after thread.archive has been answered: markDeleted, ...
MarkDeleted(k) ==
    /\ req[k].pc = "mark"
    /\ deleted' = deleted \cup {req[k].thread}
    /\ raced' = raced \cup {t \in {req[k].thread} :
                              \E j \in Consoles \ {k} : req[j].thread = t \/ req[j].op = "create"}
    /\ req' = [req EXCEPT ![k].pc = "remove"]
    /\ UNCHANGED <<machineVars, wire, commands, hubVars, index, router, requests, late>>

\* ... and idx.RemoveThread; the router keeps its route
Remove(k) ==
    /\ req[k].pc = "remove"
    /\ index' = [index EXCEPT ![req[k].thread] = "absent"]
    /\ req' = [req EXCEPT ![k] = NoRequest]
    /\ UNCHANGED <<machineVars, wire, commands, hubVars, router, deleted, raced,
                   requests, late>>

Machine ==
    \/ Break \/ SendSnapshot \/ HandleCommand
    \/ \E t \in Threads : TurnEnds(t)
    \/ \E m \in strays : FinishStray(m)

Goroutine(c) ==
    \/ Connect(c) \/ ReadFrame(c) \/ Apply(c) \/ Store(c) \/ Route(c) \/ Answer(c)
    \/ Disconnect(c)

\* an idle console makes a request
Ask(k) ==
    /\ req[k].pc = "idle" /\ requests < MaxRequests
    /\ \/ PostThread(k) \/ GetThread(k) \/ PostResumeOrArchive(k) \/ DeleteThread(k)
       \/ PostTurn(k) \/ PostInterrupt(k) \/ Rename(k)

Handler(k) ==
    \/ Ask(k) \/ TryAgain(k) \/ RenameStore(k) \/ Expire(k) \/ Finish(k)
    \/ Track(k) \/ Upsert(k) \/ Clear(k) \/ MarkDeleted(k) \/ Remove(k)

Next ==
    \/ Machine
    \/ \E c \in Conns : Goroutine(c)
    \/ \E k \in Consoles : Handler(k)

Spec == Init /\ [][Next]_vars

-----------------------------------------------------------------------------
(* Properties.                                                             *)

\* every frame has been handled, every request has been answered, and the
\* machine has nothing left to send
Settled ==
    /\ \A c \in Conns : wire[c] = <<>> /\ connPC[c] \in {"new", "reading", "gone"}
    /\ \A k \in Consoles : req[k].pc = "idle"
    /\ commands = <<>> /\ ~owes

Recovered == Settled /\ live # None /\ owner = live

\* Once things settle, and unless something was written late, the views of the
\* API follow the machine: connected, the index lists exactly the threads the
\* agent has and the router leads to each; disconnected, every listed thread
\* is unknown and nothing is routed (cleanupMachineLocked, replaceMachineSnapshot,
\* UpsertThread, TrackThread).  Connected, one thing more is excepted: a command of
\* a lost connection that created or archived a thread after the live one had listed
\* them; the next snapshot, after any command that may change the list, corrects it.
ViewsFollowMachine ==
    Settled /\ ~late =>
        /\ owner = None => router = {} /\ \A t \in Threads : index[t] # "known"
        /\ Recovered /\ ~unlisted =>
              /\ router = held
              /\ index = Known(held)

\* On the machine's first connection activeTurns is what the agent runs, through
\* turns that end by themselves, are interrupted or archived away (setActiveTurn,
\* clearActiveTurn, removeThreadSnapshot).  Not so on a later one: the disconnect
\* does not clear activeTurns and the snapshot that follows does not correct it.
RunningTurnKnown ==
    Recovered /\ (\A c \in Conns : c # live => connPC[c] = "new") => active = running

\* DELETE hides a thread only when the machine has archived it: a refused, lost
\* or timed-out thread.archive leaves it visible (markDeleted).
HiddenIsArchived == deleted \cap held = {}

\* A deleted thread comes back only through a request on it that was under way
\* when DELETE marked it: such a request may clear the mark of a thread that is
\* archived and list it again (clearDeleted).  Any other request clears no mark,
\* a resume included that the router still leads to the machine.
DeletedStaysDeleted == [][\A t \in deleted \ deleted' : t \in raced]_vars

-----------------------------------------------------------------------------
(* The inductive invariant of ThreadTables_proofs.                         *)

Elements(q) == {q[i] : i \in DOMAIN q}

Requests == [op : Ops \cup {"none"},
             pc : {"idle", "waiting", "failed", "track", "upsert", "clear", "mark",
                   "remove", "rename"},
             thread : Threads \cup {None}, id : 0..MaxRequests,
             cmd : Commands \cup {"none"}, via : Conns \cup {None}, seen : Entry,
             again : BOOLEAN]

\* what each program counter says of the frame or the request in hand
Shapes ==
    /\ wire \in [Conns -> Seq(Frames)]
    /\ doing \in [Conns -> Frames]
    /\ req \in [Consoles -> Requests]
    /\ \A c \in Conns :
          /\ connPC[c] \in {"new", "reading", "gone"} => doing[c] = Register
          /\ connPC[c] \in {"apply", "store"} =>
                \/ doing[c].kind \in {"snapshot", "started", "ended"}
                \/ doing[c].kind = "done" /\ doing[c].cmd \in {"create", "resume", "archive"}
          /\ connPC[c] = "route" => doing[c].kind \in {"snapshot", "done"}
          /\ connPC[c] = "answer" => doing[c].kind \in {"done", "rejected"}
    /\ \A k \in Consoles : req[k].pc # "idle" => req[k].thread \in Threads

\* what a waiting or failed request asked, and what it does next
Asked ==
    \A k \in Consoles : req[k].pc \in {"waiting", "failed"} =>
        /\ req[k].cmd \in Commands /\ (req[k].cmd = "create") = (req[k].op = "create")
        /\ req[k].op = "read" => req[k].cmd \in {"read", "resume"}
        /\ req[k].op = "resume" => req[k].cmd = "resume"
        /\ req[k].op = "delete" => req[k].cmd = "archive"
        /\ req[k].again \/ req[k].pc = "failed" => req[k].op = "read"

\* the done frames that have been sent and not yet been handled
InFlight(f) ==
    /\ f.kind = "done"
    /\ \E c \in Conns : f = doing[c] \/ f \in Elements(wire[c])

\* m, a command or the answer to one, is what a request of its id waits for
IsFor(m) ==
    /\ m.id <= requests
    /\ \A k \in Consoles : req[k].pc = "waiting" /\ req[k].id = m.id =>
          m.cmd = req[k].cmd /\ (m.cmd = "create" \/ m.thread = req[k].thread)

IdsAgree ==
    /\ \A k \in Consoles : req[k].id <= requests
    /\ \A m \in Elements(commands) : IsFor(m)
    /\ \A f \in Frames : InFlight(f) => IsFor(f)

\* a thread is marked deleted only after the machine has archived it
Archived(t) == t \in born \ held

ArchivedFirst ==
    /\ \A t \in deleted : Archived(t)
    /\ \A k \in Consoles : req[k].pc \in {"mark", "remove"} => Archived(req[k].thread)
    /\ \A f \in Frames : InFlight(f) /\ f.cmd = "archive" => Archived(f.thread)

\* what a request may clear the mark of, now or once it is answered
MayClear(t) == t \in deleted => t \in raced

ClearsSafely ==
    /\ \A k \in Consoles :
          req[k].pc \in {"track", "upsert", "clear", "rename"} => MayClear(req[k].thread)
    /\ \A f \in Frames, k \in Consoles :
          /\ InFlight(f)
          /\ req[k].pc = "waiting" /\ req[k].id = f.id
          /\ req[k].op \in {"create", "read", "resume"}
          => MayClear(f.thread)

\* frame f sets or clears the active turn of t
About(f, t) ==
    \/ f.kind \in {"started", "ended"} /\ f.thread = t
    \/ f.kind = "done" /\ f.cmd = "archive" /\ f.thread = t

Places(q, t) == {i \in DOMAIN q : About(q[i], t)}

\* the turn frame f leaves its thread with
TurnOf(f) == IF f.kind = "started" THEN f.turn ELSE None

\* i is the place in q about t next after j
NextAfter(q, t, j, i) ==
    /\ j < i
    /\ \A n \in Places(q, t) : n <= j \/ i <= n

\* handled one by one, the frames of q lead from active turn a of t to turn r:
\* the last of them says r, and each end is of the turn that is then recorded
LeadTo(q, t, a, r) ==
    /\ Places(q, t) = {} => a = r
    /\ \A i \in Places(q, t) :
          /\ (\A n \in Places(q, t) : n <= i) => r = TurnOf(q[i])
          /\ q[i].kind = "ended" /\ (\A n \in Places(q, t) : i <= n) => a \in {q[i].turn, None}
          /\ q[i].kind = "ended" =>
                \A j \in Places(q, t) :
                    q[j].kind = "started" /\ NextAfter(q, t, j, i) => q[j].turn = q[i].turn

\* the frames connection c has not applied yet
Pipe(c) == IF connPC[c] = "apply" THEN <<doing[c]>> \o wire[c] ELSE wire[c]

\* c is the machine's first connection
First(c) == live = c /\ \A d \in Conns \ {c} : connPC[d] = "new"

TurnsFollow ==
    /\ (\A c \in Conns : connPC[c] = "new") =>
          \A t \in Threads : active[t] = None /\ running[t] = None
    /\ \A c \in Conns : connPC[c] = "new" => live # c
    /\ strays # {} => \E c \in Conns : connPC[c] # "new" /\ c # live
    /\ \A c \in Conns : First(c) =>
          /\ owner = c \/ (wire[c] # <<>> /\ Head(wire[c]) = Register)
          /\ \A t \in Threads : LeadTo(Pipe(c), t, active[t], running[t])

IInv ==
    /\ TypeOK /\ Shapes /\ Asked /\ IdsAgree /\ ArchivedFirst /\ ClearsSafely
    /\ TurnsFollow

\* Beside IInv, what the views will come to.  The frames that change the list are
\* the snapshots and the answers to create, resume and archive, and a snapshot
\* follows each of those answers.
Lists(f) ==
    \/ f.kind = "snapshot"
    \/ f.kind = "done" /\ f.cmd \in {"create", "resume", "archive"}

ListsIn(q) == {i \in DOMAIN q : Lists(q[i])}

\* the last frame of q that changes the list is a snapshot of S
EndsIn(q, S) ==
    \A i \in ListsIn(q) : (\A n \in ListsIn(q) : n <= i) => q[i] = Snapshot(S)

Registers(q) == {i \in DOMAIN q : q[i] = Register}

\* the snapshot that connection c is handling is the one to be written to a table
Renews(c) == doing[c] = Snapshot(held)

\* no frame that is still unread, or still to come, changes the list, and each
\* table that is not about to be written says what the machine has
UpToDate(c) ==
    /\ connPC[c] = "apply" => Renews(c) \/ (~Lists(doing[c]) /\ snap = Known(held))
    /\ connPC[c] # "apply" => snap = Known(held)
    /\ connPC[c] = "store" => copy[c] = Known(held)
    /\ connPC[c] # "store" /\ (connPC[c] = "apply" => ~Renews(c)) => index = Known(held)
    /\ connPC[c] = "route" => Renews(c)
    /\ connPC[c] = "store" => Renews(c) \/ ~Lists(doing[c])
    /\ ~(connPC[c] \in {"apply", "store", "route"} /\ Renews(c)) => router = held

ViewsCome ==
    /\ \A k \in Consoles : req[k].pc \in {"track", "upsert"} => req[k].via # None
    /\ owner = None => router = {} /\ \A t \in Threads : index[t] # "known"
    /\ live # None =>
          /\ Registers(wire[live]) \subseteq {1}
          /\ ~owes /\ ~unlisted =>
                /\ EndsIn(wire[live], held)
                /\ Registers(wire[live]) # {} => ListsIn(wire[live]) # {}
                /\ owner = live /\ ListsIn(wire[live]) = {} => UpToDate(live)

ViewInv == ~late => ViewsCome
=============================================================================
