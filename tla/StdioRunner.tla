---------------------------- MODULE StdioRunner -----------------------------
(***************************************************************************)
(* The client's JSON-RPC connection to one codex app-server process:       *)
(* client/internal/agent/codex/stdio_runner.go, with the one notification  *)
(* whose handler calls back into the runner.                               *)
(*                                                                         *)
(* Any goroutine may Call.  A single goroutine, readLoop, reads the        *)
(* process's stdout and runs the notification handler itself.  On          *)
(* "turn/completed" that handler ends in handleRuntimeTimelineEvent and    *)
(* refreshThreadSnapshot (client/cmd/client/main.go), whose ListThreads is *)
(* a Call made on readLoop: its response can only be read by readLoop.     *)
(*                                                                         *)
(* A Call writes its request while it holds writeMu, and starts its timer  *)
(* only after the write: a process that no longer reads its stdin leaves   *)
(* that call, and all that wait for writeMu, without an end.               *)
(*                                                                         *)
(* Other notifications and server requests change nothing here and are     *)
(* left out, and a JSON-RPC error is a response like any other.  pendingMu *)
(* is held by failPending for its whole loop; every other critical section *)
(* is one action.                                                          *)
(***************************************************************************)
EXTENDS Naturals, Sequences, FiniteSets

CONSTANTS OwnCalls,      \* calls made by the goroutines of the client, by request id
          Refreshes,     \* calls made by the notification handler, one per completed
                         \* turn; their number bounds the turns
          None,          \* no call
          PatientTimer   \* TRUE: callTimeout outlasts everything else that can run

Calls == OwnCalls \cup Refreshes

ASSUME RunnerAssumption ==
    /\ None \notin Calls /\ OwnCalls \cap Refreshes = {} /\ IsFiniteSet(Refreshes)
    /\ PatientTimer \in BOOLEAN

VARIABLES
    pending,   \* r.pending: the calls whose channel is registered
    callPC,    \* where each Call is
    channel,   \* its responseCh, of capacity 1
    outcome,   \* what it returns: decided in "removing", final in "done"
    writer,    \* writeMu: the call that writes its request, or None
    reader,    \* where readLoop is
    responding,\* the call whose response readLoop is about to send, or None
    nested,    \* the call made by the notification handler, on readLoop
    stdin,     \* whether Close has closed the pipe to the process
    alive,     \* whether the process runs
    listening, \* whether it will still read what is written to it
    server,    \* requests the process has read and not answered
    stdout,    \* what it wrote and readLoop has not read, in order
    answered,  \* requests it answered (history)
    turns      \* turn completions it has reported

callVars == <<pending, callPC, channel, outcome, writer>>
readVars == <<reader, responding, nested>>
procVars == <<stdin, alive, listening, server, stdout, answered, turns>>
runnerVars == <<callVars, readVars, procVars>>

Response(q) == [kind |-> "response", call |-> q]
TurnCompleted == [kind |-> "turn/completed", call |-> None]

RunnerTypeOK ==
    /\ pending \subseteq Calls
    /\ callPC \in [Calls -> {"idle", "registered", "writing", "waiting", "removing", "done"}]
    /\ channel \in [Calls -> {"empty", "response", "eof"}]
    /\ outcome \in [Calls -> {"none", "response", "eof", "timeout", "write_error"}]
    /\ writer \in Calls \cup {None}
    /\ reader \in {"reading", "sending", "handling", "failing", "stopped"}
    /\ responding \in Calls \cup {None}
    /\ nested \in Calls \cup {None}
    /\ stdin \in {"open", "closed"} /\ alive \in BOOLEAN /\ listening \in BOOLEAN
    /\ server \subseteq Calls /\ answered \subseteq Calls
    /\ stdout \in Seq({Response(q) : q \in Calls} \cup {TurnCompleted})
    /\ turns \in 0..Cardinality(Refreshes)

RunnerInit ==
    /\ pending = {}
    /\ callPC = [q \in Calls |-> "idle"]
    /\ channel = [q \in Calls |-> "empty"]
    /\ outcome = [q \in Calls |-> "none"]
    /\ writer = None
    /\ reader = "reading" /\ responding = None /\ nested = None
    /\ stdin = "open" /\ alive = TRUE /\ listening = TRUE
    /\ server = {} /\ stdout = <<>> /\ answered = {} /\ turns = 0

\* pendingMu: failPending keeps it until every pending call has its error
PendingMuFree == reader # "failing"

-----------------------------------------------------------------------------
(* Call, on any goroutine; nested calls run it on readLoop.                *)

RegisterCall(q) ==
    /\ callPC[q] = "idle"
    /\ PendingMuFree
    /\ pending' = pending \cup {q}
    /\ callPC' = [callPC EXCEPT ![q] = "registered"]

BeginCall(q) ==
    /\ RegisterCall(q)
    /\ UNCHANGED <<channel, outcome, writer, readVars, procVars>>

\* refreshThreadSnapshot -> ListThreads, from the "turn/completed" handler
BeginRefresh(q) ==
    /\ reader = "handling" /\ nested = None
    /\ RegisterCall(q)
    /\ nested' = q
    /\ UNCHANGED <<channel, outcome, writer, reader, responding, procVars>>

\* writeMu.Lock
TakeWriter(q) ==
    /\ callPC[q] = "registered" /\ writer = None
    /\ writer' = q
    /\ callPC' = [callPC EXCEPT ![q] = "writing"]
    /\ UNCHANGED <<pending, channel, outcome, readVars, procVars>>

\* The write has no deadline.  The pipe may have room for it also when the process
\* reads no more, so that it can succeed; but then nothing makes it (see Progress).
WriteSucceeds(q) ==
    /\ callPC[q] = "writing"
    /\ stdin = "open" /\ alive
    /\ server' = server \cup {q}
    /\ callPC' = [callPC EXCEPT ![q] = "waiting"]
    /\ writer' = None
    /\ UNCHANGED <<pending, channel, outcome, readVars, stdin, alive, listening, stdout,
                   answered, turns>>

\* a closed or broken pipe ends the write, also one that waits for room
WriteFails(q) ==
    /\ callPC[q] = "writing"
    /\ stdin = "closed" \/ ~alive
    /\ callPC' = [callPC EXCEPT ![q] = "removing"]
    /\ outcome' = [outcome EXCEPT ![q] = "write_error"]
    /\ writer' = None
    /\ UNCHANGED <<pending, channel, readVars, procVars>>

\* what can still happen in the client without the process or a timer
ReaderCanMove ==
    \/ reader \in {"sending", "failing"}
    \/ reader = "reading" /\ (stdout # <<>> \/ ~alive)
    \/ reader = "handling" /\ (nested = None \/ callPC[nested] = "done")
CallCanMove ==
    \E q \in Calls : \/ callPC[q] \in {"registered", "writing", "removing"}
                     \/ callPC[q] = "waiting" /\ channel[q] # "empty"

\* mutant: no timer
NeverExpire(q) == FALSE /\ UNCHANGED runnerVars

\* the timer of the call's select
Expire(q) ==
    /\ callPC[q] = "waiting"
    /\ PatientTimer => ~ReaderCanMove /\ ~CallCanMove
    /\ callPC' = [callPC EXCEPT ![q] = "removing"]
    /\ outcome' = [outcome EXCEPT ![q] = "timeout"]
    /\ UNCHANGED <<pending, channel, writer, readVars, procVars>>

\* removePending after an error
RemovePending(q) ==
    /\ callPC[q] = "removing"
    /\ PendingMuFree
    /\ pending' = pending \ {q}
    /\ callPC' = [callPC EXCEPT ![q] = "done"]
    /\ UNCHANGED <<channel, outcome, writer, readVars, procVars>>

ReceiveResult(q) ==
    /\ callPC[q] = "waiting"
    /\ channel[q] # "empty"
    /\ outcome' = [outcome EXCEPT ![q] = channel[q]]
    /\ channel' = [channel EXCEPT ![q] = "empty"]
    /\ callPC' = [callPC EXCEPT ![q] = "done"]
    /\ UNCHANGED <<pending, writer, readVars, procVars>>

-----------------------------------------------------------------------------
(* readLoop.                                                               *)

\* mutant: the response is matched but its call stays registered
ReadKeepsPending ==
    /\ reader = "reading"
    /\ stdout # <<>>
    /\ stdout' = Tail(stdout)
    /\ LET q == Head(stdout).call
       IN  IF Head(stdout) = TurnCompleted
           THEN reader' = "handling" /\ UNCHANGED responding
           ELSE IF q \in pending
                THEN reader' = "sending" /\ responding' = q
                ELSE UNCHANGED <<reader, responding>>
    /\ UNCHANGED <<callVars, nested, stdin, alive, listening, server, answered, turns>>

\* A line is a response, matched with its call under pendingMu and dropped if
\* the call has gone, or a notification, handled before the next line is read.
ReadLine ==
    /\ reader = "reading"
    /\ stdout # <<>>
    /\ stdout' = Tail(stdout)
    /\ LET q == Head(stdout).call
       IN  IF Head(stdout) = TurnCompleted
           THEN reader' = "handling" /\ UNCHANGED <<pending, responding>>
           ELSE /\ pending' = pending \ {q}
                /\ IF q \in pending
                   THEN reader' = "sending" /\ responding' = q
                   ELSE UNCHANGED <<reader, responding>>
    /\ UNCHANGED <<callPC, channel, outcome, writer, nested, stdin, alive, listening,
                   server, answered, turns>>

\* responseCh <- ...: the send waits for room
SendResponse ==
    /\ reader = "sending"
    /\ channel[responding] = "empty"
    /\ channel' = [channel EXCEPT ![responding] = "response"]
    /\ reader' = "reading" /\ responding' = None
    /\ UNCHANGED <<pending, callPC, outcome, writer, nested, procVars>>

HandlerReturns ==
    /\ reader = "handling"
    /\ nested # None /\ callPC[nested] = "done"
    /\ reader' = "reading" /\ nested' = None
    /\ UNCHANGED <<callVars, responding, procVars>>

\* EOF after the last line: failPending takes pendingMu
ReadEOF ==
    /\ reader = "reading"
    /\ stdout = <<>> /\ ~alive
    /\ reader' = "failing"
    /\ UNCHANGED <<callVars, responding, nested, procVars>>

FailPending(q) ==
    /\ reader = "failing"
    /\ q \in pending
    /\ channel[q] = "empty"
    /\ channel' = [channel EXCEPT ![q] = "eof"]
    /\ pending' = pending \ {q}
    /\ UNCHANGED <<callPC, outcome, writer, readVars, procVars>>

\* mutant: readLoop ends without going through every pending call
StopAtOnce ==
    /\ reader = "failing"
    /\ reader' = "stopped"
    /\ UNCHANGED <<callVars, responding, nested, procVars>>

StopReading ==
    /\ reader = "failing"
    /\ pending = {}
    /\ reader' = "stopped"
    /\ UNCHANGED <<callVars, responding, nested, procVars>>

-----------------------------------------------------------------------------
(* The process, and Close, which shuts its stdin and waits for its exit.   *)

Answer(q) ==
    /\ alive /\ q \in server
    /\ server' = server \ {q}
    /\ answered' = answered \cup {q}
    /\ stdout' = Append(stdout, Response(q))
    /\ UNCHANGED <<callVars, readVars, stdin, alive, listening, turns>>

CompleteTurn ==
    /\ alive /\ turns < Cardinality(Refreshes)
    /\ turns' = turns + 1
    /\ stdout' = Append(stdout, TurnCompleted)
    /\ UNCHANGED <<callVars, readVars, stdin, alive, listening, server, answered>>

Exit ==
    /\ alive
    /\ alive' = FALSE
    /\ UNCHANGED <<callVars, readVars, stdin, listening, server, stdout, answered, turns>>

\* From now on the process reads nothing more: it hangs, or waits itself for somebody
\* to read its stdout.
StopListening ==
    /\ listening
    /\ listening' = FALSE
    /\ UNCHANGED <<callVars, readVars, stdin, alive, server, stdout, answered, turns>>

Close ==
    /\ stdin = "open"
    /\ stdin' = "closed"
    /\ UNCHANGED <<callVars, readVars, alive, listening, server, stdout, answered, turns>>

-----------------------------------------------------------------------------
CallStep(q) ==
    \/ TakeWriter(q)
    \/ WriteSucceeds(q)
    \/ WriteFails(q)
    \/ Expire(q)
    \/ RemovePending(q)
    \/ ReceiveResult(q)

\* what a call does without waiting for a process that reads no more
Progress(q) ==
    \/ TakeWriter(q)
    \/ listening /\ WriteSucceeds(q)
    \/ WriteFails(q)
    \/ Expire(q)
    \/ RemovePending(q)
    \/ ReceiveResult(q)

ReaderStep ==
    \/ ReadLine
    \/ SendResponse
    \/ \E q \in Refreshes : BeginRefresh(q)
    \/ HandlerReturns
    \/ ReadEOF
    \/ \E q \in Calls : FailPending(q)
    \/ StopReading

ProcessStep == (\E q \in Calls : Answer(q)) \/ CompleteTurn \/ Exit \/ StopListening \/ Close

RunnerNext ==
    \/ \E q \in OwnCalls : BeginCall(q)
    \/ \E q \in Calls : CallStep(q)
    \/ ReaderStep
    \/ ProcessStep

\* Goroutines that can run do run, timers fire, and a write to a process that reads
\* comes to its end.  The process owes nothing, not even that it goes on reading.
RunnerFairness == WF_runnerVars(ReaderStep) /\ \A q \in Calls : WF_runnerVars(Progress(q))

RunnerSpec == RunnerInit /\ [][RunnerNext]_runnerVars /\ RunnerFairness

-----------------------------------------------------------------------------
(* Properties.                                                             *)

\* readLoop sends on responseCh without a select, once while it holds pendingMu:
\* it never finds the channel full, so it never blocks every caller.  An entry of
\* pending is that of a call which has not returned, and has nothing in its channel.
ReaderNeverBlocks ==
    /\ reader = "sending" => channel[responding] = "empty"
    /\ \A q \in pending :
           /\ channel[q] = "empty" /\ responding # q
           /\ callPC[q] \in {"registered", "writing", "waiting", "removing"}

\* Once readLoop has seen the end of the process nobody is left to sit out the
\* call timeout: each call has an error waiting for it or fails to write.
NobodyWaitsOnDeadProcess ==
    reader = "stopped" => \A q \in Calls : callPC[q] = "waiting" => channel[q] # "empty"

\* The inductive invariant of the proofs.  A call that has not begun has left no
\* trace; one that is about to wait, or waits, still has somebody to serve it: its
\* entry in pending, the response readLoop holds for it, or its full channel.
ReaderState ==
    /\ reader = "sending" <=> responding # None
    /\ reader \in {"failing", "stopped"} => ~alive
Untouched(q) == channel[q] = "empty" /\ q \notin pending /\ responding # q
Served(q) == q \in pending \/ channel[q] # "empty" \/ responding = q
CallsAreServed ==
    \A q \in Calls : /\ callPC[q] = "idle" => Untouched(q)
                     /\ callPC[q] \in {"registered", "writing", "waiting"} => Served(q)
RunnerInv ==
    /\ RunnerTypeOK /\ ReaderState /\ CallsAreServed
    /\ ReaderNeverBlocks /\ NobodyWaitsOnDeadProcess

\* a process that lives, and whose pipe nobody has closed, but that reads no more
Deaf == alive /\ ~listening /\ stdin = "open"

\* Every Call returns, also those made on readLoop, which only the timer ends; so
\* readLoop always gets back from its handlers to reading.  Only a process that lives
\* on and reads no more can keep a call for ever, and with writeMu all that follow,
\* whose timers have not begun: its end, or Close, frees them all.
EveryCallReturns ==
    /\ \A q \in Calls : callPC[q] = "registered" ~> callPC[q] = "done" \/ Deaf
    /\ reader = "handling" ~> reader = "reading" \/ Deaf

\* With a timer that outlasts everything else that can happen, a call never times out
\* on a response that has already arrived.  The handler of "turn/completed", which
\* calls back into the runner, breaks it (see the README).
ArrivedResponsesAreReceived ==
    [][\A q \in Calls :
           outcome[q] = "none" /\ outcome'[q] = "timeout" => q \notin answered]_runnerVars
=============================================================================
