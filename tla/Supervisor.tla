----------------------------- MODULE Supervisor -----------------------------
(***************************************************************************)
(* The client's supervisor of agent instances,                             *)
(* client/internal/agent/manager/supervisor.go, and the connection loop    *)
(* that feeds it commands, runClient in client/cmd/client/main.go.         *)
(*                                                                         *)
(* An agent is a number, its id "agent-01", ...  It has a record agent.json *)
(* on disk, a record in memory, and when it runs a process whose runtime   *)
(* is registered.  Operations hold opMu from end to end, so one runs at a  *)
(* time; the client may crash, and an agent's process may die, between any *)
(* two of their steps.                                                     *)
(*                                                                         *)
(* s.cleanups and the runtime registry change together under s.mu: one set *)
(* stands for both.  A directory without agent.json is what loadRecords    *)
(* skips, hence no record.  When the client dies its agents read the end   *)
(* of their stdin and exit.                                                *)
(***************************************************************************)
EXTENDS Naturals, FiniteSets

CONSTANTS N,         \* bound: agents are 1..N
          MaxDeaths  \* bound: how many processes die by themselves

ASSUME SupervisorAssumption == N \in Nat \ {0} /\ MaxDeaths \in Nat

Agents == 1..N

VARIABLES
    disk,       \* agent.json of each agent: "none", "partial" (truncated) or "record"
    records,    \* s.records
    registered, \* agents with a cleanup and a registered runtime
    status,     \* s.statusByAgentID, "" when absent
    process,    \* "none", "alive" or "dead" (exited, not waited for)
    session,    \* where runClient is: "down", "boot", "dial", "snapshot" or "serving"
    op,         \* the operation that holds opMu, or "none"
    orphaned,   \* its command came over a connection that has been lost
    step,       \* where it is
    subject,    \* the agent it is working on
    todo,       \* agents StartAll or StopAll has yet to reach
    passed,     \* agents StartAll has passed, to be stopped if a later one fails
    before,     \* agents that ran when the operation began (history)
    installed,  \* agents whose installation has completed (history)
    deleted,    \* agents whose deletion has completed (history)
    deaths      \* processes that have died by themselves

agentVars == <<disk, records, registered, status, process>>
history == <<before, installed, deleted, deaths>>
vars == <<agentVars, session, op, orphaned, step, subject, todo, passed, history>>

TypeOK ==
    /\ disk \in [Agents -> {"none", "partial", "record"}]
    /\ records \subseteq Agents /\ registered \subseteq Agents
    /\ status \in [Agents -> {"", "running", "stopped", "error"}]
    /\ process \in [Agents -> {"none", "alive", "dead"}]
    /\ session \in {"down", "boot", "dial", "snapshot", "serving"}
    /\ op \in {"none", "bootstrap", "install", "delete", "restart", "start_all", "stop_all"}
    /\ orphaned \in BOOLEAN
    /\ step \in {"none", "create", "write", "start", "register", "stop", "close", "undo",
                 "undo_close", "forget", "remove"}
    /\ subject \in Agents
    /\ todo \subseteq Agents /\ passed \subseteq Agents /\ before \subseteq Agents
    /\ installed \subseteq Agents /\ deleted \subseteq Agents
    /\ deaths \in 0..MaxDeaths

\* the first start of a client, with an empty directory
Init ==
    /\ disk = [a \in Agents |-> "none"]
    /\ records = {} /\ registered = {}
    /\ status = [a \in Agents |-> ""]
    /\ process = [a \in Agents |-> "none"]
    /\ session = "down"
    /\ op = "none" /\ orphaned = FALSE /\ step = "none" /\ subject = 1
    /\ todo = {} /\ passed = {} /\ before = {}
    /\ installed = {} /\ deleted = {} /\ deaths = 0

First(a, set) == a \in set /\ \A b \in set : a <= b
Last(a, set) == a \in set /\ \A b \in set : b <= a

-----------------------------------------------------------------------------
(* How an operation goes on and ends.                                      *)

\* A completed command ends with a snapshot of every registered agent; the command
\* loop, and the connection with it, ends if one of them does not answer.
Answering(running) == \A a \in running : process[a] = "alive"

Finish(result, running) ==
    /\ op' = "none" /\ step' = "none"
    /\ todo' = {} /\ passed' = {}
    /\ session' = IF op = "bootstrap"
                  THEN IF result = "completed" THEN "dial" ELSE "down"
                  ELSE IF result = "completed" /\ ~orphaned /\ ~Answering(running) THEN "dial"
                       ELSE session
    /\ installed' = IF op = "install" /\ result = "completed"
                    THEN installed \cup {subject} ELSE installed
    /\ deleted' = IF op = "delete" /\ result = "completed"
                  THEN deleted \cup {subject} ELSE deleted
    /\ UNCHANGED <<orphaned, subject, before, deaths>>

GoTo(next) ==
    /\ step' = next
    /\ UNCHANGED <<op, orphaned, session, subject, todo, passed, history>>

GoToAgent(next, a, rest) ==
    /\ step' = next /\ subject' = a /\ todo' = rest
    /\ UNCHANGED <<op, orphaned, session, history>>

\* startAgent has returned nil; running includes the agent
Started(running) ==
    IF op \in {"install", "restart"} THEN Finish("completed", running)
    ELSE IF todo = {} THEN Finish("completed", running)
         ELSE /\ passed' = passed \cup {subject}
              /\ \E a \in todo : First(a, todo) /\ GoToAgent("start", a, todo \ {a})

\* mutant: runtime.start gives up where it is
StartAborted(running) ==
    \/ op = "install" /\ GoTo("forget")
    \/ op # "install" /\ passed = {} /\ Finish("rejected", running)
    \/ op = "start_all" /\ passed # {} /\ Finish("rejected", running)

\* startAgent has returned an error
StartFailed(running) ==
    \/ op = "install" /\ GoTo("forget")
    \/ op = "restart" /\ Finish("rejected", running)
    \/ /\ op \in {"bootstrap", "start_all"}
       /\ IF passed = {} THEN Finish("rejected", running)
          ELSE \E a \in passed : /\ Last(a, passed)
                                 /\ passed' = passed \ {a}
                                 /\ GoToAgent("undo", a, {})

\* stopAgent has returned; the rollback ignores its result
Stopped(running) ==
    \/ op = "delete" /\ GoTo("forget")
    \/ op = "restart" /\ GoTo("start")
    \/ /\ op = "stop_all"
       /\ IF todo = {} THEN Finish("completed", running)
          ELSE /\ UNCHANGED passed
               /\ \E a \in todo : First(a, todo) /\ GoToAgent("stop", a, todo \ {a})
    \/ /\ op \in {"bootstrap", "start_all"}
       /\ IF passed = {} THEN Finish("rejected", running)
          ELSE \E a \in passed : /\ Last(a, passed)
                                 /\ passed' = passed \ {a}
                                 /\ GoToAgent("undo", a, {})

-----------------------------------------------------------------------------
(* Commands.                                                               *)

\* A command may have waited for opMu behind another connection's, and lost its own
\* connection meanwhile.
Begin(operation, first, a, rest) ==
    /\ op = "none" /\ session \in {"dial", "snapshot", "serving"}
    /\ orphaned' \in BOOLEAN /\ (session # "serving" => orphaned')
    /\ op' = operation /\ step' = first /\ subject' = a /\ todo' = rest
    /\ before' = registered
    /\ UNCHANGED <<agentVars, session, passed, deaths>>

\* mutant: the next id is the number of agents plus one
NextByCount(a) == a = Cardinality(records) + 1

\* nextAgentIDLocked: the first id that is not in s.records
NextAgentID(a) == First(a, Agents \ records)

InstallAgent ==
    \E a \in Agents :
        /\ NextAgentID(a)
        /\ Begin("install", "create", a, {})
        /\ deleted' = deleted \ {a}
        /\ UNCHANGED installed

\* any valid id, installed or not
DeleteAgent(a) ==
    /\ Begin("delete", "stop", a, {})
    /\ installed' = installed \ {a}
    /\ UNCHANGED deleted

RestartAgent(a) ==
    /\ a \in records
    /\ Begin("restart", IF a \in registered THEN "stop" ELSE "start", a, {})
    /\ UNCHANGED <<installed, deleted>>

\* runtime.start; without a record StartAll has nothing to do
StartAll ==
    /\ \E a \in records : First(a, records) /\ Begin("start_all", "start", a, records \ {a})
    /\ UNCHANGED <<installed, deleted>>

\* runtime.stop
StopAll ==
    /\ \E a \in registered : First(a, registered) /\ Begin("stop_all", "stop", a, registered \ {a})
    /\ UNCHANGED <<installed, deleted>>

-----------------------------------------------------------------------------
(* The steps of an operation.                                              *)

\* saveRecord: os.WriteFile creates or truncates the file, then fills it.  The
\* record enters s.records before s.mu is released.
CreateFile ==
    /\ step = "create"
    /\ disk' = [disk EXCEPT ![subject] = "partial"]
    /\ GoTo("write")
    /\ UNCHANGED <<records, registered, status, process>>

WriteFile ==
    /\ step = "write"
    /\ disk' = [disk EXCEPT ![subject] = "record"]
    /\ records' = records \cup {subject}
    /\ GoTo("start")
    /\ UNCHANGED <<registered, status, process>>

SaveFails ==
    /\ step \in {"create", "write"}
    /\ Finish("rejected", registered)
    /\ UNCHANGED agentVars

AlreadyRunning ==
    /\ step = "start" /\ subject \in registered
    /\ Started(registered)
    /\ UNCHANGED agentVars

\* factory.Start: the process runs and has answered initialize
Spawn ==
    /\ step = "start" /\ subject \notin registered
    /\ process' = [process EXCEPT ![subject] = "alive"]
    /\ GoTo("register")
    /\ UNCHANGED <<disk, records, registered, status>>

Register ==
    /\ step = "register"
    /\ registered' = registered \cup {subject}
    /\ status' = [status EXCEPT ![subject] = "running"]
    /\ Started(registered')
    /\ UNCHANGED <<disk, records, process>>

\* no process is left: NewIsolatedAppServerClient closes one that fails to initialize
StartFails ==
    /\ step = "start" /\ subject \notin registered
    /\ status' = [status EXCEPT ![subject] = "error"]
    /\ StartFailed(registered)
    /\ UNCHANGED <<disk, records, registered, process>>

\* mutant: the status is left alone
UnregisterOnly ==
    /\ step \in {"stop", "undo"}
    /\ registered' = registered \ {subject}
    /\ IF subject \in registered THEN GoTo(IF step = "stop" THEN "close" ELSE "undo_close")
                                 ELSE Stopped(registered')
    /\ UNCHANGED <<disk, records, status, process>>

\* stopAgent under s.mu; without a cleanup it is done
Unregister ==
    /\ step \in {"stop", "undo"}
    /\ registered' = registered \ {subject}
    /\ status' = [status EXCEPT ![subject] = "stopped"]
    /\ IF subject \in registered THEN GoTo(IF step = "stop" THEN "close" ELSE "undo_close")
                                 ELSE Stopped(registered')
    /\ UNCHANGED <<disk, records, process>>

\* mutant: the cleanup is forgotten
CloseNothing ==
    /\ step \in {"close", "undo_close"}
    /\ Stopped(registered)
    /\ UNCHANGED agentVars

\* mutant: Close waits for the exit without closing stdin
CloseWaits ==
    /\ step \in {"close", "undo_close"}
    /\ process[subject] = "dead"
    /\ process' = [process EXCEPT ![subject] = "none"]
    /\ Stopped(registered)
    /\ UNCHANGED <<disk, records, registered, status>>

\* cleanup: StdioRunner.Close closes stdin and waits for the exit
CloseProcess ==
    /\ step \in {"close", "undo_close"}
    /\ process' = [process EXCEPT ![subject] = "none"]
    /\ Stopped(registered)
    /\ UNCHANGED <<disk, records, registered, status>>

\* mutant: the record stays in memory
ForgetStatus ==
    /\ step = "forget"
    /\ status' = [status EXCEPT ![subject] = ""]
    /\ GoTo("remove")
    /\ UNCHANGED <<disk, records, registered, process>>

\* delete from s.records and s.statusByAgentID
Forget ==
    /\ step = "forget"
    /\ records' = records \ {subject}
    /\ status' = [status EXCEPT ![subject] = ""]
    /\ GoTo("remove")
    /\ UNCHANGED <<disk, registered, process>>

\* os.RemoveAll; a failed installation reports the start's error in any case
RemoveDir ==
    /\ step = "remove"
    /\ disk' = [disk EXCEPT ![subject] = "none"]
    /\ Finish(IF op = "delete" THEN "completed" ELSE "rejected", registered)
    /\ UNCHANGED <<records, registered, status, process>>

RemoveFails ==
    /\ step = "remove"
    /\ Finish("rejected", registered)
    /\ UNCHANGED agentVars

-----------------------------------------------------------------------------
(* The client process and its connection.                                  *)

\* NewSupervisor: loadRecords, which a truncated record fails for good, the default
\* agent if there is none, then StartAll.  A failure ends the client.
Boot ==
    /\ session = "down"
    /\ \A a \in Agents : disk[a] # "partial"
    /\ session' = "boot" /\ op' = "bootstrap"
    /\ records' = {a \in Agents : disk[a] = "record"}
    /\ status' = [a \in Agents |-> ""]
    /\ passed' = {} /\ before' = {}
    /\ IF records' = {}
       THEN step' = "create" /\ subject' = 1 /\ todo' = {} /\ deleted' = deleted \ {1}
       ELSE \E a \in records' : /\ First(a, records')
                                /\ step' = "start" /\ subject' = a /\ todo' = records' \ {a}
                                /\ UNCHANGED deleted
    /\ UNCHANGED <<disk, registered, process, orphaned, installed, deaths>>

Crash ==
    /\ session # "down"
    /\ session' = "down"
    /\ op' = "none" /\ orphaned' = FALSE /\ step' = "none" /\ todo' = {} /\ passed' = {}
    /\ records' = {} /\ registered' = {}
    /\ status' = [a \in Agents |-> ""]
    /\ process' = [a \in Agents |-> "none"]
    /\ UNCHANGED <<disk, subject, history>>

ProcessDies(a) ==
    /\ process[a] = "alive" /\ deaths < MaxDeaths
    /\ process' = [process EXCEPT ![a] = "dead"]
    /\ deaths' = deaths + 1
    /\ UNCHANGED <<disk, records, registered, status, session, op, orphaned, step, subject,
                   todo, passed, before, installed, deleted>>

\* Dial and Register
Connect ==
    /\ session = "dial"
    /\ session' = "snapshot"
    /\ UNCHANGED <<agentVars, op, orphaned, step, subject, todo, passed, history>>

\* mutant: the snapshot asks installed agents, running or not
SnapshotOfRecords ==
    /\ session = "snapshot"
    /\ session' = IF Answering(records) THEN "serving" ELSE "dial"
    /\ UNCHANGED <<agentVars, op, orphaned, step, subject, todo, passed, history>>

\* sendLiveSnapshot asks every registered agent; commands are served once all answered
SendSnapshot ==
    /\ session = "snapshot"
    /\ session' = IF Answering(registered) THEN "serving" ELSE "dial"
    /\ UNCHANGED <<agentVars, op, orphaned, step, subject, todo, passed, history>>

\* the connection is lost; a command that runs goes on without it
LoseConnection ==
    /\ session \in {"snapshot", "serving"}
    /\ session' = "dial"
    /\ orphaned' = (op # "none")
    /\ UNCHANGED <<agentVars, op, step, subject, todo, passed, history>>

-----------------------------------------------------------------------------
OperationStep ==
    \/ CreateFile \/ WriteFile \/ SaveFails
    \/ AlreadyRunning \/ Spawn \/ Register \/ StartFails
    \/ Unregister \/ CloseProcess
    \/ Forget \/ RemoveDir \/ RemoveFails

Command ==
    \/ InstallAgent \/ StartAll \/ StopAll
    \/ \E a \in Agents : DeleteAgent(a) \/ RestartAgent(a)

Environment ==
    \/ Boot \/ Crash \/ LoseConnection
    \/ \E a \in Agents : ProcessDies(a)

Next == OperationStep \/ Command \/ Environment \/ Connect \/ SendSnapshot

\* The client runs, an agent exits when its stdin is closed, the gateway can be reached,
\* and a snapshot that is sent again and again gets through some time.  Nobody has to
\* send a command or to start a client that has ended.
Fairness == WF_vars(OperationStep) /\ WF_vars(Connect) /\ SF_vars(SendSnapshot)

Spec == Init /\ [][Next]_vars /\ Fairness

-----------------------------------------------------------------------------
(* Properties.                                                             *)

\* A completed installation is on disk and a completed deletion is not, at every
\* moment, so that a crash between any two steps of any operation loses no agent and
\* brings none back.
Durable ==
    /\ \A a \in installed : disk[a] = "record"
    /\ \A a \in deleted : disk[a] = "none"

\* What memory holds a restart would find again.
RecordsOnDisk == \A a \in records : disk[a] = "record"

\* A runtime that commands can reach belongs to an installed agent and has a process
\* (dead or alive); a process that is not registered is the one being worked on.
NoStrayProcess ==
    \A a \in Agents :
        /\ a \in registered => a \in records /\ process[a] # "none"
        /\ process[a] # "none" =>
              a \in registered \/ (a = subject /\ step \in {"register", "close", "undo_close"})

\* Between operations the status sent to the gateway tells what is registered.
StatusIsTrue ==
    op = "none" => \A a \in records : status[a] = "running" <=> a \in registered

\* runtime.start that fails leaves nothing running that it started.
FailedStartUndone ==
    [][op = "start_all" /\ op' = "none" /\ registered' # records =>
             registered' \subseteq before]_vars

\* Every operation ends, so opMu is always released.
OperationsEnd == op # "none" ~> op = "none"

\* A client that has lost its connection serves commands again, or has ended, unless
\* a registered agent is dead.
ComesBackOnline == session = "dial" ~> session \in {"serving", "down"} \/ ~Answering(registered)

\* An agent whose process has died is noticed: it is restarted or no longer shown
\* running.  (The design document's claim; see the README.)
DeadAgentNoticed ==
    \A a \in Agents : process[a] = "dead" ~> process[a] # "dead" \/ status[a] # "running"

-----------------------------------------------------------------------------
(* The inductive invariant behind the safety properties: what each step of *)
(* an operation knows about its agent, the disk and the processes.         *)

\* which steps an operation goes through
StepInv ==
    /\ op = "none" <=> step = "none"
    /\ session = "boot" <=> op = "bootstrap"
    /\ session = "down" => op = "none"
    /\ step \in {"create", "write"} => op \in {"install", "bootstrap"}
    /\ step \in {"start", "register"} => op \in {"install", "restart", "bootstrap", "start_all"}
    /\ step \in {"stop", "close"} => op \in {"delete", "restart", "stop_all"}
    /\ step \in {"undo", "undo_close"} => op \in {"bootstrap", "start_all"}
    /\ step \in {"forget", "remove"} => op \in {"install", "delete"}

\* what is known of the agent being worked on, in memory and on disk
RecordInv ==
    /\ session # "down" => installed \subseteq records
    /\ step \in {"create", "write"} => subject \notin records /\ subject \notin deleted
    /\ step \in {"start", "register"} => subject \in records
    /\ op = "restart" => subject \in records
    /\ step = "remove" => subject \notin records
    /\ op \in {"install", "delete"} => subject \notin installed
    /\ op = "install" => subject \notin deleted
    /\ op \in {"bootstrap", "start_all"} => todo \subseteq records

\* registered agents are those with a process, but for the one that changes
ProcessInv ==
    /\ registered \subseteq records
    /\ session = "down" => registered = {}
    /\ step \in {"create", "write", "register", "close", "undo_close", "forget", "remove"} =>
          subject \notin registered
    /\ \A a \in Agents :
          process[a] # "none" <=>
              a \in registered \/ (a = subject /\ step \in {"register", "close", "undo_close"})
    /\ \A a \in Agents : status[a] = "running" <=> a \in registered

\* what StartAll has yet to start, and to stop if it fails
RollbackInv ==
    /\ op = "none" => passed = {}
    /\ op = "bootstrap" => before = {}
    /\ op = "bootstrap" /\ step \in {"create", "write"} => records = {} /\ passed = {}
    /\ op \in {"bootstrap", "start_all"} =>
          /\ registered \subseteq before \cup passed \cup (IF step = "undo" THEN {subject} ELSE {})
          /\ step \in {"start", "register"} =>
                passed \subseteq registered /\ records \subseteq passed \cup todo \cup {subject}

IInv == TypeOK /\ StepInv /\ RecordInv /\ ProcessInv /\ RollbackInv /\ Durable /\ RecordsOnDisk
=============================================================================
