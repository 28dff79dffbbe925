---------------------------- MODULE Client_proofs ----------------------------
(***************************************************************************)
(* TLAPS proofs about the client: Supervisor, for every number of agents   *)
(* and every bound on the deaths, and StdioRunner, for every number of     *)
(* calls and of turns.  The inductive invariants are IInv and RunnerInv:   *)
(* one lemma per conjunct shows that every step preserves it, with one     *)
(* step per action.                                                        *)
(***************************************************************************)
EXTENDS Supervisor, StdioRunner, FiniteSetTheorems, TLAPS

-----------------------------------------------------------------------------
(* Supervisor.                                                             *)


\* There is an agent to boot with.
LEMMA AgentOne == 1 \in Agents
  BY SupervisorAssumption DEF Agents

\* Counting below a bound stays within it.
LEMMA CountOne ==
  ASSUME NEW m \in Nat, NEW k \in 0..m, k < m
  PROVE  k + 1 \in 0..m
  OBVIOUS

\* Every step preserves the type invariant.
LEMMA TypeStep == IInv /\ [Next]_vars => TypeOK'
<1> SUFFICES ASSUME IInv, [Next]_vars PROVE TypeOK'
  OBVIOUS
<1>1. CASE OperationStep
  <2>1. CASE CreateFile
    BY <2>1 DEF IInv, TypeOK, StepInv, CreateFile, GoTo, agentVars, history
  <2>2. CASE WriteFile
    BY <2>2 DEF IInv, TypeOK, StepInv, WriteFile, GoTo, agentVars, history
  <2>3. CASE SaveFails
    BY <2>3 DEF IInv, TypeOK, StepInv, SaveFails, Finish, agentVars, history
  <2>4. CASE AlreadyRunning
    BY <2>4 DEF IInv, TypeOK, StepInv, AlreadyRunning, Started, Finish, GoToAgent,
       First,
       agentVars, history
  <2>5. CASE Spawn
    BY <2>5 DEF IInv, TypeOK, StepInv, Spawn, GoTo, agentVars, history
  <2>6. CASE Register
    BY <2>6 DEF IInv, TypeOK, StepInv, Register, Started, Finish, GoToAgent, First,
       agentVars, history
  <2>7. CASE StartFails
    BY <2>7 DEF IInv, TypeOK, StepInv, StartFails, StartFailed, Finish, GoTo, GoToAgent,
       Last, agentVars, history
  <2>8. CASE Unregister
    BY <2>8 DEF IInv, TypeOK, StepInv, Unregister, Stopped, Finish, GoTo, GoToAgent,
       First, Last, agentVars, history
  <2>9. CASE CloseProcess
    BY <2>9 DEF IInv, TypeOK, StepInv, CloseProcess, Stopped, Finish, GoTo, GoToAgent,
       First, Last, agentVars, history
  <2>10. CASE Forget
    BY <2>10 DEF IInv, TypeOK, StepInv, Forget, GoTo, agentVars, history
  <2>11. CASE RemoveDir
    BY <2>11 DEF IInv, TypeOK, StepInv, RemoveDir, Finish, agentVars, history
  <2>12. CASE RemoveFails
    BY <2>12 DEF IInv, TypeOK, StepInv, RemoveFails, Finish, agentVars, history
  <2> QED
    BY <1>1, <2>1, <2>2, <2>3, <2>4, <2>5, <2>6, <2>7, <2>8, <2>9, <2>10, <2>11,
       <2>12 DEF
       OperationStep
<1>2. CASE Command
  <2>1. CASE InstallAgent
    BY <2>1 DEF IInv, TypeOK, StepInv, InstallAgent, NextAgentID, First, Begin,
       agentVars,
       history
  <2>2. CASE StartAll
    BY <2>2 DEF IInv, TypeOK, StepInv, StartAll, First, Begin, agentVars, history
  <2>3. CASE StopAll
    BY <2>3 DEF IInv, TypeOK, StepInv, StopAll, First, Begin, agentVars, history
  <2>4. ASSUME NEW a \in Agents, DeleteAgent(a) PROVE TypeOK'
    BY <2>4 DEF IInv, TypeOK, StepInv, DeleteAgent, Begin, agentVars, history
  <2>5. ASSUME NEW a \in Agents, RestartAgent(a) PROVE TypeOK'
    BY <2>5 DEF IInv, TypeOK, StepInv, RestartAgent, Begin, agentVars, history
  <2> QED
    BY <1>2, <2>1, <2>2, <2>3, <2>4, <2>5 DEF Command
<1>3. CASE Environment
  <2>1. CASE Boot
    <3>1. /\ records' = {a \in Agents : disk[a] = "record"}
          /\ status' = [a \in Agents |-> ""]
      BY <2>1 DEF Boot
    <3>2. subject' \in Agents
      BY <2>1, <3>1, AgentOne DEF Boot, First
    <3>3. todo' \subseteq Agents
      BY <2>1, <3>1 DEF Boot
    <3>4. deleted' \subseteq Agents
      BY <2>1 DEF IInv, TypeOK, Boot
    <3>5. step' \in {"create", "start"}
      BY <2>1 DEF Boot
    <3>6. /\ disk' = disk /\ registered' = registered /\ process' = process
          /\ orphaned' = orphaned /\ installed' = installed /\ deaths' = deaths
          /\ session' = "boot" /\ op' = "bootstrap" /\ passed' = {} /\ before' = {}
      BY <2>1 DEF Boot
    <3> QED
      BY <3>1, <3>2, <3>3, <3>4, <3>5, <3>6 DEF IInv, TypeOK
  <2>2. CASE Crash
    BY <2>2 DEF IInv, TypeOK, StepInv, Crash, agentVars, history
  <2>3. CASE LoseConnection
    BY <2>3 DEF IInv, TypeOK, StepInv, LoseConnection, agentVars, history
  <2>4. ASSUME NEW a \in Agents, ProcessDies(a) PROVE TypeOK'
    <3>1. deaths' \in 0..MaxDeaths
      BY <2>4, SupervisorAssumption, CountOne DEF IInv, TypeOK, ProcessDies
    <3> QED
      BY <2>4, <3>1 DEF IInv, TypeOK, ProcessDies
  <2> QED
    BY <1>3, <2>1, <2>2, <2>3, <2>4 DEF Environment
<1>4. CASE Connect
  BY <1>4 DEF IInv, TypeOK, StepInv, Connect, agentVars, history
<1>5. CASE SendSnapshot
  BY <1>5 DEF IInv, TypeOK, StepInv, SendSnapshot, agentVars, history
<1>6. CASE UNCHANGED vars
  BY <1>6 DEF IInv, TypeOK, StepInv, vars, agentVars, history
<1> QED
  BY <1>1, <1>2, <1>3, <1>4, <1>5, <1>6 DEF Next

\* Every step leads to a step its operation has.
LEMMA StepStep == IInv /\ [Next]_vars => StepInv'
<1> SUFFICES ASSUME IInv, [Next]_vars PROVE StepInv'
  OBVIOUS
<1>1. CASE OperationStep
  <2>1. CASE CreateFile
    BY <2>1 DEF IInv, StepInv, CreateFile, GoTo, agentVars, history
  <2>2. CASE WriteFile
    BY <2>2 DEF IInv, StepInv, WriteFile, GoTo, agentVars, history
  <2>3. CASE SaveFails
    BY <2>3 DEF IInv, StepInv, SaveFails, Finish, agentVars, history
  <2>4. CASE AlreadyRunning
    BY <2>4 DEF IInv, StepInv, AlreadyRunning, Started, Finish, GoToAgent, First,
       agentVars, history
  <2>5. CASE Spawn
    BY <2>5 DEF IInv, StepInv, Spawn, GoTo, agentVars, history
  <2>6. CASE Register
    BY <2>6 DEF IInv, StepInv, Register, Started, Finish, GoToAgent, First, agentVars,
       history
  <2>7. CASE StartFails
    BY <2>7 DEF IInv, StepInv, StartFails, StartFailed, Finish, GoTo, GoToAgent, Last,
       agentVars, history
  <2>8. CASE Unregister
    BY <2>8 DEF IInv, StepInv, Unregister, Stopped, Finish, GoTo, GoToAgent, First,
       Last,
       agentVars, history
  <2>9. CASE CloseProcess
    BY <2>9 DEF IInv, StepInv, CloseProcess, Stopped, Finish, GoTo, GoToAgent, First,
       Last, agentVars, history
  <2>10. CASE Forget
    BY <2>10 DEF IInv, StepInv, Forget, GoTo, agentVars, history
  <2>11. CASE RemoveDir
    BY <2>11 DEF IInv, StepInv, RemoveDir, Finish, agentVars, history
  <2>12. CASE RemoveFails
    BY <2>12 DEF IInv, StepInv, RemoveFails, Finish, agentVars, history
  <2> QED
    BY <1>1, <2>1, <2>2, <2>3, <2>4, <2>5, <2>6, <2>7, <2>8, <2>9, <2>10, <2>11,
       <2>12 DEF
       OperationStep
<1>2. CASE Command
  <2>1. CASE InstallAgent
    BY <2>1 DEF IInv, StepInv, InstallAgent, NextAgentID, First, Begin, agentVars,
       history
  <2>2. CASE StartAll
    BY <2>2 DEF IInv, StepInv, StartAll, First, Begin, agentVars, history
  <2>3. CASE StopAll
    BY <2>3 DEF IInv, StepInv, StopAll, First, Begin, agentVars, history
  <2>4. ASSUME NEW a \in Agents, DeleteAgent(a) PROVE StepInv'
    BY <2>4 DEF IInv, StepInv, DeleteAgent, Begin, agentVars, history
  <2>5. ASSUME NEW a \in Agents, RestartAgent(a) PROVE StepInv'
    BY <2>5 DEF IInv, StepInv, RestartAgent, Begin, agentVars, history
  <2> QED
    BY <1>2, <2>1, <2>2, <2>3, <2>4, <2>5 DEF Command
<1>3. CASE Environment
  <2>1. CASE Boot
    BY <2>1 DEF IInv, StepInv, Boot, First, agentVars, history
  <2>2. CASE Crash
    BY <2>2 DEF IInv, StepInv, Crash, agentVars, history
  <2>3. CASE LoseConnection
    BY <2>3 DEF IInv, StepInv, LoseConnection, agentVars, history
  <2>4. ASSUME NEW a \in Agents, ProcessDies(a) PROVE StepInv'
    BY <2>4 DEF IInv, StepInv, ProcessDies, agentVars, history
  <2> QED
    BY <1>3, <2>1, <2>2, <2>3, <2>4 DEF Environment
<1>4. CASE Connect
  BY <1>4 DEF IInv, StepInv, Connect, agentVars, history
<1>5. CASE SendSnapshot
  BY <1>5 DEF IInv, StepInv, SendSnapshot, agentVars, history
<1>6. CASE UNCHANGED vars
  BY <1>6 DEF IInv, StepInv, vars, agentVars, history
<1> QED
  BY <1>1, <1>2, <1>3, <1>4, <1>5, <1>6 DEF Next

\* Every step preserves what is known of the agent being worked on.
LEMMA RecordStep == IInv /\ [Next]_vars => RecordInv'
<1> SUFFICES ASSUME IInv, [Next]_vars PROVE RecordInv'
  OBVIOUS
<1>1. CASE OperationStep
  <2>1. CASE CreateFile
    BY <2>1 DEF IInv, StepInv, RecordInv, CreateFile, GoTo, agentVars, history
  <2>2. CASE WriteFile
    BY <2>2 DEF IInv, StepInv, RecordInv, WriteFile, GoTo, agentVars, history
  <2>3. CASE SaveFails
    BY <2>3 DEF IInv, StepInv, RecordInv, SaveFails, Finish, agentVars, history
  <2>4. CASE AlreadyRunning
    <3>1. (session # "down" => installed \subseteq records)'
      BY <2>4 DEF IInv, StepInv, RecordInv, AlreadyRunning, Started, Finish, GoToAgent,
         First, agentVars, history
    <3>2. (step \in {"create", "write"} => subject \notin records /\ subject \notin deleted)'
      BY <2>4 DEF IInv, StepInv, RecordInv, AlreadyRunning, Started, Finish, GoToAgent,
         First, agentVars, history
    <3>3. (step \in {"start", "register"} => subject \in records)'
      BY <2>4 DEF IInv, StepInv, RecordInv, AlreadyRunning, Started, Finish, GoToAgent,
         First, agentVars, history
    <3>4. (op = "restart" => subject \in records)'
      BY <2>4 DEF IInv, StepInv, RecordInv, AlreadyRunning, Started, Finish, GoToAgent,
         First, agentVars, history
    <3>5. (step = "remove" => subject \notin records)'
      BY <2>4 DEF IInv, StepInv, RecordInv, AlreadyRunning, Started, Finish, GoToAgent,
         First, agentVars, history
    <3>6. (op \in {"install", "delete"} => subject \notin installed)'
      BY <2>4 DEF IInv, StepInv, RecordInv, AlreadyRunning, Started, Finish, GoToAgent,
         First, agentVars, history
    <3>7. (op = "install" => subject \notin deleted)'
      BY <2>4 DEF IInv, StepInv, RecordInv, AlreadyRunning, Started, Finish, GoToAgent,
         First, agentVars, history
    <3>8. (op \in {"bootstrap", "start_all"} => todo \subseteq records)'
      BY <2>4 DEF IInv, StepInv, RecordInv, AlreadyRunning, Started, Finish, GoToAgent,
         First, agentVars, history
    <3> QED
      BY <3>1, <3>2, <3>3, <3>4, <3>5, <3>6, <3>7, <3>8 DEF RecordInv
  <2>5. CASE Spawn
    BY <2>5 DEF IInv, StepInv, RecordInv, Spawn, GoTo, agentVars, history
  <2>6. CASE Register
    <3>1. (session # "down" => installed \subseteq records)'
      BY <2>6 DEF IInv, StepInv, RecordInv, Register, Started, Finish, GoToAgent, First,
         agentVars, history
    <3>2. (step \in {"create", "write"} => subject \notin records /\ subject \notin deleted)'
      BY <2>6 DEF IInv, StepInv, RecordInv, Register, Started, Finish, GoToAgent, First,
         agentVars, history
    <3>3. (step \in {"start", "register"} => subject \in records)'
      BY <2>6 DEF IInv, StepInv, RecordInv, Register, Started, Finish, GoToAgent, First,
         agentVars, history
    <3>4. (op = "restart" => subject \in records)'
      BY <2>6 DEF IInv, StepInv, RecordInv, Register, Started, Finish, GoToAgent, First,
         agentVars, history
    <3>5. (step = "remove" => subject \notin records)'
      BY <2>6 DEF IInv, StepInv, RecordInv, Register, Started, Finish, GoToAgent, First,
         agentVars, history
    <3>6. (op \in {"install", "delete"} => subject \notin installed)'
      BY <2>6 DEF IInv, StepInv, RecordInv, Register, Started, Finish, GoToAgent, First,
         agentVars, history
    <3>7. (op = "install" => subject \notin deleted)'
      BY <2>6 DEF IInv, StepInv, RecordInv, Register, Started, Finish, GoToAgent, First,
         agentVars, history
    <3>8. (op \in {"bootstrap", "start_all"} => todo \subseteq records)'
      BY <2>6 DEF IInv, StepInv, RecordInv, Register, Started, Finish, GoToAgent, First,
         agentVars, history
    <3> QED
      BY <3>1, <3>2, <3>3, <3>4, <3>5, <3>6, <3>7, <3>8 DEF RecordInv
  <2>7. CASE StartFails
    BY <2>7 DEF IInv, StepInv, RecordInv, StartFails, StartFailed, Finish, GoTo,
       GoToAgent, Last, agentVars, history
  <2>8. CASE Unregister
    <3>1. (session # "down" => installed \subseteq records)'
      BY <2>8 DEF IInv, StepInv, RecordInv, Unregister, Stopped, Finish, GoTo,
         GoToAgent,
         First, Last, agentVars, history
    <3>2. (step \in {"create", "write"} => subject \notin records /\ subject \notin deleted)'
      BY <2>8 DEF IInv, StepInv, RecordInv, Unregister, Stopped, Finish, GoTo,
         GoToAgent,
         First, Last, agentVars, history
    <3>3. (step \in {"start", "register"} => subject \in records)'
      BY <2>8 DEF IInv, StepInv, RecordInv, Unregister, Stopped, Finish, GoTo,
         GoToAgent,
         First, Last, agentVars, history
    <3>4. (op = "restart" => subject \in records)'
      BY <2>8 DEF IInv, StepInv, RecordInv, Unregister, Stopped, Finish, GoTo,
         GoToAgent,
         First, Last, agentVars, history
    <3>5. (step = "remove" => subject \notin records)'
      BY <2>8 DEF IInv, StepInv, RecordInv, Unregister, Stopped, Finish, GoTo,
         GoToAgent,
         First, Last, agentVars, history
    <3>6. (op \in {"install", "delete"} => subject \notin installed)'
      BY <2>8 DEF IInv, StepInv, RecordInv, Unregister, Stopped, Finish, GoTo,
         GoToAgent,
         First, Last, agentVars, history
    <3>7. (op = "install" => subject \notin deleted)'
      BY <2>8 DEF IInv, StepInv, RecordInv, Unregister, Stopped, Finish, GoTo,
         GoToAgent,
         First, Last, agentVars, history
    <3>8. (op \in {"bootstrap", "start_all"} => todo \subseteq records)'
      BY <2>8 DEF IInv, StepInv, RecordInv, Unregister, Stopped, Finish, GoTo,
         GoToAgent,
         First, Last, agentVars, history
    <3> QED
      BY <3>1, <3>2, <3>3, <3>4, <3>5, <3>6, <3>7, <3>8 DEF RecordInv
  <2>9. CASE CloseProcess
    <3>1. (session # "down" => installed \subseteq records)'
      BY <2>9 DEF IInv, StepInv, RecordInv, CloseProcess, Stopped, Finish, GoTo,
         GoToAgent, First, Last, agentVars, history
    <3>2. (step \in {"create", "write"} => subject \notin records /\ subject \notin deleted)'
      BY <2>9 DEF IInv, StepInv, RecordInv, CloseProcess, Stopped, Finish, GoTo,
         GoToAgent, First, Last, agentVars, history
    <3>3. (step \in {"start", "register"} => subject \in records)'
      BY <2>9 DEF IInv, StepInv, RecordInv, CloseProcess, Stopped, Finish, GoTo,
         GoToAgent, First, Last, agentVars, history
    <3>4. (op = "restart" => subject \in records)'
      BY <2>9 DEF IInv, StepInv, RecordInv, CloseProcess, Stopped, Finish, GoTo,
         GoToAgent, First, Last, agentVars, history
    <3>5. (step = "remove" => subject \notin records)'
      BY <2>9 DEF IInv, StepInv, RecordInv, CloseProcess, Stopped, Finish, GoTo,
         GoToAgent, First, Last, agentVars, history
    <3>6. (op \in {"install", "delete"} => subject \notin installed)'
      BY <2>9 DEF IInv, StepInv, RecordInv, CloseProcess, Stopped, Finish, GoTo,
         GoToAgent, First, Last, agentVars, history
    <3>7. (op = "install" => subject \notin deleted)'
      BY <2>9 DEF IInv, StepInv, RecordInv, CloseProcess, Stopped, Finish, GoTo,
         GoToAgent, First, Last, agentVars, history
    <3>8. (op \in {"bootstrap", "start_all"} => todo \subseteq records)'
      BY <2>9 DEF IInv, StepInv, RecordInv, CloseProcess, Stopped, Finish, GoTo,
         GoToAgent, First, Last, agentVars, history
    <3> QED
      BY <3>1, <3>2, <3>3, <3>4, <3>5, <3>6, <3>7, <3>8 DEF RecordInv
  <2>10. CASE Forget
    BY <2>10 DEF IInv, StepInv, RecordInv, Forget, GoTo, agentVars, history
  <2>11. CASE RemoveDir
    <3>1. (session # "down" => installed \subseteq records)'
      BY <2>11 DEF IInv, StepInv, RecordInv, RemoveDir, Finish, agentVars, history
    <3>2. (step \in {"create", "write"} => subject \notin records /\ subject \notin deleted)'
      BY <2>11 DEF IInv, StepInv, RecordInv, RemoveDir, Finish, agentVars, history
    <3>3. (step \in {"start", "register"} => subject \in records)'
      BY <2>11 DEF IInv, StepInv, RecordInv, RemoveDir, Finish, agentVars, history
    <3>4. (op = "restart" => subject \in records)'
      BY <2>11 DEF IInv, StepInv, RecordInv, RemoveDir, Finish, agentVars, history
    <3>5. (step = "remove" => subject \notin records)'
      BY <2>11 DEF IInv, StepInv, RecordInv, RemoveDir, Finish, agentVars, history
    <3>6. (op \in {"install", "delete"} => subject \notin installed)'
      BY <2>11 DEF IInv, StepInv, RecordInv, RemoveDir, Finish, agentVars, history
    <3>7. (op = "install" => subject \notin deleted)'
      BY <2>11 DEF IInv, StepInv, RecordInv, RemoveDir, Finish, agentVars, history
    <3>8. (op \in {"bootstrap", "start_all"} => todo \subseteq records)'
      BY <2>11 DEF IInv, StepInv, RecordInv, RemoveDir, Finish, agentVars, history
    <3> QED
      BY <3>1, <3>2, <3>3, <3>4, <3>5, <3>6, <3>7, <3>8 DEF RecordInv
  <2>12. CASE RemoveFails
    BY <2>12 DEF IInv, StepInv, RecordInv, RemoveFails, Finish, agentVars, history
  <2> QED
    BY <1>1, <2>1, <2>2, <2>3, <2>4, <2>5, <2>6, <2>7, <2>8, <2>9, <2>10, <2>11,
       <2>12 DEF
       OperationStep
<1>2. CASE Command
  <2>1. CASE InstallAgent
    <3>1. (session # "down" => installed \subseteq records)'
      BY <2>1 DEF IInv, StepInv, RecordInv, TypeOK, InstallAgent, NextAgentID, First,
         Begin, agentVars, history
    <3>2. (step \in {"create", "write"} => subject \notin records /\ subject \notin deleted)'
      BY <2>1 DEF IInv, StepInv, RecordInv, TypeOK, InstallAgent, NextAgentID, First,
         Begin, agentVars, history
    <3>3. (step \in {"start", "register"} => subject \in records)'
      BY <2>1 DEF IInv, StepInv, RecordInv, TypeOK, InstallAgent, NextAgentID, First,
         Begin, agentVars, history
    <3>4. (op = "restart" => subject \in records)'
      BY <2>1 DEF IInv, StepInv, RecordInv, TypeOK, InstallAgent, NextAgentID, First,
         Begin, agentVars, history
    <3>5. (step = "remove" => subject \notin records)'
      BY <2>1 DEF IInv, StepInv, RecordInv, TypeOK, InstallAgent, NextAgentID, First,
         Begin, agentVars, history
    <3>6. (op \in {"install", "delete"} => subject \notin installed)'
      BY <2>1 DEF IInv, StepInv, RecordInv, TypeOK, InstallAgent, NextAgentID, First,
         Begin, agentVars, history
    <3>7. (op = "install" => subject \notin deleted)'
      BY <2>1 DEF IInv, StepInv, RecordInv, TypeOK, InstallAgent, NextAgentID, First,
         Begin, agentVars, history
    <3>8. (op \in {"bootstrap", "start_all"} => todo \subseteq records)'
      BY <2>1 DEF IInv, StepInv, RecordInv, TypeOK, InstallAgent, NextAgentID, First,
         Begin, agentVars, history
    <3> QED
      BY <3>1, <3>2, <3>3, <3>4, <3>5, <3>6, <3>7, <3>8 DEF RecordInv
  <2>2. CASE StartAll
    <3>1. (session # "down" => installed \subseteq records)'
      BY <2>2 DEF IInv, StepInv, RecordInv, StartAll, First, Begin, agentVars, history
    <3>2. (step \in {"create", "write"} => subject \notin records /\ subject \notin deleted)'
      BY <2>2 DEF IInv, StepInv, RecordInv, StartAll, First, Begin, agentVars, history
    <3>3. (step \in {"start", "register"} => subject \in records)'
      BY <2>2 DEF IInv, StepInv, RecordInv, StartAll, First, Begin, agentVars, history
    <3>4. (op = "restart" => subject \in records)'
      BY <2>2 DEF IInv, StepInv, RecordInv, StartAll, First, Begin, agentVars, history
    <3>5. (step = "remove" => subject \notin records)'
      BY <2>2 DEF IInv, StepInv, RecordInv, StartAll, First, Begin, agentVars, history
    <3>6. (op \in {"install", "delete"} => subject \notin installed)'
      BY <2>2 DEF IInv, StepInv, RecordInv, StartAll, First, Begin, agentVars, history
    <3>7. (op = "install" => subject \notin deleted)'
      BY <2>2 DEF IInv, StepInv, RecordInv, StartAll, First, Begin, agentVars, history
    <3>8. (op \in {"bootstrap", "start_all"} => todo \subseteq records)'
      BY <2>2 DEF IInv, StepInv, RecordInv, StartAll, First, Begin, agentVars, history
    <3> QED
      BY <3>1, <3>2, <3>3, <3>4, <3>5, <3>6, <3>7, <3>8 DEF RecordInv
  <2>3. CASE StopAll
    BY <2>3 DEF IInv, StepInv, RecordInv, StopAll, First, Begin, agentVars, history
  <2>4. ASSUME NEW a \in Agents, DeleteAgent(a) PROVE RecordInv'
    BY <2>4 DEF IInv, StepInv, RecordInv, DeleteAgent, Begin, agentVars, history
  <2>5. ASSUME NEW a \in Agents, RestartAgent(a) PROVE RecordInv'
    BY <2>5 DEF IInv, StepInv, RecordInv, RestartAgent, Begin, agentVars, history
  <2> QED
    BY <1>2, <2>1, <2>2, <2>3, <2>4, <2>5 DEF Command
<1>3. CASE Environment
  <2>1. CASE Boot
    <3>1. (session # "down" => installed \subseteq records)'
      BY <2>1 DEF IInv, StepInv, RecordInv, Durable, TypeOK, Boot, First, agentVars,
         history
    <3>2. (step \in {"create", "write"} => subject \notin records /\ subject \notin deleted)'
      BY <2>1 DEF IInv, StepInv, RecordInv, Durable, TypeOK, Boot, First, agentVars,
         history
    <3>3. (step \in {"start", "register"} => subject \in records)'
      BY <2>1 DEF IInv, StepInv, RecordInv, Durable, TypeOK, Boot, First, agentVars,
         history
    <3>4. (op = "restart" => subject \in records)'
      BY <2>1 DEF IInv, StepInv, RecordInv, Durable, TypeOK, Boot, First, agentVars,
         history
    <3>5. (step = "remove" => subject \notin records)'
      BY <2>1 DEF IInv, StepInv, RecordInv, Durable, TypeOK, Boot, First, agentVars,
         history
    <3>6. (op \in {"install", "delete"} => subject \notin installed)'
      BY <2>1 DEF IInv, StepInv, RecordInv, Durable, TypeOK, Boot, First, agentVars,
         history
    <3>7. (op = "install" => subject \notin deleted)'
      BY <2>1 DEF IInv, StepInv, RecordInv, Durable, TypeOK, Boot, First, agentVars,
         history
    <3>8. (op \in {"bootstrap", "start_all"} => todo \subseteq records)'
      BY <2>1 DEF IInv, StepInv, RecordInv, Durable, TypeOK, Boot, First, agentVars,
         history
    <3> QED
      BY <3>1, <3>2, <3>3, <3>4, <3>5, <3>6, <3>7, <3>8 DEF RecordInv
  <2>2. CASE Crash
    BY <2>2 DEF IInv, StepInv, RecordInv, Crash, agentVars, history
  <2>3. CASE LoseConnection
    BY <2>3 DEF IInv, StepInv, RecordInv, LoseConnection, agentVars, history
  <2>4. ASSUME NEW a \in Agents, ProcessDies(a) PROVE RecordInv'
    BY <2>4 DEF IInv, StepInv, RecordInv, ProcessDies, agentVars, history
  <2> QED
    BY <1>3, <2>1, <2>2, <2>3, <2>4 DEF Environment
<1>4. CASE Connect
  BY <1>4 DEF IInv, StepInv, RecordInv, Connect, agentVars, history
<1>5. CASE SendSnapshot
  BY <1>5 DEF IInv, StepInv, RecordInv, SendSnapshot, agentVars, history
<1>6. CASE UNCHANGED vars
  BY <1>6 DEF IInv, StepInv, RecordInv, vars, agentVars, history
<1> QED
  BY <1>1, <1>2, <1>3, <1>4, <1>5, <1>6 DEF Next

\* Every step preserves who is registered and who has a process.
LEMMA ProcessInvStep == IInv /\ [Next]_vars => ProcessInv'
<1> SUFFICES ASSUME IInv, [Next]_vars PROVE ProcessInv'
  OBVIOUS
<1>1. CASE OperationStep
  <2>1. CASE CreateFile
    BY <2>1 DEF IInv, StepInv, ProcessInv, CreateFile, GoTo, agentVars, history
  <2>2. CASE WriteFile
    BY <2>2 DEF IInv, TypeOK, StepInv, ProcessInv, WriteFile, GoTo, agentVars, history
  <2>3. CASE SaveFails
    BY <2>3 DEF IInv, StepInv, ProcessInv, RollbackInv, SaveFails, Finish, agentVars,
       history
  <2>4. CASE AlreadyRunning
    BY <2>4 DEF IInv, StepInv, ProcessInv, RollbackInv, AlreadyRunning, Started, Finish,
       GoToAgent, First, agentVars, history
  <2>5. CASE Spawn
    <3>1. (registered \subseteq records)'
      BY <2>5 DEF IInv, TypeOK, StepInv, ProcessInv, Spawn, GoTo, agentVars, history
    <3>2. (session = "down" => registered = {})'
      BY <2>5 DEF IInv, TypeOK, StepInv, ProcessInv, Spawn, GoTo, agentVars, history
    <3>3. (step \in {"create", "write", "register", "close", "undo_close", "forget", "remove"} =>
            subject \notin registered)'
      BY <2>5 DEF IInv, TypeOK, StepInv, ProcessInv, Spawn, GoTo, agentVars, history
    <3>4. (\A a \in Agents :
            process[a] # "none" <=>
               a \in registered \/ (a = subject /\ step \in {"register", "close", "undo_close"}))'
      BY <2>5 DEF IInv, TypeOK, StepInv, ProcessInv, Spawn, GoTo, agentVars, history
    <3>5. (\A a \in Agents : status[a] = "running" <=> a \in registered)'
      BY <2>5 DEF IInv, TypeOK, StepInv, ProcessInv, Spawn, GoTo, agentVars, history
    <3> QED
      BY <3>1, <3>2, <3>3, <3>4, <3>5 DEF ProcessInv
  <2>6. CASE Register
    <3>1. (registered \subseteq records)'
      BY <2>6 DEF IInv, TypeOK, StepInv, ProcessInv, RecordInv, Register, Started,
         Finish,
         GoToAgent, First, agentVars, history
    <3>2. (session = "down" => registered = {})'
      BY <2>6 DEF IInv, TypeOK, StepInv, ProcessInv, RecordInv, Register, Started,
         Finish,
         GoToAgent, First, agentVars, history
    <3>3. (step \in {"create", "write", "register", "close", "undo_close", "forget", "remove"} =>
            subject \notin registered)'
      BY <2>6 DEF IInv, TypeOK, StepInv, ProcessInv, RecordInv, Register, Started,
         Finish,
         GoToAgent, First, agentVars, history
    <3>4. (\A a \in Agents :
            process[a] # "none" <=>
               a \in registered \/ (a = subject /\ step \in {"register", "close", "undo_close"}))'
      BY <2>6 DEF IInv, TypeOK, StepInv, ProcessInv, RecordInv, Register, Started,
         Finish,
         GoToAgent, First, agentVars, history
    <3>5. (\A a \in Agents : status[a] = "running" <=> a \in registered)'
      BY <2>6 DEF IInv, TypeOK, StepInv, ProcessInv, RecordInv, Register, Started,
         Finish,
         GoToAgent, First, agentVars, history
    <3> QED
      BY <3>1, <3>2, <3>3, <3>4, <3>5 DEF ProcessInv
  <2>7. CASE StartFails
    <3>1. (registered \subseteq records)'
      BY <2>7 DEF IInv, TypeOK, StepInv, ProcessInv, RollbackInv, StartFails,
         StartFailed,
         Finish, GoTo, GoToAgent, Last, agentVars, history
    <3>2. (session = "down" => registered = {})'
      BY <2>7 DEF IInv, TypeOK, StepInv, ProcessInv, RollbackInv, StartFails,
         StartFailed,
         Finish, GoTo, GoToAgent, Last, agentVars, history
    <3>3. (step \in {"create", "write", "register", "close", "undo_close", "forget", "remove"} =>
            subject \notin registered)'
      BY <2>7 DEF IInv, TypeOK, StepInv, ProcessInv, RollbackInv, StartFails,
         StartFailed,
         Finish, GoTo, GoToAgent, Last, agentVars, history
    <3>4. (\A a \in Agents :
            process[a] # "none" <=>
               a \in registered \/ (a = subject /\ step \in {"register", "close", "undo_close"}))'
      BY <2>7 DEF IInv, TypeOK, StepInv, ProcessInv, RollbackInv, StartFails,
         StartFailed,
         Finish, GoTo, GoToAgent, Last, agentVars, history
    <3>5. (\A a \in Agents : status[a] = "running" <=> a \in registered)'
      <4>1. /\ status \in [Agents -> {"", "running", "stopped", "error"}] /\ subject \in Agents
            /\ \A a \in Agents : status[a] = "running" <=> a \in registered
        BY DEF IInv, TypeOK, ProcessInv
      <4>2. /\ status' = [status EXCEPT ![subject] = "error"]
            /\ registered' = registered /\ subject \notin registered
        BY <2>7 DEF IInv, ProcessInv, StartFails
      <4> QED
        BY <4>1, <4>2
    <3> QED
      BY <3>1, <3>2, <3>3, <3>4, <3>5 DEF ProcessInv
  <2>8. CASE Unregister
    <3>1. (registered \subseteq records)'
      BY <2>8 DEF IInv, TypeOK, StepInv, ProcessInv, RollbackInv, Unregister, Stopped,
         Finish, GoTo, GoToAgent, First, Last, agentVars, history
    <3>2. (session = "down" => registered = {})'
      BY <2>8 DEF IInv, TypeOK, StepInv, ProcessInv, RollbackInv, Unregister, Stopped,
         Finish, GoTo, GoToAgent, First, Last, agentVars, history
    <3>3. (step \in {"create", "write", "register", "close", "undo_close", "forget", "remove"} =>
            subject \notin registered)'
      BY <2>8 DEF IInv, TypeOK, StepInv, ProcessInv, RollbackInv, Unregister, Stopped,
         Finish, GoTo, GoToAgent, First, Last, agentVars, history
    <3>4. (\A a \in Agents :
            process[a] # "none" <=>
               a \in registered \/ (a = subject /\ step \in {"register", "close", "undo_close"}))'
      BY <2>8 DEF IInv, TypeOK, StepInv, ProcessInv, RollbackInv, Unregister, Stopped,
         Finish, GoTo, GoToAgent, First, Last, agentVars, history
    <3>5. (\A a \in Agents : status[a] = "running" <=> a \in registered)'
      <4>1. /\ status \in [Agents -> {"", "running", "stopped", "error"}] /\ subject \in Agents
            /\ \A a \in Agents : status[a] = "running" <=> a \in registered
        BY DEF IInv, TypeOK, ProcessInv
      <4>2. /\ status' = [status EXCEPT ![subject] = "stopped"]
            /\ registered' = registered \ {subject}
        BY <2>8 DEF IInv, ProcessInv, Unregister
      <4> QED
        BY <4>1, <4>2
    <3> QED
      BY <3>1, <3>2, <3>3, <3>4, <3>5 DEF ProcessInv
  <2>9. CASE CloseProcess
    <3>1. (registered \subseteq records)'
      BY <2>9 DEF IInv, TypeOK, StepInv, ProcessInv, RollbackInv, CloseProcess, Stopped,
         Finish, GoTo, GoToAgent, First, Last, agentVars, history
    <3>2. (session = "down" => registered = {})'
      BY <2>9 DEF IInv, TypeOK, StepInv, ProcessInv, RollbackInv, CloseProcess, Stopped,
         Finish, GoTo, GoToAgent, First, Last, agentVars, history
    <3>3. (step \in {"create", "write", "register", "close", "undo_close", "forget", "remove"} =>
            subject \notin registered)'
      BY <2>9 DEF IInv, TypeOK, StepInv, ProcessInv, RollbackInv, CloseProcess, Stopped,
         Finish, GoTo, GoToAgent, First, Last, agentVars, history
    <3>4. (\A a \in Agents :
            process[a] # "none" <=>
               a \in registered \/ (a = subject /\ step \in {"register", "close", "undo_close"}))'
      BY <2>9 DEF IInv, TypeOK, StepInv, ProcessInv, RollbackInv, CloseProcess, Stopped,
         Finish, GoTo, GoToAgent, First, Last, agentVars, history
    <3>5. (\A a \in Agents : status[a] = "running" <=> a \in registered)'
      BY <2>9 DEF IInv, TypeOK, StepInv, ProcessInv, RollbackInv, CloseProcess, Stopped,
         Finish, GoTo, GoToAgent, First, Last, agentVars, history
    <3> QED
      BY <3>1, <3>2, <3>3, <3>4, <3>5 DEF ProcessInv
  <2>10. CASE Forget
    <3>1. (registered \subseteq records)'
      BY <2>10 DEF IInv, TypeOK, StepInv, ProcessInv, Forget, GoTo, agentVars, history
    <3>2. (session = "down" => registered = {})'
      BY <2>10 DEF IInv, TypeOK, StepInv, ProcessInv, Forget, GoTo, agentVars, history
    <3>3. (step \in {"create", "write", "register", "close", "undo_close", "forget", "remove"} =>
            subject \notin registered)'
      BY <2>10 DEF IInv, TypeOK, StepInv, ProcessInv, Forget, GoTo, agentVars, history
    <3>4. (\A a \in Agents :
            process[a] # "none" <=>
               a \in registered \/ (a = subject /\ step \in {"register", "close", "undo_close"}))'
      BY <2>10 DEF IInv, TypeOK, StepInv, ProcessInv, Forget, GoTo, agentVars, history
    <3>5. (\A a \in Agents : status[a] = "running" <=> a \in registered)'
      <4>1. /\ status \in [Agents -> {"", "running", "stopped", "error"}] /\ subject \in Agents
            /\ \A a \in Agents : status[a] = "running" <=> a \in registered
        BY DEF IInv, TypeOK, ProcessInv
      <4>2. /\ status' = [status EXCEPT ![subject] = ""]
            /\ registered' = registered /\ subject \notin registered
        BY <2>10 DEF IInv, ProcessInv, Forget
      <4> QED
        BY <4>1, <4>2
    <3> QED
      BY <3>1, <3>2, <3>3, <3>4, <3>5 DEF ProcessInv
  <2>11. CASE RemoveDir
    BY <2>11 DEF IInv, StepInv, ProcessInv, RemoveDir, Finish, agentVars, history
  <2>12. CASE RemoveFails
    BY <2>12 DEF IInv, StepInv, ProcessInv, RemoveFails, Finish, agentVars, history
  <2> QED
    BY <1>1, <2>1, <2>2, <2>3, <2>4, <2>5, <2>6, <2>7, <2>8, <2>9, <2>10, <2>11,
       <2>12 DEF
       OperationStep
<1>2. CASE Command
  <2>1. CASE InstallAgent
    BY <2>1 DEF IInv, TypeOK, StepInv, ProcessInv, InstallAgent, NextAgentID, First,
       Begin, agentVars, history
  <2>2. CASE StartAll
    <3>1. (registered \subseteq records)'
      BY <2>2 DEF IInv, StepInv, ProcessInv, StartAll, First, Begin, agentVars, history
    <3>2. (session = "down" => registered = {})'
      BY <2>2 DEF IInv, StepInv, ProcessInv, StartAll, First, Begin, agentVars, history
    <3>3. (step \in {"create", "write", "register", "close", "undo_close", "forget", "remove"} =>
            subject \notin registered)'
      BY <2>2 DEF IInv, StepInv, ProcessInv, StartAll, First, Begin, agentVars, history
    <3>4. (\A a \in Agents :
            process[a] # "none" <=>
               a \in registered \/ (a = subject /\ step \in {"register", "close", "undo_close"}))'
      BY <2>2 DEF IInv, StepInv, ProcessInv, StartAll, First, Begin, agentVars, history
    <3>5. (\A a \in Agents : status[a] = "running" <=> a \in registered)'
      BY <2>2 DEF IInv, StepInv, ProcessInv, StartAll, First, Begin, agentVars, history
    <3> QED
      BY <3>1, <3>2, <3>3, <3>4, <3>5 DEF ProcessInv
  <2>3. CASE StopAll
    BY <2>3 DEF IInv, StepInv, ProcessInv, StopAll, First, Begin, agentVars, history
  <2>4. ASSUME NEW a \in Agents, DeleteAgent(a) PROVE ProcessInv'
    BY <2>4 DEF IInv, StepInv, ProcessInv, DeleteAgent, Begin, agentVars, history
  <2>5. ASSUME NEW a \in Agents, RestartAgent(a) PROVE ProcessInv'
    BY <2>5 DEF IInv, StepInv, ProcessInv, RestartAgent, Begin, agentVars, history
  <2> QED
    BY <1>2, <2>1, <2>2, <2>3, <2>4, <2>5 DEF Command
<1>3. CASE Environment
  <2>1. CASE Boot
    <3>1. registered = {} /\ registered' = {} /\ step = "none" /\ session' = "boot"
      BY <2>1 DEF IInv, StepInv, ProcessInv, Boot
    <3>2. step' \in {"create", "start"} /\ status' = [a \in Agents |-> ""]
      BY <2>1 DEF Boot
    <3>3. \A a \in Agents : process'[a] = "none"
      BY <2>1, <3>1 DEF IInv, ProcessInv, Boot
    <3> QED
      BY <3>1, <3>2, <3>3 DEF ProcessInv
  <2>2. CASE Crash
    BY <2>2 DEF IInv, StepInv, ProcessInv, Crash, agentVars, history
  <2>3. CASE LoseConnection
    BY <2>3 DEF IInv, StepInv, ProcessInv, LoseConnection, agentVars, history
  <2>4. ASSUME NEW a \in Agents, ProcessDies(a) PROVE ProcessInv'
    BY <2>4 DEF IInv, TypeOK, StepInv, ProcessInv, ProcessDies, agentVars, history
  <2> QED
    BY <1>3, <2>1, <2>2, <2>3, <2>4 DEF Environment
<1>4. CASE Connect
  BY <1>4 DEF IInv, StepInv, ProcessInv, Connect, agentVars, history
<1>5. CASE SendSnapshot
  BY <1>5 DEF IInv, StepInv, ProcessInv, SendSnapshot, agentVars, history
<1>6. CASE UNCHANGED vars
  BY <1>6 DEF IInv, StepInv, ProcessInv, vars, agentVars, history
<1> QED
  BY <1>1, <1>2, <1>3, <1>4, <1>5, <1>6 DEF Next

\* Every step preserves what StartAll has to start and to undo.
LEMMA RollbackStep == IInv /\ [Next]_vars => RollbackInv'
<1> SUFFICES ASSUME IInv, [Next]_vars PROVE RollbackInv'
  OBVIOUS
<1>1. CASE OperationStep
  <2>1. CASE CreateFile
    BY <2>1 DEF IInv, StepInv, ProcessInv, RollbackInv, CreateFile, GoTo, agentVars,
       history
  <2>2. CASE WriteFile
    BY <2>2 DEF IInv, StepInv, ProcessInv, RollbackInv, WriteFile, GoTo, agentVars,
       history
  <2>3. CASE SaveFails
    BY <2>3 DEF IInv, StepInv, ProcessInv, RollbackInv, SaveFails, Finish, agentVars,
       history
  <2>4. CASE AlreadyRunning
    <3>1. \/ op' = "none" /\ passed' = {}
          \/ /\ op \in {"bootstrap", "start_all"} /\ op' = op
             /\ passed' = passed \cup {subject} /\ step' = "start"
             /\ subject' \in todo /\ todo' = todo \ {subject'}
      BY <2>4 DEF IInv, StepInv, AlreadyRunning, Started, Finish, GoToAgent, First
    <3>2. /\ step \in {"start", "register"}
          /\ registered' = registered \cup {subject} /\ records' = records
      BY <2>4 DEF AlreadyRunning, agentVars
    <3>3. before' = before
      BY <2>4 DEF AlreadyRunning, Started, Finish, GoToAgent, history
    <3> QED
      BY <3>1, <3>2, <3>3 DEF IInv, RollbackInv
  <2>5. CASE Spawn
    BY <2>5 DEF IInv, StepInv, ProcessInv, RollbackInv, Spawn, GoTo, agentVars, history
  <2>6. CASE Register
    <3>1. \/ op' = "none" /\ passed' = {}
          \/ /\ op \in {"bootstrap", "start_all"} /\ op' = op
             /\ passed' = passed \cup {subject} /\ step' = "start"
             /\ subject' \in todo /\ todo' = todo \ {subject'}
      BY <2>6 DEF IInv, StepInv, Register, Started, Finish, GoToAgent, First
    <3>2. /\ step \in {"start", "register"}
          /\ registered' = registered \cup {subject} /\ records' = records
      BY <2>6 DEF Register, agentVars
    <3>3. before' = before
      BY <2>6 DEF Register, Started, Finish, GoToAgent, history
    <3> QED
      BY <3>1, <3>2, <3>3 DEF IInv, RollbackInv
  <2>7. CASE StartFails
    <3>1. (op = "none" => passed = {})'
      BY <2>7 DEF IInv, StepInv, ProcessInv, RollbackInv, StartFails, StartFailed,
         Finish,
         GoTo, GoToAgent, Last, agentVars, history
    <3>2. (op = "bootstrap" => before = {})'
      BY <2>7 DEF IInv, StepInv, ProcessInv, RollbackInv, StartFails, StartFailed,
         Finish,
         GoTo, GoToAgent, Last, agentVars, history
    <3>3. (op = "bootstrap" /\ step \in {"create", "write"} => records = {} /\ passed = {})'
      BY <2>7 DEF IInv, StepInv, ProcessInv, RollbackInv, StartFails, StartFailed,
         Finish,
         GoTo, GoToAgent, Last, agentVars, history
    <3>4. (op \in {"bootstrap", "start_all"} =>
            registered \subseteq before \cup passed \cup (IF step = "undo" THEN {subject} ELSE {}))'
      BY <2>7 DEF IInv, StepInv, ProcessInv, RollbackInv, StartFails, StartFailed,
         Finish,
         GoTo, GoToAgent, Last, agentVars, history
    <3>5. (op \in {"bootstrap", "start_all"} /\ step \in {"start", "register"} =>
            passed \subseteq registered /\ records \subseteq passed \cup todo \cup {subject})'
      BY <2>7 DEF IInv, StepInv, ProcessInv, RollbackInv, StartFails, StartFailed,
         Finish,
         GoTo, GoToAgent, Last, agentVars, history
    <3> QED
      BY <3>1, <3>2, <3>3, <3>4, <3>5 DEF RollbackInv
  <2>8. CASE Unregister
    <3>1. (op = "none" => passed = {})'
      BY <2>8 DEF IInv, StepInv, ProcessInv, RollbackInv, Unregister, Stopped, Finish,
         GoTo, GoToAgent, First, Last, agentVars, history
    <3>2. (op = "bootstrap" => before = {})'
      BY <2>8 DEF IInv, StepInv, ProcessInv, RollbackInv, Unregister, Stopped, Finish,
         GoTo, GoToAgent, First, Last, agentVars, history
    <3>3. (op = "bootstrap" /\ step \in {"create", "write"} => records = {} /\ passed = {})'
      BY <2>8 DEF IInv, StepInv, ProcessInv, RollbackInv, Unregister, Stopped, Finish,
         GoTo, GoToAgent, First, Last, agentVars, history
    <3>4. (op \in {"bootstrap", "start_all"} =>
            registered \subseteq before \cup passed \cup (IF step = "undo" THEN {subject} ELSE {}))'
      BY <2>8 DEF IInv, StepInv, ProcessInv, RollbackInv, Unregister, Stopped, Finish,
         GoTo, GoToAgent, First, Last, agentVars, history
    <3>5. (op \in {"bootstrap", "start_all"} /\ step \in {"start", "register"} =>
            passed \subseteq registered /\ records \subseteq passed \cup todo \cup {subject})'
      BY <2>8 DEF IInv, StepInv, ProcessInv, RollbackInv, Unregister, Stopped, Finish,
         GoTo, GoToAgent, First, Last, agentVars, history
    <3> QED
      BY <3>1, <3>2, <3>3, <3>4, <3>5 DEF RollbackInv
  <2>9. CASE CloseProcess
    <3>1. (op = "none" => passed = {})'
      BY <2>9 DEF IInv, StepInv, ProcessInv, RollbackInv, CloseProcess, Stopped, Finish,
         GoTo, GoToAgent, First, Last, agentVars, history
    <3>2. (op = "bootstrap" => before = {})'
      BY <2>9 DEF IInv, StepInv, ProcessInv, RollbackInv, CloseProcess, Stopped, Finish,
         GoTo, GoToAgent, First, Last, agentVars, history
    <3>3. (op = "bootstrap" /\ step \in {"create", "write"} => records = {} /\ passed = {})'
      BY <2>9 DEF IInv, StepInv, ProcessInv, RollbackInv, CloseProcess, Stopped, Finish,
         GoTo, GoToAgent, First, Last, agentVars, history
    <3>4. (op \in {"bootstrap", "start_all"} =>
            registered \subseteq before \cup passed \cup (IF step = "undo" THEN {subject} ELSE {}))'
      BY <2>9 DEF IInv, StepInv, ProcessInv, RollbackInv, CloseProcess, Stopped, Finish,
         GoTo, GoToAgent, First, Last, agentVars, history
    <3>5. (op \in {"bootstrap", "start_all"} /\ step \in {"start", "register"} =>
            passed \subseteq registered /\ records \subseteq passed \cup todo \cup {subject})'
      BY <2>9 DEF IInv, StepInv, ProcessInv, RollbackInv, CloseProcess, Stopped, Finish,
         GoTo, GoToAgent, First, Last, agentVars, history
    <3> QED
      BY <3>1, <3>2, <3>3, <3>4, <3>5 DEF RollbackInv
  <2>10. CASE Forget
    BY <2>10 DEF IInv, StepInv, ProcessInv, RollbackInv, Forget, GoTo, agentVars,
       history
  <2>11. CASE RemoveDir
    BY <2>11 DEF IInv, StepInv, ProcessInv, RollbackInv, RemoveDir, Finish, agentVars,
       history
  <2>12. CASE RemoveFails
    BY <2>12 DEF IInv, StepInv, ProcessInv, RollbackInv, RemoveFails, Finish, agentVars,
       history
  <2> QED
    BY <1>1, <2>1, <2>2, <2>3, <2>4, <2>5, <2>6, <2>7, <2>8, <2>9, <2>10, <2>11,
       <2>12 DEF
       OperationStep
<1>2. CASE Command
  <2>1. CASE InstallAgent
    BY <2>1 DEF IInv, StepInv, ProcessInv, RollbackInv, InstallAgent, NextAgentID,
       First,
       Begin, agentVars, history
  <2>2. CASE StartAll
    BY <2>2 DEF IInv, StepInv, ProcessInv, RollbackInv, StartAll, First, Begin,
       agentVars,
       history
  <2>3. CASE StopAll
    BY <2>3 DEF IInv, StepInv, ProcessInv, RollbackInv, StopAll, First, Begin,
       agentVars,
       history
  <2>4. ASSUME NEW a \in Agents, DeleteAgent(a) PROVE RollbackInv'
    BY <2>4 DEF IInv, StepInv, ProcessInv, RollbackInv, DeleteAgent, Begin, agentVars,
       history
  <2>5. ASSUME NEW a \in Agents, RestartAgent(a) PROVE RollbackInv'
    BY <2>5 DEF IInv, StepInv, ProcessInv, RollbackInv, RestartAgent, Begin, agentVars,
       history
  <2> QED
    BY <1>2, <2>1, <2>2, <2>3, <2>4, <2>5 DEF Command
<1>3. CASE Environment
  <2>1. CASE Boot
    <3>1. /\ op' = "bootstrap" /\ before' = {} /\ passed' = {} /\ registered' = {}
      BY <2>1 DEF IInv, ProcessInv, Boot
    <3>2. \/ records' = {} /\ step' = "create"
          \/ step' = "start" /\ todo' = records' \ {subject'}
      BY <2>1 DEF Boot
    <3> QED
      BY <3>1, <3>2 DEF RollbackInv
  <2>2. CASE Crash
    BY <2>2 DEF IInv, StepInv, ProcessInv, RollbackInv, Crash, agentVars, history
  <2>3. CASE LoseConnection
    BY <2>3 DEF IInv, StepInv, ProcessInv, RollbackInv, LoseConnection, agentVars,
       history
  <2>4. ASSUME NEW a \in Agents, ProcessDies(a) PROVE RollbackInv'
    BY <2>4 DEF IInv, StepInv, ProcessInv, RollbackInv, ProcessDies, agentVars, history
  <2> QED
    BY <1>3, <2>1, <2>2, <2>3, <2>4 DEF Environment
<1>4. CASE Connect
  BY <1>4 DEF IInv, StepInv, ProcessInv, RollbackInv, Connect, agentVars, history
<1>5. CASE SendSnapshot
  BY <1>5 DEF IInv, StepInv, ProcessInv, RollbackInv, SendSnapshot, agentVars, history
<1>6. CASE UNCHANGED vars
  BY <1>6 DEF IInv, StepInv, ProcessInv, RollbackInv, vars, agentVars, history
<1> QED
  BY <1>1, <1>2, <1>3, <1>4, <1>5, <1>6 DEF Next

\* Every step keeps completed installations and deletions on disk.
LEMMA DurableStep == IInv /\ [Next]_vars => Durable'
<1> SUFFICES ASSUME IInv, [Next]_vars PROVE Durable'
  OBVIOUS
<1>1. CASE OperationStep
  <2>1. CASE CreateFile
    BY <2>1 DEF IInv, TypeOK, StepInv, RecordInv, RecordsOnDisk, Durable, CreateFile,
       GoTo, agentVars, history
  <2>2. CASE WriteFile
    BY <2>2 DEF IInv, TypeOK, StepInv, RecordInv, RecordsOnDisk, Durable, WriteFile,
       GoTo,
       agentVars, history
  <2>3. CASE SaveFails
    BY <2>3 DEF IInv, TypeOK, StepInv, RecordInv, RecordsOnDisk, Durable, SaveFails,
       Finish, agentVars, history
  <2>4. CASE AlreadyRunning
    BY <2>4 DEF IInv, TypeOK, StepInv, RecordInv, RecordsOnDisk, Durable,
       AlreadyRunning,
       Started, Finish, GoToAgent, First, agentVars, history
  <2>5. CASE Spawn
    BY <2>5 DEF IInv, TypeOK, StepInv, RecordInv, RecordsOnDisk, Durable, Spawn, GoTo,
       agentVars, history
  <2>6. CASE Register
    BY <2>6 DEF IInv, TypeOK, StepInv, RecordInv, RecordsOnDisk, Durable, Register,
       Started, Finish, GoToAgent, First, agentVars, history
  <2>7. CASE StartFails
    BY <2>7 DEF IInv, TypeOK, StepInv, RecordInv, RecordsOnDisk, Durable, StartFails,
       StartFailed, Finish, GoTo, GoToAgent, Last, agentVars, history
  <2>8. CASE Unregister
    BY <2>8 DEF IInv, TypeOK, StepInv, RecordInv, RecordsOnDisk, Durable, Unregister,
       Stopped, Finish, GoTo, GoToAgent, First, Last, agentVars, history
  <2>9. CASE CloseProcess
    BY <2>9 DEF IInv, TypeOK, StepInv, RecordInv, RecordsOnDisk, Durable, CloseProcess,
       Stopped, Finish, GoTo, GoToAgent, First, Last, agentVars, history
  <2>10. CASE Forget
    BY <2>10 DEF IInv, TypeOK, StepInv, RecordInv, RecordsOnDisk, Durable, Forget, GoTo,
       agentVars, history
  <2>11. CASE RemoveDir
    BY <2>11 DEF IInv, TypeOK, StepInv, RecordInv, RecordsOnDisk, Durable, RemoveDir,
       Finish, agentVars, history
  <2>12. CASE RemoveFails
    BY <2>12 DEF IInv, TypeOK, StepInv, RecordInv, RecordsOnDisk, Durable, RemoveFails,
       Finish, agentVars, history
  <2> QED
    BY <1>1, <2>1, <2>2, <2>3, <2>4, <2>5, <2>6, <2>7, <2>8, <2>9, <2>10, <2>11,
       <2>12 DEF
       OperationStep
<1>2. CASE Command
  <2>1. CASE InstallAgent
    BY <2>1 DEF IInv, TypeOK, StepInv, RecordInv, RecordsOnDisk, Durable, InstallAgent,
       NextAgentID, First, Begin, agentVars, history
  <2>2. CASE StartAll
    BY <2>2 DEF IInv, TypeOK, StepInv, RecordInv, RecordsOnDisk, Durable, StartAll,
       First,
       Begin, agentVars, history
  <2>3. CASE StopAll
    BY <2>3 DEF IInv, TypeOK, StepInv, RecordInv, RecordsOnDisk, Durable, StopAll,
       First,
       Begin, agentVars, history
  <2>4. ASSUME NEW a \in Agents, DeleteAgent(a) PROVE Durable'
    BY <2>4 DEF IInv, TypeOK, StepInv, RecordInv, RecordsOnDisk, Durable, DeleteAgent,
       Begin, agentVars, history
  <2>5. ASSUME NEW a \in Agents, RestartAgent(a) PROVE Durable'
    BY <2>5 DEF IInv, TypeOK, StepInv, RecordInv, RecordsOnDisk, Durable, RestartAgent,
       Begin, agentVars, history
  <2> QED
    BY <1>2, <2>1, <2>2, <2>3, <2>4, <2>5 DEF Command
<1>3. CASE Environment
  <2>1. CASE Boot
    BY <2>1 DEF IInv, TypeOK, StepInv, RecordInv, RecordsOnDisk, Durable, Boot, First,
       agentVars, history
  <2>2. CASE Crash
    BY <2>2 DEF IInv, TypeOK, StepInv, RecordInv, RecordsOnDisk, Durable, Crash,
       agentVars, history
  <2>3. CASE LoseConnection
    BY <2>3 DEF IInv, TypeOK, StepInv, RecordInv, RecordsOnDisk, Durable,
       LoseConnection,
       agentVars, history
  <2>4. ASSUME NEW a \in Agents, ProcessDies(a) PROVE Durable'
    BY <2>4 DEF IInv, TypeOK, StepInv, RecordInv, RecordsOnDisk, Durable, ProcessDies,
       agentVars, history
  <2> QED
    BY <1>3, <2>1, <2>2, <2>3, <2>4 DEF Environment
<1>4. CASE Connect
  BY <1>4 DEF IInv, TypeOK, StepInv, RecordInv, RecordsOnDisk, Durable, Connect,
     agentVars, history
<1>5. CASE SendSnapshot
  BY <1>5 DEF IInv, TypeOK, StepInv, RecordInv, RecordsOnDisk, Durable, SendSnapshot,
     agentVars, history
<1>6. CASE UNCHANGED vars
  BY <1>6 DEF IInv, TypeOK, StepInv, RecordInv, RecordsOnDisk, Durable, vars, agentVars,
     history
<1> QED
  BY <1>1, <1>2, <1>3, <1>4, <1>5, <1>6 DEF Next

\* Every step keeps the records of the memory on disk.
LEMMA OnDiskStep == IInv /\ [Next]_vars => RecordsOnDisk'
<1> SUFFICES ASSUME IInv, [Next]_vars PROVE RecordsOnDisk'
  OBVIOUS
<1>1. CASE OperationStep
  <2>1. CASE CreateFile
    BY <2>1 DEF IInv, TypeOK, StepInv, RecordInv, RecordsOnDisk, CreateFile, GoTo,
       agentVars, history
  <2>2. CASE WriteFile
    BY <2>2 DEF IInv, TypeOK, StepInv, RecordInv, RecordsOnDisk, WriteFile, GoTo,
       agentVars, history
  <2>3. CASE SaveFails
    BY <2>3 DEF IInv, TypeOK, StepInv, RecordInv, RecordsOnDisk, SaveFails, Finish,
       agentVars, history
  <2>4. CASE AlreadyRunning
    BY <2>4 DEF IInv, TypeOK, StepInv, RecordInv, RecordsOnDisk, AlreadyRunning,
       Started,
       Finish, GoToAgent, First, agentVars, history
  <2>5. CASE Spawn
    BY <2>5 DEF IInv, TypeOK, StepInv, RecordInv, RecordsOnDisk, Spawn, GoTo, agentVars,
       history
  <2>6. CASE Register
    BY <2>6 DEF IInv, TypeOK, StepInv, RecordInv, RecordsOnDisk, Register, Started,
       Finish, GoToAgent, First, agentVars, history
  <2>7. CASE StartFails
    BY <2>7 DEF IInv, TypeOK, StepInv, RecordInv, RecordsOnDisk, StartFails,
       StartFailed,
       Finish, GoTo, GoToAgent, Last, agentVars, history
  <2>8. CASE Unregister
    BY <2>8 DEF IInv, TypeOK, StepInv, RecordInv, RecordsOnDisk, Unregister, Stopped,
       Finish, GoTo, GoToAgent, First, Last, agentVars, history
  <2>9. CASE CloseProcess
    BY <2>9 DEF IInv, TypeOK, StepInv, RecordInv, RecordsOnDisk, CloseProcess, Stopped,
       Finish, GoTo, GoToAgent, First, Last, agentVars, history
  <2>10. CASE Forget
    BY <2>10 DEF IInv, TypeOK, StepInv, RecordInv, RecordsOnDisk, Forget, GoTo,
       agentVars,
       history
  <2>11. CASE RemoveDir
    BY <2>11 DEF IInv, TypeOK, StepInv, RecordInv, RecordsOnDisk, RemoveDir, Finish,
       agentVars, history
  <2>12. CASE RemoveFails
    BY <2>12 DEF IInv, TypeOK, StepInv, RecordInv, RecordsOnDisk, RemoveFails, Finish,
       agentVars, history
  <2> QED
    BY <1>1, <2>1, <2>2, <2>3, <2>4, <2>5, <2>6, <2>7, <2>8, <2>9, <2>10, <2>11,
       <2>12 DEF
       OperationStep
<1>2. CASE Command
  <2>1. CASE InstallAgent
    BY <2>1 DEF IInv, TypeOK, StepInv, RecordInv, RecordsOnDisk, InstallAgent,
       NextAgentID, First, Begin, agentVars, history
  <2>2. CASE StartAll
    BY <2>2 DEF IInv, TypeOK, StepInv, RecordInv, RecordsOnDisk, StartAll, First, Begin,
       agentVars, history
  <2>3. CASE StopAll
    BY <2>3 DEF IInv, TypeOK, StepInv, RecordInv, RecordsOnDisk, StopAll, First, Begin,
       agentVars, history
  <2>4. ASSUME NEW a \in Agents, DeleteAgent(a) PROVE RecordsOnDisk'
    BY <2>4 DEF IInv, TypeOK, StepInv, RecordInv, RecordsOnDisk, DeleteAgent, Begin,
       agentVars, history
  <2>5. ASSUME NEW a \in Agents, RestartAgent(a) PROVE RecordsOnDisk'
    BY <2>5 DEF IInv, TypeOK, StepInv, RecordInv, RecordsOnDisk, RestartAgent, Begin,
       agentVars, history
  <2> QED
    BY <1>2, <2>1, <2>2, <2>3, <2>4, <2>5 DEF Command
<1>3. CASE Environment
  <2>1. CASE Boot
    BY <2>1 DEF IInv, TypeOK, StepInv, RecordInv, RecordsOnDisk, Boot, First, agentVars,
       history
  <2>2. CASE Crash
    BY <2>2 DEF IInv, TypeOK, StepInv, RecordInv, RecordsOnDisk, Crash, agentVars,
       history
  <2>3. CASE LoseConnection
    BY <2>3 DEF IInv, TypeOK, StepInv, RecordInv, RecordsOnDisk, LoseConnection,
       agentVars, history
  <2>4. ASSUME NEW a \in Agents, ProcessDies(a) PROVE RecordsOnDisk'
    BY <2>4 DEF IInv, TypeOK, StepInv, RecordInv, RecordsOnDisk, ProcessDies, agentVars,
       history
  <2> QED
    BY <1>3, <2>1, <2>2, <2>3, <2>4 DEF Environment
<1>4. CASE Connect
  BY <1>4 DEF IInv, TypeOK, StepInv, RecordInv, RecordsOnDisk, Connect, agentVars,
     history
<1>5. CASE SendSnapshot
  BY <1>5 DEF IInv, TypeOK, StepInv, RecordInv, RecordsOnDisk, SendSnapshot, agentVars,
     history
<1>6. CASE UNCHANGED vars
  BY <1>6 DEF IInv, TypeOK, StepInv, RecordInv, RecordsOnDisk, vars, agentVars, history
<1> QED
  BY <1>1, <1>2, <1>3, <1>4, <1>5, <1>6 DEF Next

\* The first start of a client, with an empty directory, satisfies the inductive invariant.
LEMMA InitIInv == Init => IInv
<1> SUFFICES ASSUME Init PROVE IInv
  OBVIOUS
<1>1. TypeOK
  <2>1. 0 \in 0..MaxDeaths
    BY SupervisorAssumption
  <2> QED
    BY <2>1, AgentOne DEF Init, TypeOK
<1>2. StepInv /\ RecordInv /\ RollbackInv
  BY DEF Init, StepInv, RecordInv, RollbackInv
<1>3. ProcessInv
  BY DEF Init, ProcessInv
<1>4. Durable /\ RecordsOnDisk
  BY DEF Init, Durable, RecordsOnDisk
<1> QED
  BY <1>1, <1>2, <1>3, <1>4 DEF IInv

\* In every behaviour of the supervisor, the inductive invariant holds at every moment.
THEOREM Invariance == Spec => []IInv
<1>1. IInv /\ [Next]_vars => IInv'
  BY TypeStep, StepStep, RecordStep, ProcessInvStep, RollbackStep, DurableStep,
     OnDiskStep DEF IInv
<1> QED
  BY InitIInv, <1>1, PTL DEF Spec

\* Every variable always has its type.
THEOREM TypeCorrect == Spec => []TypeOK
<1>1. IInv => TypeOK
  BY DEF IInv
<1> QED
  BY Invariance, <1>1, PTL

\* Whenever the client crashes, an agent whose installation has completed is on disk
\* (saveRecord before the install returns) and one whose deletion has completed is not
\* (os.RemoveAll before the delete returns).
THEOREM CompletedIsDurable == Spec => []Durable
<1>1. IInv => Durable
  BY DEF IInv
<1> QED
  BY Invariance, <1>1, PTL

\* A record enters s.records after its file is written and leaves it before the
\* directory is removed: a restart would find every agent of the memory.
THEOREM MemoryIsOnDisk == Spec => []RecordsOnDisk
<1>1. IInv => RecordsOnDisk
  BY DEF IInv
<1> QED
  BY Invariance, <1>1, PTL

\* A registered runtime has a record and a process that nobody has closed, and the only
\* unregistered process is the one that startAgent or stopAgent is working on.
THEOREM NoProcessIsStray == Spec => []NoStrayProcess
<1>1. IInv => NoStrayProcess
  BY DEF IInv, TypeOK, ProcessInv, NoStrayProcess
<1> QED
  BY Invariance, <1>1, PTL

\* Once an operation has released opMu, statusByAgentID says "running" of the installed
\* agents that are registered and of no other.
THEOREM StatusIsAccurate == Spec => []StatusIsTrue
<1>1. IInv => StatusIsTrue
  BY DEF IInv, TypeOK, ProcessInv, StatusIsTrue
<1> QED
  BY Invariance, <1>1, PTL

\* A StartAll that fails has stopped every agent it started: it ends with all agents
\* registered or with none that was not registered when it began.
THEOREM FailedStartIsUndone == Spec => FailedStartUndone
<1>1. ASSUME IInv, [Next]_vars, op = "start_all", op' = "none", registered' # records
      PROVE  registered' \subseteq before
  <2>1. CASE AlreadyRunning
    <3>1. todo = {} /\ subject \in registered /\ registered' = registered
      BY <1>1, <2>1 DEF AlreadyRunning, Started, GoToAgent, agentVars
    <3>2. records \subseteq registered
      BY <1>1, <2>1, <3>1 DEF IInv, RollbackInv, AlreadyRunning
    <3> QED
      BY <1>1, <3>1, <3>2 DEF IInv, ProcessInv
  <2>2. CASE Register
    <3>1. todo = {} /\ registered' = registered \cup {subject} /\ subject \in records
      BY <1>1, <2>2 DEF IInv, RecordInv, Register, Started, GoToAgent
    <3>2. records \subseteq registered'
      BY <1>1, <2>2, <3>1 DEF IInv, RollbackInv, Register
    <3> QED
      BY <1>1, <3>1, <3>2 DEF IInv, ProcessInv
  <2>3. CASE StartFails
    <3>1. passed = {} /\ registered' = registered /\ step = "start"
      BY <1>1, <2>3 DEF StartFails, StartFailed, GoToAgent
    <3> QED
      BY <1>1, <3>1 DEF IInv, RollbackInv
  <2>4. CASE Unregister
    <3>1. passed = {} /\ subject \notin registered /\ registered' = registered \ {subject}
      BY <1>1, <2>4 DEF Unregister, Stopped, GoTo, GoToAgent
    <3> QED
      BY <1>1, <3>1 DEF IInv, RollbackInv
  <2>5. CASE CloseProcess
    <3>1. passed = {} /\ registered' = registered /\ step # "undo"
      BY <1>1, <2>5 DEF CloseProcess, Stopped, GoTo, GoToAgent
    <3> QED
      BY <1>1, <3>1 DEF IInv, RollbackInv
  <2>6. CASE Crash
    BY <2>6 DEF Crash
  <2>7. CASE SaveFails \/ RemoveDir \/ RemoveFails
    BY <1>1, <2>7 DEF IInv, StepInv, SaveFails, RemoveDir, RemoveFails
  <2>8. CASE CreateFile \/ WriteFile \/ Spawn \/ Forget
    BY <1>1, <2>8 DEF CreateFile, WriteFile, Spawn, Forget, GoTo
  <2>9. CASE Command
    BY <1>1, <2>9 DEF Command, InstallAgent, StartAll, StopAll, DeleteAgent,
       RestartAgent, Begin
  <2>10. CASE \/ Boot \/ LoseConnection \/ Connect \/ SendSnapshot
              \/ \E a \in Agents : ProcessDies(a)
    BY <1>1, <2>10 DEF Boot, LoseConnection, Connect, SendSnapshot, ProcessDies
  <2>11. CASE UNCHANGED vars
    BY <1>1, <2>11 DEF vars
  <2> QED
    BY <1>1, <2>1, <2>2, <2>3, <2>4, <2>5, <2>6, <2>7, <2>8, <2>9, <2>10, <2>11
       DEF Next, OperationStep, Environment
<1> QED
  BY Invariance, <1>1, PTL DEF Spec, FailedStartUndone

-----------------------------------------------------------------------------
(* StdioRunner.                                                            *)

\* The number of turns is bounded.
LEMMA TurnBound == Cardinality(Refreshes) \in Nat
  BY FS_CardinalityType, RunnerAssumption

\* Every step preserves the type invariant.
LEMMA RunnerTypeStep == RunnerInv /\ [RunnerNext]_runnerVars => RunnerTypeOK'
<1> SUFFICES ASSUME RunnerInv, [RunnerNext]_runnerVars PROVE RunnerTypeOK'
  OBVIOUS
<1> USE RunnerAssumption, TurnBound DEF Calls
<1>1. ASSUME NEW q \in OwnCalls, BeginCall(q) PROVE RunnerTypeOK'
  BY <1>1 DEF RunnerInv, RunnerTypeOK, BeginCall, RegisterCall, callVars, readVars,
     procVars
<1>19. ASSUME NEW q \in Calls, TakeWriter(q) PROVE RunnerTypeOK'
  BY <1>19 DEF RunnerInv, RunnerTypeOK, TakeWriter, callVars, readVars,
     procVars
<1>2. ASSUME NEW q \in Calls, WriteSucceeds(q) PROVE RunnerTypeOK'
  BY <1>2 DEF RunnerInv, RunnerTypeOK, WriteSucceeds, callVars, readVars, procVars
<1>3. ASSUME NEW q \in Calls, WriteFails(q) PROVE RunnerTypeOK'
  BY <1>3 DEF RunnerInv, RunnerTypeOK, WriteFails, callVars, readVars, procVars
<1>4. ASSUME NEW q \in Calls, Expire(q) PROVE RunnerTypeOK'
  BY <1>4 DEF RunnerInv, RunnerTypeOK, Expire, callVars, readVars, procVars
<1>5. ASSUME NEW q \in Calls, RemovePending(q) PROVE RunnerTypeOK'
  BY <1>5 DEF RunnerInv, RunnerTypeOK, RemovePending, callVars, readVars, procVars
<1>6. ASSUME NEW q \in Calls, ReceiveResult(q) PROVE RunnerTypeOK'
  BY <1>6 DEF RunnerInv, RunnerTypeOK, ReceiveResult, callVars, readVars, procVars
<1>7. CASE ReadLine
  BY <1>7 DEF RunnerInv, RunnerTypeOK, ReadLine, callVars, readVars, procVars, Response,
     TurnCompleted
<1>8. CASE SendResponse
  BY <1>8 DEF RunnerInv, RunnerTypeOK, SendResponse, callVars, readVars, procVars
<1>9. ASSUME NEW q \in Refreshes, BeginRefresh(q) PROVE RunnerTypeOK'
  BY <1>9 DEF RunnerInv, RunnerTypeOK, BeginRefresh, RegisterCall, callVars, readVars,
     procVars
<1>10. CASE HandlerReturns
  BY <1>10 DEF RunnerInv, RunnerTypeOK, HandlerReturns, callVars, readVars, procVars
<1>11. CASE ReadEOF
  BY <1>11 DEF RunnerInv, RunnerTypeOK, ReadEOF, callVars, readVars, procVars
<1>12. ASSUME NEW q \in Calls, FailPending(q) PROVE RunnerTypeOK'
  BY <1>12 DEF RunnerInv, RunnerTypeOK, FailPending, callVars, readVars, procVars
<1>13. CASE StopReading
  BY <1>13 DEF RunnerInv, RunnerTypeOK, StopReading, callVars, readVars, procVars
<1>14. ASSUME NEW q \in Calls, Answer(q) PROVE RunnerTypeOK'
  BY <1>14 DEF RunnerInv, RunnerTypeOK, Answer, callVars, readVars, procVars, Response,
     TurnCompleted
<1>15. CASE CompleteTurn
  BY <1>15 DEF RunnerInv, RunnerTypeOK, CompleteTurn, callVars, readVars, procVars,
     Response,
     TurnCompleted
<1>16. CASE Exit
  BY <1>16 DEF RunnerInv, RunnerTypeOK, Exit, callVars, readVars, procVars
<1>20. CASE StopListening
  BY <1>20 DEF RunnerInv, RunnerTypeOK, StopListening, callVars, readVars, procVars
<1>17. CASE Close
  BY <1>17 DEF RunnerInv, RunnerTypeOK, Close, callVars, readVars, procVars
<1>18. CASE UNCHANGED runnerVars
  BY <1>18 DEF RunnerInv, RunnerTypeOK, runnerVars, callVars, readVars, procVars
<1> QED
  BY <1>1, <1>2, <1>3, <1>4, <1>5, <1>6, <1>7, <1>8, <1>9, <1>10, <1>11, <1>12, <1>13,
     <1>14, <1>15, <1>16, <1>17, <1>18, <1>19, <1>20 DEF RunnerNext, CallStep, ReaderStep, ProcessStep

\* readLoop holds a response exactly while it sends, and fails only a dead process.
LEMMA ReaderStateStep == RunnerInv /\ [RunnerNext]_runnerVars => ReaderState'
<1> SUFFICES ASSUME RunnerInv, [RunnerNext]_runnerVars PROVE ReaderState'
  OBVIOUS
<1> USE RunnerAssumption DEF Calls
<1>1. ASSUME NEW q \in OwnCalls, BeginCall(q) PROVE ReaderState'
  BY <1>1 DEF RunnerInv, RunnerTypeOK, ReaderState, BeginCall, RegisterCall, callVars,
     readVars,
     procVars
<1>19. ASSUME NEW q \in Calls, TakeWriter(q) PROVE ReaderState'
  BY <1>19 DEF RunnerInv, RunnerTypeOK, ReaderState, TakeWriter, callVars,
     readVars,
     procVars
<1>2. ASSUME NEW q \in Calls, WriteSucceeds(q) PROVE ReaderState'
  BY <1>2 DEF RunnerInv, RunnerTypeOK, ReaderState, WriteSucceeds, callVars, readVars,
     procVars
<1>3. ASSUME NEW q \in Calls, WriteFails(q) PROVE ReaderState'
  BY <1>3 DEF RunnerInv, RunnerTypeOK, ReaderState, WriteFails, callVars, readVars,
     procVars
<1>4. ASSUME NEW q \in Calls, Expire(q) PROVE ReaderState'
  BY <1>4 DEF RunnerInv, RunnerTypeOK, ReaderState, Expire, callVars, readVars, procVars
<1>5. ASSUME NEW q \in Calls, RemovePending(q) PROVE ReaderState'
  BY <1>5 DEF RunnerInv, RunnerTypeOK, ReaderState, RemovePending, callVars, readVars,
     procVars
<1>6. ASSUME NEW q \in Calls, ReceiveResult(q) PROVE ReaderState'
  BY <1>6 DEF RunnerInv, RunnerTypeOK, ReaderState, ReceiveResult, callVars, readVars,
     procVars
<1>7. CASE ReadLine
  BY <1>7 DEF RunnerInv, RunnerTypeOK, ReaderState, ReadLine, callVars, readVars,
     procVars,
     Response, TurnCompleted
<1>8. CASE SendResponse
  BY <1>8 DEF RunnerInv, RunnerTypeOK, ReaderState, SendResponse, callVars, readVars,
     procVars
<1>9. ASSUME NEW q \in Refreshes, BeginRefresh(q) PROVE ReaderState'
  BY <1>9 DEF RunnerInv, RunnerTypeOK, ReaderState, BeginRefresh, RegisterCall,
     callVars, readVars,
     procVars
<1>10. CASE HandlerReturns
  BY <1>10 DEF RunnerInv, RunnerTypeOK, ReaderState, HandlerReturns, callVars,
     readVars, procVars
<1>11. CASE ReadEOF
  BY <1>11 DEF RunnerInv, RunnerTypeOK, ReaderState, ReadEOF, callVars, readVars,
     procVars
<1>12. ASSUME NEW q \in Calls, FailPending(q) PROVE ReaderState'
  BY <1>12 DEF RunnerInv, RunnerTypeOK, ReaderState, FailPending, callVars, readVars,
     procVars
<1>13. CASE StopReading
  BY <1>13 DEF RunnerInv, RunnerTypeOK, ReaderState, StopReading, callVars, readVars,
     procVars
<1>14. ASSUME NEW q \in Calls, Answer(q) PROVE ReaderState'
  BY <1>14 DEF RunnerInv, RunnerTypeOK, ReaderState, Answer, callVars, readVars,
     procVars,
     Response, TurnCompleted
<1>15. CASE CompleteTurn
  BY <1>15 DEF RunnerInv, RunnerTypeOK, ReaderState, CompleteTurn, callVars, readVars,
     procVars,
     Response, TurnCompleted
<1>16. CASE Exit
  BY <1>16 DEF RunnerInv, RunnerTypeOK, ReaderState, Exit, callVars, readVars, procVars
<1>20. CASE StopListening
  BY <1>20 DEF RunnerInv, RunnerTypeOK, ReaderState, StopListening, callVars, readVars, procVars
<1>17. CASE Close
  BY <1>17 DEF RunnerInv, RunnerTypeOK, ReaderState, Close, callVars, readVars, procVars
<1>18. CASE UNCHANGED runnerVars
  BY <1>18 DEF RunnerInv, RunnerTypeOK, ReaderState, runnerVars, callVars, readVars,
     procVars
<1> QED
  BY <1>1, <1>2, <1>3, <1>4, <1>5, <1>6, <1>7, <1>8, <1>9, <1>10, <1>11, <1>12, <1>13,
     <1>14, <1>15, <1>16, <1>17, <1>18, <1>19, <1>20 DEF RunnerNext, CallStep, ReaderStep, ProcessStep

\* No step takes the last trace of a call that waits, or leaves one of a call to come.
LEMMA ServedStep == RunnerInv /\ [RunnerNext]_runnerVars => CallsAreServed'
<1> SUFFICES ASSUME RunnerInv, [RunnerNext]_runnerVars PROVE CallsAreServed'
  OBVIOUS
<1> USE RunnerAssumption DEF Calls
<1>1. ASSUME NEW q \in OwnCalls, BeginCall(q) PROVE CallsAreServed'
  BY <1>1 DEF RunnerInv, RunnerTypeOK, ReaderState, ReaderNeverBlocks, CallsAreServed,
     Untouched,
     Served, BeginCall, RegisterCall, callVars, readVars, procVars
<1>19. ASSUME NEW q \in Calls, TakeWriter(q) PROVE CallsAreServed'
  BY <1>19 DEF RunnerInv, RunnerTypeOK, ReaderState, ReaderNeverBlocks, CallsAreServed,
     Untouched,
     Served, TakeWriter, callVars, readVars, procVars
<1>2. ASSUME NEW q \in Calls, WriteSucceeds(q) PROVE CallsAreServed'
  BY <1>2 DEF RunnerInv, RunnerTypeOK, ReaderState, ReaderNeverBlocks, CallsAreServed,
     Untouched,
     Served, WriteSucceeds, callVars, readVars, procVars
<1>3. ASSUME NEW q \in Calls, WriteFails(q) PROVE CallsAreServed'
  BY <1>3 DEF RunnerInv, RunnerTypeOK, ReaderState, ReaderNeverBlocks, CallsAreServed,
     Untouched,
     Served, WriteFails, callVars, readVars, procVars
<1>4. ASSUME NEW q \in Calls, Expire(q) PROVE CallsAreServed'
  BY <1>4 DEF RunnerInv, RunnerTypeOK, ReaderState, ReaderNeverBlocks, CallsAreServed,
     Untouched,
     Served, Expire, callVars, readVars, procVars
<1>5. ASSUME NEW q \in Calls, RemovePending(q) PROVE CallsAreServed'
  BY <1>5 DEF RunnerInv, RunnerTypeOK, ReaderState, ReaderNeverBlocks, CallsAreServed,
     Untouched,
     Served, RemovePending, callVars, readVars, procVars
<1>6. ASSUME NEW q \in Calls, ReceiveResult(q) PROVE CallsAreServed'
  BY <1>6 DEF RunnerInv, RunnerTypeOK, ReaderState, ReaderNeverBlocks, CallsAreServed,
     Untouched,
     Served, ReceiveResult, callVars, readVars, procVars
<1>7. CASE ReadLine
  BY <1>7 DEF RunnerInv, RunnerTypeOK, ReaderState, ReaderNeverBlocks, CallsAreServed,
     Untouched,
     Served, ReadLine, callVars, readVars, procVars, Response, TurnCompleted
<1>8. CASE SendResponse
  BY <1>8 DEF RunnerInv, RunnerTypeOK, ReaderState, ReaderNeverBlocks, CallsAreServed,
     Untouched,
     Served, SendResponse, callVars, readVars, procVars
<1>9. ASSUME NEW q \in Refreshes, BeginRefresh(q) PROVE CallsAreServed'
  BY <1>9 DEF RunnerInv, RunnerTypeOK, ReaderState, ReaderNeverBlocks, CallsAreServed,
     Untouched,
     Served, BeginRefresh, RegisterCall, callVars, readVars, procVars
<1>10. CASE HandlerReturns
  BY <1>10 DEF RunnerInv, RunnerTypeOK, ReaderState, ReaderNeverBlocks, CallsAreServed,
     Untouched,
     Served, HandlerReturns, callVars, readVars, procVars
<1>11. CASE ReadEOF
  BY <1>11 DEF RunnerInv, RunnerTypeOK, ReaderState, ReaderNeverBlocks, CallsAreServed,
     Untouched,
     Served, ReadEOF, callVars, readVars, procVars
<1>12. ASSUME NEW q \in Calls, FailPending(q) PROVE CallsAreServed'
  BY <1>12 DEF RunnerInv, RunnerTypeOK, ReaderState, ReaderNeverBlocks, CallsAreServed,
     Untouched,
     Served, FailPending, callVars, readVars, procVars
<1>13. CASE StopReading
  BY <1>13 DEF RunnerInv, RunnerTypeOK, ReaderState, ReaderNeverBlocks, CallsAreServed,
     Untouched,
     Served, StopReading, callVars, readVars, procVars
<1>14. ASSUME NEW q \in Calls, Answer(q) PROVE CallsAreServed'
  BY <1>14 DEF RunnerInv, RunnerTypeOK, ReaderState, ReaderNeverBlocks, CallsAreServed,
     Untouched,
     Served, Answer, callVars, readVars, procVars, Response, TurnCompleted
<1>15. CASE CompleteTurn
  BY <1>15 DEF RunnerInv, RunnerTypeOK, ReaderState, ReaderNeverBlocks, CallsAreServed,
     Untouched,
     Served, CompleteTurn, callVars, readVars, procVars, Response, TurnCompleted
<1>16. CASE Exit
  BY <1>16 DEF RunnerInv, RunnerTypeOK, ReaderState, ReaderNeverBlocks, CallsAreServed,
     Untouched,
     Served, Exit, callVars, readVars, procVars
<1>20. CASE StopListening
  BY <1>20 DEF RunnerInv, RunnerTypeOK, ReaderState, ReaderNeverBlocks, CallsAreServed,
     Untouched,
     Served, StopListening, callVars, readVars, procVars
<1>17. CASE Close
  BY <1>17 DEF RunnerInv, RunnerTypeOK, ReaderState, ReaderNeverBlocks, CallsAreServed,
     Untouched,
     Served, Close, callVars, readVars, procVars
<1>18. CASE UNCHANGED runnerVars
  BY <1>18 DEF RunnerInv, RunnerTypeOK, ReaderState, ReaderNeverBlocks, CallsAreServed,
     Untouched,
     Served, runnerVars, callVars, readVars, procVars
<1> QED
  BY <1>1, <1>2, <1>3, <1>4, <1>5, <1>6, <1>7, <1>8, <1>9, <1>10, <1>11, <1>12, <1>13,
     <1>14, <1>15, <1>16, <1>17, <1>18, <1>19, <1>20 DEF RunnerNext, CallStep, ReaderStep, ProcessStep

\* Every step leaves room in the channel of a call that readLoop may serve.
LEMMA NeverBlocksStep == RunnerInv /\ [RunnerNext]_runnerVars => ReaderNeverBlocks'
<1> SUFFICES ASSUME RunnerInv, [RunnerNext]_runnerVars PROVE ReaderNeverBlocks'
  OBVIOUS
<1> USE RunnerAssumption DEF Calls
<1>1. ASSUME NEW q \in OwnCalls, BeginCall(q) PROVE ReaderNeverBlocks'
  BY <1>1 DEF RunnerInv, RunnerTypeOK, ReaderState, ReaderNeverBlocks, CallsAreServed,
     Untouched,
     Served, BeginCall, RegisterCall, callVars, readVars, procVars
<1>19. ASSUME NEW q \in Calls, TakeWriter(q) PROVE ReaderNeverBlocks'
  BY <1>19 DEF RunnerInv, RunnerTypeOK, ReaderState, ReaderNeverBlocks, CallsAreServed,
     Untouched,
     Served, TakeWriter, callVars, readVars, procVars
<1>2. ASSUME NEW q \in Calls, WriteSucceeds(q) PROVE ReaderNeverBlocks'
  BY <1>2 DEF RunnerInv, RunnerTypeOK, ReaderState, ReaderNeverBlocks, CallsAreServed,
     Untouched,
     Served, WriteSucceeds, callVars, readVars, procVars
<1>3. ASSUME NEW q \in Calls, WriteFails(q) PROVE ReaderNeverBlocks'
  BY <1>3 DEF RunnerInv, RunnerTypeOK, ReaderState, ReaderNeverBlocks, CallsAreServed,
     Untouched,
     Served, WriteFails, callVars, readVars, procVars
<1>4. ASSUME NEW q \in Calls, Expire(q) PROVE ReaderNeverBlocks'
  BY <1>4 DEF RunnerInv, RunnerTypeOK, ReaderState, ReaderNeverBlocks, CallsAreServed,
     Untouched,
     Served, Expire, callVars, readVars, procVars
<1>5. ASSUME NEW q \in Calls, RemovePending(q) PROVE ReaderNeverBlocks'
  BY <1>5 DEF RunnerInv, RunnerTypeOK, ReaderState, ReaderNeverBlocks, CallsAreServed,
     Untouched,
     Served, RemovePending, callVars, readVars, procVars
<1>6. ASSUME NEW q \in Calls, ReceiveResult(q) PROVE ReaderNeverBlocks'
  BY <1>6 DEF RunnerInv, RunnerTypeOK, ReaderState, ReaderNeverBlocks, CallsAreServed,
     Untouched,
     Served, ReceiveResult, callVars, readVars, procVars
<1>7. CASE ReadLine
  BY <1>7 DEF RunnerInv, RunnerTypeOK, ReaderState, ReaderNeverBlocks, CallsAreServed,
     Untouched,
     Served, ReadLine, callVars, readVars, procVars, Response, TurnCompleted
<1>8. CASE SendResponse
  BY <1>8 DEF RunnerInv, RunnerTypeOK, ReaderState, ReaderNeverBlocks, CallsAreServed,
     Untouched,
     Served, SendResponse, callVars, readVars, procVars
<1>9. ASSUME NEW q \in Refreshes, BeginRefresh(q) PROVE ReaderNeverBlocks'
  BY <1>9 DEF RunnerInv, RunnerTypeOK, ReaderState, ReaderNeverBlocks, CallsAreServed,
     Untouched,
     Served, BeginRefresh, RegisterCall, callVars, readVars, procVars
<1>10. CASE HandlerReturns
  BY <1>10 DEF RunnerInv, RunnerTypeOK, ReaderState, ReaderNeverBlocks, CallsAreServed,
     Untouched,
     Served, HandlerReturns, callVars, readVars, procVars
<1>11. CASE ReadEOF
  BY <1>11 DEF RunnerInv, RunnerTypeOK, ReaderState, ReaderNeverBlocks, CallsAreServed,
     Untouched,
     Served, ReadEOF, callVars, readVars, procVars
<1>12. ASSUME NEW q \in Calls, FailPending(q) PROVE ReaderNeverBlocks'
  BY <1>12 DEF RunnerInv, RunnerTypeOK, ReaderState, ReaderNeverBlocks, CallsAreServed,
     Untouched,
     Served, FailPending, callVars, readVars, procVars
<1>13. CASE StopReading
  BY <1>13 DEF RunnerInv, RunnerTypeOK, ReaderState, ReaderNeverBlocks, CallsAreServed,
     Untouched,
     Served, StopReading, callVars, readVars, procVars
<1>14. ASSUME NEW q \in Calls, Answer(q) PROVE ReaderNeverBlocks'
  BY <1>14 DEF RunnerInv, RunnerTypeOK, ReaderState, ReaderNeverBlocks, CallsAreServed,
     Untouched,
     Served, Answer, callVars, readVars, procVars, Response, TurnCompleted
<1>15. CASE CompleteTurn
  BY <1>15 DEF RunnerInv, RunnerTypeOK, ReaderState, ReaderNeverBlocks, CallsAreServed,
     Untouched,
     Served, CompleteTurn, callVars, readVars, procVars, Response, TurnCompleted
<1>16. CASE Exit
  BY <1>16 DEF RunnerInv, RunnerTypeOK, ReaderState, ReaderNeverBlocks, CallsAreServed,
     Untouched,
     Served, Exit, callVars, readVars, procVars
<1>20. CASE StopListening
  BY <1>20 DEF RunnerInv, RunnerTypeOK, ReaderState, ReaderNeverBlocks, CallsAreServed,
     Untouched,
     Served, StopListening, callVars, readVars, procVars
<1>17. CASE Close
  BY <1>17 DEF RunnerInv, RunnerTypeOK, ReaderState, ReaderNeverBlocks, CallsAreServed,
     Untouched,
     Served, Close, callVars, readVars, procVars
<1>18. CASE UNCHANGED runnerVars
  BY <1>18 DEF RunnerInv, RunnerTypeOK, ReaderState, ReaderNeverBlocks, CallsAreServed,
     Untouched,
     Served, runnerVars, callVars, readVars, procVars
<1> QED
  BY <1>1, <1>2, <1>3, <1>4, <1>5, <1>6, <1>7, <1>8, <1>9, <1>10, <1>11, <1>12, <1>13,
     <1>14, <1>15, <1>16, <1>17, <1>18, <1>19, <1>20 DEF RunnerNext, CallStep, ReaderStep, ProcessStep

\* When readLoop stops, every call that waits has its error.
LEMMA DeadProcessStep == RunnerInv /\ [RunnerNext]_runnerVars => NobodyWaitsOnDeadProcess'
<1> SUFFICES ASSUME RunnerInv, [RunnerNext]_runnerVars PROVE NobodyWaitsOnDeadProcess'
  OBVIOUS
<1> USE RunnerAssumption DEF Calls
<1>1. ASSUME NEW q \in OwnCalls, BeginCall(q) PROVE NobodyWaitsOnDeadProcess'
  BY <1>1 DEF RunnerInv, RunnerTypeOK, ReaderState, ReaderNeverBlocks, CallsAreServed,
     Untouched,
     Served, NobodyWaitsOnDeadProcess, BeginCall, RegisterCall, callVars, readVars, procVars
<1>19. ASSUME NEW q \in Calls, TakeWriter(q) PROVE NobodyWaitsOnDeadProcess'
  BY <1>19 DEF RunnerInv, RunnerTypeOK, ReaderState, ReaderNeverBlocks, CallsAreServed,
     Untouched,
     Served, NobodyWaitsOnDeadProcess, TakeWriter, callVars, readVars, procVars
<1>2. ASSUME NEW q \in Calls, WriteSucceeds(q) PROVE NobodyWaitsOnDeadProcess'
  BY <1>2 DEF RunnerInv, RunnerTypeOK, ReaderState, ReaderNeverBlocks, CallsAreServed,
     Untouched,
     Served, NobodyWaitsOnDeadProcess, WriteSucceeds, callVars, readVars, procVars
<1>3. ASSUME NEW q \in Calls, WriteFails(q) PROVE NobodyWaitsOnDeadProcess'
  BY <1>3 DEF RunnerInv, RunnerTypeOK, ReaderState, ReaderNeverBlocks, CallsAreServed,
     Untouched,
     Served, NobodyWaitsOnDeadProcess, WriteFails, callVars, readVars, procVars
<1>4. ASSUME NEW q \in Calls, Expire(q) PROVE NobodyWaitsOnDeadProcess'
  BY <1>4 DEF RunnerInv, RunnerTypeOK, ReaderState, ReaderNeverBlocks, CallsAreServed,
     Untouched,
     Served, NobodyWaitsOnDeadProcess, Expire, callVars, readVars, procVars
<1>5. ASSUME NEW q \in Calls, RemovePending(q) PROVE NobodyWaitsOnDeadProcess'
  BY <1>5 DEF RunnerInv, RunnerTypeOK, ReaderState, ReaderNeverBlocks, CallsAreServed,
     Untouched,
     Served, NobodyWaitsOnDeadProcess, RemovePending, callVars, readVars, procVars
<1>6. ASSUME NEW q \in Calls, ReceiveResult(q) PROVE NobodyWaitsOnDeadProcess'
  BY <1>6 DEF RunnerInv, RunnerTypeOK, ReaderState, ReaderNeverBlocks, CallsAreServed,
     Untouched,
     Served, NobodyWaitsOnDeadProcess, ReceiveResult, callVars, readVars, procVars
<1>7. CASE ReadLine
  BY <1>7 DEF RunnerInv, RunnerTypeOK, ReaderState, ReaderNeverBlocks, CallsAreServed,
     Untouched,
     Served, NobodyWaitsOnDeadProcess, ReadLine, callVars, readVars, procVars,
     Response, TurnCompleted
<1>8. CASE SendResponse
  BY <1>8 DEF RunnerInv, RunnerTypeOK, ReaderState, ReaderNeverBlocks, CallsAreServed,
     Untouched,
     Served, NobodyWaitsOnDeadProcess, SendResponse, callVars, readVars, procVars
<1>9. ASSUME NEW q \in Refreshes, BeginRefresh(q) PROVE NobodyWaitsOnDeadProcess'
  BY <1>9 DEF RunnerInv, RunnerTypeOK, ReaderState, ReaderNeverBlocks, CallsAreServed,
     Untouched,
     Served, NobodyWaitsOnDeadProcess, BeginRefresh, RegisterCall, callVars, readVars,
     procVars
<1>10. CASE HandlerReturns
  BY <1>10 DEF RunnerInv, RunnerTypeOK, ReaderState, ReaderNeverBlocks, CallsAreServed,
     Untouched,
     Served, NobodyWaitsOnDeadProcess, HandlerReturns, callVars, readVars, procVars
<1>11. CASE ReadEOF
  BY <1>11 DEF RunnerInv, RunnerTypeOK, ReaderState, ReaderNeverBlocks, CallsAreServed,
     Untouched,
     Served, NobodyWaitsOnDeadProcess, ReadEOF, callVars, readVars, procVars
<1>12. ASSUME NEW q \in Calls, FailPending(q) PROVE NobodyWaitsOnDeadProcess'
  BY <1>12 DEF RunnerInv, RunnerTypeOK, ReaderState, ReaderNeverBlocks, CallsAreServed,
     Untouched,
     Served, NobodyWaitsOnDeadProcess, FailPending, callVars, readVars, procVars
<1>13. CASE StopReading
  BY <1>13 DEF RunnerInv, RunnerTypeOK, ReaderState, ReaderNeverBlocks, CallsAreServed,
     Untouched,
     Served, NobodyWaitsOnDeadProcess, StopReading, callVars, readVars, procVars
<1>14. ASSUME NEW q \in Calls, Answer(q) PROVE NobodyWaitsOnDeadProcess'
  BY <1>14 DEF RunnerInv, RunnerTypeOK, ReaderState, ReaderNeverBlocks, CallsAreServed,
     Untouched,
     Served, NobodyWaitsOnDeadProcess, Answer, callVars, readVars, procVars, Response,
     TurnCompleted
<1>15. CASE CompleteTurn
  BY <1>15 DEF RunnerInv, RunnerTypeOK, ReaderState, ReaderNeverBlocks, CallsAreServed,
     Untouched,
     Served, NobodyWaitsOnDeadProcess, CompleteTurn, callVars, readVars, procVars,
     Response, TurnCompleted
<1>16. CASE Exit
  BY <1>16 DEF RunnerInv, RunnerTypeOK, ReaderState, ReaderNeverBlocks, CallsAreServed,
     Untouched,
     Served, NobodyWaitsOnDeadProcess, Exit, callVars, readVars, procVars
<1>20. CASE StopListening
  BY <1>20 DEF RunnerInv, RunnerTypeOK, ReaderState, ReaderNeverBlocks, CallsAreServed,
     Untouched,
     Served, NobodyWaitsOnDeadProcess, StopListening, callVars, readVars, procVars
<1>17. CASE Close
  BY <1>17 DEF RunnerInv, RunnerTypeOK, ReaderState, ReaderNeverBlocks, CallsAreServed,
     Untouched,
     Served, NobodyWaitsOnDeadProcess, Close, callVars, readVars, procVars
<1>18. CASE UNCHANGED runnerVars
  BY <1>18 DEF RunnerInv, RunnerTypeOK, ReaderState, ReaderNeverBlocks, CallsAreServed,
     Untouched,
     Served, NobodyWaitsOnDeadProcess, runnerVars, callVars, readVars, procVars
<1> QED
  BY <1>1, <1>2, <1>3, <1>4, <1>5, <1>6, <1>7, <1>8, <1>9, <1>10, <1>11, <1>12, <1>13,
     <1>14, <1>15, <1>16, <1>17, <1>18, <1>19, <1>20 DEF RunnerNext, CallStep, ReaderStep, ProcessStep

\* The initial states satisfy the inductive invariant.
LEMMA RunnerInitInv == RunnerInit => RunnerInv
  BY RunnerAssumption, TurnBound DEF RunnerInit, RunnerInv, RunnerTypeOK, ReaderState,
     CallsAreServed, Untouched, Served, ReaderNeverBlocks, NobodyWaitsOnDeadProcess,
     Calls

\* The inductive invariant holds in every reachable state.
THEOREM RunnerInvariance == RunnerSpec => []RunnerInv
<1>1. RunnerInv /\ [RunnerNext]_runnerVars => RunnerInv'
  BY RunnerTypeStep, ReaderStateStep, ServedStep, NeverBlocksStep,
     DeadProcessStep DEF RunnerInv
<1> QED
  BY RunnerInitInv, <1>1, PTL DEF RunnerSpec

\* Every variable keeps its type, for any calls and any finite number of turns.
THEOREM RunnerTypeCorrect == RunnerSpec => []RunnerTypeOK
<1>1. RunnerInv => RunnerTypeOK
  BY DEF RunnerInv
<1> QED
  BY <1>1, RunnerInvariance, PTL

\* readLoop never finds the channel of a call full, whatever timers, answers and the
\* end of the process do: it blocks neither itself nor, in failPending, every caller.
THEOREM NeverBlocks == RunnerSpec => []ReaderNeverBlocks
<1>1. RunnerInv => ReaderNeverBlocks
  BY DEF RunnerInv
<1> QED
  BY <1>1, RunnerInvariance, PTL

\* After readLoop has seen the end of the process no call waits for its timeout.
THEOREM NobodyWaits == RunnerSpec => []NobodyWaitsOnDeadProcess
<1>1. RunnerInv => NobodyWaitsOnDeadProcess
  BY DEF RunnerInv
<1> QED
  BY <1>1, RunnerInvariance, PTL
=============================================================================
