-------------------------- MODULE ClientHub_proofs --------------------------
(***************************************************************************)
(* TLAPS proofs about ClientHub, for every set of machines, connections    *)
(* and calls.  The inductive invariant is IInv: one lemma per conjunct     *)
(* shows that every step preserves it, with one step per action of the     *)
(* goroutine that moves.                                                   *)
(***************************************************************************)
EXTENDS ClientHub, TLAPS

\* Every step preserves the type invariant.  DeliverAnswer needs ConnInv: what it sends is an answer.
LEMMA TypeStep == IInv /\ [Next]_vars => TypeOK'
<1> SUFFICES ASSUME IInv, [Next]_vars PROVE TypeOK'
  OBVIOUS
<1> USE NoneAssumption DEF IInv
<1>1. ASSUME NEW c \in Conns, ConnStep(c) \/ ConnInput(c)
      PROVE  TypeOK'
  <2>1. CASE Accept(c)
    BY <2>1 DEF TypeOK, ConnInv, Answers, Failures, Accept, hubVars, callVars,
       netVars
  <2>2. CASE ReadMachineSnapshot(c)
    BY <2>2 DEF TypeOK, ConnInv, Answers, Failures, ReadMachineSnapshot, Owns,
       hubVars, callVars, netVars
  <2>3. CASE UpsertOnline(c)
    BY <2>3 DEF TypeOK, ConnInv, Answers, Failures, UpsertOnline, callVars,
       netVars
  <2>4. CASE TakeWaiter(c)
    BY <2>4 DEF TypeOK, ConnInv, Answers, Failures, TakeWaiter, callVars, netVars
  <2>5. CASE DeliverAnswer(c)
    BY <2>5 DEF TypeOK, ConnInv, Answers, Failures, DeliverAnswer, TrySend,
       hubVars, netVars
  <2>6. CASE ReadError(c)
    BY <2>6 DEF TypeOK, ConnInv, Answers, Failures, ReadError, hubVars, callVars,
       netVars
  <2>7. CASE Disconnect(c)
    <3>1. /\ answering' = answering /\ machineOf' = machineOf /\ callPC' = callPC
          /\ target' = target /\ via' = via /\ channel' = channel /\ outcome' = outcome
          /\ record' = record /\ wire' = wire /\ reply' = reply
      BY <2>7 DEF Disconnect, callVars, netVars
    <3>4. connPC' \in [Conns -> {"new", "reading", "upserting", "checked", "delivering",
                                "closing", "dropped", "gone"}]
      BY <2>7 DEF TypeOK, Disconnect
    <3>2. /\ clients' \in [Machines -> Conns \cup {None}]
          /\ pending' \in [Calls -> Machines \cup {None}]
          /\ collected' \in [Conns -> SUBSET Calls]
      <4>1. CASE Owns(c, machineOf[c])
        BY <2>7, <4>1 DEF TypeOK, Disconnect, CleanupMachine
      <4>2. CASE ~Owns(c, machineOf[c])
        BY <2>7, <4>2 DEF TypeOK, Disconnect, hubVars
      <4> QED
        BY <4>1, <4>2
    <3>3. /\ registry' \in [Machines -> {"absent", "online", "offline"}]
          /\ astray' \subseteq Machines
      BY <2>7 DEF TypeOK, Disconnect, Owns, CleanupMachine, MarkOffline, hubVars
    <3> QED
      BY <3>1, <3>2, <3>3, <3>4 DEF TypeOK, Answers, Failures
  <2>8. CASE CloseConn(c)
    BY <2>8 DEF TypeOK, ConnInv, Answers, Failures, CloseConn, hubVars, callVars,
       netVars
  <2>9. ASSUME NEW m \in Machines, ReadRegister(c, m)
        PROVE  TypeOK'
    BY <2>9 DEF TypeOK, ConnInv, Answers, Failures, ReadRegister, Owns,
       CleanupMachine, MarkOffline, callVars, netVars
  <2>10. ASSUME NEW q \in Calls, NEW a \in Answers, ReadAnswer(c, q, a)
        PROVE  TypeOK'
    BY <2>10 DEF TypeOK, ConnInv, Answers, Failures, ReadAnswer, Owns, hubVars,
       callVars
  <2>11. ASSUME NEW q \in Calls, FailWaiter(c, q)
        PROVE  TypeOK'
    BY <2>11 DEF TypeOK, ConnInv, Answers, Failures, FailWaiter, TrySend,
       hubVars, netVars
  <2> QED
    BY <1>1, <2>1, <2>2, <2>3, <2>4, <2>5, <2>6, <2>7, <2>8, <2>9, <2>10, <2>11
       DEF ConnStep, ConnInput
<1>2. ASSUME NEW q \in Calls, CallStep(q) \/ GetMachine(q) \/ \E m \in Machines : Lookup(q, m)
      PROVE  TypeOK'
  <2>1. CASE RegisterPending(q)
    BY <2>1 DEF TypeOK, ConnInv, Answers, Failures, RegisterPending, connVars,
       netVars
  <2>2. CASE WriteSucceeds(q)
    BY <2>2 DEF TypeOK, ConnInv, CallInv, Answers, Failures, WriteSucceeds, hubVars,
       connVars
  <2>3. CASE WriteFails(q)
    BY <2>3 DEF TypeOK, ConnInv, Answers, Failures, WriteFails, hubVars,
       connVars, netVars
  <2>4. CASE Expire(q)
    BY <2>4 DEF TypeOK, ConnInv, Answers, Failures, Expire, hubVars, connVars,
       netVars
  <2>5. CASE Forget(q)
    BY <2>5 DEF TypeOK, ConnInv, Answers, Failures, Forget, connVars, netVars
  <2>6. CASE ReceiveResult(q)
    BY <2>6 DEF TypeOK, ConnInv, Answers, Failures, ReceiveResult, hubVars,
       connVars, netVars
  <2>7. ASSUME NEW m \in Machines, Lookup(q, m)
        PROVE  TypeOK'
    BY <2>7 DEF TypeOK, Answers, Failures, Lookup, hubVars, connVars,
       netVars
  <2>91. CASE GetMachine(q)
    BY <2>91 DEF TypeOK, CallInv, GetMachine, hubVars,
       connVars, netVars
  <2>92. CASE UpsertMachine(q)
    BY <2>92 DEF TypeOK, CallInv, UpsertMachine, connVars,
       netVars
  <2> QED
    BY <1>2, <2>1, <2>2, <2>3, <2>4, <2>5, <2>6, <2>7, <2>91, <2>92 DEF CallStep
<1>3. CASE UNCHANGED vars
  BY <1>3 DEF TypeOK, ConnInv, Answers, Failures, vars, hubVars, connVars,
     callVars, netVars
<1> QED
  BY <1>1, <1>2, <1>3 DEF Next

\* Every step preserves the goroutines' own registers.
LEMMA ConnStepInv == IInv /\ [Next]_vars => ConnInv'
<1> SUFFICES ASSUME IInv, [Next]_vars PROVE ConnInv'
  OBVIOUS
<1> USE NoneAssumption DEF IInv
<1>1. ASSUME NEW c \in Conns, ConnStep(c) \/ ConnInput(c)
      PROVE  ConnInv'
  <2>1. CASE Accept(c)
    BY <2>1 DEF TypeOK, ConnInv, Accept, hubVars, callVars, netVars
  <2>2. CASE ReadMachineSnapshot(c)
    BY <2>2 DEF TypeOK, ConnInv, ReadMachineSnapshot, Owns, hubVars, callVars,
       netVars
  <2>3. CASE UpsertOnline(c)
    BY <2>3 DEF TypeOK, ConnInv, UpsertOnline, callVars, netVars
  <2>4. CASE TakeWaiter(c)
    BY <2>4 DEF TypeOK, ConnInv, TakeWaiter, callVars, netVars
  <2>5. CASE DeliverAnswer(c)
    BY <2>5 DEF TypeOK, ConnInv, DeliverAnswer, TrySend, hubVars, netVars
  <2>6. CASE ReadError(c)
    BY <2>6 DEF TypeOK, ConnInv, ReadError, hubVars, callVars, netVars
  <2>7. CASE Disconnect(c)
    BY <2>7 DEF TypeOK, ConnInv, Disconnect, Owns, CleanupMachine, MarkOffline,
       hubVars, callVars, netVars
  <2>8. CASE CloseConn(c)
    BY <2>8 DEF TypeOK, ConnInv, CloseConn, hubVars, callVars, netVars
  <2>9. ASSUME NEW m \in Machines, ReadRegister(c, m)
        PROVE  ConnInv'
    BY <2>9 DEF TypeOK, ConnInv, ReadRegister, Owns, CleanupMachine, MarkOffline,
       callVars, netVars
  <2>10. ASSUME NEW q \in Calls, NEW a \in Answers, ReadAnswer(c, q, a)
        PROVE  ConnInv'
    BY <2>10 DEF TypeOK, ConnInv, ReadAnswer, Owns, hubVars, callVars
  <2>11. ASSUME NEW q \in Calls, FailWaiter(c, q)
        PROVE  ConnInv'
    BY <2>11 DEF TypeOK, ConnInv, FailWaiter, TrySend, hubVars, netVars
  <2> QED
    BY <1>1, <2>1, <2>2, <2>3, <2>4, <2>5, <2>6, <2>7, <2>8, <2>9, <2>10, <2>11
       DEF ConnStep, ConnInput
<1>2. ASSUME NEW q \in Calls, CallStep(q) \/ GetMachine(q) \/ \E m \in Machines : Lookup(q, m)
      PROVE  ConnInv'
  <2>1. ASSUME NEW m \in Machines, Lookup(q, m)
        PROVE  ConnInv'
    BY <2>1 DEF TypeOK, ConnInv, Lookup, hubVars, connVars, netVars
  <2>2. CASE RegisterPending(q) \/ WriteSucceeds(q) \/ WriteFails(q) \/ Expire(q) \/
        Forget(q) \/ ReceiveResult(q)
    BY <2>2 DEF TypeOK, ConnInv, RegisterPending, WriteSucceeds, WriteFails,
       Expire, Forget, ReceiveResult, hubVars, connVars, netVars
  <2>91. CASE GetMachine(q)
    BY <2>91 DEF TypeOK, ConnInv, GetMachine, hubVars,
       connVars, netVars
  <2>92. CASE UpsertMachine(q)
    BY <2>92 DEF TypeOK, ConnInv, UpsertMachine, connVars,
       netVars
  <2> QED
    BY <1>2, <2>1, <2>2, <2>91, <2>92 DEF CallStep
<1>3. CASE UNCHANGED vars
  BY <1>3 DEF TypeOK, ConnInv, vars, hubVars, connVars, callVars, netVars
<1> QED
  BY <1>1, <1>2, <1>3 DEF Next

\* Every step preserves what is on the wire.  WriteSucceeds needs CallInv: the call has not been
\* written, hence not answered, before.
LEMMA WireStep == IInv /\ [Next]_vars => WireInv'
<1> SUFFICES ASSUME IInv, [Next]_vars PROVE WireInv'
  OBVIOUS
<1> USE NoneAssumption DEF IInv
<1>1. ASSUME NEW c \in Conns, ConnStep(c) \/ ConnInput(c)
      PROVE  WireInv'
  <2>1. ASSUME NEW m \in Machines, ReadRegister(c, m)
        PROVE  WireInv'
    BY <2>1 DEF TypeOK, WireInv, CallInv, ReadRegister, Owns, CleanupMachine,
       MarkOffline, callVars, netVars
  <2>2. ASSUME NEW q \in Calls, NEW a \in Answers, ReadAnswer(c, q, a)
        PROVE  WireInv'
    BY <2>2 DEF TypeOK, WireInv, CallInv, ReadAnswer, Owns, hubVars, callVars
  <2>3. ASSUME NEW q \in Calls, FailWaiter(c, q)
        PROVE  WireInv'
    BY <2>3 DEF TypeOK, WireInv, CallInv, FailWaiter, TrySend, hubVars, netVars
  <2>4. CASE Accept(c) \/ ReadMachineSnapshot(c) \/ UpsertOnline(c) \/ TakeWaiter(c) \/
        DeliverAnswer(c) \/ ReadError(c) \/ Disconnect(c) \/ CloseConn(c)
    BY <2>4 DEF TypeOK, WireInv, CallInv, Accept, ReadMachineSnapshot,
       UpsertOnline, TakeWaiter, DeliverAnswer, ReadError, Disconnect, CloseConn,
       Owns, TrySend, CleanupMachine, MarkOffline, hubVars, callVars, netVars
  <2> QED
    BY <1>1, <2>1, <2>2, <2>3, <2>4 DEF ConnStep, ConnInput
<1>2. ASSUME NEW q \in Calls, CallStep(q) \/ GetMachine(q) \/ \E m \in Machines : Lookup(q, m)
      PROVE  WireInv'
  <2>1. CASE RegisterPending(q)
    BY <2>1 DEF TypeOK, WireInv, CallInv, RegisterPending, connVars, netVars
  <2>2. CASE WriteSucceeds(q)
    BY <2>2 DEF TypeOK, WireInv, CallInv, WriteSucceeds, hubVars, connVars
  <2>3. CASE WriteFails(q)
    BY <2>3 DEF TypeOK, WireInv, CallInv, WriteFails, hubVars, connVars, netVars
  <2>4. CASE Expire(q)
    BY <2>4 DEF TypeOK, WireInv, CallInv, Expire, hubVars, connVars, netVars
  <2>5. CASE Forget(q)
    BY <2>5 DEF TypeOK, WireInv, CallInv, Forget, connVars, netVars
  <2>6. CASE ReceiveResult(q)
    BY <2>6 DEF TypeOK, WireInv, CallInv, ReceiveResult, hubVars, connVars,
       netVars
  <2>7. ASSUME NEW m \in Machines, Lookup(q, m)
        PROVE  WireInv'
    BY <2>7 DEF TypeOK, WireInv, CallInv, Lookup, hubVars, connVars, netVars
  <2>91. CASE GetMachine(q)
    BY <2>91 DEF TypeOK, WireInv, GetMachine, hubVars,
       connVars, netVars
  <2>92. CASE UpsertMachine(q)
    BY <2>92 DEF TypeOK, WireInv, UpsertMachine, connVars,
       netVars
  <2> QED
    BY <1>2, <2>1, <2>2, <2>3, <2>4, <2>5, <2>6, <2>7, <2>91, <2>92 DEF CallStep
<1>3. CASE UNCHANGED vars
  BY <1>3 DEF TypeOK, WireInv, CallInv, vars, hubVars, connVars, callVars,
     netVars
<1> QED
  BY <1>1, <1>2, <1>3 DEF Next

\* Every step preserves the calls and their channels.
LEMMA CallStepInv == IInv /\ [Next]_vars => CallInv'
<1> SUFFICES ASSUME IInv, [Next]_vars PROVE CallInv'
  OBVIOUS
<1> USE NoneAssumption DEF IInv
<1>1. ASSUME NEW c \in Conns, ConnStep(c) \/ ConnInput(c)
      PROVE  CallInv'
  <2>1. CASE Accept(c)
    BY <2>1 DEF TypeOK, ConnInv, WireInv, CallInv, OneResultPerCall,
       NoWaiterLeak, Holds, Answers, Accept, hubVars, callVars, netVars
  <2>2. CASE ReadMachineSnapshot(c)
    BY <2>2 DEF TypeOK, ConnInv, WireInv, CallInv, OneResultPerCall,
       NoWaiterLeak, Holds, Answers, ReadMachineSnapshot, Owns, hubVars, callVars,
       netVars
  <2>3. CASE UpsertOnline(c)
    BY <2>3 DEF TypeOK, ConnInv, WireInv, CallInv, OneResultPerCall,
       NoWaiterLeak, Holds, Answers, UpsertOnline, callVars, netVars
  <2>4. CASE TakeWaiter(c)
    <3>1. /\ callPC' = callPC /\ channel' = channel /\ outcome' = outcome
          /\ target' = target /\ via' = via /\ record' = record
          /\ wire' = wire /\ reply' = reply /\ collected' = collected
      BY <2>4 DEF TakeWaiter, callVars, netVars
    <3>2. \A d \in Conns, p \in Calls :
             Holds(d, p)' => Holds(d, p) \/ pending[p] # None
      BY <2>4 DEF TypeOK, ConnInv, TakeWaiter, Holds
    <3>3. \A p \in Calls :
             callPC[p] \in {"idle", "looked_up"} => \A d \in Conns : ~Holds(d, p)'
      BY <3>2 DEF CallInv, NoWaiterLeak
    <3> QED
      BY <3>1, <3>3 DEF CallInv
  <2>5. CASE DeliverAnswer(c)
    BY <2>5 DEF TypeOK, ConnInv, WireInv, CallInv, OneResultPerCall,
       NoWaiterLeak, Holds, Answers, DeliverAnswer, TrySend, hubVars, netVars
  <2>6. CASE ReadError(c)
    BY <2>6 DEF TypeOK, ConnInv, WireInv, CallInv, OneResultPerCall,
       NoWaiterLeak, Holds, Answers, ReadError, hubVars, callVars, netVars
  <2>7. CASE Disconnect(c)
    BY <2>7 DEF TypeOK, ConnInv, WireInv, CallInv, OneResultPerCall,
       NoWaiterLeak, Holds, Answers, Disconnect, Owns, CleanupMachine, MarkOffline,
       hubVars, callVars, netVars
  <2>8. CASE CloseConn(c)
    BY <2>8 DEF TypeOK, ConnInv, WireInv, CallInv, OneResultPerCall,
       NoWaiterLeak, Holds, Answers, CloseConn, hubVars, callVars, netVars
  <2>9. ASSUME NEW m \in Machines, ReadRegister(c, m)
        PROVE  CallInv'
    BY <2>9 DEF TypeOK, ConnInv, WireInv, CallInv, OneResultPerCall,
       NoWaiterLeak, Holds, Answers, ReadRegister, Owns, CleanupMachine,
       MarkOffline, callVars, netVars
  <2>10. ASSUME NEW q \in Calls, NEW a \in Answers, ReadAnswer(c, q, a)
        PROVE  CallInv'
    <3>1. \A d \in Conns, p \in Calls : Holds(d, p)' <=> Holds(d, p)
      BY <2>10 DEF TypeOK, Holds, ReadAnswer, Owns
    <3> QED
      BY <2>10, <3>1 DEF TypeOK, WireInv, CallInv, Answers, ReadAnswer, hubVars,
         callVars
  <2>11. ASSUME NEW q \in Calls, FailWaiter(c, q)
        PROVE  CallInv'
    BY <2>11 DEF TypeOK, ConnInv, WireInv, CallInv, OneResultPerCall,
       NoWaiterLeak, Holds, Answers, FailWaiter, TrySend, hubVars, netVars
  <2> QED
    BY <1>1, <2>1, <2>2, <2>3, <2>4, <2>5, <2>6, <2>7, <2>8, <2>9, <2>10, <2>11
       DEF ConnStep, ConnInput
<1>2. ASSUME NEW q \in Calls, CallStep(q) \/ GetMachine(q) \/ \E m \in Machines : Lookup(q, m)
      PROVE  CallInv'
  <2>1. CASE RegisterPending(q)
    BY <2>1 DEF TypeOK, ConnInv, WireInv, CallInv, OneResultPerCall,
       NoWaiterLeak, Holds, Answers, RegisterPending, connVars, netVars
  <2>2. CASE WriteSucceeds(q)
    BY <2>2 DEF TypeOK, ConnInv, WireInv, CallInv, OneResultPerCall,
       NoWaiterLeak, Holds, Answers, WriteSucceeds, hubVars, connVars
  <2>3. CASE WriteFails(q)
    BY <2>3 DEF TypeOK, ConnInv, WireInv, CallInv, OneResultPerCall,
       NoWaiterLeak, Holds, Answers, WriteFails, hubVars, connVars, netVars
  <2>4. CASE Expire(q)
    BY <2>4 DEF TypeOK, ConnInv, WireInv, CallInv, OneResultPerCall,
       NoWaiterLeak, Holds, Answers, Expire, hubVars, connVars, netVars
  <2>5. CASE Forget(q)
    BY <2>5 DEF TypeOK, ConnInv, WireInv, CallInv, OneResultPerCall,
       NoWaiterLeak, Holds, Answers, Forget, connVars, netVars
  <2>6. CASE ReceiveResult(q)
    BY <2>6 DEF TypeOK, ConnInv, WireInv, CallInv, OneResultPerCall,
       NoWaiterLeak, Holds, Answers, ReceiveResult, hubVars, connVars, netVars
  <2>7. ASSUME NEW m \in Machines, Lookup(q, m)
        PROVE  CallInv'
    BY <2>7 DEF TypeOK, ConnInv, WireInv, CallInv, OneResultPerCall,
       NoWaiterLeak, Holds, Answers, Lookup, hubVars, connVars, netVars
  <2>91. CASE GetMachine(q)
    BY <2>91 DEF TypeOK, CallInv, Holds, GetMachine, hubVars,
       connVars, netVars
  <2>92. CASE UpsertMachine(q)
    BY <2>92 DEF TypeOK, CallInv, Holds, UpsertMachine, connVars,
       netVars
  <2> QED
    BY <1>2, <2>1, <2>2, <2>3, <2>4, <2>5, <2>6, <2>7, <2>91, <2>92 DEF CallStep
<1>3. CASE UNCHANGED vars
  BY <1>3 DEF TypeOK, ConnInv, WireInv, CallInv, OneResultPerCall, NoWaiterLeak,
     Holds, Answers, vars, hubVars, connVars, callVars, netVars
<1> QED
  BY <1>1, <1>2, <1>3 DEF Next

\* Every step preserves one result per call.  TakeWaiter, FailWaiter and the cleanup in
\* ReadRegister and Disconnect move a waiter on; RegisterPending creates it.
LEMMA OneResultStep == IInv /\ [Next]_vars => OneResultPerCall'
<1> SUFFICES ASSUME IInv, [Next]_vars PROVE OneResultPerCall'
  OBVIOUS
<1> USE NoneAssumption DEF IInv
<1>1. ASSUME NEW c \in Conns, ConnStep(c) \/ ConnInput(c)
      PROVE  OneResultPerCall'
  <2>1. CASE Accept(c)
    BY <2>1 DEF TypeOK, ConnInv, CallInv, OneResultPerCall, Holds, Accept,
       hubVars, callVars, netVars
  <2>2. CASE ReadMachineSnapshot(c)
    BY <2>2 DEF TypeOK, ConnInv, CallInv, OneResultPerCall, Holds,
       ReadMachineSnapshot, Owns, hubVars, callVars, netVars
  <2>3. CASE UpsertOnline(c)
    BY <2>3 DEF TypeOK, ConnInv, CallInv, OneResultPerCall, Holds, UpsertOnline,
       callVars, netVars
  <2>4. CASE TakeWaiter(c)
    <3>1. /\ connPC[c] = "checked" /\ answering[c] \in Calls /\ connPC'[c] # "checked"
          /\ pending' = [pending EXCEPT ![answering[c]] = None]
          /\ UNCHANGED <<collected, channel>>
          /\ \A d \in Conns \ {c} : connPC'[d] = connPC[d] /\ answering'[d] = answering[d]
      BY <2>4 DEF TypeOK, ConnInv, TakeWaiter, callVars
    <3>2. connPC'[c] = "delivering" => pending[answering[c]] # None /\ answering'[c] = answering[c]
      BY <2>4 DEF TypeOK, ConnInv, TakeWaiter
    <3>3. \A d \in Conns, p \in Calls :
             Holds(d, p)' => Holds(d, p) \/ (d = c /\ p = answering[c] /\ pending[p] # None)
      BY <3>1, <3>2 DEF TypeOK, Holds
    <3>4. ASSUME NEW p \in Calls
          PROVE  /\ pending'[p] = IF p = answering[c] THEN None ELSE pending[p]
                 /\ \A d \in Conns : p \in collected'[d] => p \in collected[d]
      BY <3>1 DEF TypeOK
    <3>5. ASSUME NEW p \in Calls, pending'[p] # None
          PROVE  channel'[p] = "empty" /\ \A d \in Conns : ~Holds(d, p)'
      BY <3>1, <3>3, <3>4, <3>5 DEF OneResultPerCall
    <3>6. ASSUME NEW p \in Calls, NEW d \in Conns, Holds(d, p)'
          PROVE  /\ channel'[p] = "empty"
                 /\ \A e \in Conns : Holds(e, p)' => e = d
                 /\ ~(p \in collected'[d] /\ connPC'[d] = "delivering")
      <4>1. CASE pending[p] # None
        BY <3>1, <3>3, <3>4, <3>6, <4>1 DEF OneResultPerCall, Holds
      <4>2. CASE pending[p] = None
        <5>1. /\ Holds(d, p) /\ channel[p] = "empty" /\ \A e \in Conns : Holds(e, p)' => e = d
              /\ ~(p \in collected[d] /\ connPC[d] = "delivering")
          BY <3>3, <3>6, <4>2 DEF OneResultPerCall
        <5>2. d = c => collected[c] = {}
          BY <3>1 DEF ConnInv
        <5> QED
          BY <3>1, <3>4, <5>1, <5>2
      <4> QED
        BY <4>1, <4>2
    <3> QED
      BY <3>5, <3>6 DEF OneResultPerCall
  <2>5. CASE DeliverAnswer(c)
    BY <2>5 DEF TypeOK, ConnInv, CallInv, OneResultPerCall, Holds, DeliverAnswer,
       TrySend, hubVars, netVars
  <2>6. CASE ReadError(c)
    BY <2>6 DEF TypeOK, ConnInv, CallInv, OneResultPerCall, Holds, ReadError,
       hubVars, callVars, netVars
  <2>7. CASE Disconnect(c)
    BY <2>7 DEF TypeOK, ConnInv, CallInv, OneResultPerCall, Holds, Disconnect,
       Owns, CleanupMachine, MarkOffline, hubVars, callVars, netVars
  <2>8. CASE CloseConn(c)
    BY <2>8 DEF TypeOK, ConnInv, CallInv, OneResultPerCall, Holds, CloseConn,
       hubVars, callVars, netVars
  <2>9. ASSUME NEW m \in Machines, ReadRegister(c, m)
        PROVE  OneResultPerCall'
    BY <2>9 DEF TypeOK, ConnInv, CallInv, OneResultPerCall, Holds, ReadRegister,
       Owns, CleanupMachine, MarkOffline, callVars, netVars
  <2>10. ASSUME NEW q \in Calls, NEW a \in Answers, ReadAnswer(c, q, a)
        PROVE  OneResultPerCall'
    <3>1. \A d \in Conns, p \in Calls : Holds(d, p)' <=> Holds(d, p)
      BY <2>10 DEF TypeOK, Holds, ReadAnswer, Owns
    <3> QED
      BY <2>10, <3>1 DEF TypeOK, ConnInv, OneResultPerCall, ReadAnswer, hubVars,
         callVars
  <2>11. ASSUME NEW q \in Calls, FailWaiter(c, q)
        PROVE  OneResultPerCall'
    BY <2>11 DEF TypeOK, ConnInv, CallInv, OneResultPerCall, Holds, FailWaiter,
       TrySend, hubVars, netVars
  <2> QED
    BY <1>1, <2>1, <2>2, <2>3, <2>4, <2>5, <2>6, <2>7, <2>8, <2>9, <2>10, <2>11
       DEF ConnStep, ConnInput
<1>2. ASSUME NEW q \in Calls, CallStep(q) \/ GetMachine(q) \/ \E m \in Machines : Lookup(q, m)
      PROVE  OneResultPerCall'
  <2>1. CASE RegisterPending(q)
    BY <2>1 DEF TypeOK, ConnInv, CallInv, OneResultPerCall, Holds,
       RegisterPending, connVars, netVars
  <2>2. CASE Forget(q)
    BY <2>2 DEF TypeOK, ConnInv, CallInv, OneResultPerCall, Holds, Forget,
       connVars, netVars
  <2>3. CASE ReceiveResult(q)
    BY <2>3 DEF TypeOK, ConnInv, CallInv, OneResultPerCall, Holds, ReceiveResult,
       hubVars, connVars, netVars
  <2>4. ASSUME NEW m \in Machines, Lookup(q, m)
        PROVE  OneResultPerCall'
    BY <2>4 DEF TypeOK, ConnInv, CallInv, OneResultPerCall, Holds, Lookup,
       hubVars, connVars, netVars
  <2>5. CASE WriteSucceeds(q) \/ WriteFails(q) \/ Expire(q)
    BY <2>5 DEF TypeOK, ConnInv, CallInv, OneResultPerCall, Holds, WriteSucceeds,
       WriteFails, Expire, hubVars, connVars, netVars
  <2>91. CASE GetMachine(q)
    BY <2>91 DEF TypeOK, OneResultPerCall, Holds, GetMachine, hubVars,
       connVars, netVars
  <2>92. CASE UpsertMachine(q)
    BY <2>92 DEF TypeOK, OneResultPerCall, Holds, UpsertMachine, connVars,
       netVars
  <2> QED
    BY <1>2, <2>1, <2>2, <2>3, <2>4, <2>5, <2>91, <2>92 DEF CallStep
<1>3. CASE UNCHANGED vars
  BY <1>3 DEF TypeOK, ConnInv, CallInv, OneResultPerCall, Holds, vars, hubVars,
     connVars, callVars, netVars
<1> QED
  BY <1>1, <1>2, <1>3 DEF Next

\* Every step preserves no waiter outlives its call.  ReceiveResult needs OneResultPerCall: a
\* result in the channel means the waiter has left the map.
LEMMA NoLeakStep == IInv /\ [Next]_vars => NoWaiterLeak'
<1> SUFFICES ASSUME IInv, [Next]_vars PROVE NoWaiterLeak'
  OBVIOUS
<1> USE NoneAssumption DEF IInv
<1>1. ASSUME NEW c \in Conns, ConnStep(c) \/ ConnInput(c)
      PROVE  NoWaiterLeak'
  <2>1. CASE TakeWaiter(c)
    BY <2>1 DEF TypeOK, OneResultPerCall, NoWaiterLeak, TakeWaiter, callVars,
       netVars
  <2>2. CASE Disconnect(c)
    BY <2>2 DEF TypeOK, OneResultPerCall, NoWaiterLeak, Disconnect, Owns,
       CleanupMachine, MarkOffline, hubVars, callVars, netVars
  <2>3. ASSUME NEW m \in Machines, ReadRegister(c, m)
        PROVE  NoWaiterLeak'
    BY <2>3 DEF TypeOK, OneResultPerCall, NoWaiterLeak, ReadRegister, Owns,
       CleanupMachine, MarkOffline, callVars, netVars
  <2>4. ASSUME NEW q \in Calls, NEW a \in Answers, ReadAnswer(c, q, a)
        PROVE  NoWaiterLeak'
    BY <2>4 DEF TypeOK, OneResultPerCall, NoWaiterLeak, ReadAnswer, Owns,
       hubVars, callVars
  <2>5. ASSUME NEW q \in Calls, FailWaiter(c, q)
        PROVE  NoWaiterLeak'
    BY <2>5 DEF TypeOK, OneResultPerCall, NoWaiterLeak, FailWaiter, TrySend,
       hubVars, netVars
  <2>6. CASE Accept(c) \/ ReadMachineSnapshot(c) \/ UpsertOnline(c) \/ DeliverAnswer(c)
        \/ ReadError(c) \/ CloseConn(c)
    BY <2>6 DEF TypeOK, OneResultPerCall, NoWaiterLeak, Accept,
       ReadMachineSnapshot, UpsertOnline, DeliverAnswer, ReadError, CloseConn, Owns,
       TrySend, hubVars, callVars, netVars
  <2> QED
    BY <1>1, <2>1, <2>2, <2>3, <2>4, <2>5, <2>6 DEF ConnStep, ConnInput
<1>2. ASSUME NEW q \in Calls, CallStep(q) \/ GetMachine(q) \/ \E m \in Machines : Lookup(q, m)
      PROVE  NoWaiterLeak'
  <2>1. CASE RegisterPending(q)
    BY <2>1 DEF TypeOK, OneResultPerCall, NoWaiterLeak, RegisterPending,
       connVars, netVars
  <2>2. CASE WriteSucceeds(q)
    BY <2>2 DEF TypeOK, OneResultPerCall, NoWaiterLeak, WriteSucceeds, hubVars,
       connVars
  <2>3. CASE WriteFails(q)
    BY <2>3 DEF TypeOK, OneResultPerCall, NoWaiterLeak, WriteFails, hubVars,
       connVars, netVars
  <2>4. CASE Expire(q)
    BY <2>4 DEF TypeOK, OneResultPerCall, NoWaiterLeak, Expire, hubVars,
       connVars, netVars
  <2>5. CASE Forget(q)
    BY <2>5 DEF TypeOK, OneResultPerCall, NoWaiterLeak, Forget, connVars, netVars
  <2>6. CASE ReceiveResult(q)
    BY <2>6 DEF TypeOK, OneResultPerCall, NoWaiterLeak, ReceiveResult, hubVars,
       connVars, netVars
  <2>7. ASSUME NEW m \in Machines, Lookup(q, m)
        PROVE  NoWaiterLeak'
    <3>1. /\ pending' = pending /\ callPC[q] = "idle"
          /\ \A p \in Calls : p # q => callPC'[p] = callPC[p]
      BY <2>7 DEF TypeOK, Lookup, hubVars
    <3>2. pending[q] = None
      BY <3>1 DEF NoWaiterLeak
    <3> QED
      BY <3>1, <3>2 DEF NoWaiterLeak
  <2>91. CASE GetMachine(q)
    BY <2>91 DEF TypeOK, NoWaiterLeak, GetMachine, hubVars,
       connVars, netVars
  <2>92. CASE UpsertMachine(q)
    BY <2>92 DEF TypeOK, NoWaiterLeak, UpsertMachine, connVars,
       netVars
  <2> QED
    BY <1>2, <2>1, <2>2, <2>3, <2>4, <2>5, <2>6, <2>7, <2>91, <2>92 DEF CallStep
<1>3. CASE UNCHANGED vars
  BY <1>3 DEF TypeOK, OneResultPerCall, NoWaiterLeak, vars, hubVars, connVars,
     callVars, netVars
<1> QED
  BY <1>1, <1>2, <1>3 DEF Next

\* Every step preserves every entry of clients leads to a live goroutine.
LEMMA NoGhostStep == IInv /\ [Next]_vars => NoGhostConnection'
<1> SUFFICES ASSUME IInv, [Next]_vars PROVE NoGhostConnection'
  OBVIOUS
<1> USE NoneAssumption DEF IInv
<1>1. ASSUME NEW c \in Conns, ConnStep(c) \/ ConnInput(c)
      PROVE  NoGhostConnection'
  <2>1. CASE Accept(c)
    BY <2>1 DEF TypeOK, ConnInv, NoGhostConnection, Accept, hubVars, callVars,
       netVars
  <2>2. CASE ReadMachineSnapshot(c)
    BY <2>2 DEF TypeOK, ConnInv, NoGhostConnection, ReadMachineSnapshot, Owns,
       hubVars, callVars, netVars
  <2>3. CASE UpsertOnline(c)
    BY <2>3 DEF TypeOK, ConnInv, NoGhostConnection, UpsertOnline, callVars,
       netVars
  <2>4. CASE TakeWaiter(c)
    BY <2>4 DEF TypeOK, ConnInv, NoGhostConnection, TakeWaiter, callVars, netVars
  <2>5. CASE DeliverAnswer(c)
    BY <2>5 DEF TypeOK, ConnInv, NoGhostConnection, DeliverAnswer, TrySend,
       hubVars, netVars
  <2>6. CASE ReadError(c)
    BY <2>6 DEF TypeOK, ConnInv, NoGhostConnection, ReadError, hubVars, callVars,
       netVars
  <2>7. CASE Disconnect(c)
    BY <2>7 DEF TypeOK, ConnInv, NoGhostConnection, Disconnect, Owns,
       CleanupMachine, MarkOffline, hubVars, callVars, netVars
  <2>8. CASE CloseConn(c)
    BY <2>8 DEF TypeOK, ConnInv, NoGhostConnection, CloseConn, hubVars, callVars,
       netVars
  <2>9. ASSUME NEW m \in Machines, ReadRegister(c, m)
        PROVE  NoGhostConnection'
    BY <2>9 DEF TypeOK, ConnInv, NoGhostConnection, ReadRegister, Owns,
       CleanupMachine, MarkOffline, callVars, netVars
  <2>10. ASSUME NEW q \in Calls, NEW a \in Answers, ReadAnswer(c, q, a)
        PROVE  NoGhostConnection'
    BY <2>10 DEF TypeOK, ConnInv, NoGhostConnection, ReadAnswer, Owns, hubVars,
       callVars
  <2>11. ASSUME NEW q \in Calls, FailWaiter(c, q)
        PROVE  NoGhostConnection'
    BY <2>11 DEF TypeOK, ConnInv, NoGhostConnection, FailWaiter, TrySend,
       hubVars, netVars
  <2> QED
    BY <1>1, <2>1, <2>2, <2>3, <2>4, <2>5, <2>6, <2>7, <2>8, <2>9, <2>10, <2>11
       DEF ConnStep, ConnInput
<1>2. ASSUME NEW q \in Calls, CallStep(q) \/ GetMachine(q) \/ \E m \in Machines : Lookup(q, m)
      PROVE  NoGhostConnection'
  <2>1. ASSUME NEW m \in Machines, Lookup(q, m)
        PROVE  NoGhostConnection'
    BY <2>1 DEF TypeOK, ConnInv, NoGhostConnection, Lookup, hubVars, connVars,
       netVars
  <2>2. CASE RegisterPending(q) \/ WriteSucceeds(q) \/ WriteFails(q) \/ Expire(q) \/
        Forget(q) \/ ReceiveResult(q)
    BY <2>2 DEF TypeOK, ConnInv, NoGhostConnection, RegisterPending,
       WriteSucceeds, WriteFails, Expire, Forget, ReceiveResult, hubVars, connVars,
       netVars
  <2>91. CASE GetMachine(q)
    BY <2>91 DEF TypeOK, NoGhostConnection, GetMachine, hubVars,
       connVars, netVars
  <2>92. CASE UpsertMachine(q)
    BY <2>92 DEF TypeOK, NoGhostConnection, UpsertMachine, connVars,
       netVars
  <2> QED
    BY <1>2, <2>1, <2>2, <2>91, <2>92 DEF CallStep
<1>3. CASE UNCHANGED vars
  BY <1>3 DEF TypeOK, ConnInv, NoGhostConnection, vars, hubVars, connVars,
     callVars, netVars
<1> QED
  BY <1>1, <1>2, <1>3 DEF Next

\* Every step preserves a connected machine is shown online.  MarkOffline only ever runs in
\* the step that removes the machine from clients, and a stale write is astray.
LEMMA ShownOnlineStep == IInv /\ [Next]_vars => ConnectedShownOnline'
<1> SUFFICES ASSUME IInv, [Next]_vars PROVE ConnectedShownOnline'
  OBVIOUS
<1> USE NoneAssumption DEF IInv
<1>1. ASSUME NEW c \in Conns, ConnStep(c) \/ ConnInput(c)
      PROVE  ConnectedShownOnline'
  <2>1. CASE Accept(c)
    BY <2>1 DEF TypeOK, ConnInv, NoGhostConnection, ConnectedShownOnline, Accept,
       hubVars, callVars, netVars
  <2>2. CASE ReadMachineSnapshot(c)
    BY <2>2 DEF TypeOK, ConnInv, NoGhostConnection, ConnectedShownOnline,
       ReadMachineSnapshot, Owns, hubVars, callVars, netVars
  <2>3. CASE UpsertOnline(c)
    BY <2>3 DEF TypeOK, ConnInv, NoGhostConnection, ConnectedShownOnline,
       UpsertOnline, callVars, netVars
  <2>4. CASE TakeWaiter(c)
    BY <2>4 DEF TypeOK, ConnInv, NoGhostConnection, ConnectedShownOnline,
       TakeWaiter, callVars, netVars
  <2>5. CASE DeliverAnswer(c)
    BY <2>5 DEF TypeOK, ConnInv, NoGhostConnection, ConnectedShownOnline,
       DeliverAnswer, TrySend, hubVars, netVars
  <2>6. CASE ReadError(c)
    BY <2>6 DEF TypeOK, ConnInv, NoGhostConnection, ConnectedShownOnline,
       ReadError, hubVars, callVars, netVars
  <2>7. CASE Disconnect(c)
    BY <2>7 DEF TypeOK, ConnInv, NoGhostConnection, ConnectedShownOnline,
       Disconnect, Owns, CleanupMachine, MarkOffline, hubVars, callVars, netVars
  <2>8. CASE CloseConn(c)
    BY <2>8 DEF TypeOK, ConnInv, NoGhostConnection, ConnectedShownOnline,
       CloseConn, hubVars, callVars, netVars
  <2>9. ASSUME NEW m \in Machines, ReadRegister(c, m)
        PROVE  ConnectedShownOnline'
    BY <2>9 DEF TypeOK, ConnInv, NoGhostConnection, ConnectedShownOnline,
       ReadRegister, Owns, CleanupMachine, MarkOffline, callVars, netVars
  <2>10. ASSUME NEW q \in Calls, NEW a \in Answers, ReadAnswer(c, q, a)
        PROVE  ConnectedShownOnline'
    BY <2>10 DEF TypeOK, ConnInv, NoGhostConnection, ConnectedShownOnline,
       ReadAnswer, Owns, hubVars, callVars
  <2>11. ASSUME NEW q \in Calls, FailWaiter(c, q)
        PROVE  ConnectedShownOnline'
    BY <2>11 DEF TypeOK, ConnInv, NoGhostConnection, ConnectedShownOnline,
       FailWaiter, TrySend, hubVars, netVars
  <2> QED
    BY <1>1, <2>1, <2>2, <2>3, <2>4, <2>5, <2>6, <2>7, <2>8, <2>9, <2>10, <2>11
       DEF ConnStep, ConnInput
<1>2. ASSUME NEW q \in Calls, CallStep(q) \/ GetMachine(q) \/ \E m \in Machines : Lookup(q, m)
      PROVE  ConnectedShownOnline'
  <2>1. ASSUME NEW m \in Machines, Lookup(q, m)
        PROVE  ConnectedShownOnline'
    BY <2>1 DEF TypeOK, ConnInv, NoGhostConnection, ConnectedShownOnline, Lookup,
       hubVars, connVars, netVars
  <2>2. CASE RegisterPending(q) \/ WriteSucceeds(q) \/ WriteFails(q) \/ Expire(q) \/
        Forget(q) \/ ReceiveResult(q)
    BY <2>2 DEF TypeOK, ConnInv, NoGhostConnection, ConnectedShownOnline,
       RegisterPending, WriteSucceeds, WriteFails, Expire, Forget, ReceiveResult,
       hubVars, connVars, netVars
  <2>91. CASE GetMachine(q)
    BY <2>91 DEF TypeOK, ConnectedShownOnline, CallInv, GetMachine, hubVars,
       connVars, netVars
  <2>92. CASE UpsertMachine(q)
    BY <2>92 DEF TypeOK, ConnectedShownOnline, CallInv, UpsertMachine, connVars,
       netVars
  <2> QED
    BY <1>2, <2>1, <2>2, <2>91, <2>92 DEF CallStep
<1>3. CASE UNCHANGED vars
  BY <1>3 DEF TypeOK, ConnInv, NoGhostConnection, ConnectedShownOnline, vars,
     hubVars, connVars, callVars, netVars
<1> QED
  BY <1>1, <1>2, <1>3 DEF Next

-----------------------------------------------------------------------------
\* In the initial state no goroutine has started and every map is empty.
LEMMA InitIInv == Init => IInv
<1> SUFFICES ASSUME Init PROVE IInv
  OBVIOUS
<1> USE NoneAssumption DEF Init
<1>1. TypeOK
  BY DEF TypeOK
<1>2. ConnInv /\ WireInv
  BY DEF ConnInv, WireInv
<1>3. CallInv /\ OneResultPerCall /\ NoWaiterLeak
  BY DEF CallInv, OneResultPerCall, NoWaiterLeak, Holds, Answers
<1>4. NoGhostConnection /\ ConnectedShownOnline
  BY DEF NoGhostConnection, ConnectedShownOnline
<1> QED
  BY <1>1, <1>2, <1>3, <1>4 DEF IInv

\* The inductive invariant holds in every reachable state.
THEOREM Invariance == Spec => []IInv
<1>1. IInv /\ [Next]_vars => IInv'
  BY TypeStep, ConnStepInv, WireStep, CallStepInv, OneResultStep, NoLeakStep,
     NoGhostStep, ShownOnlineStep DEF IInv
<1> QED
  BY InitIInv, <1>1, PTL DEF Spec

\* Every variable keeps its type.
THEOREM TypeCorrect == Spec => []TypeOK
<1>1. IInv => TypeOK
  BY DEF IInv
<1> QED
  BY Invariance, <1>1, PTL

\* The answer, the disconnect and the timeout of a call race for its waiter and
\* exactly one of them gets it: no result is ever dropped on a full channel.
THEOREM OneResult == Spec => []OneResultPerCall
<1>1. IInv => OneResultPerCall
  BY DEF IInv
<1> QED
  BY Invariance, <1>1, PTL

\* A call that has returned has no entry in pendingCommands.
THEOREM NoLeak == Spec => []NoWaiterLeak
<1>1. IInv => NoWaiterLeak
  BY DEF IInv
<1> QED
  BY Invariance, <1>1, PTL

\* The clients map leads to live goroutines only, and a machine whose owner has
\* finished registering is shown online, unless a handler wrote back a status that
\* had changed since it read it.
THEOREM Ownership == Spec => []ClientsAreConnected
<1>1. IInv => ClientsAreConnected
  BY DEF IInv, ClientsAreConnected
<1> QED
  BY Invariance, <1>1, PTL

\* Only its owner's goroutine removes a machine, and nothing else turns it offline but
\* a handler that writes back the status it read while the machine was offline.
THEOREM OwnerKept == Spec => ReconnectKeepsOwner
<1> DEFINE Kept(m) ==
      \/ /\ registry[m] = "online" /\ registry'[m] = "offline"
         /\ \A q \in Calls : target[q] = m /\ record[q] = "offline" => record'[q] = record[q]
      \/ clients[m] # None /\ clients'[m] = None
      => /\ clients[m] # None
         /\ clients'[m] = None
         /\ connPC[clients[m]] \in {"reading", "closing"}
         /\ connPC'[clients[m]] # connPC[clients[m]]
<1>1. ASSUME IInv, [Next]_vars, NEW m \in Machines
      PROVE  Kept(m)
  <2> USE NoneAssumption, <1>1
  <2>1. CASE UNCHANGED <<clients, registry>>
    BY <2>1
  <2>2. ASSUME NEW c \in Conns, NEW n \in Machines, ReadRegister(c, n)
        PROVE  Kept(m)
    BY <2>2 DEF IInv, TypeOK, ReadRegister, Owns, CleanupMachine, MarkOffline
  <2>3. ASSUME NEW c \in Conns, UpsertOnline(c)
        PROVE  Kept(m)
    BY <2>3 DEF IInv, TypeOK, UpsertOnline
  <2>4. ASSUME NEW c \in Conns, Disconnect(c)
        PROVE  Kept(m)
    BY <2>4 DEF IInv, TypeOK, Disconnect, Owns, CleanupMachine, MarkOffline, hubVars
  <2>5. ASSUME NEW c \in Conns, ConnStep(c) \/ ConnInput(c)
        PROVE  Kept(m)
    <3>1. CASE Accept(c) \/ ReadMachineSnapshot(c) \/ TakeWaiter(c) \/ DeliverAnswer(c)
               \/ ReadError(c) \/ CloseConn(c)
      BY <2>1, <3>1 DEF Accept, ReadMachineSnapshot, TakeWaiter, DeliverAnswer,
         ReadError, CloseConn, hubVars
    <3>2. ASSUME NEW q \in Calls, NEW a \in Answers, ReadAnswer(c, q, a) \/ FailWaiter(c, q)
          PROVE  Kept(m)
      BY <2>1, <3>2 DEF ReadAnswer, FailWaiter, hubVars
    <3> QED
      BY <2>2, <2>3, <2>4, <2>5, <3>1, <3>2 DEF ConnStep, ConnInput, Answers
  <2>6. ASSUME NEW q \in Calls, CallStep(q) \/ GetMachine(q) \/ \E n \in Machines : Lookup(q, n)
        PROVE  Kept(m)
    <3>1. CASE UpsertMachine(q)
      <4>1. clients' = clients /\ registry' = [registry EXCEPT ![target[q]] = record[q]]
            /\ record'[q] = "written" /\ record[q] \in {"online", "offline"}
        BY <3>1 DEF IInv, TypeOK, UpsertMachine
      <4>2. registry[m] = "online" /\ registry'[m] = "offline"
               => target[q] = m /\ record[q] = "offline" /\ record'[q] # record[q]
        BY <4>1 DEF IInv, TypeOK
      <4> QED
        BY <4>1, <4>2
    <3> QED
      BY <2>1, <2>6, <3>1 DEF CallStep, RegisterPending, WriteSucceeds, WriteFails, Expire,
         Forget, ReceiveResult, GetMachine, Lookup, hubVars
  <2>7. CASE UNCHANGED vars
    BY <2>1, <2>7 DEF vars, hubVars
  <2> QED
    BY <2>5, <2>6, <2>7 DEF Next
<1>2. IInv /\ [Next]_vars => [\A m \in Machines : Kept(m)]_vars
  BY <1>1
<1> QED
  BY Invariance, <1>2, PTL DEF Spec, ReconnectKeepsOwner

-----------------------------------------------------------------------------
\* The hub implements CommandPromise, fairness apart: the initial states map to
\* its initial state, and every step maps to one of its steps or to a stutter.
\* (That every call ends needs fairness and stays with TLC: KeepsPromise.)
THEOREM PromiseSafety == Spec => Promise!Init /\ [][Promise!Next]_(Promise!vars)
<1> USE NoneAssumption
<1>1. Init => Promise!Init
  BY DEF Init, Promise!Init
<1>2. ASSUME IInv, [Next]_vars
      PROVE  [Promise!Next]_(Promise!vars)
  <2> USE <1>2 DEF Promise!vars
  <2>1. ASSUME callPC' = callPC, reply' = reply, outcome' = outcome
        PROVE  UNCHANGED Promise!vars
    BY <2>1
  <2>2. ASSUME NEW c \in Conns, ConnStep(c) \/ ConnInput(c)
        PROVE  [Promise!Next]_(Promise!vars)
    <3>1. CASE UNCHANGED <<callPC, reply, outcome>>
      BY <2>1, <3>1
    <3>2. ASSUME NEW q \in Calls, NEW a \in Answers, ReadAnswer(c, q, a)
          PROVE  Promise!Answer(q, a)
      BY <3>2 DEF IInv, TypeOK, WireInv, ReadAnswer, callVars, Promise!Answer
    <3> QED
      BY <2>2, <3>1, <3>2 DEF ConnStep, ConnInput, Accept, ReadRegister,
         ReadMachineSnapshot, UpsertOnline, TakeWaiter, DeliverAnswer, FailWaiter,
         ReadError, Disconnect, CloseConn, callVars, netVars, Promise!Next, Promise!Answers, Answers
  <2>3. ASSUME NEW q \in Calls, NEW m \in Machines, Lookup(q, m)
        PROVE  Promise!Issue(q) \/ Promise!Refuse(q)
    <3>1. CASE clients[m] = None
      <4>1. /\ callPC[q] = "idle" /\ reply' = reply
            /\ callPC' = [callPC EXCEPT ![q] = "done"]
            /\ outcome' = [outcome EXCEPT ![q] = "not_connected"]
        BY <2>3, <3>1 DEF Lookup, netVars
      <4> QED
        BY <4>1 DEF IInv, TypeOK, Promise!Refuse
    <3>2. CASE clients[m] # None
      <4>1. /\ callPC[q] = "idle" /\ reply' = reply
            /\ callPC' = [callPC EXCEPT ![q] = "looked_up"]
            /\ outcome' = outcome
        BY <2>3, <3>2 DEF Lookup, netVars
      <4> QED
        BY <4>1 DEF IInv, TypeOK, Promise!Issue
    <3> QED
      BY <3>1, <3>2
  <2>4. ASSUME NEW q \in Calls, Forget(q)
        PROVE  Promise!Finishes(q)
    <3>1. outcome[q] \in {"write_error", "timeout"}
      BY <2>4 DEF IInv, CallInv, Forget
    <3>2. Promise!Finish(q, outcome[q])
      BY <2>4 DEF IInv, TypeOK, CallInv, Forget, netVars, Promise!Finish,
         Promise!Answers
    <3> QED
      BY <3>1, <3>2 DEF Promise!Finishes, Promise!Finish, Promise!Failures
  <2>5. ASSUME NEW q \in Calls, ReceiveResult(q)
        PROVE  Promise!Finishes(q)
    <3>1. channel[q] \in Answers \cup {"disconnected"}
      BY <2>5 DEF IInv, TypeOK, ReceiveResult
    <3>2. Promise!Finish(q, channel[q])
      BY <2>5 DEF IInv, TypeOK, CallInv, ReceiveResult, netVars, Promise!Finish,
         Promise!Answers, Answers
    <3> QED
      BY <3>1, <3>2 DEF Promise!Finishes, Promise!Finish, Promise!Answers,
         Promise!Failures, Answers
  <2>6. ASSUME NEW q \in Calls,
               \/ RegisterPending(q) \/ WriteSucceeds(q) \/ WriteFails(q) \/ Expire(q)
               \/ GetMachine(q) \/ UpsertMachine(q)
        PROVE  UNCHANGED Promise!vars
    BY <2>6 DEF IInv, TypeOK, RegisterPending, WriteSucceeds, WriteFails, Expire,
       GetMachine, UpsertMachine, netVars
  <2>7. CASE UNCHANGED vars
    BY <2>1, <2>7 DEF vars, callVars, netVars
  <2> QED
    BY <2>2, <2>3, <2>4, <2>5, <2>6, <2>7
       DEF Next, CallStep, Promise!Next, Promise!Finishes
<1> QED
  BY Invariance, <1>1, <1>2, PTL DEF Spec
=============================================================================
