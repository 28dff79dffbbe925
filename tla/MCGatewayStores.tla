--------------------------- MODULE MCGatewayStores ---------------------------
(***************************************************************************)
(* Settings and MachineApi for TLC.  They share no state, so one of them   *)
(* moves in each behaviour and the other stays where it started.           *)
(***************************************************************************)
EXTENDS TLC, Naturals, FiniteSets

CONSTANTS Writers, Threads, NoInode, MaxChanges, Ids, Callers, MaxRequests

ASSUME GatewayStoresAssumption ==
    /\ IsFiniteSet(Writers) /\ NoInode \notin 1..(2 + Cardinality(Writers))
    /\ MaxChanges \in Nat /\ MaxRequests \in Nat

VARIABLES
    part,  \* the component that moves
    mem, tmp, file, data, writer, page, acked, titled, overlap, clobbered,
    agents, running, live, commands, wire, owner, reg, req, requests, astray

S == INSTANCE Settings
M == INSTANCE MachineApi

settings == <<mem, tmp, file, data, writer, page, acked, titled, overlap, clobbered>>
machine == <<agents, running, live, commands, wire, owner, reg, req, requests, astray>>

Init == part \in {"settings", "agents"} /\ S!Init /\ M!Init

Next ==
    \/ part = "settings" /\ S!Next /\ UNCHANGED <<part, machine>>
    \/ part = "agents" /\ M!Next /\ UNCHANGED <<part, settings>>

Spec == Init /\ [][Next]_<<part, settings, machine>>

\* The variables of both components keep their types.
TypeOK == S!SettingsTypeOK /\ M!MachineTypeOK

\* Settings: what was answered with success is in the file.
AckedIsOnDisk == S!AckedIsOnDisk

\* Settings: a title that was given stays.
TitlesStay == S!TitlesStay

\* MachineApi: the registry shows the machine's agents and its connection.
RegistryFollowsMachine == M!RegistryFollowsMachine

Symmetry ==
    Permutations(Writers) \cup Permutations(Threads) \cup Permutations(Ids)
        \cup Permutations(Callers)
=============================================================================
