------------------------- MODULE GatewayStores_proofs -------------------------
(***************************************************************************)
(* TLAPS proofs about Settings and MachineApi, for any writers, threads,   *)
(* agents and callers, and any bounds.  Each module states its inductive   *)
(* invariant; here one lemma per action shows that the action preserves    *)
(* it, and the theorems are about MCGatewayStores, where one of the two    *)
(* moves.                                                                  *)
(***************************************************************************)
EXTENDS MCGatewayStores, FiniteSetTheorems, SequenceTheorems, TLAPS

-----------------------------------------------------------------------------
(* Settings.                                                               *)

LEMMA InodesAre == S!Inodes = 1..(2 + Cardinality(Writers))
  BY DEF S!Inodes, S!Cardinality, Cardinality

\* There are more inodes than a save can have in hand besides the file.
LEMMA TmpInodeIsFree ==
    ASSUME S!Shapes
    PROVE  S!TmpInode \in S!Inodes /\ (tmp = NoInode => S!TmpInode # file)
<1>1. CASE tmp # NoInode
  BY <1>1 DEF S!Shapes, S!SettingsTypeOK, S!TmpInode
<1>2. CASE tmp = NoInode
  <2> DEFINE Writing == {w \in Writers : writer[w].pc = "write"}
             Written == {writer[w].inode : w \in Writing}
             Used == Written \cup {file}
  <2>1. IsFiniteSet(Writing) /\ Cardinality(Writing) <= Cardinality(Writers)
        /\ Cardinality(Writers) \in Nat
    BY FS_Subset, FS_CardinalityType, GatewayStoresAssumption
  <2>2. IsFiniteSet(Written) /\ Cardinality(Written) <= Cardinality(Writing)
    <3> DEFINE f == [w \in Writing |-> writer[w].inode]
    <3>1. f \in Surjection(Writing, Written)
      BY DEF Surjection
    <3> QED  BY <2>1, <3>1, FS_Surjection, Zenon
  <2>3. IsFiniteSet(Used) /\ Cardinality(Used) <= 1 + Cardinality(Writers)
        /\ Cardinality(Used) \in Nat
    <3> HIDE DEF Writing, Written
    <3>1. IsFiniteSet(Used) /\ Cardinality(Used) \in Nat /\ Cardinality(Writing) \in Nat
          /\ Cardinality(Written) \in Nat
          /\ Cardinality(Used) = IF file \in Written THEN Cardinality(Written)
                                 ELSE Cardinality(Written) + 1
      BY <2>1, <2>2, FS_AddElement, FS_CardinalityType
    <3> QED  BY <2>1, <2>2, <3>1
  <2>4. IsFiniteSet(S!Inodes) /\ Cardinality(S!Inodes) = 2 + Cardinality(Writers)
    <3>1. PICK n \in Nat : n = Cardinality(Writers)
      BY <2>1
    <3>2. IsFiniteSet(1..(2 + n)) /\ Cardinality(1..(2 + n)) = 2 + n
      <4>1. \A a, b \in Int : IsFiniteSet(a..b)
              /\ Cardinality(a..b) = IF a > b THEN 0 ELSE b - a + 1
        BY FS_Interval, Zenon
      <4> QED  BY <4>1
    <3> QED  BY <3>1, <3>2, InodesAre
  <2>5. ~(S!Inodes \subseteq Used)
    <3>1. S!Inodes \subseteq Used => Cardinality(S!Inodes) <= Cardinality(Used)
      BY <2>3, FS_Subset, Zenon
    <3> QED  BY <3>1, <2>1, <2>3, <2>4
  <2>6. \E i \in S!Inodes :
           i # file /\ \A w \in Writers : writer[w].pc = "write" => writer[w].inode # i
    BY <2>5
  <2> QED  BY <1>2, <2>6 DEF S!TmpInode
<1> QED  BY <1>1, <1>2

\* The store at rest satisfies the invariant.
LEMMA SettingsInit == S!Init => S!SettingsInv
<1> SUFFICES ASSUME S!Init PROVE S!SettingsInv
  OBVIOUS
<1>1. S!Nothing \in S!States /\ 0 \in S!Changes
  BY GatewayStoresAssumption DEF S!Nothing, S!States, S!Changes
<1>2. S!Shapes
  <2>1. data \in [S!Inodes -> S!Documents]
    BY DEF S!Init, S!Documents
  <2>2. writer \in [Writers -> S!WriterStates]
    BY DEF S!Init, S!WriterStates
  <2>3. \A i \in S!Inodes : data[i].kind = "empty"
    BY DEF S!Init, S!Empty
  <2>4. \A w \in Writers : writer[w].pc = "idle"
    BY DEF S!Init, S!Idle
  <2>5. acked <= mem.at /\ \A t \in Threads : titled[t] <= mem.at
    BY DEF S!Init, S!Nothing
  <2>6. page \in [Threads -> S!Changes] /\ titled \in [Threads -> S!Changes]
    BY <1>1 DEF S!Init
  <2> QED  BY <1>1, <2>1, <2>2, <2>3, <2>4, <2>5, <2>6 DEF S!Init, S!Shapes, S!SettingsTypeOK
<1>3. S!InMemory /\ S!OneAtFile /\ \A w \in Writers : S!Saves(w)
  BY DEF S!Init, S!InMemory, S!OneAtFile, S!AtFile, S!Saves, S!Idle
<1>4. S!FileKeeps /\ S!Keeps(mem)
  BY DEF S!Init, S!FileKeeps, S!Keeps, S!Nothing
<1> QED  BY <1>2, <1>3, <1>4 DEF S!SettingsInv, S!SavesInTurn

\* A change of the memory store: what is being saved stays in it.
LEMMA ChangedStep ==
    ASSUME S!SettingsInv, NEW w \in Writers, NEW new \in S!States, NEW t \in SUBSET Threads,
           S!Changed(w, new, t), writer[w].pc \in {"idle", "titles"},
           page' \in [Threads -> S!Changes], clobbered' \in BOOLEAN, clobbered => clobbered',
           ~clobbered' => \A u \in Threads :
               new.titles[u] = IF u \in t THEN mem.at + 1 ELSE mem.titles[u]
    PROVE  S!SettingsInv'
<1> USE DEF S!SettingsInv
<1>1. /\ mem.at \in Nat /\ mem.at < MaxChanges /\ mem' = [new EXCEPT !.at = mem.at + 1]
      /\ mem' \in S!States /\ mem'.at = mem.at + 1 /\ mem'.titles = new.titles
      /\ mem.at + 1 \in S!Changes
  BY GatewayStoresAssumption DEF S!Changed, S!Next1, S!Shapes, S!SettingsTypeOK,
     S!States, S!Changes
<1>2. /\ writer' = [writer EXCEPT ![w] = [pc |-> "save", change |-> mem.at + 1, title |-> t]]
      /\ writer'[w] = [pc |-> "save", change |-> mem.at + 1, title |-> t]
      /\ \A v \in Writers \ {w} : writer'[v] = writer[v]
      /\ UNCHANGED <<tmp, file, data, acked, titled, overlap>>
  BY DEF S!Changed, S!Next1, S!Shapes
<1>3. S!Shapes'
  <2>1. writer' \in [Writers -> S!WriterStates]
    BY <1>1, <1>2 DEF S!Shapes, S!WriterStates
  <2>2. acked' <= mem'.at /\ \A u \in Threads : titled'[u] <= mem'.at
    BY <1>1, <1>2 DEF S!Shapes, S!SettingsTypeOK, S!Changes
  <2>3. \A v \in Writers :
           writer'[v].pc \in {"idle", "titles", "save", "open", "write", "rename"}
    BY <1>2 DEF S!Shapes, S!SettingsTypeOK
  <2> QED  BY <1>1, <1>2, <2>1, <2>2, <2>3 DEF S!Shapes, S!SettingsTypeOK
<1>4. ASSUME NEW v \in Writers, writer'[v].pc \in {"save", "open", "write", "rename"}
      PROVE  S!HasChange(mem, v)'
  <2>1. CASE v = w
    BY <1>1, <1>2, <2>1 DEF S!HasChange
  <2>2. CASE v # w
    <3>1. /\ writer[v].change \in S!Changes /\ writer[v].title \subseteq Threads
          /\ writer[v].change <= mem.at
          /\ ~clobbered => \A u \in writer[v].title : mem.titles[u] >= writer[v].change
      BY <1>2, <1>4, <2>2 DEF S!InMemory, S!HasChange, S!Shapes, S!WriterStates, S!Idle,
         S!States, S!Changes
    <3>2. mem.titles \in [Threads -> S!Changes]
      BY DEF S!Shapes, S!SettingsTypeOK, S!States
    <3> QED  BY <1>1, <1>2, <2>2, <3>1, <3>2 DEF S!HasChange, S!Changes
  <2> QED  BY <2>1, <2>2
<1>5. ASSUME ~overlap'
      PROVE  S!SavesInTurn'
  <2>1. S!SavesInTurn
    BY <1>2, <1>5
  <2>2. S!OneAtFile'
    BY <1>2, <2>1 DEF S!SavesInTurn, S!OneAtFile, S!AtFile
  <2>3. ASSUME NEW v \in Writers PROVE S!Saves(v)'
    BY <1>2, <2>1 DEF S!SavesInTurn, S!Saves, S!Keeps, S!HasChange
  <2>4. S!FileKeeps'
    BY <1>2, <2>1 DEF S!SavesInTurn, S!FileKeeps, S!Keeps
  <2>5. S!Keeps(mem)'
    <3>1. mem.titles \in [Threads -> S!Changes] /\ titled \in [Threads -> S!Changes]
          /\ acked \in S!Changes /\ acked <= mem.at /\ \A u \in Threads : titled[u] <= mem.at
      BY DEF S!Shapes, S!SettingsTypeOK, S!States
    <3> QED  BY <1>1, <1>2, <2>1, <3>1 DEF S!SavesInTurn, S!Keeps, S!Changes
  <2> QED  BY <2>2, <2>3, <2>4, <2>5 DEF S!SavesInTurn
<1> QED  BY <1>3, <1>4, <1>5 DEF S!InMemory

\* A step that leaves the file, the memory and what was answered alone.
LEMMA QuietStep ==
    ASSUME S!SettingsInv, UNCHANGED <<mem, tmp, file, data, acked, titled, overlap>>,
           writer' \in [Writers -> S!WriterStates], page' \in [Threads -> S!Changes],
           clobbered' = clobbered,
           \A v \in Writers : writer'[v].pc \in {"idle", "titles"} \/ writer'[v] = writer[v]
    PROVE  S!SettingsInv'
<1> USE DEF S!SettingsInv
<1>1. S!Shapes'
  BY DEF S!Shapes, S!SettingsTypeOK
<1>2. S!InMemory'
  BY DEF S!InMemory, S!HasChange
<1>3. ASSUME S!SavesInTurn PROVE S!SavesInTurn'
  <2>1. S!OneAtFile' /\ \A v \in Writers : S!Saves(v)'
    BY <1>3 DEF S!SavesInTurn, S!OneAtFile, S!AtFile, S!Saves, S!Keeps, S!HasChange
  <2>2. S!FileKeeps' /\ S!Keeps(mem)'
    BY <1>3 DEF S!SavesInTurn, S!FileKeeps, S!Keeps
  <2> QED  BY <2>1, <2>2 DEF S!SavesInTurn
<1> QED  BY <1>1, <1>2, <1>3

LEMMA SnapshotStep ==
    ASSUME S!SettingsInv, NEW w \in Writers, S!Snapshot(w)
    PROVE  S!SettingsInv'
<1> USE DEF S!SettingsInv
<1>1. /\ writer[w].pc = "save" /\ writer[w].change \in S!Changes
      /\ writer[w].title \in SUBSET Threads
  BY DEF S!Snapshot, S!Shapes, S!WriterStates, S!Idle
<1>2. /\ writer' = [writer EXCEPT ![w] = [pc |-> "open", change |-> writer[w].change,
                                          title |-> writer[w].title, state |-> mem]]
      /\ writer'[w] = [pc |-> "open", change |-> writer[w].change,
                       title |-> writer[w].title, state |-> mem]
      /\ \A v \in Writers \ {w} : writer'[v] = writer[v]
      /\ UNCHANGED <<mem, tmp, file, data, page, acked, titled, clobbered>>
  BY DEF S!Snapshot, S!Shapes
<1>3. overlap' \in BOOLEAN
      /\ (~overlap' => ~overlap /\ \A v \in Writers \ {w} : ~S!AtFile(v))
  BY DEF S!Snapshot, S!Shapes
<1>4. S!Shapes'
  <2>1. writer' \in [Writers -> S!WriterStates]
    BY <1>1, <1>2 DEF S!Shapes, S!SettingsTypeOK, S!WriterStates
  <2> QED  BY <1>2, <1>3, <2>1 DEF S!Shapes, S!SettingsTypeOK
<1>5. S!HasChange(mem, w) /\ S!InMemory'
  BY <1>1, <1>2 DEF S!InMemory, S!HasChange
<1>6. ASSUME ~overlap' PROVE S!SavesInTurn'
  <2>1. S!SavesInTurn /\ \A v \in Writers \ {w} : ~S!AtFile(v)
    BY <1>3, <1>6
  <2>2. S!OneAtFile'
    BY <1>2, <2>1 DEF S!OneAtFile, S!AtFile
  <2>3. S!Saves(w)'
    BY <1>2, <1>5, <2>1 DEF S!SavesInTurn, S!Saves, S!Keeps, S!HasChange
  <2>4. ASSUME NEW v \in Writers \ {w} PROVE S!Saves(v)'
    BY <1>2, <2>1, <2>4 DEF S!Saves, S!AtFile
  <2>5. S!FileKeeps' /\ S!Keeps(mem)'
    BY <1>2, <2>1 DEF S!SavesInTurn, S!FileKeeps, S!Keeps
  <2> QED  BY <2>2, <2>3, <2>4, <2>5 DEF S!SavesInTurn
<1> QED  BY <1>4, <1>5, <1>6

LEMMA OpenStep ==
    ASSUME S!SettingsInv, NEW w \in Writers, S!Open(w)
    PROVE  S!SettingsInv'
<1> USE DEF S!SettingsInv
<1>1. /\ writer[w].pc = "open" /\ writer[w].change \in S!Changes
      /\ writer[w].title \in SUBSET Threads /\ writer[w].state \in S!States
  BY DEF S!Open, S!Shapes, S!WriterStates, S!Idle
<1>2. PICK i : i = S!TmpInode
  OBVIOUS
<1>3. i \in S!Inodes /\ i # NoInode /\ (tmp = NoInode => i # file) /\ (tmp # NoInode => i = tmp)
  <2>1. i \in S!Inodes /\ (tmp = NoInode => i # file)
    BY <1>2, TmpInodeIsFree, Zenon
  <2>2. NoInode \notin S!Inodes
    BY GatewayStoresAssumption, InodesAre
  <2> QED  BY <1>2, <2>1, <2>2 DEF S!TmpInode
<1>4. /\ writer' = [writer EXCEPT ![w] = [pc |-> "write", change |-> writer[w].change,
                          title |-> writer[w].title, state |-> writer[w].state, inode |-> i]]
      /\ writer'[w] = [pc |-> "write", change |-> writer[w].change,
                       title |-> writer[w].title, state |-> writer[w].state, inode |-> i]
      /\ \A v \in Writers \ {w} : writer'[v] = writer[v]
      /\ tmp' = i /\ data' = [data EXCEPT ![i] = S!Empty] /\ data'[i] = S!Empty
      /\ \A j \in S!Inodes \ {i} : data'[j] = data[j]
      /\ UNCHANGED <<mem, file, page, acked, titled, overlap, clobbered>>
  BY <1>2, <1>3 DEF S!Open, S!Shapes
<1>5. S!Shapes'
  <2>1. writer' \in [Writers -> S!WriterStates]
    BY <1>1, <1>3, <1>4 DEF S!Shapes, S!WriterStates
  <2>2. data' \in [S!Inodes -> S!Documents]
    BY <1>3, <1>4 DEF S!Shapes, S!Documents
  <2>3. \A j \in S!Inodes : data'[j].kind = "whole" => data'[j].state \in S!States
    BY <1>3, <1>4 DEF S!Shapes, S!SettingsTypeOK, S!Empty
  <2> QED  BY <1>3, <1>4, <2>1, <2>2, <2>3 DEF S!Shapes, S!SettingsTypeOK
<1>6. S!InMemory'
  BY <1>1, <1>4 DEF S!InMemory, S!HasChange
<1>7. ASSUME ~overlap' PROVE S!SavesInTurn'
  <2>1. S!SavesInTurn /\ \A v \in Writers \ {w} : ~S!AtFile(v)
    BY <1>1, <1>4, <1>7 DEF S!SavesInTurn, S!OneAtFile, S!AtFile
  <2>2. i # file
    BY <1>3, <2>1 DEF S!SavesInTurn, S!FileKeeps
  <2>3. S!OneAtFile'
    BY <1>4, <2>1 DEF S!OneAtFile, S!AtFile
  <2>4. S!Saves(w)'
    BY <1>1, <1>3, <1>4, <2>1 DEF S!SavesInTurn, S!Saves, S!Keeps, S!HasChange
  <2>5. ASSUME NEW v \in Writers \ {w} PROVE S!Saves(v)'
    BY <1>4, <2>1, <2>5 DEF S!Saves, S!AtFile
  <2>6. S!FileKeeps' /\ S!Keeps(mem)'
    BY <1>3, <1>4, <2>1, <2>2 DEF S!SavesInTurn, S!FileKeeps, S!Keeps, S!Shapes,
       S!SettingsTypeOK
  <2> QED  BY <2>3, <2>4, <2>5, <2>6 DEF S!SavesInTurn
<1> QED  BY <1>5, <1>6, <1>7

LEMMA WriteStep ==
    ASSUME S!SettingsInv, NEW w \in Writers, S!Write(w)
    PROVE  S!SettingsInv'
<1> USE DEF S!SettingsInv
<1>1. /\ writer[w].pc = "write" /\ writer[w].change \in S!Changes
      /\ writer[w].title \in SUBSET Threads /\ writer[w].state \in S!States
      /\ writer[w].inode \in S!Inodes
  BY DEF S!Write, S!Shapes, S!WriterStates, S!Idle
<1>2. PICK i : i = writer[w].inode
  OBVIOUS
<1>3. PICK d : /\ d = S!Whole(writer[w].state) \/ (d = S!Torn /\ data[i] # S!Empty)
               /\ data' = [data EXCEPT ![i] = d]
  <2>1. \E e \in {S!Whole(writer[w].state)} \cup
                  (IF data[i] = S!Empty THEN {} ELSE {S!Torn}) : data' = [data EXCEPT ![i] = e]
    BY <1>2 DEF S!Write
  <2> QED  BY <2>1
<1>4. /\ writer' = [writer EXCEPT ![w] = [pc |-> "rename", change |-> writer[w].change,
                                          title |-> writer[w].title]]
      /\ writer'[w] = [pc |-> "rename", change |-> writer[w].change,
                       title |-> writer[w].title]
      /\ \A v \in Writers \ {w} : writer'[v] = writer[v]
      /\ data'[i] = d /\ \A j \in S!Inodes \ {i} : data'[j] = data[j]
      /\ UNCHANGED <<mem, tmp, file, page, acked, titled, overlap, clobbered>>
  BY <1>1, <1>2, <1>3 DEF S!Write, S!Shapes
<1>5. S!Shapes'
  <2>1. writer' \in [Writers -> S!WriterStates]
    BY <1>1, <1>4 DEF S!Shapes, S!WriterStates
  <2>2. d \in S!Documents
    BY <1>1, <1>3 DEF S!Documents
  <2>3. data' \in [S!Inodes -> S!Documents]
    BY <1>1, <1>2, <1>3, <2>2 DEF S!Shapes
  <2>4. \A j \in S!Inodes : data'[j].kind = "whole" => data'[j].state \in S!States
    BY <1>1, <1>3, <1>4 DEF S!Shapes, S!SettingsTypeOK, S!Whole, S!Torn
  <2> QED  BY <1>4, <2>1, <2>3, <2>4 DEF S!Shapes, S!SettingsTypeOK
<1>6. S!InMemory'
  BY <1>1, <1>4 DEF S!InMemory, S!HasChange
<1>7. ASSUME ~overlap' PROVE S!SavesInTurn'
  <2>1. S!SavesInTurn /\ \A v \in Writers \ {w} : ~S!AtFile(v)
    BY <1>1, <1>4, <1>7 DEF S!SavesInTurn, S!OneAtFile, S!AtFile
  <2>2. /\ tmp # NoInode /\ i = tmp /\ data[i] = S!Empty /\ i # file
        /\ S!Keeps(writer[w].state) /\ S!HasChange(writer[w].state, w)
    BY <1>1, <1>2, <2>1 DEF S!SavesInTurn, S!Saves, S!FileKeeps
  <2>3. d = S!Whole(writer[w].state) /\ d.kind = "whole" /\ d.state = writer[w].state
    BY <1>3, <2>2 DEF S!Whole
  <2>4. S!OneAtFile'
    BY <1>4, <2>1 DEF S!OneAtFile, S!AtFile
  <2>5. S!Saves(w)'
    BY <1>1, <1>4, <2>2, <2>3 DEF S!Saves, S!Keeps, S!HasChange
  <2>6. ASSUME NEW v \in Writers \ {w} PROVE S!Saves(v)'
    BY <1>4, <2>1, <2>6 DEF S!Saves, S!AtFile
  <2>7. S!FileKeeps' /\ S!Keeps(mem)'
    BY <1>4, <2>1, <2>2 DEF S!SavesInTurn, S!FileKeeps, S!Keeps, S!Shapes,
       S!SettingsTypeOK
  <2> QED  BY <2>4, <2>5, <2>6, <2>7 DEF S!SavesInTurn
<1> QED  BY <1>5, <1>6, <1>7

LEMMA RenameStep ==
    ASSUME S!SettingsInv, NEW w \in Writers, S!Rename(w)
    PROVE  S!SettingsInv'
<1> USE DEF S!SettingsInv
<1>1. /\ writer[w].pc = "rename" /\ writer[w].change \in S!Changes
      /\ writer[w].title \in SUBSET Threads /\ tmp # NoInode /\ tmp \in S!Inodes
      /\ writer[w].change <= mem.at
  BY DEF S!Rename, S!Shapes, S!SettingsTypeOK, S!WriterStates, S!Idle, S!InMemory,
     S!HasChange,
     S!States, S!Changes
<1>2. /\ writer' = [writer EXCEPT ![w] = S!Idle] /\ writer'[w].pc = "idle"
      /\ \A v \in Writers \ {w} : writer'[v] = writer[v]
      /\ file' = tmp /\ tmp' = NoInode
      /\ data' = [i \in S!Inodes |-> IF i = file THEN S!Empty ELSE data[i]]
      /\ acked' = S!Later(acked, writer[w].change)
      /\ titled' = [t \in Threads |-> IF t \in writer[w].title
                         THEN S!Later(titled[t], writer[w].change) ELSE titled[t]]
      /\ UNCHANGED <<mem, page, overlap, clobbered>>
  BY DEF S!Rename, S!Shapes, S!Idle
<1>3. /\ mem.at \in Nat /\ acked \in Nat /\ acked <= mem.at /\ mem.titles \in [Threads -> S!Changes]
      /\ \A t \in Threads : titled[t] \in Nat /\ titled[t] <= mem.at /\ titled[t] \in S!Changes
      /\ \A n \in S!Changes : n \in Nat
      /\ acked \in S!Changes
  BY DEF S!Shapes, S!SettingsTypeOK, S!States, S!Changes
<1>4. /\ acked' \in S!Changes /\ acked' <= mem.at
      /\ titled' \in [Threads -> S!Changes] /\ \A t \in Threads : titled'[t] <= mem.at
  BY <1>1, <1>2, <1>3 DEF S!Later
<1>5. S!Shapes'
  <2>1. writer' \in [Writers -> S!WriterStates]
    BY <1>2 DEF S!Shapes, S!WriterStates
  <2>2. data' \in [S!Inodes -> S!Documents]
    BY <1>2 DEF S!Shapes, S!Documents
  <2>3. \A j \in S!Inodes : data'[j].kind = "whole" => data'[j].state \in S!States
    BY <1>2 DEF S!Shapes, S!SettingsTypeOK, S!Empty
  <2> QED  BY <1>1, <1>2, <1>4, <2>1, <2>2, <2>3 DEF S!Shapes, S!SettingsTypeOK
<1>6. S!InMemory'
  BY <1>1, <1>2 DEF S!InMemory, S!HasChange
<1>7. ASSUME ~overlap' PROVE S!SavesInTurn'
  <2>1. S!SavesInTurn /\ \A v \in Writers \ {w} : ~S!AtFile(v)
    BY <1>1, <1>2, <1>7 DEF S!SavesInTurn, S!OneAtFile, S!AtFile
  <2>2. S!OneAtFile' /\ \A v \in Writers : S!Saves(v)'
    BY <1>2, <2>1 DEF S!OneAtFile, S!AtFile, S!Saves
  <2>3. /\ tmp # file /\ data[tmp].kind = "whole" /\ data[tmp].state \in S!States
        /\ S!Keeps(data[tmp].state) /\ S!HasChange(data[tmp].state, w)
    BY <1>1, <2>1 DEF S!SavesInTurn, S!Saves, S!FileKeeps, S!Shapes, S!SettingsTypeOK
  <2>4. ASSUME NEW s \in S!States, S!Keeps(s), S!HasChange(s, w)
        PROVE  /\ s.at >= acked'
               /\ ~clobbered' => \A t \in Threads : s.titles[t] >= titled'[t]
    BY <1>1, <1>2, <1>3, <2>4 DEF S!Keeps, S!HasChange, S!Later, S!States
  <2>5. S!Keeps(mem)'
    <3>1. S!HasChange(mem, w) /\ S!Keeps(mem) /\ mem \in S!States
      BY <1>1, <2>1 DEF S!InMemory, S!SavesInTurn, S!Shapes, S!SettingsTypeOK
    <3> QED  BY <1>2, <2>4, <3>1 DEF S!Keeps
  <2>6. S!FileKeeps'
    <3>1. file' = tmp /\ tmp' = NoInode /\ file' # NoInode /\ data'[tmp] = data[tmp]
      BY <1>1, <1>2, <2>3
    <3> QED  BY <2>3, <2>4, <3>1 DEF S!FileKeeps, S!Keeps
  <2> QED  BY <2>1, <2>2, <2>5, <2>6 DEF S!SavesInTurn
<1> QED  BY <1>5, <1>6, <1>7

LEMMA RestartStep ==
    ASSUME S!SettingsInv, S!Restart
    PROVE  S!SettingsInv'
<1> USE DEF S!SettingsInv
<1>1. PICK cut \in SUBSET {i \in S!Inodes : \E w \in Writers :
                              writer[w].pc = "write" /\ writer[w].inode = i} :
         data' = [i \in S!Inodes |-> IF i \in cut THEN S!Torn ELSE data[i]]
  BY DEF S!Restart
<1>2. /\ file # NoInode => data'[file] # S!Torn
      /\ mem' = [S!Loaded(data') EXCEPT !.at = mem.at]
      /\ writer' = [w \in Writers |-> S!Idle] /\ \A w \in Writers : writer'[w].pc = "idle"
      /\ UNCHANGED <<tmp, file, page, acked, titled, overlap, clobbered>>
  BY DEF S!Restart, S!Idle
<1>3. data' \in [S!Inodes -> S!Documents]
      /\ \A i \in S!Inodes : data'[i].kind = "whole" => data'[i].state \in S!States
  BY <1>1 DEF S!Shapes, S!SettingsTypeOK, S!Documents, S!Torn
<1>4. S!Loaded(data') \in S!States
  <2>1. S!Nothing \in S!States
    BY GatewayStoresAssumption DEF S!Nothing, S!States, S!Changes
  <2>2. ASSUME file # NoInode, data'[file] # S!Empty
        PROVE  data'[file].kind = "whole" /\ data'[file].state \in S!States
    BY <1>2, <1>3, <2>2 DEF S!Shapes, S!SettingsTypeOK, S!Documents, S!Whole
  <2> QED  BY <2>1, <2>2 DEF S!Loaded
<1>5. mem' \in S!States /\ mem'.at = mem.at /\ mem'.titles = S!Loaded(data').titles
  BY <1>2, <1>4 DEF S!Shapes, S!SettingsTypeOK, S!States
<1>6. S!Shapes'
  <2>1. writer' \in [Writers -> S!WriterStates]
    BY <1>2 DEF S!WriterStates
  <2> QED  BY <1>2, <1>3, <1>5, <2>1 DEF S!Shapes, S!SettingsTypeOK
<1>7. S!InMemory'
  BY <1>2 DEF S!InMemory
<1>8. ASSUME ~overlap' PROVE S!SavesInTurn'
  <2>1. S!SavesInTurn
    BY <1>2, <1>8
  <2>2. S!OneAtFile' /\ \A v \in Writers : S!Saves(v)'
    BY <1>2 DEF S!OneAtFile, S!AtFile, S!Saves
  <2>3. file # NoInode => data'[file] = data[file]
    BY <1>1, <2>1 DEF S!SavesInTurn, S!FileKeeps, S!Saves, S!Shapes, S!SettingsTypeOK
  <2>4. S!FileKeeps'
    BY <1>2, <2>1, <2>3 DEF S!SavesInTurn, S!FileKeeps, S!Keeps
  <2>5. S!Keeps(mem)'
    <3>1. CASE file = NoInode
      <4>1. mem'.titles = [t \in Threads |-> 0] /\ \A t \in Threads : titled[t] = 0
        BY <1>5, <2>1, <3>1 DEF S!Loaded, S!Nothing, S!SavesInTurn, S!FileKeeps
      <4> QED  BY <1>2, <1>5, <2>1, <4>1 DEF S!SavesInTurn, S!Keeps
    <3>2. CASE file # NoInode
      <4>1. data'[file].kind = "whole" /\ S!Keeps(data[file].state)
        BY <2>1, <2>3, <3>2 DEF S!SavesInTurn, S!FileKeeps
      <4>2. S!Loaded(data') = data[file].state
        BY <2>3, <3>2, <4>1 DEF S!Loaded, S!Empty
      <4> QED  BY <1>2, <1>5, <2>1, <4>1, <4>2 DEF S!SavesInTurn, S!Keeps
    <3> QED  BY <3>1, <3>2
  <2> QED  BY <2>2, <2>4, <2>5 DEF S!SavesInTurn
<1> QED  BY <1>6, <1>7, <1>8

\* Every step of the settings preserves the invariant.
LEMMA SettingsStep == S!SettingsInv /\ S!Next => S!SettingsInv'
<1> SUFFICES ASSUME S!SettingsInv, S!Next PROVE S!SettingsInv'
  OBVIOUS
<1>1. /\ mem \in S!States /\ page \in [Threads -> S!Changes]
      /\ writer \in [Writers -> S!WriterStates] /\ clobbered \in BOOLEAN
      /\ mem.at \in Nat /\ mem.titles \in [Threads -> S!Changes] /\ mem.profile \in S!Changes
      /\ S!Changes \subseteq Nat
  BY DEF S!SettingsInv, S!Shapes, S!SettingsTypeOK, S!States, S!Changes
<1>2. mem.at < MaxChanges => S!Next1 = mem.at + 1 /\ S!Next1 \in S!Changes
  BY <1>1, GatewayStoresAssumption DEF S!Next1, S!Changes
<1>3. CASE S!LoadPage
  BY <1>1, <1>3, QuietStep DEF S!LoadPage
<1>4. CASE S!Restart
  BY <1>4, RestartStep
<1>5. ASSUME NEW w \in Writers, S!PutGlobal(w) \/ S!PutMachine(w) \/ S!DeleteMachine(w)
      PROVE  S!SettingsInv'
  <2>1. PICK n \in {0, S!Next1} :
           /\ writer[w].pc = "idle" /\ S!Changed(w, [mem EXCEPT !.documents = n], {})
           /\ UNCHANGED <<page, clobbered>>
    BY <1>5 DEF S!PutGlobal, S!PutMachine, S!DeleteMachine
  <2>2. n \in S!Changes
    BY <1>1, <1>2, <2>1, GatewayStoresAssumption DEF S!Changed, S!Changes
  <2> DEFINE new == [mem EXCEPT !.documents = n]
  <2>3. new \in S!States /\ new.titles = mem.titles
    BY <1>1, <2>2 DEF S!States
  <2>4. S!Changed(w, new, {}) /\ writer[w].pc = "idle" /\ UNCHANGED <<page, clobbered>>
    BY <2>1
  <2> HIDE DEF new
  <2> QED  BY <1>1, <2>3, <2>4, ChangedStep
<1>6. ASSUME NEW w \in Writers, S!SavePage(w)
      PROVE  S!SettingsInv'
  <2> DEFINE new == [mem EXCEPT !.profile = S!Next1, !.titles = page]
  <2>1. /\ writer[w].pc = "idle" /\ S!Changed(w, new, {})
        /\ clobbered' = (clobbered \/ page # mem.titles) /\ UNCHANGED page
    BY <1>6 DEF S!SavePage
  <2>2. new \in S!States /\ new.titles = page
    BY <1>1, <1>2, <2>1 DEF S!States, S!Changed
  <2> HIDE DEF new
  <2> QED  BY <1>1, <2>1, <2>2, ChangedStep
<1>7. ASSUME NEW w \in Writers, S!ReadTitles(w)
      PROVE  S!SettingsInv'
  <2>1. writer' \in [Writers -> S!WriterStates]
    BY <1>1, <1>7 DEF S!ReadTitles, S!WriterStates
  <2>2. \A v \in Writers : writer'[v].pc \in {"idle", "titles"} \/ writer'[v] = writer[v]
    BY <1>1, <1>7 DEF S!ReadTitles
  <2> QED  BY <1>1, <1>7, <2>1, <2>2, QuietStep DEF S!ReadTitles
<1>8. ASSUME NEW w \in Writers, S!WriteTitle(w)
      PROVE  S!SettingsInv'
  <2>1. /\ writer[w].pc = "titles" /\ writer[w].titles \in [Threads -> S!Changes]
        /\ writer[w].profile \in S!Changes
    BY <1>1, <1>8 DEF S!WriteTitle, S!WriterStates, S!Idle
  <2>2. PICK t \in Threads :
           S!Changed(w, [mem EXCEPT !.titles = S!WithTitle(writer[w].titles, t, S!Next1),
                                    !.profile = writer[w].profile], {t})
    BY <1>8 DEF S!WriteTitle
  <2> DEFINE new == [mem EXCEPT !.titles = S!WithTitle(writer[w].titles, t, S!Next1),
                                !.profile = writer[w].profile]
  <2>3. clobbered' = (clobbered \/ writer[w].titles # mem.titles) /\ UNCHANGED page
    BY <1>8 DEF S!WriteTitle
  <2>4. S!WithTitle(writer[w].titles, t, S!Next1) \in [Threads -> S!Changes]
        /\ \A u \in Threads : S!WithTitle(writer[w].titles, t, S!Next1)[u] =
                IF u \in {t} THEN mem.at + 1 ELSE writer[w].titles[u]
    BY <1>2, <2>1, <2>2 DEF S!WithTitle, S!Changed
  <2>5. new \in S!States /\ new.titles = S!WithTitle(writer[w].titles, t, S!Next1)
    BY <1>1, <2>1, <2>4 DEF S!States
  <2> HIDE DEF new
  <2>6. S!Changed(w, new, {t})
    BY <2>2 DEF new
  <2> QED  BY <1>1, <2>1, <2>3, <2>4, <2>5, <2>6, ChangedStep
<1>9. ASSUME NEW w \in Writers, S!SaveFails(w)
      PROVE  S!SettingsInv'
  <2>1. writer' \in [Writers -> S!WriterStates]
    BY <1>1, <1>9 DEF S!SaveFails, S!WriterStates
  <2>2. \A v \in Writers : writer'[v].pc \in {"idle", "titles"} \/ writer'[v] = writer[v]
    BY <1>1, <1>9 DEF S!SaveFails, S!Idle
  <2> QED  BY <1>1, <1>9, <2>1, <2>2, QuietStep DEF S!SaveFails
<1> QED
  BY <1>3, <1>4, <1>5, <1>6, <1>7, <1>8, <1>9, SnapshotStep, OpenStep, WriteStep,
     RenameStep
     DEF S!Next

-----------------------------------------------------------------------------
(* MachineApi.                                                             *)

\* The fields of a frame, by its kind.
LEMMA FrameFields ==
    \A f \in M!Frames :
           /\ f.kind \in {"register", "snapshot", "answer", "rejected"}
           /\ f.kind = "snapshot" => f.agents \subseteq Ids /\ f.running \subseteq Ids
           /\ f.kind = "answer" => f.id \in 1..MaxRequests /\ f.op \in M!OpNames
                                   /\ f.agent \subseteq Ids
           /\ f.kind = "rejected" => f.id \in 1..MaxRequests
  BY DEF M!Frames

\* The fields of a request, by its state.
LEMMA RequestFields ==
    ASSUME NEW q \in M!Requests
    PROVE  /\ q.pc \in {"idle", "waiting", "answered", "read"}
           /\ q.pc = "idle" => q = M!Idle
           /\ q.pc = "waiting" => q.id \in 1..MaxRequests
           /\ q.pc \in {"answered", "read"} =>
                 q.op \in {"install", "delete"} /\ q.agent \subseteq Ids
           /\ q.pc = "read" => q.machine \in M!Machines
  BY DEF M!Requests, M!Idle

LEMMA NewRequests ==
    /\ M!Idle \in M!Requests /\ M!Idle.pc = "idle"
    /\ \A n \in 1..MaxRequests : [pc |-> "waiting", id |-> n] \in M!Requests
    /\ \A o \in {"install", "delete"}, a \in SUBSET Ids :
          [pc |-> "answered", op |-> o, agent |-> a] \in M!Requests
    /\ \A o \in {"install", "delete"}, a \in SUBSET Ids, m \in M!Machines :
          [pc |-> "read", op |-> o, agent |-> a, machine |-> m] \in M!Requests
  BY DEF M!Requests, M!Idle

\* The handler's change of a record, field by field; done twice it is done once.
LEMMA WrittenFields ==
    ASSUME NEW m \in M!Machines, NEW op, NEW a \in SUBSET Ids
    PROVE  /\ M!Written(op, m, a) \in M!Machines
           /\ M!Written(op, m, a).online = m.online
           /\ op = "install" => /\ M!Written(op, m, a).agents = m.agents \cup a
                                /\ M!Written(op, m, a).running = m.running \cup a
           /\ op # "install" => /\ M!Written(op, m, a).agents = m.agents \ a
                                /\ M!Written(op, m, a).running = m.running \ a
  BY DEF M!Written, M!With, M!Without, M!Machines

LEMMA MachineEqual ==
    ASSUME NEW m \in M!Machines, NEW n \in M!Machines,
           m.online = n.online, m.agents = n.agents, m.running = n.running
    PROVE  m = n
  BY DEF M!Machines

LEMMA RecordFields ==
    \A o \in BOOLEAN, as, rs \in SUBSET Ids :
           /\ M!Record(o, as, rs) \in M!Machines /\ M!Record(o, as, rs).online = o
           /\ M!Record(o, as, rs).agents = as /\ M!Record(o, as, rs).running = rs
  BY DEF M!Record, M!Machines

LEMMA FreshRecord ==
    \E m \in M!Machines : /\ m = M!Record(TRUE, {}, {})
                           /\ m.agents = {} /\ m.running = {}
<1>1. {} \in SUBSET Ids /\ TRUE \in BOOLEAN
  OBVIOUS
<1>2. /\ M!Record(TRUE, {}, {}) \in M!Machines
      /\ M!Record(TRUE, {}, {}).agents = {} /\ M!Record(TRUE, {}, {}).running = {}
  BY <1>1, RecordFields, Zenon
<1> QED  BY <1>2, Zenon

LEMMA WrittenTwice ==
    ASSUME NEW m \in M!Machines, NEW op, NEW a \in SUBSET Ids, NEW n \in M!Machines,
           M!Written(op, m, a) = n
    PROVE  M!Written(op, n, a) = n
<1>1. /\ M!Written(op, n, a) \in M!Machines /\ M!Written(op, n, a).online = n.online
      /\ M!Written(op, n, a).agents = n.agents /\ M!Written(op, n, a).running = n.running
  <2>1. CASE op = "install"
    <3>1. n.agents = m.agents \cup a /\ n.running = m.running \cup a
      BY <2>1, WrittenFields
    <3>2. /\ M!Written(op, n, a) \in M!Machines /\ M!Written(op, n, a).online = n.online
          /\ M!Written(op, n, a).agents = n.agents \cup a
          /\ M!Written(op, n, a).running = n.running \cup a
      BY <2>1, WrittenFields
    <3> QED  BY <3>1, <3>2
  <2>2. CASE op # "install"
    <3>1. n.agents = m.agents \ a /\ n.running = m.running \ a
      BY <2>2, WrittenFields
    <3>2. /\ M!Written(op, n, a) \in M!Machines /\ M!Written(op, n, a).online = n.online
          /\ M!Written(op, n, a).agents = n.agents \ a
          /\ M!Written(op, n, a).running = n.running \ a
      BY <2>2, WrittenFields
    <3> QED  BY <3>1, <3>2
  <2> QED  BY <2>1, <2>2
<1> QED  BY <1>1, MachineEqual

\* Store.Upsert of a record whose list is empty only where the stored one is.
LEMMA UpsertFields ==
    ASSUME NEW m \in M!Machines, reg \in M!Machines, m.running \subseteq m.agents,
           reg.running \subseteq reg.agents
    PROVE  /\ M!Upsert(m) \in M!Machines /\ M!Upsert(m).online = m.online
           /\ M!Upsert(m).running \subseteq M!Upsert(m).agents
           /\ (m.agents = {} => reg.agents = {}) => M!Upsert(m) = m
           /\ m.agents = {} => M!Upsert(m).agents = reg.agents
<1>1. CASE m.agents # {}
  BY <1>1 DEF M!Upsert
<1>2. CASE m.agents = {}
  <2>1. /\ M!Upsert(m) \in M!Machines /\ M!Upsert(m).online = m.online
        /\ M!Upsert(m).running = reg.running /\ M!Upsert(m).agents = reg.agents
    BY <1>2 DEF M!Upsert, M!Machines
  <2>2. reg.agents = {} => M!Upsert(m) = m
    BY <1>2, <2>1, MachineEqual
  <2> QED  BY <1>2, <2>1, <2>2
<1> QED  BY <1>1, <1>2

LEMMA ActualFields ==
    ASSUME agents \subseteq Ids, running \subseteq agents
    PROVE  /\ M!Actual \in M!Machines /\ M!Actual.online = TRUE
           /\ M!Actual.agents = agents /\ M!Actual.running = running
<1>1. running \in SUBSET Ids
  OBVIOUS
<1> QED  BY <1>1, RecordFields DEF M!Actual

\* Where a record leads depends on the frames before, and on the stored one.
LEMMA SamePrefix ==
    ASSUME NEW i \in Int, NEW r, \A j \in 1..(i - 1) : wire'[j] = wire[j],
           reg' = reg, M!LeadsTo(i, r)
    PROVE  M!LeadsTo(i, r)'
<1>1. CASE r = reg /\ \A j \in 1..(i - 1) : wire[j].kind # "snapshot"
  BY <1>1 DEF M!LeadsTo
<1>2. ASSUME NEW j \in 1..(i - 1), wire[j].kind = "snapshot",
             r = M!Record(TRUE, wire[j].agents, wire[j].running),
             \A n \in (j + 1)..(i - 1) : wire[n].kind # "snapshot"
      PROVE  M!LeadsTo(i, r)'
  <2>1. \A n \in (j + 1)..(i - 1) : wire'[n].kind # "snapshot"
    BY <1>2
  <2> QED  BY <1>2, <2>1 DEF M!LeadsTo, M!Record
<1> QED  BY <1>1, <1>2 DEF M!LeadsTo

\* When the first frame has been read, and the record is what it makes of it.
LEMMA AfterFirst ==
    ASSUME NEW n \in Nat, NEW i \in 1..n, NEW r, Len(wire) = n, wire \in Seq(M!Frames),
           wire # <<>>, wire' = Tail(wire), M!LeadsTo(i + 1, r),
           IF wire[1].kind = "snapshot"
           THEN reg' = M!Record(TRUE, wire[1].agents, wire[1].running)
           ELSE reg' = reg
    PROVE  M!LeadsTo(i, r)'
<1>1. \A j \in 1..(i - 1) : wire'[j] = wire[j + 1]
  BY HeadTailProperties
<1>2. CASE r = reg /\ \A j \in 1..i : wire[j].kind # "snapshot"
  <2>1. reg' = reg
    <3>1. 1 \in 1..i
      OBVIOUS
    <3> QED  BY <1>2, <3>1
  <2>2. \A j \in 1..(i - 1) : j + 1 \in 1..i /\ wire'[j].kind # "snapshot"
    BY <1>1, <1>2
  <2> QED  BY <1>2, <2>1, <2>2 DEF M!LeadsTo
<1>3. ASSUME NEW j \in 1..i, wire[j].kind = "snapshot",
             r = M!Record(TRUE, wire[j].agents, wire[j].running),
             \A m \in (j + 1)..i : wire[m].kind # "snapshot"
      PROVE  M!LeadsTo(i, r)'
  <2>1. CASE j = 1
    <3>1. reg' = r
      BY <1>3, <2>1
    <3>2. \A m \in 1..(i - 1) : m + 1 \in 2..i /\ wire'[m].kind # "snapshot"
      BY <1>1, <1>3, <2>1
    <3> QED  BY <3>1, <3>2 DEF M!LeadsTo
  <2>2. CASE j # 1
    <3>1. PICK h \in 1..(i - 1) : j = h + 1
      BY <2>2
    <3>2. wire'[h].kind = "snapshot" /\ r = M!Record(TRUE, wire'[h].agents, wire'[h].running)
      BY <1>1, <1>3, <3>1
    <3>3. \A m \in (h + 1)..(i - 1) : m + 1 \in (j + 1)..i /\ wire'[m].kind # "snapshot"
      BY <1>1, <1>3, <3>1
    <3> QED  BY <3>1, <3>2, <3>3 DEF M!LeadsTo, M!Record
  <2> QED  BY <2>1, <2>2
<1>4. (i + 1) - 1 = i
  OBVIOUS
<1> QED  BY <1>2, <1>3, <1>4 DEF M!LeadsTo

\* What the invariant says of types.
LEMMA MachineFacts ==
    ASSUME M!MachineInv
    PROVE  /\ agents \subseteq Ids /\ running \subseteq agents
           /\ live \in BOOLEAN /\ owner \in BOOLEAN /\ astray \in BOOLEAN
           /\ reg \in M!Machines /\ reg.running \subseteq reg.agents /\ reg.agents \subseteq Ids
           /\ commands \in Seq(M!Commands) /\ wire \in Seq(M!Frames)
           /\ req \in [Callers -> M!Requests] /\ requests \in 0..MaxRequests
           /\ Len(wire) \in Nat /\ DOMAIN wire = 1..Len(wire)
           /\ \A i \in DOMAIN wire : wire[i] \in M!Frames
           /\ M!Actual \in M!Machines /\ M!Actual.online = TRUE
           /\ M!Actual.agents = agents /\ M!Actual.running = running
<1>1. /\ agents \subseteq Ids /\ running \subseteq agents
      /\ live \in BOOLEAN /\ owner \in BOOLEAN /\ astray \in BOOLEAN
      /\ reg \in M!Machines /\ reg.running \subseteq reg.agents /\ reg.agents \subseteq Ids
      /\ commands \in Seq(M!Commands) /\ wire \in Seq(M!Frames)
      /\ req \in [Callers -> M!Requests] /\ requests \in 0..MaxRequests
  BY DEF M!MachineInv, M!MachineShapes, M!MachineTypeOK
<1>2. Len(wire) \in Nat /\ DOMAIN wire = 1..Len(wire) /\ \A i \in DOMAIN wire : wire[i] \in M!Frames
  BY <1>1
<1> QED  BY <1>1, <1>2, ActualFields

LEMMA MachineInit == M!Init => M!MachineInv
<1> SUFFICES ASSUME M!Init PROVE M!MachineInv
  OBVIOUS
<1>1. /\ agents \subseteq Ids /\ running = agents /\ live = FALSE /\ commands = <<>>
      /\ wire = <<>> /\ owner = FALSE /\ requests = 0 /\ astray = FALSE
      /\ req = [k \in Callers |-> M!Idle] /\ \A k \in Callers : req[k].pc = "idle"
      /\ reg = M!Record(FALSE, {}, {})
  BY DEF M!Init, M!Idle
<1>2. reg \in M!Machines /\ reg.online = FALSE /\ reg.agents = {} /\ reg.running = {}
  BY <1>1 DEF M!Record, M!Machines
<1>3. /\ wire \in Seq(M!Frames) /\ commands \in Seq(M!Commands) /\ DOMAIN wire = {}
      /\ DOMAIN commands = {}
  BY <1>1
<1>4. requests \in 0..MaxRequests
  BY <1>1, GatewayStoresAssumption
<1>5. req \in [Callers -> M!Requests]
  BY <1>1, NewRequests
<1>6. M!MachineShapes
  BY <1>1, <1>2, <1>3, <1>4, <1>5 DEF M!MachineShapes, M!MachineTypeOK
<1>7. M!IdsGiven /\ M!Registers
  BY <1>1, <1>3 DEF M!IdsGiven, M!Registers
<1>8. M!OnCourse
  BY <1>1, <1>2, <1>3 DEF M!OnCourse, M!Follows, M!Handled, M!EmptyFindsEmpty,
     M!Offline, M!TrueFrom
<1> QED  BY <1>6, <1>7, <1>8 DEF M!MachineInv

\* The frames carry ids that were given.
LEMMA FrameIds ==
    ASSUME M!MachineInv
    PROVE  \A i \in DOMAIN wire :
              wire[i].kind \in {"answer", "rejected"} => wire[i].id \in Nat /\ wire[i].id <= requests
<1>1. \A i \in DOMAIN wire : wire[i] \in M!Frames
  BY MachineFacts
<1>2. \A i \in DOMAIN wire : wire[i].kind \in {"answer", "rejected"} => wire[i].id \in 1..MaxRequests
  BY <1>1, FrameFields
<1> QED  BY <1>2, GatewayStoresAssumption DEF M!MachineInv, M!IdsGiven

LEMMA CommandIds ==
    ASSUME M!MachineInv
    PROVE  \A i \in DOMAIN commands : /\ commands[i] \in M!Commands
                                      /\ commands[i].id \in Nat /\ commands[i].id <= requests
<1>1. \A i \in DOMAIN commands : commands[i] \in M!Commands
  BY MachineFacts
<1> QED  BY <1>1, GatewayStoresAssumption DEF M!MachineInv, M!IdsGiven, M!Commands

\* What does not depend on the requests.
LEMMA Unmoved ==
    ASSUME UNCHANGED <<agents, running, wire, reg>>
    PROVE  /\ M!Actual' = M!Actual
           /\ \A i : M!TrueFrom(i)' <=> M!TrueFrom(i)
           /\ \A i, r : M!LeadsTo(i, r)' <=> M!LeadsTo(i, r)
           /\ M!EmptyFindsEmpty' <=> M!EmptyFindsEmpty
  BY DEF M!Actual, M!Record, M!TrueFrom, M!LeadsTo, M!EmptyFindsEmpty

\* What Handled asks of the next state.
LEMMA HandledNext ==
    ASSUME NEW k \in Callers,
           req'[k].pc = "waiting" =>
              \A i \in DOMAIN wire' : wire'[i].kind = "answer" /\ wire'[i].id = req'[k].id =>
                  /\ M!TrueFrom(i)'
                  /\ wire'[i].op \in {"install", "delete"} =>
                       \E r \in M!Machines : M!LeadsTo(i, r)'
                          /\ M!Written(wire'[i].op, r, wire'[i].agent) = M!Actual',
           req'[k].pc \in {"answered", "read"} => M!TrueFrom(1)',
           req'[k].pc = "answered" => M!Written(req'[k].op, reg', req'[k].agent) = M!Actual',
           req'[k].pc = "read" =>
              M!Written(req'[k].op, req'[k].machine, req'[k].agent) = M!Actual'
    PROVE  M!Handled(k)'
  BY DEF M!Handled, M!Written, M!With, M!Without

LEMMA SameHandled ==
    ASSUME NEW k \in Callers, UNCHANGED <<agents, running, wire, reg>>, req'[k] = req[k],
           M!Handled(k)
    PROVE  M!Handled(k)'
<1>1. ASSUME NEW i \in DOMAIN wire, req[k].pc = "waiting", wire[i].kind = "answer",
             wire[i].id = req[k].id
      PROVE  /\ M!TrueFrom(i)'
             /\ wire[i].op \in {"install", "delete"} =>
                  \E r \in M!Machines :
                     M!LeadsTo(i, r)' /\ M!Written(wire[i].op, r, wire[i].agent) = M!Actual'
  BY <1>1, Unmoved DEF M!Handled
<1>2. req[k].pc \in {"answered", "read"} => M!TrueFrom(1)'
  BY Unmoved DEF M!Handled
<1>3. /\ req[k].pc = "answered" => M!Written(req[k].op, reg, req[k].agent) = M!Actual'
      /\ req[k].pc = "read" => M!Written(req[k].op, req[k].machine, req[k].agent) = M!Actual'
  BY Unmoved DEF M!Handled
<1>4. wire' = wire /\ reg' = reg /\ req'[k] = req[k]
  OBVIOUS
<1> QED  BY <1>1, <1>2, <1>3, <1>4, HandledNext

\* A step of a caller that leaves the agents, the frames and the record alone.
LEMMA QuietRequest ==
    ASSUME M!MachineInv, UNCHANGED <<agents, running, wire, owner, reg, astray>>,
           live' \in BOOLEAN, live' => live, ~owner => live' = live,
           requests' \in 0..MaxRequests, requests' >= requests,
           req' \in [Callers -> M!Requests],
           commands' \in Seq(M!Commands), commands' # <<>> => owner /\ live',
           \A i \in DOMAIN commands' : commands'[i].id <= requests',
           \A k \in Callers :
              \/ req'[k] = req[k]
              \/ req'[k].pc = "idle"
              \/ req'[k].pc = "waiting" /\ req'[k].id > requests /\ owner
              \/ /\ req[k].pc = "answered" /\ req'[k].pc = "read"
                 /\ req'[k].op = req[k].op /\ req'[k].agent = req[k].agent
                 /\ req'[k].machine = reg
    PROVE  M!MachineInv'
<1>1. M!MachineShapes'
  <2>1. \A k \in Callers : req'[k].pc \in {"idle", "waiting", "answered", "read"}
    BY RequestFields
  <2>2. \A k \in Callers : req'[k].pc = "read" =>
            req'[k].machine.running \subseteq req'[k].machine.agents
    BY MachineFacts DEF M!MachineInv, M!MachineShapes
  <2> QED  BY <2>1, <2>2, MachineFacts DEF M!MachineInv, M!MachineShapes, M!MachineTypeOK
<1>2. M!IdsGiven'
  <2>1. requests \in Nat /\ requests' \in Nat
    BY MachineFacts
  <2> QED  BY <2>1, FrameIds DEF M!IdsGiven
<1>3. M!Registers'
  BY DEF M!MachineInv, M!Registers
<1>4. ASSUME M!OnCourse PROVE M!OnCourse'
  <2>2. M!Follows' /\ M!EmptyFindsEmpty'
    BY <1>4, Unmoved DEF M!OnCourse, M!Follows
  <2>3. M!Offline'
    BY <1>4 DEF M!OnCourse, M!Offline
  <2>4. ASSUME NEW k \in Callers PROVE M!Handled(k)'
    <3>1. M!Handled(k)
      BY <1>4 DEF M!OnCourse
    <3>2. CASE req'[k] = req[k]
      BY <3>1, <3>2, SameHandled
    <3>3. CASE req'[k].pc = "idle"
      BY <3>3 DEF M!Handled
    <3>4. CASE req'[k].pc = "waiting" /\ req'[k].id > requests
      <4>1. \A i \in DOMAIN wire : wire[i].kind = "answer" => wire[i].id # req'[k].id
        <5>1. req'[k].id \in Nat /\ requests \in Nat
          BY <3>4, MachineFacts, RequestFields
        <5> QED  BY <3>4, <5>1, FrameIds
      <4> QED  BY <3>4, <4>1 DEF M!Handled
    <3>5. CASE /\ req[k].pc = "answered" /\ req'[k].pc = "read"
               /\ req'[k].op = req[k].op /\ req'[k].agent = req[k].agent
               /\ req'[k].machine = reg
      BY <3>1, <3>5, Unmoved DEF M!Handled, M!Written, M!With, M!Without
    <3> QED  BY <3>2, <3>3, <3>4, <3>5
  <2> QED  BY <2>2, <2>3, <2>4 DEF M!OnCourse
<1> QED  BY <1>1, <1>2, <1>3, <1>4 DEF M!MachineInv

LEMMA BreakStep ==
    ASSUME M!MachineInv, M!Break
    PROVE  M!MachineInv'
<1> USE MachineFacts DEF M!Break
<1>1. M!MachineShapes' /\ M!IdsGiven'
  <2>1. commands' \in Seq(M!Commands) /\ DOMAIN commands' = {}
    OBVIOUS
  <2> QED  BY <2>1 DEF M!MachineInv, M!MachineShapes, M!MachineTypeOK, M!IdsGiven
<1>2. M!Registers'
  BY DEF M!MachineInv, M!Registers
<1>3. ASSUME M!OnCourse PROVE M!OnCourse'
  <2>1. ASSUME NEW k \in Callers PROVE M!Handled(k)'
    BY <1>3, SameHandled DEF M!OnCourse
  <2> QED  BY <1>3, <2>1, Unmoved DEF M!OnCourse, M!Follows, M!Offline
<1> QED  BY <1>1, <1>2, <1>3 DEF M!MachineInv

LEMMA ConnectStep ==
    ASSUME M!MachineInv, M!Connect
    PROVE  M!MachineInv'
<1>1. /\ ~live /\ ~owner /\ wire = <<>> /\ live' = TRUE
      /\ wire' = <<[kind |-> "register"], M!Snapshot(agents, running)>>
      /\ UNCHANGED <<agents, running, commands, owner, reg, req, requests, astray>>
  BY DEF M!Connect
<1>2. /\ Len(wire') = 2 /\ DOMAIN wire' = {1, 2} /\ wire'[1].kind = "register"
      /\ wire'[2].kind = "snapshot" /\ wire'[2].agents = agents /\ wire'[2].running = running
  BY <1>1 DEF M!Snapshot
<1>3. M!MachineShapes'
  <2>1. [kind |-> "register"] \in M!Frames /\ M!Snapshot(agents, running) \in M!Frames
    BY MachineFacts DEF M!Frames, M!Snapshot
  <2>2. wire' \in Seq(M!Frames)
    BY <1>1, <2>1
  <2> QED  BY <1>1, <1>2, <2>2, MachineFacts DEF M!MachineInv, M!MachineShapes, M!MachineTypeOK
<1>4. M!IdsGiven' /\ M!Registers'
  BY <1>1, <1>2, MachineFacts DEF M!MachineInv, M!IdsGiven, M!Registers
<1>5. ASSUME M!OnCourse PROVE M!OnCourse'
  <2>1. \A k \in Callers : req[k].pc = "idle"
    BY <1>1, <1>5 DEF M!OnCourse, M!Offline
  <2>2. M!Follows'
    <3>1. /\ 2 \in 1..(3 - 1) /\ \A n \in (2 + 1)..(3 - 1) : wire'[n].kind # "snapshot"
          /\ Len(wire') + 1 = 3
      BY <1>2
    <3>2. M!Actual' = M!Record(TRUE, wire'[2].agents, wire'[2].running)
      BY <1>1, <1>2 DEF M!Actual, M!Record
    <3> QED  BY <1>2, <3>1, <3>2 DEF M!Follows, M!LeadsTo, M!Record
  <2>3. (\A k \in Callers : M!Handled(k)') /\ M!Offline'
    BY <1>1, <1>5, <2>1 DEF M!OnCourse, M!Offline, M!Handled
  <2>4. M!EmptyFindsEmpty'
    BY <1>1, <1>2, <1>5 DEF M!OnCourse, M!EmptyFindsEmpty, M!TrueFrom
  <2> QED  BY <2>2, <2>3, <2>4 DEF M!OnCourse
<1> QED  BY <1>1, <1>3, <1>4, <1>5 DEF M!MachineInv

LEMMA DisconnectStep ==
    ASSUME M!MachineInv, M!Disconnect
    PROVE  M!MachineInv'
<1>1. /\ owner /\ ~live /\ owner' = FALSE /\ wire' = <<>>
      /\ reg' = M!Record(FALSE, reg.agents, {})
      /\ req' = [k \in Callers |-> IF req[k].pc = "waiting" THEN M!Idle ELSE req[k]]
      /\ astray' = (astray \/ \E k \in Callers : req[k].pc \in {"answered", "read"})
      /\ UNCHANGED <<agents, running, live, commands, requests>>
  BY DEF M!Disconnect
<1>2. /\ reg' \in M!Machines /\ reg'.online = FALSE /\ reg'.agents = reg.agents
      /\ reg'.running = {} /\ wire' \in Seq(M!Frames) /\ DOMAIN wire' = {}
  <2>1. FALSE \in BOOLEAN /\ reg.agents \in SUBSET Ids /\ {} \in SUBSET Ids
    BY MachineFacts
  <2>2. reg' \in M!Machines /\ reg'.online = FALSE /\ reg'.agents = reg.agents /\ reg'.running = {}
    BY <1>1, <2>1 DEF M!Record, M!Machines
  <2>3. wire' \in Seq(M!Frames) /\ DOMAIN wire' = {}
    BY <1>1
  <2> QED  BY <2>2, <2>3
<1>3. /\ req' \in [Callers -> M!Requests]
      /\ \A k \in Callers : req'[k].pc # "waiting" /\ req'[k].pc \in {"idle", "answered", "read"}
      /\ \A k \in Callers : req[k].pc # "waiting" => req'[k] = req[k]
      /\ \A k \in Callers : req[k].pc = "waiting" => req'[k].pc = "idle"
  BY <1>1, MachineFacts, NewRequests, RequestFields
<1>4. M!MachineShapes'
  BY <1>1, <1>2, <1>3, MachineFacts DEF M!MachineInv, M!MachineShapes, M!MachineTypeOK
<1>5. M!IdsGiven' /\ M!Registers'
  BY <1>1, <1>2, <1>3 DEF M!MachineInv, M!IdsGiven, M!Registers
<1>6. ASSUME M!OnCourse, ~astray' PROVE M!OnCourse'
  <2>1. \A k \in Callers : req'[k].pc = "idle"
    BY <1>1, <1>3, <1>6, MachineFacts, RequestFields
  <2> QED  BY <1>1, <1>2, <1>6, <2>1 DEF M!OnCourse, M!Follows, M!Handled, M!EmptyFindsEmpty,
              M!Offline, M!TrueFrom
<1>7. ~astray' => ~astray /\ astray' \in BOOLEAN
  BY <1>1, MachineFacts
<1> QED  BY <1>4, <1>5, <1>6, <1>7 DEF M!MachineInv

LEMMA SendStep ==
    ASSUME M!MachineInv, NEW k \in Callers, NEW op \in M!OpNames \X SUBSET Ids, M!Send(k, op)
    PROVE  M!MachineInv'
<1> DEFINE n == requests + 1
<1>1. /\ req[k].pc = "idle" /\ requests < MaxRequests /\ owner /\ requests' = n
      /\ req' = [req EXCEPT ![k] = [pc |-> "waiting", id |-> n]]
      /\ commands' = IF live THEN Append(commands, [id |-> n, op |-> op]) ELSE commands
      /\ UNCHANGED <<agents, running, live, wire, owner, reg, astray>>
  BY DEF M!Send
<1>2. n \in 1..MaxRequests /\ n > requests /\ requests \in Nat /\ n \in Nat
  BY <1>1, MachineFacts, GatewayStoresAssumption
<1> HIDE DEF n
<1>3. [pc |-> "waiting", id |-> n] \in M!Requests /\ [id |-> n, op |-> op] \in M!Commands
  BY <1>2, NewRequests DEF M!Commands
<1>4. req' \in [Callers -> M!Requests] /\ req'[k] = [pc |-> "waiting", id |-> n]
      /\ \A v \in Callers \ {k} : req'[v] = req[v]
  BY <1>1, <1>3, MachineFacts
<1>5. commands' \in Seq(M!Commands)
  BY <1>1, <1>3, MachineFacts
<1>6. \A i \in DOMAIN commands' : commands'[i].id <= n
  <2>1. \A i \in DOMAIN commands : commands[i].id \in Nat /\ commands[i].id <= requests
    BY CommandIds
  <2>2. CASE ~live
    BY <1>1, <1>2, <2>1, <2>2
  <2>3. CASE live
    <3>1. commands' = Append(commands, [id |-> n, op |-> op])
      BY <1>1, <2>3
    <3>2. \A i \in DOMAIN commands' : i = Len(commands) + 1 \/ i \in DOMAIN commands
      BY <3>1, MachineFacts
    <3>3. commands'[Len(commands) + 1].id = n
          /\ \A i \in DOMAIN commands : commands'[i] = commands[i]
      BY <3>1, MachineFacts
    <3> QED  BY <1>2, <2>1, <3>2, <3>3
  <2> QED  BY <2>2, <2>3
<1>7. commands' # <<>> => owner /\ live'
  BY <1>1 DEF M!MachineInv, M!Registers
<1>8. requests' \in 0..MaxRequests /\ requests' >= requests
  BY <1>1, <1>2
<1>9. \A v \in Callers : req'[v] = req[v] \/ (req'[v].pc = "waiting" /\ req'[v].id > requests /\ owner)
  BY <1>1, <1>2, <1>4
<1> QED  BY <1>1, <1>4, <1>5, <1>6, <1>7, <1>8, <1>9, MachineFacts, QuietRequest

LEMMA ExpireStep ==
    ASSUME M!MachineInv, NEW k \in Callers, M!Expire(k)
    PROVE  M!MachineInv'
<1>1. /\ req' = [req EXCEPT ![k] = M!Idle]
      /\ UNCHANGED <<agents, running, live, commands, wire, owner, reg, requests, astray>>
  BY DEF M!Expire
<1>2. req' \in [Callers -> M!Requests]
      /\ \A v \in Callers : req'[v] = req[v] \/ req'[v].pc = "idle"
  BY <1>1, NewRequests, MachineFacts
<1>3. /\ \A i \in DOMAIN commands' : commands'[i].id <= requests'
      /\ commands' # <<>> => owner /\ live'
  BY <1>1 DEF M!MachineInv, M!IdsGiven, M!Registers
<1>4. requests' >= requests
  BY <1>1, MachineFacts
<1> QED  BY <1>1, <1>2, <1>3, <1>4, MachineFacts, QuietRequest

LEMMA GetMachineStep ==
    ASSUME M!MachineInv, NEW k \in Callers, M!GetMachine(k)
    PROVE  M!MachineInv'
<1>1. /\ req[k].pc = "answered"
      /\ req' = [req EXCEPT ![k] = [pc |-> "read", op |-> req[k].op, agent |-> req[k].agent,
                                    machine |-> reg]]
      /\ UNCHANGED <<agents, running, live, commands, wire, owner, reg, requests, astray>>
  BY MachineFacts DEF M!GetMachine
<1>2. [pc |-> "read", op |-> req[k].op, agent |-> req[k].agent, machine |-> reg] \in M!Requests
  BY <1>1, NewRequests, RequestFields, MachineFacts
<1>3. req' \in [Callers -> M!Requests]
      /\ req'[k] = [pc |-> "read", op |-> req[k].op, agent |-> req[k].agent, machine |-> reg]
      /\ \A v \in Callers \ {k} : req'[v] = req[v]
  BY <1>1, <1>2, MachineFacts
<1>4. /\ \A i \in DOMAIN commands' : commands'[i].id <= requests'
      /\ commands' # <<>> => owner /\ live'
  BY <1>1 DEF M!MachineInv, M!IdsGiven, M!Registers
<1>5. requests' >= requests
  BY <1>1, MachineFacts
<1>6. \A v \in Callers : \/ req'[v] = req[v]
                         \/ /\ req[v].pc = "answered" /\ req'[v].pc = "read"
                            /\ req'[v].op = req[v].op /\ req'[v].agent = req[v].agent
                            /\ req'[v].machine = reg
  BY <1>1, <1>3
<1> QED  BY <1>1, <1>3, <1>4, <1>5, <1>6, MachineFacts, QuietRequest

LEMMA UpsertMachineStep ==
    ASSUME M!MachineInv, NEW k \in Callers, M!UpsertMachine(k)
    PROVE  M!MachineInv'
<1> DEFINE new == M!Written(req[k].op, req[k].machine, req[k].agent)
<1>1. /\ req[k].pc = "read" /\ reg' = M!Upsert(new)
      /\ req' = [req EXCEPT ![k] = M!Idle]
      /\ UNCHANGED <<agents, running, live, commands, wire, owner, requests, astray>>
  BY DEF M!UpsertMachine, M!Written
<1>2. /\ req[k].machine \in M!Machines /\ req[k].agent \in SUBSET Ids
      /\ req[k].machine.running \subseteq req[k].machine.agents
  BY <1>1, MachineFacts, RequestFields DEF M!MachineInv, M!MachineShapes
<1>3. new \in M!Machines /\ new.running \subseteq new.agents
  <2>1. CASE req[k].op = "install"
    <3>1. /\ new \in M!Machines /\ new.agents = req[k].machine.agents \cup req[k].agent
          /\ new.running = req[k].machine.running \cup req[k].agent
      BY <1>2, <2>1, WrittenFields
    <3> QED  BY <1>2, <3>1
  <2>2. CASE req[k].op # "install"
    <3>1. /\ new \in M!Machines /\ new.agents = req[k].machine.agents \ req[k].agent
          /\ new.running = req[k].machine.running \ req[k].agent
      BY <1>2, <2>2, WrittenFields
    <3> QED  BY <1>2, <3>1
  <2> QED  BY <2>1, <2>2
<1> HIDE DEF new
<1>4. /\ reg' \in M!Machines /\ reg'.running \subseteq reg'.agents
      /\ (new.agents = {} => reg.agents = {}) => reg' = new
  BY <1>1, <1>3, MachineFacts, UpsertFields
<1>5. /\ req' \in [Callers -> M!Requests] /\ req'[k].pc = "idle"
      /\ \A v \in Callers \ {k} : req'[v] = req[v]
  BY <1>1, NewRequests, MachineFacts
<1>6. M!MachineShapes'
  <2>1. \A v \in Callers : req'[v].pc \in {"idle", "waiting", "answered", "read"}
    BY <1>5, RequestFields
  <2>2. reg'.online \in BOOLEAN /\ reg'.agents \subseteq Ids
    BY <1>4 DEF M!Machines
  <2>3. \A v \in Callers : req'[v].pc = "read" =>
            req'[v].machine.running \subseteq req'[v].machine.agents
    BY <1>5 DEF M!MachineInv, M!MachineShapes
  <2> QED  BY <1>1, <1>4, <1>5, <2>1, <2>2, <2>3, MachineFacts
           DEF M!MachineInv, M!MachineShapes, M!MachineTypeOK
<1>7. M!IdsGiven' /\ M!Registers'
  BY <1>1, <1>5 DEF M!MachineInv, M!IdsGiven, M!Registers
<1>8. ASSUME M!OnCourse PROVE M!OnCourse'
  <2>1. M!Handled(k) /\ M!EmptyFindsEmpty /\ M!Follows /\ M!Offline /\ \A v \in Callers : M!Handled(v)
    BY <1>8 DEF M!OnCourse
  <2>2. new = M!Actual /\ M!TrueFrom(1)
    BY <1>1, <2>1 DEF M!Handled, new
  <2>3. reg' = M!Actual /\ M!Actual' = M!Actual /\ reg'.agents = agents
    BY <1>1, <1>4, <2>1, <2>2, MachineFacts DEF M!EmptyFindsEmpty, M!Actual, M!Record
  <2>4. ASSUME NEW i, NEW r, M!LeadsTo(i, r)
        PROVE  \/ M!LeadsTo(i, r)'
               \/ r = reg /\ M!LeadsTo(i, M!Actual)'
    BY <1>1, <2>3, <2>4 DEF M!LeadsTo, M!Record
  <2>5. \A i : M!TrueFrom(i)' <=> M!TrueFrom(i)
    BY <1>1 DEF M!TrueFrom
  <2>6. M!Follows'
    <3>1. CASE ~live
      BY <1>1, <3>1 DEF M!Follows
    <3>2. CASE \A j \in 1..((Len(wire) + 1) - 1) : wire[j].kind # "snapshot"
      BY <1>1, <2>3, <3>2 DEF M!Follows, M!LeadsTo
    <3>3. CASE \E j \in 1..((Len(wire) + 1) - 1) :
                  /\ wire[j].kind = "snapshot"
                  /\ M!Actual = M!Record(TRUE, wire[j].agents, wire[j].running)
                  /\ \A n \in (j + 1)..((Len(wire) + 1) - 1) : wire[n].kind # "snapshot"
      BY <1>1, <2>3, <3>3 DEF M!Follows, M!LeadsTo, M!Record
    <3> QED  BY <2>1, <3>1, <3>2, <3>3 DEF M!Follows, M!LeadsTo
  <2>7. ASSUME NEW v \in Callers PROVE M!Handled(v)'
    <3>1. CASE v = k
      BY <1>5, <3>1 DEF M!Handled
    <3>2. CASE v # k
      <4>1. req'[v] = req[v] /\ M!Handled(v)
        BY <1>5, <2>1, <3>2
      <4>2. ASSUME NEW i \in DOMAIN wire, req[v].pc = "waiting", wire[i].kind = "answer",
                   wire[i].id = req[v].id
            PROVE  /\ M!TrueFrom(i)'
                   /\ wire[i].op \in {"install", "delete"} =>
                        \E r \in M!Machines :
                           M!LeadsTo(i, r)' /\ M!Written(wire[i].op, r, wire[i].agent) = M!Actual'
        <5>1. M!TrueFrom(i)'
          BY <2>5, <4>1, <4>2 DEF M!Handled
        <5>2. ASSUME wire[i].op \in {"install", "delete"}
              PROVE  \E r \in M!Machines :
                        M!LeadsTo(i, r)' /\ M!Written(wire[i].op, r, wire[i].agent) = M!Actual
          <6>1. PICK r \in M!Machines :
                   M!LeadsTo(i, r) /\ M!Written(wire[i].op, r, wire[i].agent) = M!Actual
            BY <4>1, <4>2, <5>2 DEF M!Handled
          <6>2. wire[i].agent \in SUBSET Ids
            BY <4>2, MachineFacts, FrameFields
          <6>3. M!Written(wire[i].op, M!Actual, wire[i].agent) = M!Actual
            BY <6>1, <6>2, MachineFacts, WrittenTwice
          <6>4. PICK a \in M!Machines : a = M!Actual
            BY MachineFacts
          <6>5. M!LeadsTo(i, r)' \/ M!LeadsTo(i, a)'
            BY <2>3, <2>4, <6>1, <6>4 DEF M!LeadsTo, M!Record
          <6> QED  BY <6>1, <6>3, <6>4, <6>5
        <5> QED  BY <2>3, <5>1, <5>2
      <4>3. req[v].pc \in {"answered", "read"} => M!TrueFrom(1)'
        BY <2>5, <4>1 DEF M!Handled
      <4>4. req[v].pc = "answered" => M!Written(req[v].op, reg', req[v].agent) = M!Actual'
        <5>1. ASSUME req[v].pc = "answered" PROVE M!Written(req[v].op, M!Actual, req[v].agent) = M!Actual
          <6>1. M!Written(req[v].op, reg, req[v].agent) = M!Actual /\ req[v].agent \in SUBSET Ids
            BY <4>1, <5>1, MachineFacts, RequestFields DEF M!Handled
          <6> QED  BY <6>1, MachineFacts, WrittenTwice
        <5> QED  BY <2>3, <5>1
      <4>5. req[v].pc = "read" => M!Written(req[v].op, req[v].machine, req[v].agent) = M!Actual'
        BY <2>3, <4>1 DEF M!Handled
      <4> QED  BY <1>1, <4>1, <4>2, <4>3, <4>4, <4>5, HandledNext
    <3> QED  BY <3>1, <3>2
  <2>8. M!EmptyFindsEmpty'
    BY <1>1, <2>1, <2>2, <2>3, <2>5, MachineFacts DEF M!EmptyFindsEmpty, M!TrueFrom
  <2>9. M!Offline'
    BY <1>1, <2>1 DEF M!Offline
  <2> QED  BY <2>6, <2>7, <2>8, <2>9 DEF M!OnCourse
<1> QED  BY <1>1, <1>6, <1>7, <1>8 DEF M!MachineInv

\* Frames appended by a step that leaves the record alone: what came before them
\* leads where it led.
LEMMA AppendKeeps ==
    ASSUME NEW n \in Nat, n = Len(wire), wire \in Seq(M!Frames), wire' \in Seq(M!Frames),
           Len(wire') >= n, \A i \in 1..n : wire'[i] = wire[i], reg' = reg
    PROVE  \A i \in 1..(n + 1) : \A r : M!LeadsTo(i, r) => M!LeadsTo(i, r)'
<1> SUFFICES ASSUME NEW i \in 1..(n + 1), NEW r, M!LeadsTo(i, r) PROVE M!LeadsTo(i, r)'
  OBVIOUS
<1>1. i \in Int /\ \A j \in 1..(i - 1) : wire'[j] = wire[j]
  OBVIOUS
<1> QED  BY <1>1, SamePrefix

\* A command that changed nothing, or that no handler was in the way of: its frames
\* are no snapshots, or show what is there.
LEMMA Appended ==
    ASSUME M!MachineInv, ~astray, NEW n \in Nat, n = Len(wire), wire' \in Seq(M!Frames), owner,
           Len(wire') >= n, \A i \in 1..n : wire'[i] = wire[i],
           UNCHANGED <<reg, req, owner>>,
           \/ UNCHANGED <<agents, running>>
           \/ agents' # {} /\ \A k \in Callers : ~M!Between(k),
           \A i \in (n + 1)..Len(wire') : wire'[i].kind = "snapshot" =>
               wire'[i].agents = agents' /\ wire'[i].running = running',
           \A k \in Callers, i \in (n + 1)..Len(wire') :
               wire'[i].kind = "answer" /\ wire'[i].id = req[k].id
                 /\ wire'[i].op \in {"install", "delete"} =>
                   \E r \in M!Machines : M!LeadsTo(i, r)'
                                        /\ M!Written(wire'[i].op, r, wire'[i].agent) = M!Actual',
           M!Follows'
    PROVE  M!OnCourse'
<1>1. M!OnCourse /\ DOMAIN wire = 1..n /\ DOMAIN wire' = 1..Len(wire') /\ Len(wire') \in Nat
      /\ DOMAIN wire' = (1..n) \cup ((n + 1)..Len(wire'))
  <2>1. DOMAIN wire' = 1..Len(wire') /\ Len(wire') \in Nat
    OBVIOUS
  <2> QED  BY <2>1, MachineFacts DEF M!MachineInv
<1>2. \A i \in (n + 1)..Len(wire') : M!TrueFrom(i)'
  BY <1>1 DEF M!TrueFrom
<1>3. ASSUME UNCHANGED <<agents, running>>, NEW i \in 1..(n + 1), M!TrueFrom(i)
      PROVE  M!TrueFrom(i)'
  BY <1>1, <1>3 DEF M!TrueFrom
<1>4. ASSUME NEW k \in Callers PROVE M!Handled(k)'
  <2>1. M!Handled(k)
    BY <1>1 DEF M!OnCourse
  <2>2. ASSUME M!Between(k) PROVE UNCHANGED <<agents, running>> /\ M!Actual' = M!Actual
    BY <2>2 DEF M!Actual, M!Record
  <2>3. ASSUME NEW i \in 1..Len(wire'), req[k].pc = "waiting", wire'[i].kind = "answer",
               wire'[i].id = req[k].id
        PROVE  /\ M!TrueFrom(i)'
               /\ wire'[i].op \in {"install", "delete"} =>
                    \E r \in M!Machines :
                       M!LeadsTo(i, r)' /\ M!Written(wire'[i].op, r, wire'[i].agent) = M!Actual'
    <3>1. CASE i \in (n + 1)..Len(wire')
      BY <1>2, <2>3, <3>1
    <3>2. CASE i \in 1..n
      <4>1. M!Between(k) /\ wire'[i] = wire[i]
        BY <1>1, <2>3, <3>2 DEF M!Between
      <4>2. M!TrueFrom(i)'
        BY <1>1, <1>3, <2>1, <2>2, <2>3, <3>2, <4>1 DEF M!Handled
      <4>3. ASSUME wire[i].op \in {"install", "delete"}
            PROVE  \E r \in M!Machines :
                     M!LeadsTo(i, r)' /\ M!Written(wire[i].op, r, wire[i].agent) = M!Actual'
        <5>1. PICK r \in M!Machines :
                 M!LeadsTo(i, r) /\ M!Written(wire[i].op, r, wire[i].agent) = M!Actual
          BY <1>1, <2>1, <2>3, <3>2, <4>1, <4>3 DEF M!Handled
        <5>2. M!LeadsTo(i, r)'
          BY <3>2, <5>1, AppendKeeps, MachineFacts
        <5> QED  BY <2>2, <4>1, <5>1, <5>2
      <4> QED  BY <4>1, <4>2, <4>3
    <3> QED  BY <1>1, <3>1, <3>2
  <2>4. ASSUME req[k].pc \in {"answered", "read"} PROVE M!TrueFrom(1)' /\ M!Actual' = M!Actual
    <3>1. M!Between(k) /\ 1 \in 1..(n + 1) /\ M!TrueFrom(1)
      BY <2>1, <2>4 DEF M!Between, M!Handled
    <3> QED  BY <1>3, <2>2, <3>1
  <2> QED  BY <1>1, <2>1, <2>3, <2>4, HandledNext DEF M!Handled
<1>5. M!EmptyFindsEmpty'
  <2>1. M!EmptyFindsEmpty
    BY <1>1 DEF M!OnCourse
  <2>2. ASSUME agents' = {} PROVE reg'.agents = {} /\ M!TrueFrom(1)'
    BY <1>3, <2>1, <2>2 DEF M!EmptyFindsEmpty
  <2>3. ASSUME NEW i \in 1..Len(wire'), wire'[i].kind = "snapshot", wire'[i].agents = {}
        PROVE  /\ reg'.agents = {}
               /\ \A j \in 1..i : wire'[j].kind = "snapshot" => wire'[j].agents = {}
    <3>1. CASE i \in 1..n
      BY <1>1, <2>1, <2>3, <3>1 DEF M!EmptyFindsEmpty
    <3>2. CASE i \in (n + 1)..Len(wire')
      <4>1. agents' = {}
        BY <2>3, <3>2
      <4> QED  BY <1>1, <2>2, <4>1 DEF M!TrueFrom
    <3> QED  BY <1>1, <3>1, <3>2
  <2> QED  BY <1>1, <2>2, <2>3 DEF M!EmptyFindsEmpty
<1>6. M!Offline'
  BY DEF M!Offline
<1> QED  BY <1>4, <1>5, <1>6 DEF M!OnCourse

LEMMA OverNoSnapshot ==
    ASSUME NEW i \in Nat \ {0}, NEW r, wire'[i].kind # "snapshot", M!LeadsTo(i, r)'
    PROVE  M!LeadsTo(i + 1, r)'
<1>1. (i + 1) - 1 = i /\ 1..i = (1..(i - 1)) \cup {i}
  OBVIOUS
<1>2. CASE r = reg' /\ \A j \in 1..(i - 1) : wire'[j].kind # "snapshot"
  BY <1>1, <1>2 DEF M!LeadsTo
<1>3. ASSUME NEW j \in 1..(i - 1), wire'[j].kind = "snapshot",
             r = M!Record(TRUE, wire'[j].agents, wire'[j].running),
             \A n \in (j + 1)..(i - 1) : wire'[n].kind # "snapshot"
      PROVE  M!LeadsTo(i + 1, r)'
  <2>1. j \in 1..i /\ \A n \in (j + 1)..i : wire'[n].kind # "snapshot"
    BY <1>3
  <2> QED  BY <1>1, <1>3, <2>1 DEF M!LeadsTo, M!Record
<1> QED  BY <1>2, <1>3 DEF M!LeadsTo, M!Record

\* What a completed operation makes of the agents.
LEMMA CompletedFacts ==
    ASSUME M!MachineInv, NEW op \in M!OpNames \X SUBSET Ids, NEW as \in SUBSET Ids,
           NEW rs \in SUBSET Ids, NEW rep \in SUBSET Ids, M!Completed(op, as, rs, rep)
    PROVE  rs \subseteq as
<1>1. agents \subseteq Ids /\ running \subseteq agents
  BY MachineFacts
<1>2. CASE M!InstallAgent(op, as, rs, rep)
  BY <1>1, <1>2 DEF M!InstallAgent
<1>3. CASE M!DeleteAgent(op, as, rs, rep)
  BY <1>1, <1>3 DEF M!DeleteAgent
<1>4. CASE M!RestartAgent(op, as, rs, rep) \/ M!ReadOrWriteConfig(op, as, rs, rep)
           \/ M!StartAll(op, as, rs, rep) \/ M!StopAll(op, as, rs, rep)
  BY <1>1, <1>4 DEF M!RestartAgent, M!ReadOrWriteConfig, M!StartAll, M!StopAll
<1> QED  BY <1>2, <1>3, <1>4 DEF M!Completed

LEMMA FailedFacts ==
    ASSUME M!MachineInv, NEW op \in M!OpNames \X SUBSET Ids, NEW as \in SUBSET Ids,
           NEW rs \in SUBSET Ids, M!Failed(op, as, rs)
    PROVE  rs \subseteq as
  BY MachineFacts DEF M!Failed

\* The head of the commands, and what is left.
LEMMA HeadCommand ==
    ASSUME M!MachineInv, commands # <<>>
    PROVE  /\ owner
           /\ Head(commands) \in M!Commands
           /\ Head(commands).id \in 1..MaxRequests /\ Head(commands).id <= requests
           /\ Head(commands).op \in M!OpNames \X SUBSET Ids
           /\ Head(commands).op[1] \in M!OpNames
           /\ Tail(commands) \in Seq(M!Commands)
           /\ \A i \in DOMAIN Tail(commands) : Tail(commands)[i].id <= requests
<1>1. owner
  BY DEF M!MachineInv, M!Registers
<1>2. /\ Head(commands) = commands[1] /\ 1 \in DOMAIN commands
      /\ Tail(commands) \in Seq(M!Commands)
      /\ \A i \in DOMAIN Tail(commands) : i + 1 \in DOMAIN commands
                                          /\ Tail(commands)[i] = commands[i + 1]
  BY MachineFacts, HeadTailProperties
<1>3. Head(commands) \in M!Commands /\ Head(commands).id <= requests
      /\ \A i \in DOMAIN Tail(commands) : Tail(commands)[i].id <= requests
  BY <1>2, CommandIds
<1>4. /\ Head(commands).id \in 1..MaxRequests /\ Head(commands).op \in M!OpNames \X SUBSET Ids
  BY <1>3 DEF M!Commands
<1> QED  BY <1>1, <1>2, <1>3, <1>4

\* A command's step, whatever its frames: the parts of the invariant that do not
\* depend on astray.
LEMMA RunShapes ==
    ASSUME M!MachineInv, commands # <<>>, live' \in BOOLEAN, astray' \in BOOLEAN,
           NEW n \in Nat, n = Len(wire), wire' \in Seq(M!Frames),
           Len(wire') >= n, \A i \in 1..n : wire'[i] = wire[i],
           \A i \in (n + 1)..Len(wire') :
              /\ wire'[i].kind # "register"
              /\ wire'[i].kind \in {"answer", "rejected"} => wire'[i].id = Head(commands).id
              /\ wire'[i].kind = "snapshot" => wire'[i].running \subseteq wire'[i].agents,
           agents' \subseteq Ids, running' \subseteq agents',
           IF live' THEN commands' = Tail(commands) ELSE commands' \in {<<>>, Tail(commands)},
           ~live' => commands' = <<>>,
           UNCHANGED <<owner, reg, req, requests>>
    PROVE  M!MachineShapes' /\ M!IdsGiven' /\ M!Registers'
<1>1. /\ owner /\ commands' \in Seq(M!Commands)
      /\ \A i \in DOMAIN commands' : commands'[i].id <= requests
  <2>1. <<>> \in Seq(M!Commands) /\ DOMAIN <<>> = {}
    OBVIOUS
  <2> QED  BY <2>1, HeadCommand
<1>2. /\ DOMAIN wire = 1..n
      /\ \A i \in DOMAIN wire' : (i \in DOMAIN wire /\ wire'[i] = wire[i]) \/ i \in (n + 1)..Len(wire')
  <2>1. DOMAIN wire' = 1..Len(wire') /\ Len(wire') \in Nat
    OBVIOUS
  <2> QED  BY <2>1, MachineFacts
<1>3. M!MachineShapes'
  BY <1>1, <1>2, MachineFacts DEF M!MachineInv, M!MachineShapes, M!MachineTypeOK
<1>4. M!IdsGiven'
  BY <1>1, <1>2, HeadCommand DEF M!MachineInv, M!IdsGiven
<1>5. M!Registers'
  BY <1>1, <1>2 DEF M!MachineInv, M!Registers
<1> QED  BY <1>3, <1>4, <1>5

LEMMA RunFailsStep ==
    ASSUME M!MachineInv, M!RunFails
    PROVE  M!MachineInv'
<1> DEFINE m == Head(commands)
           f == [kind |-> "rejected", id |-> m.id]
<1>1. /\ live /\ commands # <<>> /\ commands' = Tail(commands) /\ wire' = Append(wire, f)
      /\ UNCHANGED <<live, owner, reg, req, requests>>
  BY DEF M!RunFails
<1>2. PICK as, rs \in SUBSET Ids : M!Failed(m.op, as, rs) /\ M!Leaves(as, rs, TRUE)
  BY DEF M!RunFails
<1>3. /\ agents' = as /\ running' = rs /\ astray' \in BOOLEAN
      /\ ~astray' => ~astray /\ as = agents /\ rs = running
  BY <1>2, MachineFacts DEF M!Leaves
<1>4. PICK n \in Nat : n = Len(wire)
  BY MachineFacts
<1>5. f \in M!Frames /\ f.kind = "rejected" /\ f.id = m.id
  BY <1>1, HeadCommand DEF M!Frames
<1> HIDE DEF f, m
<1>6. /\ wire' \in Seq(M!Frames) /\ Len(wire') = n + 1 /\ wire'[n + 1] = f
      /\ \A i \in 1..n : wire'[i] = wire[i]
  BY <1>1, <1>4, <1>5, MachineFacts
<1>7. \A i \in (n + 1)..Len(wire') : wire'[i] = f
  BY <1>6
<1>8. M!MachineShapes' /\ M!IdsGiven' /\ M!Registers'
  <2>1. rs \subseteq as
    BY <1>1, <1>2, HeadCommand, FailedFacts DEF m
  <2>2. agents' \subseteq Ids /\ running' \subseteq agents'
    BY <1>3, <2>1
  <2>3. \A i \in (n + 1)..Len(wire') :
           wire'[i].kind = "rejected" /\ wire'[i].id = Head(commands).id
    BY <1>5, <1>7 DEF m
  <2>4. live' \in BOOLEAN /\ live' /\ Len(wire') >= n
    BY <1>1, <1>6
  <2> QED  BY <1>1, <1>3, <1>4, <1>6, <2>2, <2>3, <2>4, RunShapes
<1>9. ASSUME ~astray' PROVE M!OnCourse'
  <2>1. M!OnCourse /\ UNCHANGED <<agents, running>> /\ owner
    BY <1>1, <1>3, <1>9, HeadCommand DEF M!MachineInv
  <2>2. PICK a : a = M!Actual
    OBVIOUS
  <2>3. a = M!Actual'
    BY <2>1, <2>2 DEF M!Actual, M!Record
  <2>4. M!LeadsTo(n + 1, a)
    BY <1>1, <1>4, <2>1, <2>2 DEF M!OnCourse, M!Follows
  <2>5. M!LeadsTo(n + 1, a)'
    BY <1>1, <1>4, <1>6, <2>4, AppendKeeps, MachineFacts
  <2>6. M!LeadsTo((n + 1) + 1, a)'
    BY <1>5, <1>6, <2>5, OverNoSnapshot
  <2>7. M!Follows'
    BY <1>6, <2>3, <2>6 DEF M!Follows
  <2> QED  BY <1>1, <1>3, <1>4, <1>5, <1>6, <1>7, <1>9, <2>1, <2>7, Appended
<1> QED  BY <1>8, <1>9 DEF M!MachineInv

LEMMA RunCompletesStep ==
    ASSUME M!MachineInv, M!RunCompletes
    PROVE  M!MachineInv'
<1> DEFINE m == Head(commands)
<1>1. /\ live /\ commands # <<>> /\ UNCHANGED <<owner, reg, req, requests>>
  BY DEF M!RunCompletes
<1>2. PICK as, rs, rep \in SUBSET Ids :
         LET answer == [kind |-> "answer", id |-> m.id, op |-> m.op[1], agent |-> rep] IN
          /\ M!Completed(m.op, as, rs, rep) /\ M!Leaves(as, rs, FALSE)
          /\ \/ /\ wire' = Append(wire, answer) \o
                             (IF m.op[1] = "config" THEN <<>> ELSE M!Says(as, rs))
                /\ commands' = Tail(commands) /\ UNCHANGED live
             \/ wire' = Append(wire, answer) /\ live' = FALSE /\ commands' = <<>>
  BY DEF M!RunCompletes
<1>3. PICK answer : answer = [kind |-> "answer", id |-> m.id, op |-> m.op[1], agent |-> rep]
  OBVIOUS
<1>4. PICK snap : snap = M!Snapshot(as, rs)
  OBVIOUS
<1>5. /\ m.id \in 1..MaxRequests /\ m.op \in M!OpNames \X SUBSET Ids /\ m.op[1] \in M!OpNames
      /\ owner
  BY <1>1, HeadCommand
<1>6. /\ answer \in M!Frames /\ answer.kind = "answer" /\ answer.id = m.id
      /\ answer.op = m.op[1] /\ answer.agent = rep
      /\ snap \in M!Frames /\ snap.kind = "snapshot" /\ snap.agents = as /\ snap.running = rs
  BY <1>3, <1>4, <1>5 DEF M!Frames, M!Snapshot
<1>7. /\ agents' = as /\ running' = rs /\ astray' \in BOOLEAN /\ rs \subseteq as
      /\ ~astray' => /\ ~astray
                     /\ \/ as = agents /\ rs = running
                        \/ as # {} /\ \A k \in Callers : ~M!Between(k)
  BY <1>2, <1>5, MachineFacts, CompletedFacts DEF M!Leaves
<1>13. PICK a \in M!Machines :
          /\ a = M!Actual
          /\ m.op[1] \in {"install", "delete"} => M!Written(m.op[1], a, rep) = M!Record(TRUE, as, rs)
          /\ m.op[1] = "config" => a = M!Record(TRUE, as, rs)
  <2>1. PICK a \in M!Machines : a = M!Actual
    BY MachineFacts
  <2>2. PICK o \in M!OpNames \X SUBSET Ids : o = m.op
    BY <1>5
  <2>3. M!Completed(o, as, rs, rep)
    BY <1>2, <2>2
  <2>4. /\ o[1] = "install" => as = a.agents \cup rep /\ rs = a.running \cup rep
        /\ o[1] = "delete" => as = a.agents \ rep /\ rs = a.running \ rep
        /\ o[1] = "config" => as = a.agents /\ rs = a.running
        /\ a.online = TRUE
    <3>1. a.online = TRUE /\ a.agents = agents /\ a.running = running
      BY <2>1, MachineFacts
    <3>2. CASE M!InstallAgent(o, as, rs, rep)
      BY <3>1, <3>2 DEF M!InstallAgent
    <3>3. CASE M!DeleteAgent(o, as, rs, rep)
      BY <3>1, <3>3 DEF M!DeleteAgent
    <3>4. CASE M!RestartAgent(o, as, rs, rep) \/ M!ReadOrWriteConfig(o, as, rs, rep)
               \/ M!StartAll(o, as, rs, rep) \/ M!StopAll(o, as, rs, rep)
      BY <3>1, <3>4 DEF M!RestartAgent, M!ReadOrWriteConfig, M!StartAll, M!StopAll
    <3> QED  BY <2>3, <3>2, <3>3, <3>4 DEF M!Completed
  <2>5. /\ o[1] = "install" => M!Written("install", a, rep) = M!Record(TRUE, as, rs)
        /\ o[1] = "delete" => M!Written("delete", a, rep) = M!Record(TRUE, as, rs)
        /\ o[1] = "config" => a = M!Record(TRUE, as, rs)
    BY <2>4 DEF M!Written, M!With, M!Without, M!Record, M!Machines
  <2> QED  BY <2>1, <2>2, <2>5
<1>8. PICK n \in Nat : n = Len(wire)
  BY MachineFacts
<1>9. /\ wire' \in Seq(M!Frames) /\ Len(wire') >= n + 1 /\ Len(wire') \in Nat
      /\ \A i \in 1..n : wire'[i] = wire[i]
      /\ wire'[n + 1] = answer
      /\ \/ live' = FALSE /\ commands' = <<>> /\ Len(wire') = n + 1
         \/ /\ m.op[1] = "config" /\ Len(wire') = n + 1
            /\ commands' = Tail(commands) /\ live' = live
         \/ /\ m.op[1] # "config" /\ Len(wire') = n + 2 /\ wire'[n + 2] = snap
            /\ commands' = Tail(commands) /\ live' = live
  <2> HIDE DEF m
  <2>1. CASE wire' = Append(wire, answer)
             /\ \/ live' = FALSE /\ commands' = <<>>
                \/ m.op[1] = "config" /\ commands' = Tail(commands) /\ live' = live
    <3>1. /\ wire' \in Seq(M!Frames) /\ Len(wire') = n + 1 /\ wire'[n + 1] = answer
          /\ \A i \in 1..n : wire'[i] = wire[i]
      BY <1>6, <1>8, <2>1, MachineFacts
    <3> QED  BY <2>1, <3>1
  <2>2. CASE /\ wire' = Append(wire, answer) \o <<snap>> /\ m.op[1] # "config"
             /\ commands' = Tail(commands) /\ live' = live
    <3>1. PICK w \in Seq(M!Frames) : /\ w = Append(wire, answer) /\ Len(w) = n + 1
                                     /\ w[n + 1] = answer /\ \A i \in 1..n : w[i] = wire[i]
      <4>1. /\ Append(wire, answer) \in Seq(M!Frames) /\ Len(Append(wire, answer)) = n + 1
            /\ Append(wire, answer)[n + 1] = answer
            /\ \A i \in 1..n : Append(wire, answer)[i] = wire[i]
        BY <1>6, <1>8, MachineFacts
      <4> QED  BY <4>1
    <3>2. wire' = Append(w, snap)
      BY <1>6, <2>2, <3>1, AppendIsConcat
    <3>3. /\ wire' \in Seq(M!Frames) /\ Len(wire') = n + 2 /\ wire'[n + 2] = snap
          /\ \A i \in 1..(n + 1) : wire'[i] = w[i]
      BY <1>6, <3>1, <3>2
    <3> QED  BY <2>2, <3>1, <3>3
  <2>3. Append(wire, answer) \o <<>> = Append(wire, answer)
    BY <1>6, MachineFacts
  <2> QED  BY <1>2, <1>3, <1>4, <2>1, <2>2, <2>3 DEF M!Says, m
<1>10. \A i \in (n + 1)..Len(wire') : wire'[i] = answer \/ wire'[i] = snap
  <2>1. \A i \in (n + 1)..Len(wire') : i = n + 1 \/ i = n + 2
    BY <1>9
  <2> QED  BY <1>9, <2>1
<1>11. M!MachineShapes' /\ M!IdsGiven' /\ M!Registers'
  <2>1. agents' \subseteq Ids /\ running' \subseteq agents'
    BY <1>7
  <2>2. \A i \in (n + 1)..Len(wire') :
           /\ wire'[i].kind # "register"
           /\ wire'[i].kind \in {"answer", "rejected"} => wire'[i].id = Head(commands).id
           /\ wire'[i].kind = "snapshot" => wire'[i].running \subseteq wire'[i].agents
    BY <1>6, <1>7, <1>10
  <2>3. /\ live' \in BOOLEAN /\ Len(wire') >= n /\ (~live' => commands' = <<>>)
        /\ IF live' THEN commands' = Tail(commands) ELSE commands' \in {<<>>, Tail(commands)}
    <3>1. live = TRUE /\ (live' = FALSE \/ live' = live)
      BY <1>1, <1>9, MachineFacts
    <3>2. live' = live => commands' = Tail(commands)
      BY <1>9, <3>1
    <3>3. live' = FALSE => commands' = <<>>
      BY <1>9, <3>1
    <3>4. Len(wire') >= n
      BY <1>9
    <3> QED  BY <3>1, <3>2, <3>3, <3>4
  <2> QED  BY <1>1, <1>7, <1>8, <1>9, <2>1, <2>2, <2>3, RunShapes
<1> HIDE DEF m
<1>12. ASSUME ~astray' PROVE M!OnCourse'
  <2>1. M!OnCourse /\ ~astray
    BY <1>7, <1>12 DEF M!MachineInv
  <2>3. PICK b \in M!Machines : b = M!Actual' /\ b = M!Record(TRUE, as, rs)
    <3>1. M!Record(TRUE, as, rs) \in M!Machines
      BY RecordFields
    <3> QED  BY <1>7, <3>1 DEF M!Actual, M!Record
  <2>4. M!LeadsTo(n + 1, a)
    BY <1>1, <1>8, <1>13, <2>1 DEF M!OnCourse, M!Follows
  <2>5. M!LeadsTo(n + 1, a)'
    BY <1>1, <1>8, <1>9, <1>13, <2>4, AppendKeeps, MachineFacts
  <2>6. ASSUME NEW k \in Callers, NEW i \in (n + 1)..Len(wire'),
               wire'[i].kind = "answer" /\ wire'[i].id = req[k].id
                 /\ wire'[i].op \in {"install", "delete"}
        PROVE  \E r \in M!Machines : M!LeadsTo(i, r)'
                                    /\ M!Written(wire'[i].op, r, wire'[i].agent) = M!Actual'
    <3>1. i = n + 1 /\ wire'[i] = answer
      BY <1>6, <1>9, <1>10, <2>6
    <3>2. M!Written(m.op[1], a, rep) = b
      BY <1>6, <1>13, <2>3, <2>6, <3>1
    <3> QED  BY <1>6, <2>3, <2>5, <3>1, <3>2
  <2>7. M!Follows'
    <3>1. CASE live' = FALSE
      BY <3>1 DEF M!Follows
    <3>2. CASE m.op[1] = "config" /\ Len(wire') = n + 1
      <4>1. b = a
        BY <1>13, <2>3, <3>2
      <4>2. M!LeadsTo((n + 1) + 1, a)'
        BY <1>6, <1>9, <2>5, OverNoSnapshot
      <4> QED  BY <2>3, <3>2, <4>1, <4>2 DEF M!Follows
    <3>3. CASE Len(wire') = n + 2 /\ wire'[n + 2] = snap
      <4>1. /\ n + 2 \in 1..((n + 3) - 1) /\ Len(wire') + 1 = n + 3
            /\ \A j \in ((n + 2) + 1)..((n + 3) - 1) : wire'[j].kind # "snapshot"
        BY <3>3
      <4>2. wire'[n + 2].kind = "snapshot"
            /\ b = M!Record(TRUE, wire'[n + 2].agents, wire'[n + 2].running)
        BY <1>6, <2>3, <3>3
      <4>3. M!LeadsTo(n + 3, b)'
        BY <4>1, <4>2 DEF M!LeadsTo, M!Record
      <4> QED  BY <2>3, <4>1, <4>3 DEF M!Follows
    <3> QED  BY <1>9, <3>1, <3>2, <3>3
  <2>8. \A i \in (n + 1)..Len(wire') : wire'[i].kind = "snapshot" =>
            wire'[i].agents = agents' /\ wire'[i].running = running'
    BY <1>6, <1>7, <1>10
  <2>9. UNCHANGED <<agents, running>> \/ (agents' # {} /\ \A k \in Callers : ~M!Between(k))
    BY <1>7, <1>12
  <2> QED  BY <1>1, <1>5, <1>8, <1>9, <2>1, <2>6, <2>7, <2>8, <2>9, Appended
<1> QED  BY <1>7, <1>11, <1>12 DEF M!MachineInv

\* The frames that are left when the first has been read.
LEMMA Shifted ==
    ASSUME M!MachineInv, wire # <<>>, wire' = Tail(wire), NEW n \in Nat, n = Len(wire),
           UNCHANGED <<agents, running>>
    PROVE  /\ n \in 1..n /\ 1 \in DOMAIN wire /\ Head(wire) = wire[1] /\ wire[1] \in M!Frames
           /\ wire' \in Seq(M!Frames) /\ Len(wire') = n - 1 /\ DOMAIN wire' = 1..(n - 1)
           /\ \A i \in DOMAIN wire' : i + 1 \in DOMAIN wire /\ wire'[i] = wire[i + 1]
           /\ M!Actual' = M!Actual
           /\ \A i \in 1..n : M!TrueFrom(i + 1) => M!TrueFrom(i)'
           /\ M!TrueFrom(1) => M!TrueFrom(1)'
<1>1. /\ wire \in Seq(M!Frames) /\ DOMAIN wire = 1..n /\ \A i \in DOMAIN wire : wire[i] \in M!Frames
  BY MachineFacts
<1>2. /\ n # 0 /\ Head(wire) = wire[1] /\ wire' \in Seq(M!Frames) /\ Len(wire') = n - 1
      /\ \A i \in 1..(n - 1) : wire'[i] = wire[i + 1]
  BY <1>1, HeadTailProperties
<1>3. /\ n \in 1..n /\ 1 \in DOMAIN wire /\ DOMAIN wire' = 1..(n - 1)
      /\ \A i \in DOMAIN wire' : i + 1 \in DOMAIN wire /\ wire'[i] = wire[i + 1]
  BY <1>1, <1>2
<1>4. M!Actual' = M!Actual
  BY DEF M!Actual, M!Record
<1>5. ASSUME NEW i \in Nat, M!TrueFrom(i + 1) PROVE M!TrueFrom(i)'
  <2> SUFFICES ASSUME NEW j \in DOMAIN wire', j >= i, wire'[j].kind = "snapshot"
               PROVE  wire'[j].agents = agents /\ wire'[j].running = running
    BY DEF M!TrueFrom
  <2>1. j + 1 \in DOMAIN wire /\ j + 1 >= i + 1 /\ wire'[j] = wire[j + 1]
    BY <1>3
  <2> QED  BY <1>5, <2>1 DEF M!TrueFrom
<1>6. M!TrueFrom(1) => M!TrueFrom(1)'
  <2> SUFFICES ASSUME M!TrueFrom(1), NEW j \in DOMAIN wire', wire'[j].kind = "snapshot"
               PROVE  wire'[j].agents = agents /\ wire'[j].running = running
    BY DEF M!TrueFrom
  <2>1. j + 1 \in DOMAIN wire /\ j + 1 >= 1 /\ wire'[j] = wire[j + 1]
    BY <1>3
  <2> QED  BY <2>1 DEF M!TrueFrom
<1> QED  BY <1>1, <1>2, <1>3, <1>4, <1>5, <1>6

\* Reading a frame: the parts of the invariant that do not depend on astray.
LEMMA ReadShapes ==
    ASSUME M!MachineInv, wire # <<>>, wire' = Tail(wire), astray' \in BOOLEAN,
           owner' = (owner \/ wire[1].kind = "register"),
           req' \in [Callers -> M!Requests],
           \A k \in Callers : req'[k] = req[k] \/ req'[k].pc \in {"idle", "answered"},
           reg' \in M!Machines, reg'.running \subseteq reg'.agents,
           UNCHANGED <<agents, running, live, commands, requests>>
    PROVE  /\ M!MachineShapes' /\ M!IdsGiven' /\ M!Registers'
           /\ wire[1].kind = "register" => ~owner /\ Len(wire) = 2 /\ wire[2].kind = "snapshot"
           /\ wire[1].kind # "register" => owner
<1>1. PICK n \in Nat : n = Len(wire)
  BY MachineFacts
<1>2. /\ 1 \in DOMAIN wire /\ wire' \in Seq(M!Frames) /\ DOMAIN wire' = 1..(n - 1)
      /\ \A i \in DOMAIN wire' : i + 1 \in DOMAIN wire /\ wire'[i] = wire[i + 1]
  BY <1>1, Shifted
<1>3. /\ wire[1].kind = "register" => ~owner /\ n = 2 /\ wire[2].kind = "snapshot"
      /\ wire[1].kind # "register" => owner
  BY <1>1, <1>2 DEF M!MachineInv, M!Registers
<1>4. M!MachineShapes'
  <2>1. \A k \in Callers : req'[k].pc \in {"idle", "waiting", "answered", "read"}
    BY RequestFields
  <2>2. \A k \in Callers : req'[k].pc = "read" =>
            req'[k].machine.running \subseteq req'[k].machine.agents
    BY DEF M!MachineInv, M!MachineShapes
  <2>3. \A i \in DOMAIN wire' :
           wire'[i].kind = "snapshot" => wire'[i].running \subseteq wire'[i].agents
    BY <1>2 DEF M!MachineInv, M!MachineShapes
  <2>4. reg'.online \in BOOLEAN /\ reg'.agents \subseteq Ids
    BY DEF M!Machines
  <2>5. owner' \in BOOLEAN
    OBVIOUS
  <2> QED  BY <1>2, <2>1, <2>2, <2>3, <2>4, <2>5, MachineFacts
           DEF M!MachineInv, M!MachineShapes, M!MachineTypeOK
<1>5. M!IdsGiven'
  BY <1>2 DEF M!MachineInv, M!IdsGiven
<1>6. M!Registers'
  <2>1. owner' /\ (~live' => commands' = <<>>)
    BY <1>3 DEF M!MachineInv, M!Registers
  <2>2. \A i \in DOMAIN wire' : wire'[i].kind # "register"
    <3>1. CASE wire[1].kind = "register"
      <4>1. \A i \in DOMAIN wire' : i = 1 /\ wire'[i] = wire[2]
        BY <1>2, <1>3, <3>1
      <4> QED  BY <1>3, <3>1, <4>1
    <3>2. CASE wire[1].kind # "register"
      BY <1>2, <1>3, <3>2 DEF M!MachineInv, M!Registers
    <3> QED  BY <3>1, <3>2
  <2> QED  BY <2>1, <2>2 DEF M!Registers
<1> QED  BY <1>1, <1>3, <1>4, <1>5, <1>6

LEMMA ReadRegister ==
    ASSUME M!MachineInv, wire # <<>>, wire' = Tail(wire), wire[1].kind = "register",
           owner' = TRUE, reg' = M!Upsert(M!Record(TRUE, {}, {})),
           UNCHANGED <<agents, running, live, commands, requests, req, astray>>
    PROVE  M!MachineInv'
<1>1. PICK n \in Nat : n = Len(wire)
  BY MachineFacts
<1>2. /\ wire' \in Seq(M!Frames) /\ Len(wire') = n - 1 /\ DOMAIN wire' = 1..(n - 1)
      /\ M!Actual' = M!Actual
      /\ M!TrueFrom(1) => M!TrueFrom(1)'
      /\ \A i \in DOMAIN wire' : i + 1 \in DOMAIN wire /\ wire'[i] = wire[i + 1]
  BY <1>1, Shifted
<1>3. PICK m \in M!Machines : /\ m = M!Record(TRUE, {}, {})
                              /\ m.agents = {} /\ m.running = {}
  BY FreshRecord, Zenon
<1>4. reg' \in M!Machines /\ reg'.running \subseteq reg'.agents /\ reg'.agents = reg.agents
  BY <1>3, UpsertFields, MachineFacts
<1>5. /\ M!MachineShapes' /\ M!IdsGiven' /\ M!Registers'
      /\ ~owner /\ n = 2 /\ wire[2].kind = "snapshot"
  BY <1>1, <1>4, MachineFacts, ReadShapes
<1>6. ASSUME M!OnCourse PROVE M!OnCourse'
  <2>1. (\A k \in Callers : req[k].pc = "idle") /\ M!Follows /\ M!EmptyFindsEmpty
    BY <1>5, <1>6 DEF M!OnCourse, M!Offline
  <2>2. DOMAIN wire' = {1} /\ wire'[1] = wire[2] /\ Len(wire') = 1
    BY <1>2, <1>5
  <2>3. M!Follows'
    <3>1. PICK a \in M!Machines : a = M!Actual
      BY MachineFacts
    <3>2. CASE ~live
      BY <3>2 DEF M!Follows
    <3>3. CASE live
      <4>1. M!LeadsTo(3, a)
        BY <1>1, <1>5, <2>1, <3>1, <3>3 DEF M!Follows
      <4>2. a = M!Record(TRUE, wire[2].agents, wire[2].running)
        <5>1. 2 \in 1..(3 - 1) /\ \A j \in 1..(3 - 1) : j = 1 \/ j = 2
          OBVIOUS
        <5> QED  BY <1>5, <4>1, <5>1 DEF M!LeadsTo
      <4>3. 1 \in 1..(2 - 1) /\ \A j \in (1 + 1)..(2 - 1) : wire'[j].kind # "snapshot"
        OBVIOUS
      <4>4. M!LeadsTo(2, a)'
        BY <1>5, <2>2, <4>2, <4>3 DEF M!LeadsTo, M!Record
      <4>5. Len(wire') + 1 = 2 /\ a = M!Actual'
        BY <1>2, <2>2, <3>1
      <4> QED  BY <4>4, <4>5 DEF M!Follows
    <3> QED  BY <3>2, <3>3
  <2>4. (\A k \in Callers : M!Handled(k)') /\ M!Offline'
    BY <2>1 DEF M!Handled, M!Offline
  <2>5. M!EmptyFindsEmpty'
    <3>1. agents' = {} => reg'.agents = {} /\ M!TrueFrom(1)'
      BY <1>2, <1>4, <2>1 DEF M!EmptyFindsEmpty
    <3>2. ASSUME wire'[1].agents = {} PROVE reg'.agents = {}
      <4>1. 2 \in DOMAIN wire
        BY <1>1, <1>5, MachineFacts
      <4> QED  BY <1>4, <1>5, <2>1, <2>2, <3>2, <4>1 DEF M!EmptyFindsEmpty
    <3>3. \A i \in DOMAIN wire', j \in 1..1 : i = 1 /\ j = 1
      BY <2>2
    <3> QED  BY <2>2, <3>1, <3>2, <3>3 DEF M!EmptyFindsEmpty
  <2> QED  BY <2>3, <2>4, <2>5 DEF M!OnCourse
<1> QED  BY <1>5, <1>6 DEF M!MachineInv

LEMMA ReadSnapshot ==
    ASSUME M!MachineInv, wire # <<>>, wire' = Tail(wire), wire[1].kind = "snapshot",
           reg' = M!Upsert(M!Record(TRUE, wire[1].agents, wire[1].running)),
           astray' = (astray /\ ~M!Corrects(wire[1])),
           UNCHANGED <<agents, running, live, commands, requests, req, owner>>
    PROVE  M!MachineInv'
<1>1. PICK n \in Nat : n = Len(wire)
  BY MachineFacts
<1>2. /\ 1 \in DOMAIN wire /\ wire[1] \in M!Frames /\ n \in 1..n
      /\ wire' \in Seq(M!Frames) /\ Len(wire') = n - 1 /\ DOMAIN wire' = 1..(n - 1)
      /\ M!Actual' = M!Actual
      /\ M!TrueFrom(1) => M!TrueFrom(1)'
      /\ \A i \in 1..n : M!TrueFrom(i + 1) => M!TrueFrom(i)'
      /\ \A i \in DOMAIN wire' : i + 1 \in DOMAIN wire /\ wire'[i] = wire[i + 1]
  BY <1>1, Shifted
<1>3. PICK m \in M!Machines :
         /\ m = M!Record(TRUE, wire[1].agents, wire[1].running) /\ m.online = TRUE
         /\ m.agents = wire[1].agents /\ m.running = wire[1].running
         /\ m.running \subseteq m.agents
  <2>1. wire[1].agents \in SUBSET Ids /\ wire[1].running \in SUBSET Ids /\ TRUE \in BOOLEAN
    BY <1>2, FrameFields
  <2>2. wire[1].running \subseteq wire[1].agents
    BY <1>2 DEF M!MachineInv, M!MachineShapes
  <2>3. PICK as, rs \in SUBSET Ids : as = wire[1].agents /\ rs = wire[1].running
    BY <2>1
  <2>4. /\ M!Record(TRUE, as, rs) \in M!Machines /\ M!Record(TRUE, as, rs).online = TRUE
        /\ M!Record(TRUE, as, rs).agents = as /\ M!Record(TRUE, as, rs).running = rs
    BY RecordFields
  <2> QED  BY <2>2, <2>3, <2>4
<1>4. /\ reg' \in M!Machines /\ reg'.running \subseteq reg'.agents
      /\ (wire[1].agents = {} => reg.agents = {}) => reg' = m
  BY <1>3, UpsertFields, MachineFacts
<1>5. astray' \in BOOLEAN
  BY MachineFacts
<1>6. M!MachineShapes' /\ M!IdsGiven' /\ M!Registers' /\ owner
  BY <1>4, <1>5, MachineFacts, ReadShapes
<1>7. PICK a \in M!Machines : a = M!Actual /\ a = M!Actual' /\ a.agents = agents
  BY <1>2, MachineFacts
<1>8. M!Offline'
  BY <1>6 DEF M!Offline
<1>9. CASE ~astray
  <2>1. M!OnCourse /\ M!EmptyFindsEmpty /\ M!Follows /\ \A k \in Callers : M!Handled(k)
    BY <1>9 DEF M!MachineInv, M!OnCourse
  <2>2. reg' = m
    BY <1>2, <1>4, <2>1 DEF M!EmptyFindsEmpty
  <2>3. M!TrueFrom(1) => reg' = a
    <3>1. M!TrueFrom(1) => wire[1].agents = agents /\ wire[1].running = running
      BY <1>2 DEF M!TrueFrom
    <3> QED  BY <1>3, <1>7, <2>2, <3>1 DEF M!Actual
  <2>4. \A i \in 1..n, r \in M!Machines : M!LeadsTo(i + 1, r) => M!LeadsTo(i, r)'
    <3>1. reg' = M!Record(TRUE, wire[1].agents, wire[1].running)
      BY <1>3, <2>2
    <3> QED  BY <1>1, <3>1, MachineFacts, AfterFirst
  <2>5. M!Follows'
    <3>1. live => M!LeadsTo(n + 1, a)
      BY <1>1, <1>7, <2>1 DEF M!Follows
    <3>2. live => M!LeadsTo(n, a)'
      BY <1>2, <2>4, <3>1
    <3>3. Len(wire') + 1 = n
      BY <1>2
    <3> QED  BY <1>7, <3>2, <3>3 DEF M!Follows
  <2>6. ASSUME NEW k \in Callers PROVE M!Handled(k)'
    <3>1. M!Handled(k)
      BY <2>1
    <3>2. ASSUME NEW i \in DOMAIN wire', req[k].pc = "waiting", wire'[i].kind = "answer",
                 wire'[i].id = req[k].id
          PROVE  /\ M!TrueFrom(i)'
                 /\ wire'[i].op \in {"install", "delete"} =>
                      \E r \in M!Machines :
                        M!LeadsTo(i, r)' /\ M!Written(wire'[i].op, r, wire'[i].agent) = M!Actual'
      <4>1. i \in 1..n /\ i + 1 \in DOMAIN wire /\ wire'[i] = wire[i + 1]
        BY <1>2, <3>2
      <4>2. M!TrueFrom(i)'
        BY <1>2, <3>1, <3>2, <4>1 DEF M!Handled
      <4>3. ASSUME wire[i + 1].op \in {"install", "delete"}
            PROVE  \E r \in M!Machines :
                     M!LeadsTo(i, r)' /\ M!Written(wire[i + 1].op, r, wire[i + 1].agent) = M!Actual'
        <5>1. PICK r \in M!Machines : /\ M!LeadsTo(i + 1, r)
                                      /\ M!Written(wire[i + 1].op, r, wire[i + 1].agent) = M!Actual
          BY <3>1, <3>2, <4>1, <4>3 DEF M!Handled
        <5>2. M!LeadsTo(i, r)'
          BY <2>4, <4>1, <5>1
        <5> QED  BY <1>2, <5>1, <5>2
      <4> QED  BY <4>1, <4>2, <4>3
    <3>3. req[k].pc \in {"answered", "read"} => M!TrueFrom(1)'
      BY <1>2, <3>1 DEF M!Handled
    <3>4. ASSUME req[k].pc = "answered"
          PROVE  M!Written(req[k].op, reg', req[k].agent) = a
      <4>1. M!Written(req[k].op, reg, req[k].agent) = a /\ req[k].agent \in SUBSET Ids
        BY <1>7, <3>1, <3>4, MachineFacts, RequestFields DEF M!Handled
      <4>2. M!Written(req[k].op, a, req[k].agent) = a
        BY <4>1, MachineFacts, WrittenTwice
      <4> QED  BY <2>3, <3>1, <3>4, <4>2 DEF M!Handled
    <3>5. req[k].pc = "read" => M!Written(req[k].op, req[k].machine, req[k].agent) = a
      BY <1>7, <3>1 DEF M!Handled
    <3> QED  BY <1>7, <3>2, <3>3, <3>4, <3>5, HandledNext
  <2>7. M!EmptyFindsEmpty'
    <3>1. agents = {} => reg'.agents = {} /\ M!TrueFrom(1)'
      BY <1>2, <1>7, <2>1, <2>3 DEF M!EmptyFindsEmpty
    <3>2. ASSUME NEW i \in DOMAIN wire', wire'[i].kind = "snapshot", wire'[i].agents = {}
          PROVE  /\ reg'.agents = {}
                 /\ \A j \in 1..i : wire'[j].kind = "snapshot" => wire'[j].agents = {}
      <4>1. i + 1 \in DOMAIN wire /\ wire'[i] = wire[i + 1] /\ i \in 1..(n - 1)
        BY <1>2
      <4>2. \A j \in 1..(i + 1) : wire[j].kind = "snapshot" => wire[j].agents = {}
        BY <2>1, <3>2, <4>1 DEF M!EmptyFindsEmpty
      <4>3. 1 \in 1..(i + 1) /\ \A j \in 1..i : j \in DOMAIN wire' /\ j + 1 \in 1..(i + 1)
        BY <1>2, <4>1
      <4> QED  BY <1>2, <1>3, <2>2, <4>2, <4>3
    <3> QED  BY <3>1, <3>2 DEF M!EmptyFindsEmpty
  <2> QED  BY <1>6, <1>8, <2>5, <2>6, <2>7 DEF M!MachineInv, M!OnCourse
<1>10. CASE astray /\ M!Corrects(wire[1])
  <2>1. /\ wire[1] = M!Snapshot(agents, running) /\ agents # {}
        /\ \A i \in DOMAIN wire' : wire'[i].kind # "snapshot"
        /\ \A k \in Callers : ~M!Between(k)
    BY <1>10 DEF M!Corrects
  <2>2. wire[1].agents = agents /\ wire[1].running = running
    BY <2>1 DEF M!Snapshot
  <2>3. reg' = a
    BY <1>3, <1>4, <1>7, <2>1, <2>2 DEF M!Actual
  <2>4. M!Follows'
    <3>1. \A j \in 1..(n - 1) : wire'[j].kind # "snapshot"
      BY <1>2, <2>1
    <3>2. M!LeadsTo(n, a)'
      BY <2>3, <3>1 DEF M!LeadsTo
    <3>3. Len(wire') + 1 = n
      BY <1>2
    <3> QED  BY <1>7, <3>2, <3>3 DEF M!Follows
  <2>5. ASSUME NEW k \in Callers PROVE M!Handled(k)'
    <3>1. req[k].pc \notin {"answered", "read"}
      BY <2>1 DEF M!Between
    <3>2. req[k].pc = "waiting" => \A i \in DOMAIN wire' :
              ~(wire'[i].kind = "answer" /\ wire'[i].id = req[k].id)
      BY <1>2, <2>1 DEF M!Between
    <3> QED  BY <3>1, <3>2 DEF M!Handled
  <2>6. M!EmptyFindsEmpty'
    BY <2>1 DEF M!EmptyFindsEmpty
  <2> QED  BY <1>6, <1>8, <2>4, <2>5, <2>6 DEF M!MachineInv, M!OnCourse
<1>11. CASE astray /\ ~M!Corrects(wire[1])
  BY <1>6, <1>11 DEF M!MachineInv
<1> QED  BY <1>9, <1>10, <1>11

\* An answer or a rejection: the caller that waits for it goes on.
LEMMA ReadAnswer ==
    ASSUME M!MachineInv, wire # <<>>, wire' = Tail(wire), M!Resolve(wire[1]),
           wire[1].kind \in {"answer", "rejected"},
           UNCHANGED <<agents, running, live, commands, requests, reg, owner, astray>>
    PROVE  M!MachineInv'
<1> DEFINE f == wire[1]
<1>1. PICK n \in Nat : n = Len(wire)
  BY MachineFacts
<1>2. /\ 1 \in DOMAIN wire /\ f \in M!Frames /\ n \in 1..n
      /\ wire' \in Seq(M!Frames) /\ Len(wire') = n - 1 /\ DOMAIN wire' = 1..(n - 1)
      /\ M!Actual' = M!Actual
      /\ M!TrueFrom(1) => M!TrueFrom(1)'
      /\ \A i \in 1..n : M!TrueFrom(i + 1) => M!TrueFrom(i)'
      /\ \A i \in DOMAIN wire' : i + 1 \in DOMAIN wire /\ wire'[i] = wire[i + 1]
  BY <1>1, Shifted
<1>3. \A k \in Callers :
         req'[k] = IF req[k].pc # "waiting" \/ req[k].id # f.id THEN req[k]
                   ELSE IF f.kind = "answer" /\ f.op \in {"install", "delete"}
                        THEN [pc |-> "answered", op |-> f.op, agent |-> f.agent]
                        ELSE M!Idle
  BY DEF M!Resolve
<1>4. f.kind = "answer" => f.op \in M!OpNames /\ f.agent \in SUBSET Ids
  BY <1>2, FrameFields
<1>5. ASSUME NEW k \in Callers
      PROVE  /\ req'[k] \in M!Requests
             /\ \/ req'[k] = req[k]
                \/ req'[k].pc = "idle"
                \/ /\ req[k].pc = "waiting" /\ f.kind = "answer" /\ f.id = req[k].id
                   /\ f.op \in {"install", "delete"}
                   /\ req'[k].pc = "answered" /\ req'[k].op = f.op /\ req'[k].agent = f.agent
  <2>1. CASE req[k].pc # "waiting" \/ req[k].id # f.id
    BY <1>3, <2>1, MachineFacts
  <2>2. CASE /\ ~(req[k].pc # "waiting" \/ req[k].id # f.id)
             /\ f.kind = "answer" /\ f.op \in {"install", "delete"}
    <3>1. req'[k] = [pc |-> "answered", op |-> f.op, agent |-> f.agent]
      BY <1>3, <2>2
    <3>2. [pc |-> "answered", op |-> f.op, agent |-> f.agent] \in M!Requests
      BY <1>4, <2>2, NewRequests
    <3> QED  BY <2>2, <3>1, <3>2
  <2>3. CASE /\ ~(req[k].pc # "waiting" \/ req[k].id # f.id)
             /\ ~(f.kind = "answer" /\ f.op \in {"install", "delete"})
    BY <1>3, <2>3, NewRequests
  <2> QED  BY <2>1, <2>2, <2>3
<1>6. req' \in [Callers -> M!Requests]
  <2>1. req' = [k \in Callers |-> req'[k]]
    BY DEF M!Resolve
  <2> QED  BY <1>5, <2>1
<1>7. M!MachineShapes' /\ M!IdsGiven' /\ M!Registers' /\ owner
  <2>1. \A k \in Callers : req'[k] = req[k] \/ req'[k].pc \in {"idle", "answered"}
    BY <1>5
  <2>2. owner' = (owner \/ wire[1].kind = "register") /\ wire[1].kind # "register"
    BY MachineFacts
  <2>3. /\ reg' \in M!Machines /\ reg'.running \subseteq reg'.agents
        /\ wire[1].kind # "snapshot" /\ astray' \in BOOLEAN
    BY MachineFacts
  <2> QED  BY <1>6, <2>1, <2>2, <2>3, ReadShapes
<1>8. ASSUME M!OnCourse PROVE M!OnCourse'
  <2>1. M!EmptyFindsEmpty /\ M!Follows /\ \A k \in Callers : M!Handled(k)
    BY <1>8 DEF M!OnCourse
  <2>2. PICK a \in M!Machines : a = M!Actual /\ a = M!Actual'
    BY <1>2, MachineFacts
  <2>3. \A i \in 1..n, r \in M!Machines : M!LeadsTo(i + 1, r) => M!LeadsTo(i, r)'
    BY <1>1, MachineFacts, AfterFirst
  <2>4. M!Follows'
    <3>1. live => M!LeadsTo(n + 1, a)
      BY <1>1, <2>1, <2>2 DEF M!Follows
    <3>2. live => M!LeadsTo(n, a)'
      BY <1>2, <2>3, <3>1
    <3>3. Len(wire') + 1 = n
      BY <1>2
    <3> QED  BY <2>2, <3>2, <3>3 DEF M!Follows
  <2>5. ASSUME NEW k \in Callers PROVE M!Handled(k)'
    <3>1. M!Handled(k)
      BY <2>1
    <3>2. CASE req'[k] = req[k]
      <4>1. ASSUME NEW i \in DOMAIN wire', req[k].pc = "waiting", wire'[i].kind = "answer",
                   wire'[i].id = req[k].id
            PROVE  /\ M!TrueFrom(i)'
                   /\ wire'[i].op \in {"install", "delete"} =>
                        \E r \in M!Machines : /\ M!LeadsTo(i, r)'
                           /\ M!Written(wire'[i].op, r, wire'[i].agent) = M!Actual'
        <5>1. i \in 1..n /\ i + 1 \in DOMAIN wire /\ wire'[i] = wire[i + 1]
          BY <1>2, <4>1
        <5>2. M!TrueFrom(i)'
          BY <1>2, <3>1, <4>1, <5>1 DEF M!Handled
        <5>3. ASSUME wire[i + 1].op \in {"install", "delete"}
              PROVE  \E r \in M!Machines : /\ M!LeadsTo(i, r)'
                        /\ M!Written(wire[i + 1].op, r, wire[i + 1].agent) = M!Actual'
          <6>1. PICK r \in M!Machines : /\ M!LeadsTo(i + 1, r)
                   /\ M!Written(wire[i + 1].op, r, wire[i + 1].agent) = M!Actual
            BY <3>1, <4>1, <5>1, <5>3 DEF M!Handled
          <6>2. M!LeadsTo(i, r)'
            BY <2>3, <5>1, <6>1
          <6> QED  BY <1>2, <6>1, <6>2
        <5> QED  BY <5>1, <5>2, <5>3
      <4>2. req[k].pc \in {"answered", "read"} => M!TrueFrom(1)'
        BY <1>2, <3>1 DEF M!Handled
      <4>3. /\ req[k].pc = "answered" => M!Written(req[k].op, reg, req[k].agent) = a
            /\ req[k].pc = "read" => M!Written(req[k].op, req[k].machine, req[k].agent) = a
        BY <2>2, <3>1 DEF M!Handled
      <4> QED  BY <2>2, <3>2, <4>1, <4>2, <4>3, HandledNext
    <3>3. CASE req'[k].pc = "idle"
      BY <3>3 DEF M!Handled
    <3>4. CASE /\ req[k].pc = "waiting" /\ f.kind = "answer" /\ f.id = req[k].id
               /\ f.op \in {"install", "delete"}
               /\ req'[k].pc = "answered" /\ req'[k].op = f.op /\ req'[k].agent = f.agent
      <4>1. M!TrueFrom(1)
        BY <1>2, <3>1, <3>4 DEF M!Handled
      <4>2. PICK r \in M!Machines : M!LeadsTo(1, r) /\ M!Written(f.op, r, f.agent) = M!Actual
        BY <1>2, <3>1, <3>4 DEF M!Handled
      <4>3. r = reg
        BY <4>2 DEF M!LeadsTo
      <4>4. M!Written(f.op, reg', f.agent) = a
        BY <2>2, <4>2, <4>3
      <4> QED  BY <1>2, <2>2, <3>4, <4>1, <4>4, HandledNext
    <3> QED  BY <1>5, <3>2, <3>3, <3>4
  <2>6. M!EmptyFindsEmpty'
    <3>1. agents = {} => reg'.agents = {} /\ M!TrueFrom(1)'
      BY <1>2, <2>1 DEF M!EmptyFindsEmpty
    <3>2. ASSUME NEW i \in DOMAIN wire', wire'[i].kind = "snapshot", wire'[i].agents = {}
          PROVE  /\ reg'.agents = {}
                 /\ \A j \in 1..i : wire'[j].kind = "snapshot" => wire'[j].agents = {}
      <4>1. i + 1 \in DOMAIN wire /\ wire'[i] = wire[i + 1] /\ i \in 1..(n - 1)
        BY <1>2
      <4>2. \A j \in 1..(i + 1) : wire[j].kind = "snapshot" => wire[j].agents = {}
        BY <2>1, <3>2, <4>1 DEF M!EmptyFindsEmpty
      <4>3. \A j \in 1..i : j \in DOMAIN wire' /\ j + 1 \in 1..(i + 1)
        BY <1>2, <4>1
      <4> QED  BY <1>2, <2>1, <3>2, <4>1, <4>2, <4>3 DEF M!EmptyFindsEmpty
    <3> QED  BY <3>1, <3>2 DEF M!EmptyFindsEmpty
  <2>7. M!Offline'
    BY <1>7 DEF M!Offline
  <2> QED  BY <2>4, <2>5, <2>6, <2>7 DEF M!OnCourse
<1> QED  BY <1>7, <1>8 DEF M!MachineInv

LEMMA ReadFrameStep ==
    ASSUME M!MachineInv, M!ReadFrame
    PROVE  M!MachineInv'
<1>1. /\ wire # <<>> /\ wire' = Tail(wire)
      /\ UNCHANGED <<agents, running, live, commands, requests>>
  BY DEF M!ReadFrame
<1>2. Head(wire) = wire[1]
  BY <1>1, MachineFacts, HeadTailProperties
<1>3. CASE /\ wire[1].kind = "register" /\ owner' = TRUE
           /\ reg' = M!Upsert(M!Record(TRUE, {}, {})) /\ UNCHANGED <<req, astray>>
  BY <1>1, <1>3, ReadRegister
<1>4. CASE /\ wire[1].kind = "snapshot"
           /\ reg' = M!Upsert(M!Record(TRUE, wire[1].agents, wire[1].running))
           /\ astray' = (astray /\ ~M!Corrects(wire[1])) /\ UNCHANGED <<owner, req>>
  BY <1>1, <1>4, ReadSnapshot
<1>5. CASE /\ wire[1].kind \in {"answer", "rejected"} /\ M!Resolve(wire[1])
           /\ UNCHANGED <<owner, reg, astray>>
  BY <1>1, <1>5, ReadAnswer
<1> QED  BY <1>2, <1>3, <1>4, <1>5 DEF M!ReadFrame

\* Every step of the machine and the registry preserves the invariant.
LEMMA MachineStep == M!MachineInv /\ M!Next => M!MachineInv'
<1> SUFFICES ASSUME M!MachineInv, M!Next PROVE M!MachineInv'
  OBVIOUS
<1>1. CASE M!Connect \/ M!Break \/ M!RunCompletes \/ M!RunFails \/ M!ReadFrame \/ M!Disconnect
  BY <1>1, ConnectStep, BreakStep, RunCompletesStep, RunFailsStep, ReadFrameStep,
     DisconnectStep
<1>2. ASSUME NEW k \in Callers,
             \/ M!PostAgent(k) \/ M!DeleteAgentOf(k) \/ M!GetOrPutConfig(k)
             \/ M!PostRestart(k) \/ M!PostRuntime(k)
      PROVE  M!MachineInv'
  <2>1. PICK op \in M!OpNames \X SUBSET Ids : M!Send(k, op)
    <3>1. \A o \in M!OpNames, as \in SUBSET Ids : <<o, as>> \in M!OpNames \X SUBSET Ids
      OBVIOUS
    <3>2. {} \in SUBSET Ids /\ \A a \in Ids : {a} \in SUBSET Ids
      OBVIOUS
    <3>3. \A o \in {"install", "delete", "config", "restart", "start", "stop"} : o \in M!OpNames
      BY DEF M!OpNames
    <3> QED  BY <1>2, <3>1, <3>2, <3>3
         DEF M!PostAgent, M!DeleteAgentOf, M!GetOrPutConfig, M!PostRestart, M!PostRuntime
  <2> QED  BY <2>1, SendStep
<1>3. ASSUME NEW k \in Callers, M!Expire(k) \/ M!GetMachine(k) \/ M!UpsertMachine(k)
      PROVE  M!MachineInv'
  BY <1>3, ExpireStep, GetMachineStep, UpsertMachineStep
<1> QED  BY <1>1, <1>2, <1>3 DEF M!Next

-----------------------------------------------------------------------------
(* The theorems.                                                           *)

\* Settings and MachineApi keep their inductive invariants.
THEOREM Invariance == Spec => [](S!SettingsInv /\ M!MachineInv)
<1>1. Init => S!SettingsInv /\ M!MachineInv
  BY SettingsInit, MachineInit DEF Init
<1>2. S!SettingsInv /\ M!MachineInv /\ [Next]_<<part, settings, machine>>
         => (S!SettingsInv /\ M!MachineInv)'
  <2> SUFFICES ASSUME S!SettingsInv, M!MachineInv, [Next]_<<part, settings, machine>>
               PROVE  S!SettingsInv' /\ M!MachineInv'
    OBVIOUS
  <2>1. UNCHANGED settings => S!SettingsInv'
    BY DEF settings, S!SettingsInv, S!Shapes, S!SettingsTypeOK, S!InMemory,
       S!HasChange, S!SavesInTurn,
       S!OneAtFile, S!AtFile, S!Saves, S!FileKeeps, S!Keeps
  <2>2. UNCHANGED machine => M!MachineInv'
    <3> SUFFICES ASSUME UNCHANGED machine PROVE M!MachineInv'
      OBVIOUS
    <3>1. M!MachineShapes' /\ M!IdsGiven' /\ M!Registers'
      BY DEF machine, M!MachineInv, M!MachineShapes, M!MachineTypeOK, M!IdsGiven,
         M!Registers
    <3>2. M!OnCourse => M!OnCourse'
      BY SameHandled, Unmoved DEF machine, M!OnCourse, M!Follows, M!Offline
    <3> QED  BY <3>1, <3>2 DEF machine, M!MachineInv
  <2>3. CASE S!Next /\ UNCHANGED machine
    BY <2>2, <2>3, SettingsStep
  <2>4. CASE M!Next /\ UNCHANGED settings
    BY <2>1, <2>4, MachineStep
  <2>5. CASE UNCHANGED <<part, settings, machine>>
    BY <2>1, <2>2, <2>5
  <2> QED  BY <2>3, <2>4, <2>5 DEF Next, settings, machine
<1> QED  BY <1>1, <1>2, PTL DEF Spec

\* The settings and the machine keep their types.
THEOREM TypeCorrect == Spec => []TypeOK
<1>1. S!SettingsInv /\ M!MachineInv => TypeOK
  BY DEF S!SettingsInv, S!Shapes, M!MachineInv, M!MachineShapes, TypeOK
<1> QED  BY <1>1, Invariance, PTL

\* Unless two saves overlapped, a write that was answered with success is in the file,
\* which is whole, whatever crashes: saveLocked writes a temporary file and renames it.
THEOREM AckedOnDisk == Spec => []AckedIsOnDisk
<1>1. S!SettingsInv /\ M!MachineInv => AckedIsOnDisk
  BY DEF S!SettingsInv, S!SavesInTurn, S!FileKeeps, S!Keeps, AckedIsOnDisk,
     S!AckedIsOnDisk
<1> QED  BY <1>1, Invariance, PTL

\* A title that was given stays until a later one of its thread, through saves of other
\* handlers and crashes, unless saves overlapped or titles read before another's change
\* were written back (settings/store.go reads and writes preferences in separate calls).
THEOREM TitlesKept == Spec => []TitlesStay
<1>1. S!SettingsInv /\ M!MachineInv => TitlesStay
  BY DEF S!SettingsInv, S!SavesInTurn, S!FileKeeps, S!Keeps, TitlesStay, S!TitlesStay
<1> QED  BY <1>1, Invariance, PTL

\* The registry's record follows the machine, whatever order snapshots, handlers and
\* disconnects write it in, except where it goes astray (Store.Upsert, MarkOffline).
THEOREM RegistryFollows == Spec => []RegistryFollowsMachine
<1>1. ASSUME M!MachineInv, M!Settled, ~astray
      PROVE  /\ live /\ owner => reg = M!Record(TRUE, agents, running)
             /\ ~live /\ ~owner => ~reg.online
  <2>1. M!OnCourse /\ wire = <<>>
    BY <1>1 DEF M!MachineInv, M!Settled
  <2>2. ASSUME live PROVE reg = M!Actual
    <3>1. PICK a \in M!Machines : a = M!Actual
      BY <1>1, MachineFacts
    <3>2. Len(wire) + 1 = 1 /\ 1 - 1 = 0
      BY <2>1
    <3>3. M!LeadsTo(1, a)
      BY <2>1, <2>2, <3>1, <3>2 DEF M!OnCourse, M!Follows
    <3> QED  BY <3>1, <3>3 DEF M!LeadsTo
  <2> QED  BY <2>1, <2>2 DEF M!OnCourse, M!Offline, M!Actual
<1>2. S!SettingsInv /\ M!MachineInv => RegistryFollowsMachine
  BY <1>1 DEF RegistryFollowsMachine, M!RegistryFollowsMachine
<1> QED  BY <1>2, Invariance, PTL
=============================================================================
