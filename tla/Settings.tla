------------------------------- MODULE Settings -------------------------------
(***************************************************************************)
(* The gateway's settings: the documents and preferences of settings/      *)
(* memory_store.go under one lock per operation, their file written by     *)
(* settings/file_store.go without one, the handlers of api/server.go that  *)
(* change them (settings, thread titles), and the console's settings page, *)
(* which keeps a copy of the preferences (use-console-preferences.ts).     *)
(*                                                                         *)
(* Every change has a number; a stored value is the number of the change   *)
(* that wrote it, 0 for none.  The global and the machines' documents are  *)
(* one value: no property tells them apart.  The file system is inodes and *)
(* two names.  The process may end at any step; the machine's power does   *)
(* not fail, so what was written stays written.                            *)
(***************************************************************************)
EXTENDS Naturals, FiniteSets

CONSTANTS Writers,    \* HTTP handlers at work at once
          Threads,    \* threads with titles
          NoInode,
          MaxChanges  \* bound: changes of the settings

VARIABLES
    mem,       \* MemoryStore: the settings, and the number of the last change
    tmp, file, \* the inodes of <path>.tmp and <path>
    data,      \* what each inode holds
    writer,    \* each handler
    page,      \* the settings page's copy of the titles
    acked,     \* history: the last change answered with success
    titled,    \* history: the last title of a thread so answered
    overlap,   \* history: two saves were at the file at once
    clobbered  \* history: preferences were written back over others not read

vars == <<mem, tmp, file, data, writer, page, acked, titled, overlap, clobbered>>

Inodes == 1..(2 + Cardinality(Writers))
Changes == 0..MaxChanges
Empty == [kind |-> "empty"]
Torn == [kind |-> "torn"]
Whole(s) == [kind |-> "whole", state |-> s]
Nothing == [at |-> 0, documents |-> 0, profile |-> 0, titles |-> [t \in Threads |-> 0]]
Idle == [pc |-> "idle"]

States == [at : Changes, documents : Changes, profile : Changes,
           titles : [Threads -> Changes]]

SettingsTypeOK ==
    /\ mem \in States
    /\ tmp \in Inodes \cup {NoInode} /\ file \in Inodes \cup {NoInode}
    /\ \A i \in Inodes : data[i].kind = "whole" => data[i].state \in States
    /\ \A w \in Writers : writer[w].pc \in {"idle", "titles", "save", "open", "write", "rename"}
    /\ page \in [Threads -> Changes]
    /\ acked \in Changes /\ titled \in [Threads -> Changes]
    /\ acked <= mem.at /\ \A t \in Threads : titled[t] <= mem.at

Init ==
    /\ mem = Nothing /\ tmp = NoInode /\ file = NoInode
    /\ data = [i \in Inodes |-> Empty]
    /\ writer = [w \in Writers |-> Idle]
    /\ page = [t \in Threads |-> 0]
    /\ acked = 0 /\ titled = [t \in Threads |-> 0]
    /\ overlap = FALSE /\ clobbered = FALSE

Next1 == mem.at + 1

\* a change of the memory store; w goes on to save it
Changed(w, new, t) ==
    /\ mem.at < MaxChanges
    /\ mem' = [new EXCEPT !.at = Next1]
    /\ writer' = [writer EXCEPT ![w] = [pc |-> "save", change |-> Next1, title |-> t]]
    /\ UNCHANGED <<tmp, file, data, acked, titled, overlap>>

-----------------------------------------------------------------------------
(* The handlers.                                                           *)

PutGlobal(w) ==
    /\ writer[w].pc = "idle"
    /\ Changed(w, [mem EXCEPT !.documents = Next1], {})
    /\ UNCHANGED <<page, clobbered>>

PutMachine(w) ==
    /\ writer[w].pc = "idle"
    /\ Changed(w, [mem EXCEPT !.documents = Next1], {})
    /\ UNCHANGED <<page, clobbered>>

DeleteMachine(w) ==
    /\ writer[w].pc = "idle"
    /\ Changed(w, [mem EXCEPT !.documents = 0], {})
    /\ UNCHANGED <<page, clobbered>>

\* GET /settings/console
LoadPage ==
    /\ page' = mem.titles
    /\ UNCHANGED <<mem, tmp, file, data, writer, acked, titled, overlap, clobbered>>

\* PUT /settings/console: the page sends its whole copy with its own change
SavePage(w) ==
    /\ writer[w].pc = "idle"
    /\ Changed(w, [mem EXCEPT !.profile = Next1, !.titles = page], {})
    /\ clobbered' = (clobbered \/ page # mem.titles)
    /\ UNCHANGED page

\* PATCH /threads/{id}: the titles are read ...
ReadTitles(w) ==
    /\ writer[w].pc = "idle"
    /\ writer' = [writer EXCEPT ![w] = [pc |-> "titles", titles |-> mem.titles,
                                        profile |-> mem.profile]]
    /\ UNCHANGED <<mem, tmp, file, data, page, acked, titled, overlap, clobbered>>

\* mutant: the new title alone is written back
OnlyTitle(old, t, n) == [u \in Threads |-> IF u = t THEN n ELSE 0]

WithTitle(old, t, n) == [old EXCEPT ![t] = n]

\* ... changed, and written back with all that was read
WriteTitle(w) ==
    /\ writer[w].pc = "titles"
    /\ \E t \in Threads :
          Changed(w, [mem EXCEPT !.titles = WithTitle(writer[w].titles, t, Next1),
                                 !.profile = writer[w].profile], {t})
    /\ clobbered' = (clobbered \/ writer[w].titles # mem.titles)
    /\ UNCHANGED page

-----------------------------------------------------------------------------
(* persist: a snapshot of the store, the write of <path>.tmp, the rename.  *)

AtFile(w) == writer[w].pc \in {"open", "write", "rename"}

Snapshot(w) ==
    /\ writer[w].pc = "save"
    /\ writer' = [writer EXCEPT ![w] = [pc |-> "open", change |-> @.change,
                                        title |-> @.title, state |-> mem]]
    /\ overlap' = (overlap \/ \E v \in Writers \ {w} : AtFile(v))
    /\ UNCHANGED <<mem, tmp, file, data, page, acked, titled, clobbered>>

\* mutant: the file itself is opened instead of <path>.tmp
FileInode == IF file = NoInode THEN CHOOSE i \in Inodes : TRUE ELSE file

\* the inode of <path>.tmp, or a new one
TmpInode ==
    IF tmp # NoInode THEN tmp
    ELSE CHOOSE i \in Inodes :
            /\ i # file
            /\ \A w \in Writers : writer[w].pc = "write" => writer[w].inode # i

\* os.WriteFile truncates what the name leads to ...
Open(w) ==
    /\ writer[w].pc = "open"
    /\ tmp' = TmpInode
    /\ data' = [data EXCEPT ![TmpInode] = Empty]
    /\ writer' = [writer EXCEPT ![w] = [pc |-> "write", change |-> @.change,
                       title |-> @.title, state |-> @.state, inode |-> TmpInode]]
    /\ UNCHANGED <<mem, file, page, acked, titled, overlap, clobbered>>

\* ... and writes from its start: over what another save has written there since,
\* whose end stays when it was longer
Write(w) ==
    /\ writer[w].pc = "write"
    /\ LET i == writer[w].inode IN
       \E d \in {Whole(writer[w].state)} \cup (IF data[i] = Empty THEN {} ELSE {Torn}) :
          data' = [data EXCEPT ![i] = d]
    /\ writer' = [writer EXCEPT ![w] = [pc |-> "rename", change |-> @.change,
                                        title |-> @.title]]
    /\ UNCHANGED <<mem, tmp, file, page, acked, titled, overlap, clobbered>>

\* the later of two changes
Later(m, n) == IF m > n THEN m ELSE n

\* os.Rename: the file is the new inode, and the old one is free
Rename(w) ==
    /\ writer[w].pc = "rename" /\ tmp # NoInode
    /\ file' = tmp /\ tmp' = NoInode
    /\ data' = [i \in Inodes |-> IF i = file THEN Empty ELSE data[i]]
    /\ acked' = Later(acked, writer[w].change)
    /\ titled' = [t \in Threads |-> IF t \in writer[w].title
                                    THEN Later(titled[t], writer[w].change) ELSE titled[t]]
    /\ writer' = [writer EXCEPT ![w] = Idle]
    /\ UNCHANGED <<mem, page, overlap, clobbered>>

\* a step of the save fails, the rename when another save has taken <path>.tmp
\* away: the handler answers 500, and the change stays in memory
SaveFails(w) ==
    /\ AtFile(w)
    /\ writer' = [writer EXCEPT ![w] = Idle]
    /\ UNCHANGED <<mem, tmp, file, data, page, acked, titled, overlap, clobbered>>

\* loadFromFile takes no file and an empty one for no settings
Loaded(d) == IF file = NoInode \/ d[file] = Empty THEN Nothing ELSE d[file].state

\* the process ends, its writes half done, and the next one reads the file; there
\* is no next one when the file is torn
Restart ==
    /\ \E cut \in SUBSET {i \in Inodes : \E w \in Writers :
                              writer[w].pc = "write" /\ writer[w].inode = i} :
          data' = [i \in Inodes |-> IF i \in cut THEN Torn ELSE data[i]]
    /\ file # NoInode => data'[file] # Torn
    /\ mem' = [Loaded(data') EXCEPT !.at = mem.at]
    /\ writer' = [w \in Writers |-> Idle]
    /\ UNCHANGED <<tmp, file, page, acked, titled, overlap, clobbered>>

Next ==
    \/ LoadPage \/ Restart
    \/ \E w \in Writers :
          \/ PutGlobal(w) \/ PutMachine(w) \/ DeleteMachine(w) \/ SavePage(w)
          \/ ReadTitles(w) \/ WriteTitle(w)
          \/ Snapshot(w) \/ Open(w) \/ Write(w) \/ Rename(w) \/ SaveFails(w)

Spec == Init /\ [][Next]_vars

-----------------------------------------------------------------------------
(* Properties.                                                             *)

\* Whatever was answered with success is in the file, whole, at every moment: if
\* the process ends now, in the middle of any save, the next one has it.  This is
\* so as long as no two saves were at the file at once, which nothing prevents.
AckedIsOnDisk ==
    ~overlap /\ acked > 0 =>
        file # NoInode /\ data[file].kind = "whole" /\ data[file].state.at >= acked

\* A title that was given stays, or a later one of the same thread replaces it,
\* through other renames, saves of the settings page and restarts, as long as
\* nobody writes preferences back over ones it has not read.
TitlesStay ==
    ~overlap /\ ~clobbered => \A t \in Threads : mem.titles[t] >= titled[t]

-----------------------------------------------------------------------------
(* The inductive invariant of GatewayStores_proofs.                        *)

Documents == {Empty, Torn} \cup {Whole(s) : s \in States}

WriterStates ==
    {Idle}
    \cup [pc : {"titles"}, titles : [Threads -> Changes], profile : Changes]
    \cup [pc : {"save", "rename"}, change : Changes, title : SUBSET Threads]
    \cup [pc : {"open"}, change : Changes, title : SUBSET Threads, state : States]
    \cup [pc : {"write"}, change : Changes, title : SUBSET Threads, state : States,
          inode : Inodes]

Shapes ==
    /\ SettingsTypeOK
    /\ data \in [Inodes -> Documents]
    /\ writer \in [Writers -> WriterStates]
    /\ overlap \in BOOLEAN /\ clobbered \in BOOLEAN

\* s has all that was answered with success
Keeps(s) ==
    /\ s.at >= acked
    /\ ~clobbered => \A t \in Threads : s.titles[t] >= titled[t]

\* s has the change that w saves
HasChange(s, w) ==
    /\ s.at >= writer[w].change
    /\ ~clobbered => \A t \in writer[w].title : s.titles[t] >= writer[w].change

\* a change stays in memory while it is saved
InMemory ==
    \A w \in Writers :
        writer[w].pc \in {"save", "open", "write", "rename"} => HasChange(mem, w)

OneAtFile == \A v, w \in Writers : AtFile(v) /\ AtFile(w) => v = w

\* what each step of w's save is about to put into the file
Saves(w) ==
    /\ writer[w].pc \in {"open", "write"} =>
          Keeps(writer[w].state) /\ HasChange(writer[w].state, w)
    /\ writer[w].pc = "write" =>
          tmp # NoInode /\ writer[w].inode = tmp /\ data[tmp] = Empty
    /\ writer[w].pc = "rename" =>
          /\ tmp # NoInode /\ data[tmp].kind = "whole"
          /\ Keeps(data[tmp].state) /\ HasChange(data[tmp].state, w)

\* the file is whole and up to date; what is written is another one
FileKeeps ==
    /\ tmp = NoInode \/ tmp # file
    /\ IF file = NoInode THEN acked = 0 /\ \A t \in Threads : titled[t] = 0
       ELSE data[file].kind = "whole" /\ Keeps(data[file].state)

SavesInTurn == OneAtFile /\ (\A w \in Writers : Saves(w)) /\ FileKeeps /\ Keeps(mem)

SettingsInv == Shapes /\ InMemory /\ (~overlap => SavesInTurn)
===============================================================================
