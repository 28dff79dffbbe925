----------------------- MODULE ThreadWorkspace_proofs -----------------------
(***************************************************************************)
(* TLAPS proofs about ThreadWorkspace, for any turns, chunks, queues,      *)
(* prompts, interrupts, breaks of the socket and limit of what is kept.    *)
(* First what the operators on the page's messages do: the sort and the    *)
(* merge of the history, then each of the page's own changes.  The         *)
(* inductive invariant is IInv: a step changes the events by one and the   *)
(* page by one of its operations, so most of the lemmas that show that     *)
(* every step preserves a conjunct go by what the step does to the events  *)
(* or to the page, and not action by action.                               *)
(***************************************************************************)
EXTENDS ThreadWorkspace, FiniteSetTheorems, SequenceTheorems, WellFoundedInduction, TLAPS

-----------------------------------------------------------------------------
(* The history: events in the order of their numbers, merged one by one.   *)

\* The least of a set of numbers.
LEMMA MinIsLeast ==
    ASSUME NEW T \in SUBSET Nat, T # {}
    PROVE  Min(T) \in T /\ \A y \in T : Min(T) <= y
<1> DEFINE R == {ss \in Nat \X Nat : ss[1] < ss[2]}
<1>1. IsWellFoundedOn(R, Nat)
  BY NatLessThanWellFounded, Zenon DEF OpToRel
<1>2. PICK x \in T : \A y \in T : ~(<<y, x>> \in R)
  <2> HIDE DEF R
  <2> QED  BY <1>1, WFMin, Zenon
<1>3. ASSUME NEW y \in T PROVE x =< y
  <2>1. x \in Nat /\ y \in Nat
    OBVIOUS
  <2>2. ~(<<y, x>> \in Nat \X Nat /\ <<y, x>>[1] < <<y, x>>[2])
    BY <1>2
  <2> QED  BY <2>1, <2>2
<1> QED  BY <1>3 DEF Min

\* Induction, on a set of numbers.
LEMMA Induction ==
    ASSUME NEW T, 0 \in T, \A n \in Nat : n \in T => n + 1 \in T
    PROVE  \A n \in Nat : n \in T
<1> SUFFICES ASSUME Nat \ T # {} PROVE FALSE
  OBVIOUS
<1> DEFINE m == Min(Nat \ T)
<1>1. m \in Nat /\ m \notin T /\ \A y \in Nat \ T : m <= y
  BY MinIsLeast
<1> HIDE DEF m
<1>2. m # 0 /\ m - 1 \in Nat
  BY <1>1
<1>3. m - 1 \in T
  BY <1>1, <1>2
<1>4. (m - 1) + 1 = m
  BY <1>1
<1> QED  BY <1>1, <1>2, <1>3, <1>4

\* The recursion of MergeAll defines what it says.
LEMMA MergeAllSteps ==
    ASSUME NEW events, Len(events) \in Nat
    PROVE  \E f : /\ f[0] = <<>>
                  /\ \A n \in 1 .. Len(events) : f[n] = Merge(f[n - 1], events[n])
                  /\ MergeAll(events) = f[Len(events)]
<1> DEFINE Rec(f, n) == f = [i \in 0 .. n |-> IF i = 0 THEN <<>> ELSE Merge(f[i - 1], events[i])]
           T == {n \in Nat : \E f : Rec(f, n)}
<1>1. 0 \in T
  <2> DEFINE f == [i \in 0 .. 0 |-> <<>>]
  <2>1. f = [i \in 0 .. 0 |-> IF i = 0 THEN <<>> ELSE Merge(f[i - 1], events[i])]
    OBVIOUS
  <2> QED  BY <2>1
<1>2. ASSUME NEW n \in Nat, n \in T PROVE n + 1 \in T
  <2>1. PICK g : Rec(g, n)
    BY <1>2
  <2> DEFINE f == [i \in 0 .. (n + 1) |-> IF i = n + 1 THEN Merge(g[n], events[n + 1]) ELSE g[i]]
  <2>2. ASSUME NEW i \in 0 .. (n + 1)
        PROVE  f[i] = IF i = 0 THEN <<>> ELSE Merge(f[i - 1], events[i])
    <3>1. CASE i = n + 1
      BY <3>1
    <3>2. CASE i # n + 1
      <4>1. i \in 0 .. n /\ f[i] = g[i]
        BY <3>2
      <4>2. g[i] = IF i = 0 THEN <<>> ELSE Merge(g[i - 1], events[i])
        BY <4>1, <2>1
      <4>3. i # 0 => f[i - 1] = g[i - 1]
        BY <4>1
      <4> QED  BY <4>1, <4>2, <4>3
    <3> QED  BY <3>1, <3>2
  <2> HIDE DEF f
  <2>4. f = [i \in 0 .. (n + 1) |-> f[i]]
    BY DEF f
  <2>3. Rec(f, n + 1)
    BY <2>2, <2>4, Zenon
  <2> QED  BY <2>3
<1>3. Len(events) \in T
  <2> HIDE DEF T
  <2> QED  BY <1>1, <1>2, Induction
<1> DEFINE F == CHOOSE f : Rec(f, Len(events))
<1>4. Rec(F, Len(events))
  BY <1>3
<1>5. MergeAll(events) = F[Len(events)]
  BY DEF MergeAll
<1> HIDE DEF F
<1>6. F[0] = <<>>
  BY <1>4
<1>7. ASSUME NEW n \in 1 .. Len(events) PROVE F[n] = Merge(F[n - 1], events[n])
  <2>1. n \in 0 .. Len(events) /\ n # 0
    OBVIOUS
  <2> QED  BY <1>4, <2>1
<1> QED  BY <1>5, <1>6, <1>7

\* Place numbers the events from one, one place each, in the order of the sort.
LEMMA PlaceIsOneToOne ==
    ASSUME NEW events \in Seq(Events), NEW i \in DOMAIN events, NEW j \in DOMAIN events
    PROVE  /\ Place(events, i) \in 1 .. Len(events)
           /\ (NoLater(events, i, j) /\ i # j) => Place(events, i) < Place(events, j)
           /\ i # j => Place(events, i) # Place(events, j)
<1> DEFINE N == Len(events)
           B(k) == {l \in DOMAIN events : NoLater(events, l, k)}
<1>1. N \in Nat /\ DOMAIN events = 1 .. N /\ IsFiniteSet(1 .. N) /\ Cardinality(1 .. N) = N
  <2>1. N \in Nat /\ DOMAIN events = 1 .. N
    BY LenProperties
  <2>2. IsFiniteSet(1 .. N) /\ Cardinality(1 .. N) = IF 1 > N THEN 0 ELSE N - 1 + 1
    <3> HIDE DEF N
    <3> QED  BY <2>1, FS_Interval
  <2> QED  BY <2>1, <2>2
<1>2. \A k \in DOMAIN events : events[k].seq \in Nat
  <2>1. \A k \in DOMAIN events : events[k] \in Events
    BY ElementOfSeq, <1>1
  <2> QED  BY <2>1 DEF Events
<1> HIDE DEF N
<1>3. ASSUME NEW k \in DOMAIN events
      PROVE  B(k) \subseteq 1 .. N /\ k \in B(k) /\ Place(events, k) = Cardinality(B(k))
  BY <1>1, <1>2 DEF NoLater, Place
<1>4. ASSUME NEW k \in DOMAIN events
      PROVE  IsFiniteSet(B(k)) /\ Cardinality(B(k)) \in Nat /\ Cardinality(B(k)) <= N
             /\ Cardinality(B(k)) # 0
  <2> HIDE DEF B
  <2>1. IsFiniteSet(B(k)) /\ Cardinality(B(k)) <= N
    BY <1>1, <1>3, FS_Subset
  <2>2. Cardinality(B(k)) \in Nat
    BY <2>1, FS_CardinalityType
  <2>3. Cardinality(B(k)) # 0
    BY <2>1, <1>3, FS_EmptySet
  <2> QED  BY <2>1, <2>2, <2>3
<1>5. ASSUME NEW k \in DOMAIN events, NEW l \in DOMAIN events, NoLater(events, k, l), k # l
      PROVE  Place(events, k) < Place(events, l)
  <2>1. B(k) \subseteq B(l) /\ l \notin B(k) /\ l \in B(l)
    BY <1>1, <1>2, <1>5 DEF NoLater
  <2> HIDE DEF B
  <2>2. Cardinality(B(k)) <= Cardinality(B(l)) /\ Cardinality(B(k)) # Cardinality(B(l))
    BY <2>1, <1>4, FS_Subset
  <2> QED  BY <2>2, <1>3, <1>4
<1>6. i # j => NoLater(events, i, j) \/ NoLater(events, j, i)
  BY <1>1, <1>2 DEF NoLater
<1>7. Place(events, i) \in 1 .. N
  <2> HIDE DEF B
  <2> QED  BY <1>1, <1>3, <1>4
<1>8. Place(events, i) \in Nat /\ Place(events, j) \in Nat
  <2> HIDE DEF B
  <2> QED  BY <1>3, <1>4
<1> QED  BY <1>5, <1>6, <1>7, <1>8 DEF N

\* The sorted events are the events, each once, in the order of their numbers and,
\* where these are equal, of their arrival.
LEMMA SortIsStable ==
    ASSUME NEW events \in Seq(Events)
    PROVE  \E p \in [DOMAIN events -> DOMAIN events] :
              /\ \A n \in DOMAIN events : BySequence(events)[n] = events[p[n]]
              /\ \A i \in DOMAIN events : \E n \in DOMAIN events : p[n] = i
              /\ \A n, m \in DOMAIN events : n < m => p[n] # p[m]
                                                     /\ ~NoLater(events, p[m], p[n])
<1> DEFINE D == DOMAIN events
           q == [i \in D |-> Place(events, i)]
           p == [n \in D |-> CHOOSE i \in D : Place(events, i) = n]
<1>1. D = 1 .. Len(events) /\ Len(events) \in Nat
  BY LenProperties
<1>2. IsFiniteSet(D)
  BY <1>1, FS_Interval
<1>3. q \in Injection(D, D)
  <2>1. \A i \in D : Place(events, i) \in D
    BY PlaceIsOneToOne, <1>1
  <2>2. \A i, j \in D : i # j => Place(events, i) # Place(events, j)
    BY PlaceIsOneToOne
  <2> HIDE DEF D
  <2>3. q \in [D -> D] /\ \A i, j \in D : i # j => q[i] # q[j]
    BY <2>1, <2>2
  <2> QED  BY <2>3 DEF Injection, IsInjective
<1>4. q \in Surjection(D, D)
  <2> HIDE DEF q, D
  <2> QED  BY <1>2, <1>3, FS_Injection
<1>5. ASSUME NEW n \in D PROVE p[n] \in D /\ Place(events, p[n]) = n
  <2>1. \E i \in D : q[i] = n
    <3> HIDE DEF q, D
    <3> QED  BY <1>4 DEF Surjection
  <2>2. \E i \in D : Place(events, i) = n
    BY <2>1
  <2> HIDE DEF D
  <2> QED  BY <2>2
<1>6. \A n \in D : BySequence(events)[n] = events[p[n]]
  BY DEF BySequence
<1>7. ASSUME NEW i \in D PROVE \E n \in D : p[n] = i
  <2>1. Place(events, i) \in D
    BY PlaceIsOneToOne, <1>1
  <2>2. Place(events, p[Place(events, i)]) = Place(events, i) /\ p[Place(events, i)] \in D
    BY <2>1, <1>5
  <2> HIDE DEF p, D
  <2>3. p[Place(events, i)] = i
    BY <2>2, PlaceIsOneToOne DEF D
  <2> QED  BY <2>1, <2>3
<1> HIDE DEF p, q
<1>8. ASSUME NEW n \in D, NEW m \in D, n < m
      PROVE  p[n] # p[m] /\ ~NoLater(events, p[m], p[n])
  <2>1. p[n] \in D /\ p[m] \in D /\ Place(events, p[n]) = n /\ Place(events, p[m]) = m
    BY <1>5
  <2>2. n \in Nat /\ m \in Nat
    BY <1>1
  <2>3. NoLater(events, p[m], p[n]) /\ p[m] # p[n] => m < n
    BY <2>1, PlaceIsOneToOne
  <2> QED  BY <2>1, <2>2, <2>3, <1>8
<1>9. p \in [D -> D]
  BY <1>5 DEF p
<1> QED  BY <1>6, <1>7, <1>8, <1>9

-----------------------------------------------------------------------------
(* The page's messages.                                                    *)

\* A chunk of a message has a number, and a complete text is of some of them.
Chunked(e) ==
    /\ e.kind = "delta" => e.chunk # 0
    /\ e.kind = "answer" => e.after <= e.chunk

\* The chunks of a text, and one more of them.
LEMMA ChunksAre ==
    ASSUME NEW n \in Nat, NEW b \in 0 .. n
    PROVE  /\ Chunks(b, n) \in Seq(1 .. n) /\ Len(Chunks(b, n)) = n - b
           /\ Append(Chunks(b, n), n + 1) = Chunks(b, n + 1)
           /\ \A k \in Nat : n <= k => Chunks(b, n) \in Seq(1 .. k)
<1>0. n - b \in Nat /\ b \in Nat /\ (n + 1) - b = (n - b) + 1
  OBVIOUS
<1>1. ASSUME NEW k \in Nat, n <= k PROVE Chunks(b, n) \in Seq(1 .. k)
  <2>1. \A i \in 1 .. n - b : b + i \in 1 .. k
    BY <1>0, <1>1
  <2> QED  BY <1>0, <2>1 DEF Chunks
<1>2. Chunks(b, n) \in Seq(1 .. n) /\ Len(Chunks(b, n)) = n - b
  BY <1>0, <1>1 DEF Chunks
<1>3. Chunks(b, n + 1) \in Seq(1 .. (n + 1)) /\ Len(Chunks(b, n + 1)) = (n - b) + 1
  <2>1. \A i \in 1 .. (n - b) + 1 : b + i \in 1 .. (n + 1)
    BY <1>0
  <2> QED  BY <1>0, <2>1 DEF Chunks
<1> DEFINE s == Append(Chunks(b, n), n + 1)
           r == Chunks(b, n + 1)
<1>4. s \in Seq(1 .. (n + 1)) /\ Len(s) = (n - b) + 1
  <2>1. Chunks(b, n) \in Seq(1 .. (n + 1)) /\ n + 1 \in 1 .. (n + 1)
    BY <1>1
  <2> QED  BY <1>0, <1>2, <2>1
<1>5. ASSUME NEW i \in 1 .. (n - b) + 1 PROVE s[i] = r[i]
  <2>1. r[i] = b + i
    BY <1>0 DEF Chunks
  <2>2. CASE i = (n - b) + 1
    BY <1>0, <1>2, <2>1, <2>2
  <2>3. CASE i # (n - b) + 1
    <3>1. i \in 1 .. n - b
      BY <1>0, <2>3
    <3>2. Chunks(b, n)[i] = b + i
      BY <3>1 DEF Chunks
    <3> QED  BY <1>0, <1>2, <2>1, <3>1, <3>2
  <2> QED  BY <2>2, <2>3
<1> HIDE DEF s, r
<1>6. s = r
  BY <1>0, <1>3, <1>4, <1>5, SeqEqual DEF r
<1> QED  BY <1>1, <1>2, <1>6 DEF s, r

\* No chunks are the empty text.
LEMMA NoChunks == Chunks(0, 0) = <<>>
<1>1. Chunks(0, 0) \in Seq(1 .. 0) /\ Len(Chunks(0, 0)) = 0 - 0
  BY ChunksAre
<1> QED  BY <1>1

\* What an event makes of the turn's message.
LEMMA MergeMessageIs ==
    ASSUME NEW m \in Messages, NEW e \in Events, Chunked(e)
    PROVE  LET r == MergeMessage(m, e)
           IN  /\ r \in Messages
               /\ r.kind = m.kind /\ r.turn = m.turn /\ r.sub = m.sub
               /\ e.kind = "quiet" => r = m
               /\ e.kind # "quiet" => r.text = MergeText(m.text, e)
               /\ r.pending => m.pending /\ e.kind = "quiet"
<1>1. m.text \in Seq(1 .. MaxChunks) /\ e.chunk \in 0 .. MaxChunks /\ MaxChunks \in Nat
  BY ThreadWorkspaceAssumption DEF Messages, Events
<1>2. MergeText(m.text, e) \in Seq(1 .. MaxChunks)
  <2>1. e.kind = "delta" => Append(m.text, e.chunk) \in Seq(1 .. MaxChunks)
    BY <1>1 DEF Chunked
  <2>2. e.kind = "answer" => Chunks(e.after, e.chunk) \in Seq(1 .. MaxChunks)
    <3> HAVE e.kind = "answer"
    <3>1. e.chunk \in Nat /\ e.chunk <= MaxChunks /\ e.after \in 0 .. e.chunk
      BY <1>1 DEF Chunked, Events
    <3> QED  BY <1>1, <3>1, ChunksAre
  <2> QED  BY <1>1, <2>1, <2>2 DEF MergeText
<1>3. m = [kind |-> m.kind, turn |-> m.turn, sub |-> m.sub, text |-> m.text, pending |-> m.pending]
  BY DEF Messages
<1>4. e.kind # "quiet" => MergeMessage(m, e) =
        [kind |-> m.kind, turn |-> m.turn, sub |-> m.sub, text |-> MergeText(m.text, e), pending |-> FALSE]
  BY <1>3 DEF MergeMessage, Settle
<1>5. e.kind = "quiet" => MergeMessage(m, e) = m
  BY DEF MergeMessage
<1> DEFINE r == MergeMessage(m, e)
<1>6. CASE e.kind = "quiet"
  BY <1>5, <1>6
<1>7. CASE e.kind # "quiet"
  <2> DEFINE text == MergeText(m.text, e)
  <2>1. r = [kind |-> m.kind, turn |-> m.turn, sub |-> m.sub, text |-> text, pending |-> FALSE]
    BY <1>4, <1>7
  <2>2. text \in Seq(1 .. MaxChunks)
    BY <1>2
  <2> HIDE DEF text, r
  <2>3. r \in Messages
    BY <2>1, <2>2 DEF Messages
  <2>4. r.kind = m.kind /\ r.turn = m.turn /\ r.sub = m.sub /\ r.text = text /\ r.pending = FALSE
    BY <2>1
  <2> QED  BY <2>3, <2>4, <1>7 DEF r, text
<1> QED  BY <1>6, <1>7

\* A message a turn begins with is empty and neither awaited nor a prompt's.
LEMMA NewMessageIs ==
    ASSUME NEW t \in Turns
    PROVE  /\ NewMessage(t) \in Messages /\ NewMessage(t).kind = "agent" /\ NewMessage(t).turn = t
           /\ NewMessage(t).sub = 0 /\ NewMessage(t).text = <<>> /\ NewMessage(t).pending = FALSE
<1>1. 0 \in 0 .. MaxSubmits /\ t \in 0 .. MaxTurns
  BY ThreadWorkspaceAssumption DEF Turns
<1> QED  BY <1>1 DEF NewMessage, Messages

\* An event changes the first message of its turn, adds one or does nothing.
LEMMA MergeCases ==
    ASSUME NEW messages \in Seq(Messages), NEW e \in Events, Chunked(e)
    PROVE  \/ \E i \in Mine(messages, e.turn) :
                 /\ Merge(messages, e) = [messages EXCEPT ![i] = MergeMessage(messages[i], e)]
                 /\ \A j \in Mine(messages, e.turn) : i <= j
           \/ /\ Mine(messages, e.turn) = {}
              /\ e.kind \in {"started", "quiet", "ended"} /\ Merge(messages, e) = messages
           \/ /\ Mine(messages, e.turn) = {} /\ e.kind \notin {"started", "quiet", "ended"}
              /\ Merge(messages, e) = Append(messages, MergeMessage(NewMessage(e.turn), e))
<1> DEFINE mine == Mine(messages, e.turn)
<1>1. CASE mine = {}
  BY <1>1 DEF Merge
<1>2. CASE mine # {}
  <2>1. mine \in SUBSET Nat
    BY DEF Mine
  <2>2. Min(mine) \in mine /\ \A j \in mine : Min(mine) <= j
    BY <1>2, <2>1, MinIsLeast
  <2>3. Merge(messages, e) = [messages EXCEPT ![Min(mine)] = MergeMessage(messages[Min(mine)], e)]
    BY <1>2 DEF Merge
  <2> QED  BY <2>2, <2>3
<1> QED  BY <1>1, <1>2

\* Messages stay in a set that is closed under what events make of them.
LEMMA MergeIn ==
    ASSUME NEW X \in SUBSET Messages, NEW messages \in Seq(X), NEW e \in Events, Chunked(e),
           \A m \in X : MergeMessage(m, e) \in X,
           e.kind # "quiet" => MergeMessage(NewMessage(e.turn), e) \in X
    PROVE  Merge(messages, e) \in Seq(X)
<1>0. messages \in Seq(Messages)
  BY SeqMonotonic
<1>1. CASE \E i \in Mine(messages, e.turn) :
              Merge(messages, e) = [messages EXCEPT ![i] = MergeMessage(messages[i], e)]
  <2>1. PICK i \in Mine(messages, e.turn) :
              Merge(messages, e) = [messages EXCEPT ![i] = MergeMessage(messages[i], e)]
    BY <1>1
  <2>2. i \in 1 .. Len(messages) /\ messages[i] \in X
    BY DEF Mine
  <2>3. MergeMessage(messages[i], e) \in X
    BY <2>2
  <2> QED  BY <2>1, <2>2, <2>3
<1>2. CASE Merge(messages, e) = messages
  BY <1>2
<1>3. CASE /\ e.kind \notin {"started", "quiet", "ended"}
           /\ Merge(messages, e) = Append(messages, MergeMessage(NewMessage(e.turn), e))
  BY <1>3
<1> QED  BY <1>0, <1>1, <1>2, <1>3, MergeCases

\* What an event of one turn does to the messages of each.
LEMMA MergeShows ==
    ASSUME NEW messages \in Seq(Messages), NEW e \in Events, Chunked(e),
           NEW t \in Turns, NEW k \in 0 .. MaxChunks, NEW b \in 0 .. k, Shows(messages, t, b, k),
           e.turn = t /\ e.kind = "delta" => e.chunk = k + 1,
           e.turn = t /\ e.kind = "answer" => e.chunk = k
    PROVE  Shows(Merge(messages, e), t,
                 IF e.turn = t /\ e.kind = "answer" THEN e.after ELSE b,
                 IF e.turn = t /\ e.kind = "delta" THEN k + 1 ELSE k)
<1> DEFINE r == Merge(messages, e)
           n == IF e.turn = t /\ e.kind = "delta" THEN k + 1 ELSE k
           a == IF e.turn = t /\ e.kind = "answer" THEN e.after ELSE b
<1>0. k \in Nat /\ b \in 0 .. k /\ Chunks(0, 0) = <<>> /\ e.turn \in Turns
  BY ThreadWorkspaceAssumption, NoChunks DEF Events
<1>1. e.turn = t => MergeText(Chunks(b, k), e) = Chunks(a, n)
  BY <1>0, ChunksAre DEF MergeText
<1>n. e.turn # t => n = k /\ a = b
  OBVIOUS
<1>q. e.kind \notin {"delta", "answer"} => n = k /\ a = b
  OBVIOUS
<1> SUFFICES Shows(r, t, a, n)
  OBVIOUS
<1> HIDE DEF n, a
<1>2. CASE \E i \in Mine(messages, e.turn) : r = [messages EXCEPT ![i] = MergeMessage(messages[i], e)]
  <2>1. PICK i \in Mine(messages, e.turn) : r = [messages EXCEPT ![i] = MergeMessage(messages[i], e)]
    BY <1>2
  <2>2. i \in DOMAIN messages /\ messages[i] \in Messages /\ IsAgent(messages[i], e.turn)
    BY DEF Mine
  <2>3. DOMAIN r = DOMAIN messages /\ r[i] = MergeMessage(messages[i], e)
        /\ \A j \in DOMAIN messages : j # i => r[j] = messages[j]
    BY <2>1, <2>2
  <2>4. r[i].kind = messages[i].kind /\ r[i].turn = messages[i].turn
        /\ (e.kind = "quiet" => r[i] = messages[i])
        /\ (e.kind # "quiet" => r[i].text = MergeText(messages[i].text, e))
    BY <2>2, <2>3, MergeMessageIs
  <2> HIDE DEF r
  <2>5. Mine(r, t) = Mine(messages, t)
    BY <2>3, <2>4 DEF Mine, IsAgent
  <2>6. CASE e.turn = t
    <3>1. messages[i].text = Chunks(b, k) /\ \A j \in Mine(messages, t) : i = j
      BY <2>6 DEF Shows
    <3>2. r[i].text = Chunks(a, n)
      <4>1. CASE e.kind # "quiet"
        BY <2>4, <2>6, <3>1, <1>1, <4>1
      <4>2. CASE e.kind = "quiet"
        BY <2>4, <2>6, <3>1, <4>2, <1>q
      <4> QED  BY <4>1, <4>2
    <3>3. i \in Mine(messages, t)
      BY <2>6
    <3> QED  BY <2>5, <3>1, <3>2, <3>3 DEF Shows
  <2>7. CASE e.turn # t
    <3>1. \A j \in Mine(messages, t) : j # i /\ r[j] = messages[j]
      BY <2>2, <2>3, <2>7 DEF Mine, IsAgent
    <3> QED  BY <2>5, <3>1, <2>7, <1>n DEF Shows
  <2> QED  BY <2>6, <2>7
<1>3. CASE Mine(messages, e.turn) = {} /\ e.kind \in {"started", "quiet", "ended"} /\ r = messages
  <2>1. n = k /\ a = b
    BY <1>3, <1>q
  <2> QED  BY <1>3, <2>1
<1>4. CASE Mine(messages, e.turn) = {} /\ e.kind \notin {"started", "quiet", "ended"}
           /\ r = Append(messages, MergeMessage(NewMessage(e.turn), e))
  <2> DEFINE new == MergeMessage(NewMessage(e.turn), e)
             last == Len(messages) + 1
  <2>1. new \in Messages /\ new.kind = "agent" /\ new.turn = e.turn /\ new.text = MergeText(<<>>, e)
    <3>1. NewMessage(e.turn) \in Messages /\ NewMessage(e.turn).kind = "agent"
          /\ NewMessage(e.turn).turn = e.turn /\ NewMessage(e.turn).text = <<>>
      BY <1>0, NewMessageIs
    <3> QED  BY <1>4, <3>1, MergeMessageIs
  <2> HIDE DEF new
  <2>2. Len(messages) \in Nat /\ DOMAIN messages = 1 .. Len(messages) /\ r = Append(messages, new)
    BY <1>4 DEF new
  <2>3. DOMAIN r = 1 .. last /\ r[last] = new /\ \A j \in DOMAIN messages : r[j] = messages[j]
    BY <2>1, <2>2
  <2> HIDE DEF r
  <2>4. CASE e.turn = t
    <3>1. k = 0 /\ b = 0 /\ Mine(messages, t) = {}
      BY <1>0, <1>4, <2>4 DEF Shows
    <3>2. Mine(r, t) = {last}
      BY <2>1, <2>2, <2>3, <2>4, <3>1 DEF Mine, IsAgent
    <3>3. r[last].text = Chunks(a, n)
      <4>1. MergeText(<<>>, e) = Chunks(a, n)
        BY <1>0, <1>1, <2>4, <3>1
      <4> QED  BY <4>1, <2>1, <2>3
    <3> QED  BY <3>2, <3>3 DEF Shows
  <2>5. CASE e.turn # t
    <3>1. Mine(r, t) = Mine(messages, t)
      BY <2>1, <2>2, <2>3, <2>5 DEF Mine, IsAgent
    <3>2. \A j \in Mine(messages, t) : r[j] = messages[j]
      BY <2>3 DEF Mine
    <3> QED  BY <3>1, <3>2, <2>5, <1>n DEF Shows
  <2> QED  BY <2>4, <2>5
<1> QED  BY <1>2, <1>3, <1>4, MergeCases

-----------------------------------------------------------------------------
(* What the page makes of the events it reads.                             *)

\* Messages of turns up to the n-th that were merged from events.
Merged(n) == {m \in Messages : /\ m.kind = "agent" /\ m.turn \in 1 .. n
                               /\ m.sub = 0 /\ m.pending = FALSE}

\* The sorted events are the events, all of them.
LEMMA SortedIs ==
    ASSUME NEW events \in Seq(Events)
    PROVE  /\ BySequence(events) \in Seq(Events) /\ Len(BySequence(events)) = Len(events)
           /\ \A n \in 1 .. Len(events) : \E i \in 1 .. Len(events) :
                 BySequence(events)[n] = events[i]
           /\ \A i \in 1 .. Len(events) : \E n \in 1 .. Len(events) :
                 BySequence(events)[n] = events[i]
<1> DEFINE D == DOMAIN events
           s == BySequence(events)
<1>1. D = 1 .. Len(events) /\ Len(events) \in Nat /\ \A i \in D : events[i] \in Events
  BY LenProperties, ElementOfSeq
<1>2. PICK p \in [D -> D] : /\ \A n \in D : s[n] = events[p[n]]
                            /\ \A i \in D : \E n \in D : p[n] = i
  BY SortIsStable
<1>3. \A n \in D : p[n] \in D
  OBVIOUS
<1>4. DOMAIN s = D /\ s = [n \in D |-> s[n]]
  BY DEF BySequence
<1> HIDE DEF s, D
<1>5. \A n \in D : s[n] \in Events
  BY <1>1, <1>2, <1>3
<1>6. s \in [1 .. Len(events) -> Events]
  BY <1>1, <1>4, <1>5
<1>7. s \in Seq(Events) /\ Len(s) = Len(events)
  BY <1>1, <1>6, IsASeq, LenProperties
<1>8. \A i \in D : \E n \in D : s[n] = events[i]
  BY <1>2
<1>9. \A n \in D : \E i \in D : s[n] = events[i]
  BY <1>2, <1>3
<1> QED  BY <1>1, <1>7, <1>8, <1>9 DEF s

\* What is merged into a message of the history leaves it one.
LEMMA MergedStays ==
    ASSUME NEW n \in Nat, NEW e \in Events, Chunked(e), e.turn <= n
    PROVE  /\ \A m \in Merged(n) : MergeMessage(m, e) \in Merged(n)
           /\ e.kind # "quiet" => MergeMessage(NewMessage(e.turn), e) \in Merged(n)
<1>1. \A m \in Merged(n) : MergeMessage(m, e) \in Merged(n)
  <2> SUFFICES ASSUME NEW m \in Merged(n) PROVE MergeMessage(m, e) \in Merged(n)
    OBVIOUS
  <2> DEFINE r == MergeMessage(m, e)
  <2>1. m \in Messages /\ r \in Messages /\ r.kind = m.kind /\ r.turn = m.turn /\ r.sub = m.sub
        /\ (r.pending => m.pending)
    BY MergeMessageIs DEF Merged
  <2>2. r.pending = FALSE
    BY <2>1 DEF Merged, Messages
  <2> HIDE DEF r
  <2>3. r \in Merged(n)
    BY <2>1, <2>2 DEF Merged
  <2> QED  BY <2>3 DEF r
<1>2. ASSUME e.kind # "quiet" PROVE MergeMessage(NewMessage(e.turn), e) \in Merged(n)
  <2> DEFINE m == NewMessage(e.turn)
             r == MergeMessage(m, e)
  <2>0. e.turn \in Turns /\ e.turn \in 1 .. n
    BY ThreadWorkspaceAssumption DEF Events, Turns
  <2>1. m \in Messages /\ m.kind = "agent" /\ m.turn = e.turn /\ m.sub = 0 /\ m.pending = FALSE
    BY <2>0, NewMessageIs
  <2> HIDE DEF m
  <2>2. r \in Messages /\ r.kind = m.kind /\ r.turn = m.turn /\ r.sub = m.sub
        /\ (r.pending => m.pending)
    BY <2>1, MergeMessageIs
  <2>3. r.pending = FALSE
    BY <2>1, <2>2 DEF Messages
  <2> HIDE DEF r
  <2>4. r \in Merged(n)
    BY <2>0, <2>1, <2>2, <2>3 DEF Merged
  <2> QED  BY <2>4 DEF r, m
<1> QED  BY <1>1, <1>2

\* The messages read are the agent's, of the turns of the events.
LEMMA HistoryIn ==
    ASSUME NEW n \in Nat, NEW events \in Seq(Events),
           \A i \in 1 .. Len(events) : Chunked(events[i]) /\ events[i].turn <= n
    PROVE  History(events) \in Seq(Merged(n))
<1> DEFINE s == BySequence(events)
<1>1. s \in Seq(Events) /\ Len(s) \in Nat
  BY SortedIs, LenProperties
<1>2. ASSUME NEW i \in 1 .. Len(s) PROVE s[i] \in Events /\ Chunked(s[i]) /\ s[i].turn <= n
  <2>1. \E j \in 1 .. Len(events) : s[i] = events[j]
    BY SortedIs
  <2>2. s[i] \in Events
    BY <1>1
  <2> QED  BY <2>1, <2>2
<1> HIDE DEF s
<1>3. PICK f : /\ f[0] = <<>>
               /\ \A i \in 1 .. Len(s) : f[i] = Merge(f[i - 1], s[i])
               /\ MergeAll(s) = f[Len(s)]
  BY <1>1, MergeAllSteps
<1> DEFINE T == {i \in Nat : i <= Len(s) => f[i] \in Seq(Merged(n))}
<1>4. 0 \in T
  <2>1. <<>> \in Seq(Merged(n))
    OBVIOUS
  <2> QED  BY <1>3, <2>1
<1>5. ASSUME NEW i \in Nat, i \in T PROVE i + 1 \in T
  <2> SUFFICES ASSUME i + 1 <= Len(s) PROVE f[i + 1] \in Seq(Merged(n))
    OBVIOUS
  <2>1. f[i] \in Seq(Merged(n)) /\ i + 1 \in 1 .. Len(s) /\ (i + 1) - 1 = i
    BY <1>1, <1>5
  <2>2. f[i + 1] = Merge(f[i], s[i + 1])
    BY <1>3, <2>1
  <2>3. Merged(n) \in SUBSET Messages
    BY DEF Merged
  <2>4. /\ \A m \in Merged(n) : MergeMessage(m, s[i + 1]) \in Merged(n)
        /\ s[i + 1].kind # "quiet" => MergeMessage(NewMessage(s[i + 1].turn), s[i + 1]) \in Merged(n)
    BY <1>2, <2>1, MergedStays
  <2>5. s[i + 1] \in Events /\ Chunked(s[i + 1])
    BY <1>2, <2>1
  <2> HIDE DEF T
  <2>6. Merge(f[i], s[i + 1]) \in Seq(Merged(n))
    BY <2>1, <2>3, <2>4, <2>5, MergeIn
  <2> QED  BY <2>2, <2>6
<1>6. Len(s) \in T
  <2> HIDE DEF T
  <2> QED  BY <1>1, <1>4, <1>5, Induction
<1> QED  BY <1>1, <1>3, <1>6 DEF History, s

\* Sorted by number, the events of a turn keep the order in which they were sent.
LEMMA SortedInOrder ==
    ASSUME NEW events \in Seq(Events), Ordered(events),
           \A i \in 1 .. Len(events) : ~events[i].legacy,
           NEW n \in 1 .. Len(events), NEW m \in 1 .. Len(events), n < m,
           BySequence(events)[n].turn = BySequence(events)[m].turn
    PROVE  Before(BySequence(events)[n], BySequence(events)[m])
<1> DEFINE D == DOMAIN events
           s == BySequence(events)
<1>1. D = 1 .. Len(events) /\ Len(events) \in Nat /\ \A i \in D : events[i].seq \in Nat
  <2>1. D = 1 .. Len(events) /\ Len(events) \in Nat /\ \A i \in D : events[i] \in Events
    BY LenProperties, ElementOfSeq
  <2> QED  BY <2>1 DEF Events
<1>2. PICK p \in [D -> D] :
         /\ \A i \in D : s[i] = events[p[i]]
         /\ \A i, j \in D : i < j => p[i] # p[j] /\ ~NoLater(events, p[j], p[i])
  BY SortIsStable
<1>3. p[n] \in D /\ p[m] \in D /\ p[n] # p[m] /\ ~NoLater(events, p[m], p[n])
      /\ s[n] = events[p[n]] /\ s[m] = events[p[m]]
  BY <1>1, <1>2
<1>4. p[n] < p[m] \/ p[m] < p[n]
  BY <1>1, <1>3
<1>5. ASSUME p[m] < p[n] PROVE FALSE
  <2>1. Before(events[p[m]], events[p[n]])
    BY <1>1, <1>3, <1>5 DEF Ordered
  <2>2. events[p[m]].seq < events[p[n]].seq
    BY <2>1, <1>3 DEF Before
  <2> QED  BY <1>3, <2>2 DEF NoLater
<1> HIDE DEF s, D
<1>6. Before(events[p[n]], events[p[m]])
  BY <1>1, <1>3, <1>4, <1>5 DEF Ordered, D
<1> QED  BY <1>3, <1>6 DEF s

\* A page that reads every chunk of a turn, and the text of its last complete message,
\* shows what there is from the beginning of that message, once.
LEMMA HistoryShows ==
    ASSUME NEW events \in Seq(Events), Ordered(events), NEW t \in Turns, NEW c \in 0 .. MaxChunks,
           NEW w \in 0 .. c, NEW a \in 0 .. w, w = 0 => a = 0,
           \A i \in 1 .. Len(events) : Chunked(events[i]) /\ ~events[i].legacy,
           \A i \in 1 .. Len(events) : events[i].turn = t =>
               /\ events[i].kind = "delta" => events[i].chunk \in 1 .. c
               /\ events[i].kind = "answer" => /\ events[i].chunk \in 1 .. w
                                               /\ events[i].chunk = w => events[i].after = a,
           \A d \in 1 .. c : \E i \in DOMAIN events : IsChunk(events[i], t, d),
           w # 0 => \E i \in DOMAIN events :
               events[i].kind = "answer" /\ events[i].turn = t /\ events[i].chunk = w
    PROVE  Shows(History(events), t, a, c)
<1> DEFINE s == BySequence(events)
           N == Len(events)
<1>0. c \in Nat /\ MaxChunks \in Nat /\ c <= MaxChunks /\ w \in Nat /\ w <= c
  BY ThreadWorkspaceAssumption
<1>1. s \in Seq(Events) /\ Len(s) = N /\ N \in Nat /\ DOMAIN events = 1 .. N
  BY SortedIs, LenProperties
<1>2. ASSUME NEW i \in 1 .. N
      PROVE  /\ s[i] \in Events /\ Chunked(s[i])
             /\ s[i].turn = t /\ s[i].kind = "delta" => s[i].chunk \in 1 .. c
             /\ s[i].turn = t /\ s[i].kind = "answer" =>
                    s[i].chunk \in 1 .. w /\ (s[i].chunk = w => s[i].after = a)
  <2>1. PICK j \in 1 .. N : s[i] = events[j]
    BY SortedIs
  <2>2. s[i] \in Events
    BY <1>1
  <2>3. /\ Chunked(events[j])
        /\ events[j].turn = t /\ events[j].kind = "delta" => events[j].chunk \in 1 .. c
    OBVIOUS
  <2>4. events[j].turn = t /\ events[j].kind = "answer" =>
            events[j].chunk \in 1 .. w /\ (events[j].chunk = w => events[j].after = a)
    <3> SUFFICES ASSUME events[j].turn = t, events[j].kind = "answer"
                 PROVE  events[j].chunk \in 1 .. w /\ (events[j].chunk = w => events[j].after = a)
      OBVIOUS
    <3>1. j \in 1 .. Len(events)
      OBVIOUS
    <3> HIDE DEF s
    <3> QED  BY <3>1
  <2> HIDE DEF s, N
  <2> QED  BY <2>1, <2>2, <2>3, <2>4
<1>3. \A d \in 1 .. c : \E i \in 1 .. N : IsChunk(s[i], t, d)
  <2> TAKE d \in 1 .. c
  <2>1. PICK j \in 1 .. N : IsChunk(events[j], t, d)
    BY <1>1
  <2>2. PICK i \in 1 .. N : s[i] = events[j]
    BY SortedIs
  <2>3. IsChunk(s[i], t, d)
    BY <2>1, <2>2
  <2> HIDE DEF s, N
  <2> QED  BY <2>3
<1> DEFINE LastText(e) == e.kind = "answer" /\ e.turn = t /\ e.chunk = w
           Text(e) == e.kind = "answer" /\ e.turn = t
<1>t. w # 0 => \E i \in 1 .. N : LastText(s[i])
  <2> HAVE w # 0
  <2>1. PICK j \in 1 .. N : LastText(events[j])
    BY <1>1
  <2>2. PICK i \in 1 .. N : s[i] = events[j]
    BY SortedIs
  <2>3. LastText(s[i])
    BY <2>1, <2>2
  <2> HIDE DEF s, N
  <2> QED  BY <2>3
<1>4. \A i, j \in 1 .. N : i < j /\ s[i].turn = s[j].turn => Before(s[i], s[j])
  BY SortedInOrder
<1> HIDE DEF s, N
<1>5. PICK f : /\ f[0] = <<>>
               /\ \A i \in 1 .. Len(s) : f[i] = Merge(f[i - 1], s[i])
               /\ MergeAll(s) = f[Len(s)]
  BY <1>1, MergeAllSteps
<1> DEFINE Left(i, k) == \A d \in 1 .. c : d > k <=> \E j \in 1 .. N : i < j /\ IsChunk(s[j], t, d)
           From(i, b) == \/ \E j \in 1 .. N : i < j /\ LastText(s[j])
                         \/ b = a /\ \A j \in 1 .. N : i < j => ~Text(s[j])
           T == {i \in Nat : i <= N => /\ f[i] \in Seq(Messages)
                                       /\ \E k \in 0 .. c : \E b \in 0 .. k :
                                             Shows(f[i], t, b, k) /\ Left(i, k) /\ From(i, b)}
<1>6. 0 \in T
  <2>1. Shows(<<>>, t, 0, 0)
    BY DEF Shows, Mine
  <2>4. From(0, 0)
    <3>1. CASE w # 0
      BY <1>t, <3>1
    <3>2. CASE w = 0
      BY <1>2, <3>2
    <3> QED  BY <3>1, <3>2
  <2>2. Left(0, 0)
    BY <1>1, <1>3
  <2>3. <<>> \in Seq(Messages) /\ 0 \in 0 .. c /\ 0 \in 0 .. 0
    BY <1>0
  <2> HIDE DEF Left, From
  <2> QED  BY <1>5, <2>1, <2>2, <2>3, <2>4
<1>7. ASSUME NEW i \in Nat, i \in T PROVE i + 1 \in T
  <2> SUFFICES ASSUME i + 1 <= N
               PROVE  /\ f[i + 1] \in Seq(Messages)
                      /\ \E k \in 0 .. c : \E b \in 0 .. k :
                            Shows(f[i + 1], t, b, k) /\ Left(i + 1, k) /\ From(i + 1, b)
    <3>1. i + 1 \in Nat
      OBVIOUS
    <3> HIDE DEF Left, From
    <3> QED  BY <3>1, Zenon
  <2> DEFINE e == s[i + 1]
  <2>1. i + 1 \in 1 .. N /\ (i + 1) - 1 = i /\ i <= N
    BY <1>1
  <2>2. e \in Events /\ Chunked(e) /\ (e.turn = t /\ e.kind = "delta" => e.chunk \in 1 .. c)
        /\ (e.turn = t /\ e.kind = "answer" =>
               e.chunk \in 1 .. w /\ (e.chunk = w => e.after = a))
    BY <1>2, <2>1
  <2>3. f[i] \in Seq(Messages)
    BY <1>7, <2>1
  <2>4. PICK k \in 0 .. c : \E b \in 0 .. k : Shows(f[i], t, b, k) /\ Left(i, k) /\ From(i, b)
    BY <1>7, <2>1
  <2>b. PICK b \in 0 .. k : Shows(f[i], t, b, k) /\ Left(i, k) /\ From(i, b)
    BY <2>4
  <2>5. k \in 0 .. MaxChunks /\ k \in Nat
    BY <1>0
  <2>6. f[i + 1] = Merge(f[i], e)
    BY <1>1, <1>5, <2>1
  <2>7. f[i + 1] \in Seq(Messages)
    <3>1. \A m \in Messages : MergeMessage(m, e) \in Messages
      BY <2>2, MergeMessageIs
    <3>2. e.turn \in Turns
      BY <2>2 DEF Events
    <3>3. MergeMessage(NewMessage(e.turn), e) \in Messages
      BY <3>1, <3>2, NewMessageIs
    <3> HIDE DEF T, e, Left, From
    <3> QED  BY <2>2, <2>3, <2>6, <3>1, <3>3, MergeIn
  <2>8. ASSUME NEW j \in 1 .. N, i + 1 < j, s[j].turn = e.turn PROVE Before(e, s[j])
    BY <1>4, <2>1, <2>8
  <2>9. CASE e.turn = t /\ e.kind = "delta"
    <3>1. IsChunk(e, t, e.chunk) /\ e.chunk > k
      BY <1>1, <2>1, <2>2, <2>b, <2>9 DEF IsChunk
    <3>2. ASSUME k + 1 < e.chunk PROVE FALSE
      <4>1. k + 1 \in 1 .. c /\ k + 1 > k
        BY <1>0, <2>2, <2>5, <2>9, <3>2
      <4>2. PICK j \in 1 .. N : i < j /\ IsChunk(s[j], t, k + 1)
        BY <2>b, <4>1
      <4>3. j # i + 1
        <5>1. s[j].chunk = k + 1 /\ k + 1 \in Nat
          BY <2>5, <4>2 DEF IsChunk
        <5>2. e.chunk # k + 1
          BY <2>2, <2>5, <2>9, <3>2
        <5> QED  BY <5>1, <5>2
      <4>4. i + 1 < j
        BY <1>1, <4>2, <4>3
      <4>5. Before(e, s[j])
        BY <2>8, <2>9, <4>2, <4>4 DEF IsChunk
      <4>6. e.chunk < k + 1
        BY <2>9, <4>2, <4>5 DEF Before, IsChunk, Spoken
      <4> QED  BY <2>2, <2>5, <2>9, <3>2, <4>6
    <3>3. e.chunk = k + 1 /\ k + 1 \in 0 .. c
      BY <1>0, <2>2, <2>5, <2>9, <3>1, <3>2
    <3>4. Shows(f[i + 1], t, b, k + 1)
      <4> HIDE DEF T, e, Left, From
      <4> QED  BY <2>2, <2>3, <2>b, <2>5, <2>6, <2>9, <3>3, MergeShows
    <3>5. Left(i + 1, k + 1)
      <4> SUFFICES ASSUME NEW d \in 1 .. c
                   PROVE  d > k + 1 <=> \E j \in 1 .. N : i + 1 < j /\ IsChunk(s[j], t, d)
        OBVIOUS
      <4>1. ASSUME d > k + 1 PROVE \E j \in 1 .. N : i + 1 < j /\ IsChunk(s[j], t, d)
        <5>1. d > k
          BY <2>5, <4>1
        <5>2. PICK j \in 1 .. N : i < j /\ IsChunk(s[j], t, d)
          BY <2>b, <5>1
        <5>3. j # i + 1
          BY <2>5, <3>3, <4>1, <5>2 DEF IsChunk
        <5> QED  BY <5>2, <5>3
      <4>2. ASSUME NEW j \in 1 .. N, i + 1 < j, IsChunk(s[j], t, d) PROVE d > k + 1
        <5>1. Before(e, s[j])
          BY <2>8, <2>9, <4>2 DEF IsChunk
        <5>2. e.chunk < d
          BY <2>9, <4>2, <5>1 DEF Before, IsChunk, Spoken
        <5> QED  BY <3>3, <5>2
      <4> QED  BY <4>1, <4>2
    <3>6. From(i + 1, b)
      <4>1. ~LastText(e) /\ ~Text(e)
        BY <2>9
      <4> QED  BY <1>1, <2>1, <2>b, <4>1
    <3>7. b \in 0 .. k + 1
      BY <2>5
    <3> HIDE DEF Left, From
    <3> QED  BY <2>7, <3>3, <3>4, <3>5, <3>6, <3>7
  <2>10. CASE ~(e.turn = t /\ e.kind = "delta")
    <3>1. \A d \in 1 .. c : ~IsChunk(e, t, d)
      BY <2>10 DEF IsChunk
    <3>2. Left(i + 1, k)
      <4> SUFFICES ASSUME NEW d \in 1 .. c
                   PROVE  d > k <=> \E j \in 1 .. N : i + 1 < j /\ IsChunk(s[j], t, d)
        OBVIOUS
      <4>1. ASSUME NEW j \in 1 .. N, i < j, IsChunk(s[j], t, d) PROVE i + 1 < j
        <5>1. j # i + 1
          BY <3>1, <4>1
        <5> QED  BY <4>1, <5>1
      <4>2. ASSUME NEW j \in 1 .. N, i + 1 < j PROVE i < j
        BY <4>2
      <4> QED  BY <2>b, <4>1, <4>2
    <3>3. e.turn = t /\ e.kind = "answer" => e.chunk = k
      <4> SUFFICES ASSUME e.turn = t, e.kind = "answer" PROVE e.chunk = k
        OBVIOUS
      <4>0. e.chunk \in 1 .. c
        BY <1>0, <2>2
      <4>1. ASSUME e.chunk > k PROVE FALSE
        <5>1. PICK j \in 1 .. N : i + 1 < j /\ IsChunk(s[j], t, e.chunk)
          BY <3>2, <4>0, <4>1
        <5>2. Before(e, s[j])
          BY <2>8, <5>1 DEF IsChunk
        <5> QED  BY <4>0, <5>1, <5>2 DEF Before, IsChunk, Spoken
      <4>2. ASSUME e.chunk < k PROVE FALSE
        <5>1. PICK j \in 1 .. N : IsChunk(s[j], t, k)
          BY <1>3, <2>5, <4>0, <4>2
        <5>0. k \in 1 .. c /\ ~(k > k)
          BY <2>5, <4>0, <4>2
        <5>4. ~(i + 1 < j)
          BY <3>2, <5>0, <5>1
        <5>5. j # i + 1
          BY <3>1, <5>0, <5>1
        <5>2. ~(i + 1 < j) /\ j # i + 1
          BY <5>4, <5>5
        <5>3. Before(s[j], e)
          BY <1>4, <2>1, <5>1, <5>2 DEF IsChunk
        <5> QED  BY <2>5, <4>0, <4>2, <5>1, <5>3 DEF Before, IsChunk, Spoken
      <4> QED  BY <2>5, <4>0, <4>1, <4>2
    <3> DEFINE n == IF e.turn = t /\ e.kind = "answer" THEN e.after ELSE b
    <3>n. n \in 0 .. k
      BY <2>2, <3>3, <2>5 DEF Chunked, Events
    <3>4. Shows(f[i + 1], t, n, k)
      <4> HIDE DEF T, e, Left, From
      <4> QED  BY <2>2, <2>3, <2>b, <2>5, <2>6, <2>10, <3>3, MergeShows
    <3>5. From(i + 1, n)
      <4>1. CASE ~Text(e)
        <5>1. ~LastText(e) /\ n = b
          BY <4>1
        <5> QED  BY <1>1, <2>1, <2>b, <4>1, <5>1
      <4>2. CASE Text(e) /\ e.chunk = w
        <5>1. n = a
          BY <2>2, <4>2
        <5>2. ASSUME NEW j \in 1 .. N, i + 1 < j, Text(s[j]) PROVE FALSE
          <6>1. Before(e, s[j]) /\ s[j].chunk \in 1 .. w
            BY <1>2, <2>8, <4>2, <5>2
          <6> QED  BY <1>0, <4>2, <5>2, <6>1 DEF Before, Spoken
        <5> QED  BY <5>1, <5>2
      <4>3. CASE Text(e) /\ e.chunk # w
        <5>1. PICK j \in 1 .. N : i < j /\ LastText(s[j])
          BY <2>1, <2>b, <4>3
        <5>2. j # i + 1
          BY <4>3, <5>1
        <5>3. i + 1 < j /\ j \in 1 .. N
          BY <1>1, <5>1, <5>2
        <5> HIDE DEF LastText
        <5> QED  BY <5>1, <5>3
      <4> QED  BY <4>1, <4>2, <4>3
    <3> HIDE DEF Left, From, n
    <3> QED  BY <2>7, <3>2, <3>4, <3>5, <3>n
  <2> QED  BY <2>9, <2>10
<1>8. N \in T
  <2> HIDE DEF T
  <2> QED  BY <1>1, <1>6, <1>7, Induction
<1>9. PICK k \in 0 .. c : \E b \in 0 .. k : Shows(f[N], t, b, k) /\ Left(N, k) /\ From(N, b)
  BY <1>1, <1>8
<1>b. PICK b \in 0 .. k : Shows(f[N], t, b, k) /\ Left(N, k) /\ From(N, b)
  BY <1>9
<1>a. b = a
  BY <1>1, <1>b
<1>10. k = c
  <2> SUFFICES ASSUME k # c PROVE FALSE
    OBVIOUS
  <2>1. c \in 1 .. c /\ c > k
    BY <1>0
  <2>2. \E j \in 1 .. N : N < j
    BY <1>b, <2>1
  <2> QED  BY <1>1, <2>2
<1> QED  BY <1>1, <1>5, <1>b, <1>a, <1>10 DEF History, s

-----------------------------------------------------------------------------
(* The steps, by what they do to the events and to the page.               *)

\* What may be noted of a page.
Disturbances == {"missed", "crossed", "cut", "early"}

\* What is noted once more than a prompt sent early or a turn cut short is all there is.
LEMMA NotedIs ==
    ASSUME TypeOK, NEW what \in SUBSET Disturbances
    PROVE  /\ Noted(what) \subseteq Disturbances
           /\ "missed" \notin Noted(what) => "missed" \notin past \cup what
           /\ Noted(what) \subseteq {"early", "cut"} => Noted(what) = past \cup what
<1> past \subseteq Disturbances
  BY DEF TypeOK, Disturbances
<1> QED  BY DEF Noted, Disturbances

\* The agent, or the client for it, sends an event of the timeline or the legacy
\* end of an interrupted turn.
Emits(e) ==
    /\ pipe' = Append(pipe, e)
    /\ UNCHANGED <<hubVars, netVars, get, page, counts, got>>
    /\ e.turn \in 1 .. begun' /\ Chunked(e)
    /\ IF e.kind = "started"
         THEN /\ running = 0 /\ stopping = 0 /\ e.turn = begun + 1
              /\ running' = e.turn /\ begun' = e.turn
         ELSE /\ begun' = begun
              /\ running' = IF e.kind = "ended" /\ ~e.legacy THEN 0 ELSE running
    /\ IF e.legacy
         THEN e.kind = "ended" /\ e.turn = stopping /\ stopping' = 0 /\ sequence' = sequence
         ELSE /\ e.seq = sequence[e.turn] + 1
              /\ stopping' = stopping \/ (e.kind = "ended" /\ stopping' = e.turn)
              /\ sequence' = [sequence EXCEPT ![e.turn] = IF e.kind = "ended" THEN 0 ELSE @ + 1]
    /\ (e.kind = "ended" /\ ~e.legacy) => e.turn = running
    /\ IF e.kind = "delta"
         THEN /\ e.turn = running /\ e.chunk = said[e.turn] + 1
              /\ said' = [said EXCEPT ![e.turn] = @ + 1] /\ said[e.turn] < MaxChunks
         ELSE said' = said
    /\ IF e.kind = "answer"
         THEN /\ e.turn = running /\ e.chunk = said[e.turn] /\ e.after = whole[e.turn]
              /\ whole[e.turn] < said[e.turn]
              /\ first' = [first EXCEPT ![e.turn] = whole[e.turn]]
              /\ whole' = [whole EXCEPT ![e.turn] = said[e.turn]]
         ELSE UNCHANGED <<whole, first>>
    /\ "missed" \notin past' => "missed" \notin past
    /\ Smooth' => /\ past' = past
                  /\ get.pc \notin {"asked", "read", "ready"}
                  /\ e.legacy \/ e.kind = "started" \/ e.turn = running
    /\ \/ post' = post
       \/ /\ e.kind = "started" /\ post.pc = "sent"
          /\ \E told \in {"ok", "refused"} : post' = [pc |-> told, turn |-> e.turn]
    /\ \/ stop' = stop
       \/ /\ e.kind = "ended" /\ ~e.legacy /\ stop.pc = "sent" /\ stop.turn = running
          /\ \E told \in {"ok", "refused"} : stop' = [stop EXCEPT !.pc = told]

\* When the note is calm after a step it was before, and what was noted is calm too.
LEMMA NotedCalm ==
    ASSUME TypeOK, NEW what \in SUBSET Disturbances, past' = Noted(what)
    PROVE  /\ "missed" \notin past' => "missed" \notin past \cup what
           /\ Smooth' => past' = past \cup what /\ what \subseteq {"early", "cut"}
<1>1. Smooth' => past' \subseteq {"early", "cut"}
  BY DEF Smooth
<1> QED  BY <1>1, NotedIs

\* A turn that starts, for this page or another console, sends its event.
LEMMA BeginEmits ==
    ASSUME TypeOK, StageInv, Begin(begun + 1),
           UNCHANGED <<hubVars, netVars, get, page, stop, counts, got>>,
           \/ UNCHANGED post
           \/ /\ post.pc = "sent"
              /\ \E told \in {"ok", "refused"} : post' = [pc |-> told, turn |-> begun + 1]
    PROVE  \E e \in Events : Emits(e)
<1> DEFINE t == begun + 1
           e == Event("started", t, 0)
<1>1. t \in Turns /\ begun \in Nat /\ sequence[t] \in Nat /\ running = 0 /\ stopping = 0
  <2>1. t \in Turns /\ running = 0 /\ stopping = 0
    BY DEF Begin
  <2>2. begun \in 0 .. MaxTurns /\ MaxTurns \in Nat /\ sequence \in [Turns -> Nat]
    BY ThreadWorkspaceAssumption DEF TypeOK
  <2> QED  BY <2>1, <2>2
<1>2. e \in Events
  <2>1. e.after = 0 /\ 0 \in 0 .. MaxChunks
    BY ThreadWorkspaceAssumption DEF Event
  <2> QED  BY <1>1, <2>1 DEF Event, Events, Kinds
<1>3. e.kind = "started" /\ e.turn = t /\ e.legacy = FALSE /\ e.seq = sequence[t] + 1
  BY DEF Event
<1>4. /\ pipe' = Append(pipe, e) /\ running' = t /\ begun' = t
      /\ sequence' = [sequence EXCEPT ![t] = @ + 1] /\ UNCHANGED <<said, whole, first, stopping>>
      /\ past' = Noted(Loading)
  BY DEF Begin
<1>5. Loading \in SUBSET Disturbances
  BY DEF Loading, Disturbances
<1>6. /\ "missed" \notin past' => "missed" \notin past
      /\ Smooth' => past' = past /\ get.pc \notin {"asked", "read", "ready"}
  BY <1>4, <1>5, NotedCalm DEF Loading
<1>7. e.turn \in 1 .. begun'
  BY <1>1, <1>3, <1>4
<1> HIDE DEF e, t
<1>8. Emits(e)
  BY <1>1, <1>3, <1>4, <1>6, <1>7 DEF Emits, Chunked, t
<1> QED  BY <1>2, <1>8

\* What is sent for a turn that does not run, or while the page loads, is noted.
LEMMA CrossingNoted ==
    ASSUME TypeOK, NEW t, past' = Noted(IF t = running THEN Loading ELSE {"crossed"})
    PROVE  /\ "missed" \notin past' => "missed" \notin past
           /\ Smooth' => /\ past' = past /\ get.pc \notin {"asked", "read", "ready"}
                         /\ t = running
<1> DEFINE what == IF t = running THEN Loading ELSE {"crossed"}
<1>1. past' = Noted(what)
  OBVIOUS
<1>2. what \in SUBSET Disturbances
  BY DEF Loading, Disturbances
<1>3. /\ "missed" \notin past' => "missed" \notin past
      /\ Smooth' => past' = past \cup what /\ what \subseteq {"early", "cut"}
  <2> HIDE DEF what
  <2> QED  BY <1>1, <1>2, NotedCalm
<1>4. Smooth' => /\ past' = past /\ get.pc \notin {"asked", "read", "ready"} /\ t = running
  BY <1>3 DEF Loading
<1> QED  BY <1>3, <1>4

\* The steps of the agent, and of the client for it, that send an event.
Agent ==
    \/ BeginElsewhere \/ BeginQuietItem \/ Stream \/ FinishAnswer \/ Ask
    \/ \E t \in Turns : Resolve(t)
    \/ Complete \/ StartTurn \/ InterruptTurn \/ ReportInterrupt

\* Each of them sends one event.
LEMMA AgentEmits ==
    ASSUME TypeOK, StageInv, Agent
    PROVE  \E e \in Events : Emits(e)
<1> USE ThreadWorkspaceAssumption
<1>1. running \in Nat /\ begun \in Nat /\ begun \in 0 .. MaxTurns /\ MaxTurns \in Nat
      /\ running \in {0, begun} /\ (running # 0 => running \in Turns /\ running \in 1 .. begun)
      /\ 0 \notin Turns
  BY DEF TypeOK, StageInv, Turns
<1>2. /\ MaxChunks \in Nat /\ 0 \in 0 .. MaxChunks
      /\ \A t \in Turns : /\ sequence[t] + 1 \in Nat /\ said[t] \in 0 .. MaxChunks
                          /\ whole[t] \in 0 .. MaxChunks
  <2>1. /\ sequence \in [Turns -> Nat] /\ said \in [Turns -> 0 .. MaxChunks]
        /\ whole \in [Turns -> 0 .. MaxChunks]
    BY DEF TypeOK
  <2> QED  BY <2>1
<1>3. CASE BeginElsewhere
  <2>1. Begin(begun + 1) /\ UNCHANGED <<hubVars, netVars, get, page, post, stop, counts, got>>
    BY <1>3 DEF BeginElsewhere
  <2> QED  BY <2>1, BeginEmits
<1>4. CASE StartTurn
  <2>1. /\ post.pc = "sent" /\ Begin(begun + 1)
        /\ \E told \in {"ok", "refused"} : post' = [pc |-> told, turn |-> begun + 1]
        /\ UNCHANGED <<hubVars, netVars, get, page, stop, counts, got>>
    BY <1>4 DEF StartTurn
  <2> QED  BY <2>1, BeginEmits
<1>5. CASE BeginQuietItem
  <2>1. running \in Turns /\ "quiet" \in Kinds /\ Emit("quiet", running, 0)
    BY <1>5, <1>1 DEF BeginQuietItem, Turns, Kinds
  <2>0. PICK e : e = Event("quiet", running, 0)
    OBVIOUS
  <2>2. /\ e \in Events /\ pipe' = Append(pipe, e)
        /\ e.kind = "quiet" /\ e.turn = running /\ e.legacy = FALSE
        /\ e.seq = sequence[running] + 1
        /\ "missed" \notin past' => "missed" \notin past
        /\ Smooth' => past' = past /\ get.pc \notin {"asked", "read", "ready"}
    <3>1. sequence[running] + 1 \in Nat /\ "quiet" \in Kinds /\ running \in Turns
          /\ 0 \in 0 .. MaxChunks
      BY <1>2, <2>1
    <3>2. /\ e \in Events /\ e.kind = "quiet" /\ e.turn = running /\ e.legacy = FALSE
          /\ e.seq = sequence[running] + 1 /\ e.chunk = 0
      BY <2>0, <3>1 DEF Event, Events
    <3>3. /\ pipe' = Append(pipe, e)
          /\ past' = Noted(IF running = running THEN Loading ELSE {"crossed"})
      BY <2>0, <2>1 DEF Emit
    <3> QED  BY <3>2, <3>3, CrossingNoted
  <2>3. Emits(e)
    BY <1>1, <1>5, <2>1, <2>2 DEF Emits, Chunked, BeginQuietItem
  <2> QED  BY <2>2, <2>3
<1>6. CASE Stream
  <2>1. /\ running \in Turns /\ said[running] < MaxChunks
        /\ "delta" \in Kinds /\ Emit("delta", running, said[running] + 1)
    BY <1>1, <1>6 DEF Stream, Kinds
  <2>2. said[running] \in 0 .. MaxChunks /\ said[running] + 1 \in 0 .. MaxChunks
        /\ said[running] + 1 # 0
    BY <1>2, <2>1
  <2>0. PICK e : e = Event("delta", running, said[running] + 1)
    OBVIOUS
  <2>3. /\ e \in Events /\ pipe' = Append(pipe, e)
        /\ e.kind = "delta" /\ e.turn = running /\ e.legacy = FALSE
        /\ e.seq = sequence[running] + 1 /\ e.chunk = said[running] + 1
        /\ "missed" \notin past' => "missed" \notin past
        /\ Smooth' => past' = past /\ get.pc \notin {"asked", "read", "ready"}
    <3>1. 0 \in 0 .. MaxChunks /\ sequence[running] + 1 \in Nat /\ "delta" \in Kinds /\ running \in Turns
          /\ said[running] + 1 \in 0 .. MaxChunks
      BY <1>2, <2>1, <2>2
    <3>2. /\ e \in Events /\ e.kind = "delta" /\ e.turn = running /\ e.legacy = FALSE
          /\ e.seq = sequence[running] + 1 /\ e.chunk = said[running] + 1
      BY <2>0, <3>1 DEF Event, Events
    <3>3. /\ pipe' = Append(pipe, e)
          /\ past' = Noted(IF running = running THEN Loading ELSE {"crossed"})
      BY <2>0, <2>1 DEF Emit
    <3> QED  BY <3>2, <3>3, CrossingNoted
  <2>4. Emits(e)
    BY <1>1, <1>6, <2>1, <2>2, <2>3 DEF Emits, Chunked, Stream
  <2> QED  BY <2>3, <2>4
<1>7. CASE FinishAnswer
  <2>1. /\ running \in Turns /\ whole[running] < said[running]
        /\ "answer" \in Kinds /\ Emit("answer", running, said[running])
    BY <1>1, <1>7 DEF FinishAnswer, Kinds
  <2>2. said[running] \in 0 .. MaxChunks
    BY <1>2, <2>1
  <2>0. PICK e : e = Event("answer", running, said[running])
    OBVIOUS
  <2>3. /\ e \in Events /\ pipe' = Append(pipe, e)
        /\ e.kind = "answer" /\ e.turn = running /\ e.legacy = FALSE
        /\ e.seq = sequence[running] + 1 /\ e.chunk = said[running] /\ e.after = whole[running]
        /\ "missed" \notin past' => "missed" \notin past
        /\ Smooth' => past' = past /\ get.pc \notin {"asked", "read", "ready"}
    <3>1. sequence[running] + 1 \in Nat /\ "answer" \in Kinds /\ running \in Turns
          /\ said[running] \in 0 .. MaxChunks /\ whole[running] \in 0 .. MaxChunks
      BY <1>2, <2>1, <2>2
    <3>2. /\ e \in Events /\ e.kind = "answer" /\ e.turn = running /\ e.legacy = FALSE
          /\ e.seq = sequence[running] + 1 /\ e.chunk = said[running] /\ e.after = whole[running]
      BY <2>0, <3>1 DEF Event, Events
    <3>3. /\ pipe' = Append(pipe, e)
          /\ past' = Noted(IF running = running THEN Loading ELSE {"crossed"})
      BY <2>0, <2>1 DEF Emit
    <3> QED  BY <3>2, <3>3, CrossingNoted
  <2>4. whole[running] <= said[running]
    BY <1>2, <2>1
  <2>5. Emits(e)
    BY <1>1, <1>7, <2>1, <2>3, <2>4 DEF Emits, Chunked, FinishAnswer
  <2> QED  BY <2>3, <2>5
<1>8. CASE Ask
  <2>1. running \in Turns /\ "asked" \in Kinds /\ Emit("asked", running, 0)
    BY <1>8, <1>1 DEF Ask, Turns, Kinds
  <2>0. PICK e : e = Event("asked", running, 0)
    OBVIOUS
  <2>2. /\ e \in Events /\ pipe' = Append(pipe, e)
        /\ e.kind = "asked" /\ e.turn = running /\ e.legacy = FALSE
        /\ e.seq = sequence[running] + 1
        /\ "missed" \notin past' => "missed" \notin past
        /\ Smooth' => past' = past /\ get.pc \notin {"asked", "read", "ready"}
    <3>1. sequence[running] + 1 \in Nat /\ "asked" \in Kinds /\ running \in Turns
          /\ 0 \in 0 .. MaxChunks
      BY <1>2, <2>1
    <3>2. /\ e \in Events /\ e.kind = "asked" /\ e.turn = running /\ e.legacy = FALSE
          /\ e.seq = sequence[running] + 1 /\ e.chunk = 0
      BY <2>0, <3>1 DEF Event, Events
    <3>3. /\ pipe' = Append(pipe, e)
          /\ past' = Noted(IF running = running THEN Loading ELSE {"crossed"})
      BY <2>0, <2>1 DEF Emit
    <3> QED  BY <3>2, <3>3, CrossingNoted
  <2>3. Emits(e)
    BY <1>1, <1>8, <2>1, <2>2 DEF Emits, Chunked, Ask
  <2> QED  BY <2>2, <2>3
<1>9. ASSUME NEW t \in Turns, Resolve(t) PROVE \E e \in Events : Emits(e)
  <2>1. "resolved" \in Kinds /\ Emit("resolved", t, 0) /\ asked[t] = "open"
    BY <1>9 DEF Resolve, Kinds
  <2>2. t \in 1 .. begun
    BY <1>1, <2>1 DEF StageInv, Turns
  <2>0. PICK e : e = Event("resolved", t, 0)
    OBVIOUS
  <2>3. /\ e \in Events /\ pipe' = Append(pipe, e)
        /\ e.kind = "resolved" /\ e.turn = t /\ e.legacy = FALSE
        /\ e.seq = sequence[t] + 1
        /\ "missed" \notin past' => "missed" \notin past
        /\ Smooth' => past' = past /\ get.pc \notin {"asked", "read", "ready"} /\ t = running
    <3>1. sequence[t] + 1 \in Nat /\ "resolved" \in Kinds /\ t \in Turns
          /\ 0 \in 0 .. MaxChunks
      BY <1>2, <2>1
    <3>2. /\ e \in Events /\ e.kind = "resolved" /\ e.turn = t /\ e.legacy = FALSE
          /\ e.seq = sequence[t] + 1 /\ e.chunk = 0
      BY <2>0, <3>1 DEF Event, Events
    <3>3. /\ pipe' = Append(pipe, e)
          /\ past' = Noted(IF t = running THEN Loading ELSE {"crossed"})
      BY <2>0, <2>1 DEF Emit
    <3> QED  BY <3>2, <3>3, CrossingNoted
  <2>4. Emits(e)
    BY <1>1, <1>9, <2>2, <2>3 DEF Emits, Chunked, Resolve
  <2> QED  BY <2>3, <2>4
<1>10. ASSUME End, stopping' = stopping \/ stopping' = running, UNCHANGED <<hubVars, netVars, get, page, counts, got, post>>,
              \/ stop' = stop
              \/ /\ stop.pc = "sent" /\ stop.turn = running
                 /\ \E told \in {"ok", "refused"} : stop' = [stop EXCEPT !.pc = told]
       PROVE  \E e \in Events : Emits(e)
  <2>1. running \in Turns /\ "ended" \in Kinds /\ Emit("ended", running, 0)
    BY <1>1, <1>10 DEF End, Kinds
  <2>0. PICK e : e = Event("ended", running, 0)
    OBVIOUS
  <2>2. /\ e \in Events /\ pipe' = Append(pipe, e)
        /\ e.kind = "ended" /\ e.turn = running /\ e.legacy = FALSE
        /\ e.seq = sequence[running] + 1
        /\ "missed" \notin past' => "missed" \notin past
        /\ Smooth' => past' = past /\ get.pc \notin {"asked", "read", "ready"}
    <3>1. sequence[running] + 1 \in Nat /\ "ended" \in Kinds /\ running \in Turns
          /\ 0 \in 0 .. MaxChunks
      BY <1>2, <2>1
    <3>2. /\ e \in Events /\ e.kind = "ended" /\ e.turn = running /\ e.legacy = FALSE
          /\ e.seq = sequence[running] + 1 /\ e.chunk = 0
      BY <2>0, <3>1 DEF Event, Events
    <3>3. /\ pipe' = Append(pipe, e)
          /\ past' = Noted(IF running = running THEN Loading ELSE {"crossed"})
      BY <2>0, <2>1 DEF Emit
    <3> QED  BY <3>2, <3>3, CrossingNoted
  <2>3. Emits(e)
    BY <1>1, <1>10, <2>1, <2>2 DEF Emits, Chunked, End
  <2> QED  BY <2>2, <2>3
<1>11. CASE Complete
  <2>1. End /\ UNCHANGED <<stopping, hubVars, netVars, get, page, post, stop, counts, got>>
    BY <1>11 DEF Complete
  <2> QED  BY <1>10, <2>1
<1>12. CASE InterruptTurn
  <2>1. /\ End /\ UNCHANGED <<hubVars, netVars, get, page, post, counts, got>>
        /\ stopping' = running /\ stop.pc = "sent" /\ stop.turn = running
        /\ \E told \in {"ok", "refused"} : stop' = [stop EXCEPT !.pc = told]
    BY <1>12 DEF InterruptTurn
  <2> QED  BY <1>10, <2>1
<1>13. CASE ReportInterrupt
  <2> DEFINE e == [kind |-> "ended", turn |-> stopping, seq |-> 0, after |-> 0,
              chunk |-> 0, legacy |-> TRUE]
  <2>1. stopping \in 1 .. begun /\ stopping \in Turns
    BY <1>1, <1>13 DEF ReportInterrupt, TypeOK, Turns
  <2>2. e \in Events
    BY <1>2, <2>1 DEF Events, Kinds
  <2>3. Loading \in SUBSET Disturbances /\ past' = Noted(Loading)
    BY <1>13 DEF Loading, Disturbances, ReportInterrupt
  <2>4. /\ "missed" \notin past' => "missed" \notin past
        /\ Smooth' => past' = past /\ get.pc \notin {"asked", "read", "ready"}
    BY <2>3, NotedCalm DEF Loading
  <2>5. e.kind = "ended" /\ e.turn = stopping /\ e.legacy = TRUE
    OBVIOUS
  <2>6. pipe' = Append(pipe, e)
    BY <1>13 DEF ReportInterrupt
  <2> HIDE DEF e
  <2>7. Emits(e)
    BY <1>1, <1>13, <2>1, <2>4, <2>5, <2>6 DEF Emits, Chunked, ReportInterrupt
  <2> QED  BY <2>2, <2>7
<1> QED  BY <1>3, <1>4, <1>5, <1>6, <1>7, <1>8, <1>9, <1>11, <1>12, <1>13 DEF Agent

\* What the page and its requests do that no event tells of.
Asks ==
    /\ UNCHANGED <<agentVars, pipe, hubVars, netVars, get, page, past, got, submits>>
    /\ post' = post \/ (post.pc = "sent" /\ post' = [post EXCEPT !.pc = "refused"])
    /\ \/ stop' = stop \/ (stop.pc = "sent" /\ stop' = [stop EXCEPT !.pc = "refused"])
       \/ stop' = NoRequest
       \/ (get.pc # "none" /\ page.active # 0 /\ stop' = [pc |-> "sent", turn |-> page.active])
    /\ stops' \in {stops, stops + 1} /\ stops' <= MaxStops

\* Every step sends an event, is of the gateway, of the page, or asks something only.
LEMMA StepCases ==
    ASSUME TypeOK, StageInv, [Next]_vars
    PROVE  \/ \E e \in Events : Emits(e)
           \/ Asks
           \/ MarkActive \/ KeepEvent \/ SendTimeline \/ SendLegacy
           \/ Open \/ ReadEvents \/ ReadActive \/ LoadAnswered \/ LoadFailed
           \/ Connect \/ Break \/ HandleFrame
           \/ Submit \/ SubmitAnswered \/ SubmitRefused \/ InterruptAnswered
<1>1. ASSUME Agent PROVE \E e \in Events : Emits(e)
  BY <1>1, AgentEmits
<1>2. stops \in Nat /\ stops <= MaxStops /\ MaxStops \in Nat
  BY ThreadWorkspaceAssumption DEF TypeOK
<1>3. ASSUME UNCHANGED vars PROVE Asks
  BY <1>2, <1>3 DEF vars, Asks, counts
<1>4. ASSUME RefuseTurn PROVE Asks
  BY <1>2, <1>4 DEF RefuseTurn, Asks, counts
<1>5. ASSUME RefuseInterrupt PROVE Asks
  BY <1>2, <1>5 DEF RefuseInterrupt, Asks, counts
<1>6. ASSUME Interrupt PROVE Asks
  <2>1. get.pc # "none"
    BY <1>6 DEF Interrupt, StageInv, FreshPage
  <2> QED  BY <1>2, <1>6, <2>1 DEF Interrupt, Asks, counts
<1>7. ASSUME InterruptRefused PROVE Asks
  BY <1>2, <1>7 DEF InterruptRefused, Asks, counts
<1> QED  BY <1>1, <1>3, <1>4, <1>5, <1>6, <1>7 DEF Next, Agent

-----------------------------------------------------------------------------
(* The page's own changes of its messages.                                 *)

\* What a page can hold: the type of page in TypeOK.
Pages == [messages : Seq(Messages), active : 0 .. MaxTurns, busy : BOOLEAN,
          over : SUBSET Turns, timeline : SUBSET Turns, waiting : 0 .. MaxSubmits]

\* The messages are of prompts and turns there were.
Bounded(messages, n, b) ==
    \A i \in DOMAIN messages : messages[i].sub <= n /\ messages[i].turn <= b

\* The reply a page awaits is one, and not of a turn yet.
Single(p) ==
    /\ \A i \in DOMAIN p.messages :
          IsPlaceholder(p, p.messages[i]) => p.messages[i].turn = 0 /\ p.messages[i].text = <<>>
    /\ \A i, j \in DOMAIN p.messages :
          IsPlaceholder(p, p.messages[i]) /\ IsPlaceholder(p, p.messages[j]) => i = j

\* Nothing is pending but the reply the page awaits.
OnlyAwaited(p) == \A i \in DOMAIN p.messages : p.messages[i].pending => IsPlaceholder(p, p.messages[i])

\* Nothing is pending.
NonePending(messages) == \A i \in DOMAIN messages : ~messages[i].pending

\* A message of the turn shows the text.
Has(messages, t, text) == \E i \in Mine(messages, t) : messages[i].text = text

\* The fields of a page, each by its type.
LEMMA PageIs ==
    ASSUME NEW p \in Pages
    PROVE  /\ p.messages \in Seq(Messages) /\ Len(p.messages) \in Nat
           /\ DOMAIN p.messages = 1 .. Len(p.messages)
           /\ \A i \in 1 .. Len(p.messages) : p.messages[i] \in Messages
           /\ p.active \in 0 .. MaxTurns /\ p.busy \in BOOLEAN /\ p.over \in SUBSET Turns
           /\ p.timeline \in SUBSET Turns /\ p.waiting \in 0 .. MaxSubmits /\ p.waiting \in Nat
<1>1. p.messages \in Seq(Messages) /\ p.waiting \in 0 .. MaxSubmits
  BY DEF Pages
<1> QED  BY <1>1, LenProperties, ElementOfSeq DEF Pages

\* A message that is settled is as it was, and not pending.
LEMMA SettleIs ==
    ASSUME NEW m \in Messages
    PROVE  /\ Settle(m) \in Messages /\ Settle(m).kind = m.kind /\ Settle(m).turn = m.turn
           /\ Settle(m).sub = m.sub /\ Settle(m).text = m.text /\ Settle(m).pending = FALSE
BY DEF Settle, Messages

\* The reply awaited becomes the turn's.
LEMMA BindIs ==
    ASSUME NEW p \in Pages, NEW t \in Turns
    PROVE  \A r : r = Bind(p, t) =>
             /\ r \in Pages /\ r.waiting = 0 /\ r.active = p.active /\ r.busy = p.busy
             /\ r.over = p.over /\ r.timeline = p.timeline
             /\ DOMAIN r.messages = DOMAIN p.messages
             /\ \A i \in DOMAIN p.messages : IsPlaceholder(p, p.messages[i]) =>
                   /\ r.messages[i].kind = p.messages[i].kind
                   /\ r.messages[i].sub = p.messages[i].sub
                   /\ r.messages[i].text = p.messages[i].text
                   /\ r.messages[i].turn = t /\ ~r.messages[i].pending
             /\ \A i \in DOMAIN p.messages : ~IsPlaceholder(p, p.messages[i]) =>
                   r.messages[i] = p.messages[i]
<1> SUFFICES ASSUME NEW r, r = Bind(p, t)
             PROVE  /\ r \in Pages /\ r.waiting = 0 /\ r.active = p.active /\ r.busy = p.busy
                    /\ r.over = p.over /\ r.timeline = p.timeline
                    /\ DOMAIN r.messages = DOMAIN p.messages
                    /\ \A i \in DOMAIN p.messages : IsPlaceholder(p, p.messages[i]) =>
                          /\ r.messages[i].kind = p.messages[i].kind
                          /\ r.messages[i].sub = p.messages[i].sub
                          /\ r.messages[i].text = p.messages[i].text
                          /\ r.messages[i].turn = t /\ ~r.messages[i].pending
                    /\ \A i \in DOMAIN p.messages : ~IsPlaceholder(p, p.messages[i]) =>
                          r.messages[i] = p.messages[i]
  OBVIOUS
<1> DEFINE D == DOMAIN p.messages
           new == [i \in D |-> IF IsPlaceholder(p, p.messages[i])
                               THEN [Settle(p.messages[i]) EXCEPT !.turn = t] ELSE p.messages[i]]
<1>1. D = 1 .. Len(p.messages) /\ Len(p.messages) \in Nat /\ \A i \in D : p.messages[i] \in Messages
  BY PageIs
<1>2. \A i \in D : Settle(p.messages[i]) \in Messages
  BY <1>1, SettleIs
<1>3. t \in 0 .. MaxTurns
  BY ThreadWorkspaceAssumption DEF Turns
<1>4. \A m \in Messages : /\ [m EXCEPT !.turn = t] \in Messages
                          /\ [m EXCEPT !.turn = t].kind = m.kind /\ [m EXCEPT !.turn = t].sub = m.sub
                          /\ [m EXCEPT !.turn = t].text = m.text /\ [m EXCEPT !.turn = t].turn = t
                          /\ [m EXCEPT !.turn = t].pending = m.pending
  BY <1>3 DEF Messages
<1>5. \A i \in D : new[i] \in Messages
  BY <1>1, <1>2, <1>4
<1>6. r = [p EXCEPT !.waiting = 0, !.messages = new]
  BY DEF Bind
<1>8. new \in Seq(Messages) /\ DOMAIN new = D
  <2>1. new \in [1 .. Len(p.messages) -> Messages]
    BY <1>1, <1>5
  <2> QED  BY <1>1, <2>1, IsASeq
<1>9. /\ r \in Pages /\ r.messages = new /\ r.waiting = 0 /\ r.active = p.active
      /\ r.busy = p.busy /\ r.over = p.over /\ r.timeline = p.timeline
  <2> DEFINE M == Seq(Messages)
  <2>1. 0 \in 0 .. MaxSubmits /\ new \in M
    BY <1>8, ThreadWorkspaceAssumption
  <2>2. Pages = [messages : M, active : 0 .. MaxTurns, busy : BOOLEAN,
                 over : SUBSET Turns, timeline : SUBSET Turns, waiting : 0 .. MaxSubmits]
    BY DEF Pages
  <2> HIDE DEF new, M, D
  <2> QED  BY <1>6, <2>1, <2>2
<1>10. ASSUME NEW i \in D, IsPlaceholder(p, p.messages[i])
       PROVE  /\ new[i].kind = p.messages[i].kind /\ new[i].sub = p.messages[i].sub
              /\ new[i].text = p.messages[i].text /\ new[i].turn = t /\ ~new[i].pending
  <2> DEFINE m == Settle(p.messages[i])
  <2>1. /\ m \in Messages /\ m.kind = p.messages[i].kind /\ m.sub = p.messages[i].sub
        /\ m.text = p.messages[i].text /\ m.pending = FALSE
    BY <1>1, SettleIs
  <2>2. new[i] = [m EXCEPT !.turn = t]
    BY <1>10
  <2> HIDE DEF new, D, m
  <2> QED  BY <2>1, <2>2, <1>4
<1>11. ASSUME NEW i \in D, ~IsPlaceholder(p, p.messages[i]) PROVE new[i] = p.messages[i]
  BY <1>11
<1> HIDE DEF new
<1> QED  BY <1>8, <1>9, <1>10, <1>11

\* The reply awaited goes.
LEMMA DropIs ==
    ASSUME NEW p \in Pages, Single(p)
    PROVE  \A r : r = DropPlaceholder(p) =>
             /\ r \in Pages /\ r.waiting = 0 /\ r.active = p.active /\ r.busy = p.busy
             /\ r.over = p.over /\ r.timeline = p.timeline
             /\ \/ Placeholders(p) = {} /\ r.messages = p.messages
                \/ \E d \in DOMAIN p.messages :
                      /\ IsPlaceholder(p, p.messages[d]) /\ Len(r.messages) = Len(p.messages) - 1
                      /\ \A i \in 1 .. Len(r.messages) :
                            r.messages[i] = p.messages[IF i < d THEN i ELSE i + 1]
<1> SUFFICES ASSUME NEW r, r = DropPlaceholder(p)
             PROVE  /\ r \in Pages /\ r.waiting = 0 /\ r.active = p.active /\ r.busy = p.busy
                    /\ r.over = p.over /\ r.timeline = p.timeline
                    /\ \/ Placeholders(p) = {} /\ r.messages = p.messages
                       \/ \E d \in DOMAIN p.messages :
                             /\ IsPlaceholder(p, p.messages[d]) /\ Len(r.messages) = Len(p.messages) - 1
                             /\ \A i \in 1 .. Len(r.messages) :
                                   r.messages[i] = p.messages[IF i < d THEN i ELSE i + 1]
  OBVIOUS
<1> DEFINE P == Placeholders(p)
           s == p.messages
           d == Min(P)
           new == IF P = {} THEN s ELSE RemoveAt(s, d)
<1>1. s \in Seq(Messages) /\ Len(s) \in Nat /\ DOMAIN s = 1 .. Len(s)
      /\ \A i \in 1 .. Len(s) : s[i] \in Messages
  BY PageIs
<1>2. P \in SUBSET (1 .. Len(s)) /\ P \in SUBSET Nat
  BY <1>1 DEF Placeholders
<1>3. ASSUME P # {} PROVE d \in P /\ d \in 1 .. Len(s)
  BY <1>2, <1>3, MinIsLeast
<1>4. ASSUME P # {}
      PROVE  /\ new \in Seq(Messages) /\ Len(new) = Len(s) - 1
             /\ \A i \in 1 .. Len(new) : new[i] = s[IF i < d THEN i ELSE i + 1]
  <2>1. d \in 1 .. Len(s)
    BY <1>3, <1>4
  <2> DEFINE a == SubSeq(s, 1, d - 1)
             b == SubSeq(s, d + 1, Len(s))
  <2>2. new = a \o b
    BY <1>4 DEF RemoveAt
  <2> HIDE DEF new, P, d, s
  <2>3. a \in Seq(Messages) /\ Len(a) = d - 1 /\ \A i \in 1 .. d - 1 : a[i] = s[i]
    <3>1. d - 1 \in Int /\ 1 <= 1 /\ d - 1 <= Len(s)
      BY <1>1, <2>1
    <3> QED  BY <1>1, <2>1, <3>1, SubSeqProperties
  <2>4. b \in Seq(Messages) /\ Len(b) = Len(s) - d /\ \A i \in 1 .. Len(s) - d : b[i] = s[i + d]
    <3>1. d + 1 \in Int /\ Len(s) \in Int /\ \A i \in d + 1 .. Len(s) : s[i] \in Messages
      BY <1>1, <2>1
    <3>2. /\ b \in Seq(Messages) /\ Len(b) = IF d + 1 <= Len(s) THEN Len(s) - (d + 1) + 1 ELSE 0
          /\ \A i \in 1 .. Len(s) - (d + 1) + 1 : b[i] = s[(d + 1) + i - 1]
      BY <3>1, SubSeqProperties
    <3>3. Len(s) - (d + 1) + 1 = Len(s) - d
      BY <1>1, <2>1
    <3>4. Len(b) = Len(s) - d
      <4>1. CASE d + 1 <= Len(s)
        BY <3>2, <3>3, <4>1
      <4>2. CASE ~(d + 1 <= Len(s))
        <5> HIDE DEF a, b
        <5>1. Len(b) = 0
          BY <3>2, <4>2
        <5>2. Len(s) - d = 0
          <6>1. \A l, k \in Nat : (k <= l /\ ~(k + 1 <= l)) => l - k = 0
            OBVIOUS
          <6>2. d \in Nat /\ d <= Len(s)
            BY <1>1, <2>1
          <6> QED  BY <1>1, <4>2, <6>1, <6>2
        <5> QED  BY <5>1, <5>2
      <4> QED  BY <4>1, <4>2
    <3>5. \A i \in 1 .. Len(s) - d : b[i] = s[i + d]
      <4> TAKE i \in 1 .. Len(s) - d
      <4>1. (d + 1) + i - 1 = i + d
        BY <1>1, <2>1
      <4>2. b[i] = s[(d + 1) + i - 1]
        BY <3>2, <3>3
      <4> QED  BY <4>1, <4>2
    <3> QED  BY <3>2, <3>4, <3>5
  <2> HIDE DEF a, b
  <2>5. new \in Seq(Messages) /\ Len(new) = Len(s) - 1
        /\ \A i \in 1 .. Len(a) + Len(b) : new[i] = IF i <= Len(a) THEN a[i] ELSE b[i - Len(a)]
    <3>1. /\ a \o b \in Seq(Messages) /\ Len(a \o b) = Len(a) + Len(b)
          /\ \A i \in 1 .. Len(a) + Len(b) : (a \o b)[i] = IF i <= Len(a) THEN a[i] ELSE b[i - Len(a)]
      BY <2>3, <2>4, ConcatProperties
    <3>2. Len(a) + Len(b) = Len(s) - 1
      BY <1>1, <2>1, <2>3, <2>4
    <3> QED  BY <2>2, <3>1, <3>2
  <2>6. ASSUME NEW i \in 1 .. Len(new) PROVE new[i] = s[IF i < d THEN i ELSE i + 1]
    <3>1. new[i] = IF i <= d - 1 THEN a[i] ELSE b[i - (d - 1)]
      BY <1>1, <2>1, <2>3, <2>4, <2>5
    <3>2. CASE i < d
      BY <2>1, <2>3, <3>1, <3>2
    <3>3. CASE ~(i < d)
      <4>1. i - (d - 1) \in 1 .. Len(s) - d /\ i - (d - 1) + d = i + 1
        BY <1>1, <2>1, <2>5, <3>3
      <4>2. new[i] = b[i - (d - 1)]
        BY <2>1, <3>1, <3>3
      <4> QED  BY <2>4, <3>3, <4>1, <4>2
    <3> QED  BY <3>2, <3>3
  <2> QED  BY <2>5, <2>6
<1>5. r = [p EXCEPT !.waiting = 0, !.messages = new]
  BY DEF DropPlaceholder
<1>6. new \in Seq(Messages)
  BY <1>1, <1>4
<1>7. /\ r \in Pages /\ r.messages = new /\ r.waiting = 0 /\ r.active = p.active
      /\ r.busy = p.busy /\ r.over = p.over /\ r.timeline = p.timeline
  <2> DEFINE M == Seq(Messages)
  <2>1. 0 \in 0 .. MaxSubmits /\ new \in M
    BY <1>6, ThreadWorkspaceAssumption
  <2>2. Pages = [messages : M, active : 0 .. MaxTurns, busy : BOOLEAN,
                 over : SUBSET Turns, timeline : SUBSET Turns, waiting : 0 .. MaxSubmits]
    BY DEF Pages
  <2> HIDE DEF new, M
  <2> QED  BY <1>5, <2>1, <2>2
<1>9. CASE P = {}
  BY <1>7, <1>9
<1>10. CASE P # {}
  <2>1. IsPlaceholder(p, p.messages[d]) /\ d \in DOMAIN p.messages
    BY <1>3, <1>10 DEF Placeholders
  <2> HIDE DEF new, P, d
  <2> QED  BY <1>4, <1>7, <1>10, <2>1
<1> QED  BY <1>9, <1>10

\* Binding the awaited reply keeps every text, and of each turn its one message, unless
\* the turn it is bound to has a message already.
LEMMA BindThen ==
    ASSUME NEW p \in Pages, Single(p), NEW t \in Turns
    PROVE  \A r : r = Bind(p, t) =>
             /\ \A n, b \in Nat : (Bounded(p.messages, n, b) /\ t <= b) => Bounded(r.messages, n, b)
             /\ OnlyAwaited(p) => NonePending(r.messages)
             /\ \A u \in Turns : \A x : Has(p.messages, u, x) => Has(r.messages, u, x)
             /\ \A u \in Turns : \A b : \A k :
                   (/\ Shows(p.messages, u, b, k)
                    /\ (u = t /\ p.waiting # 0) => Mine(p.messages, t) = {})
                       => Shows(r.messages, u, b, k)
<1> SUFFICES ASSUME NEW r, r = Bind(p, t)
             PROVE  /\ \A n, b \in Nat : (Bounded(p.messages, n, b) /\ t <= b) => Bounded(r.messages, n, b)
                    /\ OnlyAwaited(p) => NonePending(r.messages)
                    /\ \A u \in Turns : \A x : Has(p.messages, u, x) => Has(r.messages, u, x)
                    /\ \A u \in Turns : \A b : \A k :
                          (/\ Shows(p.messages, u, b, k)
                           /\ (u = t /\ p.waiting # 0) => Mine(p.messages, t) = {})
                              => Shows(r.messages, u, b, k)
  OBVIOUS
<1> DEFINE m == p.messages
           s == r.messages
           W == {i \in DOMAIN m : IsPlaceholder(p, m[i])}
<1>1. /\ DOMAIN s = DOMAIN m
      /\ \A i \in DOMAIN m : /\ s[i].kind = m[i].kind /\ s[i].sub = m[i].sub /\ s[i].text = m[i].text
                             /\ s[i].turn = IF i \in W THEN t ELSE m[i].turn
                             /\ s[i].pending => m[i].pending /\ i \notin W
  <2>1. DOMAIN s = DOMAIN m
    BY BindIs
  <2>2. ASSUME NEW i \in DOMAIN m, IsPlaceholder(p, m[i])
        PROVE  /\ s[i].kind = m[i].kind /\ s[i].sub = m[i].sub /\ s[i].text = m[i].text
               /\ s[i].turn = t /\ ~s[i].pending
    BY <2>2, BindIs
  <2>3. ASSUME NEW i \in DOMAIN m, ~IsPlaceholder(p, m[i]) PROVE s[i] = m[i]
    BY <2>3, BindIs
  <2>4. \A i \in DOMAIN m : i \in W <=> IsPlaceholder(p, m[i])
    OBVIOUS
  <2> HIDE DEF W, s, m
  <2> QED  BY <2>1, <2>2, <2>3, <2>4
<1>2. \A i \in DOMAIN m : m[i] \in Messages /\ m[i].turn \in Nat
  <2>1. \A i \in DOMAIN m : m[i] \in Messages
    BY PageIs
  <2> QED  BY <2>1, ThreadWorkspaceAssumption DEF Messages
<1>3. /\ \A i \in W : m[i].turn = 0 /\ m[i].text = <<>> /\ m[i].kind = "agent"
      /\ \A i, j \in W : i = j
      /\ W # {} => p.waiting # 0
      /\ W \subseteq DOMAIN m
  BY DEF Single, IsPlaceholder
<1>4. \A i \in DOMAIN m : i \in W <=> IsPlaceholder(p, m[i])
  OBVIOUS
<1> HIDE DEF W, s, m
<1>5. \A u \in Turns : Mine(s, u) = IF u = t THEN Mine(m, u) \cup W ELSE Mine(m, u)
  <2> TAKE u \in Turns
  <2>1. u # 0
    BY DEF Turns
  <2>2. \A i : i \in Mine(s, u) <=> i \in (IF u = t THEN Mine(m, u) \cup W ELSE Mine(m, u))
    BY <1>1, <1>3, <2>1 DEF Mine, IsAgent
  <2> QED  BY <2>2
<1>6. \A n, b \in Nat : (Bounded(m, n, b) /\ t <= b) => Bounded(s, n, b)
  BY <1>1 DEF Bounded
<1>7. OnlyAwaited(p) => NonePending(s)
  BY <1>1, <1>4 DEF OnlyAwaited, NonePending, m
<1>8. \A u \in Turns : \A x : Has(m, u, x) => Has(s, u, x)
  BY <1>1, <1>5 DEF Has, Mine
<1>9. ASSUME NEW u \in Turns, NEW b, NEW k, Shows(m, u, b, k), (u = t /\ p.waiting # 0) => Mine(m, t) = {}
      PROVE  Shows(s, u, b, k)
  <2>1. Mine(m, u) \subseteq DOMAIN m
    BY DEF Mine
  <2>2. CASE u = t /\ W # {}
    <3>1. Mine(s, u) = W /\ b = 0 /\ k = 0
      BY <1>3, <1>5, <1>9, <2>2 DEF Shows
    <3>2. \A i \in W : s[i].text = Chunks(b, k)
      BY <1>1, <1>3, <3>1, NoChunks
    <3> QED  BY <1>3, <2>2, <3>1, <3>2 DEF Shows
  <2>3. CASE ~(u = t /\ W # {})
    <3>1. Mine(s, u) = Mine(m, u)
      BY <1>5, <2>3
    <3> QED  BY <1>1, <1>9, <2>1, <3>1 DEF Shows
  <2> QED  BY <2>2, <2>3
<1> QED  BY <1>6, <1>7, <1>8, <1>9 DEF s, m

\* Dropping the awaited reply keeps every text, and of each turn its one message.
LEMMA DropThen ==
    ASSUME NEW p \in Pages, Single(p)
    PROVE  \A r : r = DropPlaceholder(p) =>
             /\ \A n, b \in Nat : Bounded(p.messages, n, b) => Bounded(r.messages, n, b)
             /\ OnlyAwaited(p) => NonePending(r.messages)
             /\ \A u \in Turns : \A x : Has(p.messages, u, x) => Has(r.messages, u, x)
             /\ \A u \in Turns : \A b : \A k : Shows(p.messages, u, b, k) => Shows(r.messages, u, b, k)
<1> SUFFICES ASSUME NEW r, r = DropPlaceholder(p)
             PROVE  /\ \A n, b \in Nat : Bounded(p.messages, n, b) => Bounded(r.messages, n, b)
                    /\ OnlyAwaited(p) => NonePending(r.messages)
                    /\ \A u \in Turns : \A x : Has(p.messages, u, x) => Has(r.messages, u, x)
                    /\ \A u \in Turns : \A b : \A k : Shows(p.messages, u, b, k) => Shows(r.messages, u, b, k)
  OBVIOUS
<1> DEFINE m == p.messages
           s == r.messages
<1>1. r \in Pages
  BY DropIs
<1>2. /\ DOMAIN m = 1 .. Len(m) /\ Len(m) \in Nat /\ DOMAIN s = 1 .. Len(s) /\ Len(s) \in Nat
      /\ \A i \in 1 .. Len(m) : m[i] \in Messages /\ m[i].turn \in Nat
  <2>1. \A i \in 1 .. Len(m) : m[i] \in Messages
    BY PageIs
  <2>2. /\ DOMAIN m = 1 .. Len(m) /\ Len(m) \in Nat
        /\ DOMAIN s = 1 .. Len(s) /\ Len(s) \in Nat
    BY <1>1, PageIs
  <2>3. ASSUME NEW i \in 1 .. Len(m) PROVE m[i].turn \in Nat
    <3>1. m[i] \in Messages
      BY <2>1
    <3> QED  BY <3>1, ThreadWorkspaceAssumption DEF Messages
  <2> QED  BY <2>1, <2>2, <2>3
<1>3. CASE Placeholders(p) = {} /\ s = m
  <2>1. OnlyAwaited(p) => NonePending(s)
    BY <1>3 DEF OnlyAwaited, NonePending, Placeholders
  <2> QED  BY <1>3, <2>1
<1>4. CASE \E d \in DOMAIN m : /\ IsPlaceholder(p, m[d]) /\ Len(s) = Len(m) - 1
                               /\ \A i \in 1 .. Len(s) : s[i] = m[IF i < d THEN i ELSE i + 1]
  <2>1. PICK d \in DOMAIN m : /\ IsPlaceholder(p, m[d]) /\ Len(s) = Len(m) - 1
                              /\ \A i \in 1 .. Len(s) : s[i] = m[IF i < d THEN i ELSE i + 1]
    BY <1>4
  <2>2. /\ \A i \in DOMAIN m : IsPlaceholder(p, m[i]) => i = d
        /\ m[d].turn = 0
    BY <2>1 DEF Single
  <2> DEFINE from(i) == IF i < d THEN i ELSE i + 1
             to(i) == IF i < d THEN i ELSE i - 1
  <2>3. \A i \in DOMAIN s : from(i) \in DOMAIN m /\ from(i) # d /\ s[i] = m[from(i)]
    <3> TAKE i \in DOMAIN s
    <3>1. Len(m) \in Nat /\ Len(s) = Len(m) - 1 /\ d \in 1 .. Len(m) /\ i \in 1 .. Len(s)
      BY <1>2, <2>1
    <3>2. from(i) \in 1 .. Len(m) /\ from(i) # d
      BY <3>1
    <3> QED  BY <1>2, <2>1, <3>1, <3>2
  <2>4. \A i \in DOMAIN m : i # d => /\ to(i) \in DOMAIN s /\ s[to(i)] = m[i]
                                     /\ from(to(i)) = i
    <3> TAKE i \in DOMAIN m
    <3> HAVE i # d
    <3>1. to(i) \in DOMAIN s /\ from(to(i)) = i
      BY <1>2, <2>1
    <3> QED  BY <2>3, <3>1
  <2>5. \A i, j \in DOMAIN s : from(i) = from(j) => i = j
    BY <1>2, <2>1
  <2> HIDE DEF from, to, s, m
  <2>6. \A n, b \in Nat : Bounded(m, n, b) => Bounded(s, n, b)
    BY <2>3 DEF Bounded
  <2>7. OnlyAwaited(p) => NonePending(s)
    BY <2>2, <2>3 DEF OnlyAwaited, NonePending, m
  <2>8. ASSUME NEW u \in Turns
        PROVE  /\ \A i \in Mine(s, u) : from(i) \in Mine(m, u)
               /\ \A i \in Mine(m, u) : to(i) \in Mine(s, u) /\ s[to(i)] = m[i]
    <3>1. u # 0
      BY DEF Turns
    <3>2. d \notin Mine(m, u)
      BY <2>2, <3>1 DEF Mine, IsAgent
    <3> QED  BY <2>3, <2>4, <3>2 DEF Mine
  <2>9. \A u \in Turns : \A x : Has(m, u, x) => Has(s, u, x)
    BY <2>8 DEF Has
  <2>10. ASSUME NEW u \in Turns, NEW b, NEW k, Shows(m, u, b, k) PROVE Shows(s, u, b, k)
    <3>1. Mine(s, u) \subseteq DOMAIN s
      BY DEF Mine
    <3>2. \A i \in Mine(s, u) : s[i].text = Chunks(b, k)
      BY <2>3, <2>8, <2>10, <3>1 DEF Shows
    <3>3. \A i, j \in Mine(s, u) : i = j
      BY <2>5, <2>8, <2>10, <3>1 DEF Shows
    <3>4. Mine(s, u) = {} => b = 0 /\ k = 0
      BY <2>8, <2>10 DEF Shows
    <3> QED  BY <3>2, <3>3, <3>4 DEF Shows
  <2> QED  BY <2>6, <2>7, <2>9, <2>10 DEF s, m
<1> QED  BY <1>3, <1>4, DropIs

\* Merging an event keeps the text of a turn but for the turn's chunks; after the
\* complete answer the turn is shown with it.
LEMMA MergeThen ==
    ASSUME NEW messages \in Seq(Messages), NEW e \in Events, Chunked(e)
    PROVE  /\ Merge(messages, e) \in Seq(Messages)
           /\ \A n, b \in Nat : (Bounded(messages, n, b) /\ e.turn <= b) => Bounded(Merge(messages, e), n, b)
           /\ NonePending(messages) => NonePending(Merge(messages, e))
           /\ \A u \in Turns : \A x :
                 /\ Has(messages, u, x)
                 /\ e.turn = u => e.kind \notin {"delta", "answer"}
                 => Has(Merge(messages, e), u, x)
           /\ (e.kind = "answer") => Has(Merge(messages, e), e.turn, Chunks(e.after, e.chunk))
<1> DEFINE s == Merge(messages, e)
<1>1. e.turn \in Turns /\ e.turn \in Nat
  BY ThreadWorkspaceAssumption DEF Events, Turns
<1>2. /\ Len(messages) \in Nat /\ DOMAIN messages = 1 .. Len(messages)
      /\ \A i \in DOMAIN messages : messages[i] \in Messages
  BY LenProperties, ElementOfSeq
<1> DEFINE fresh == NewMessage(e.turn)
           made == MergeMessage(fresh, e)
<1>3. /\ fresh \in Messages /\ fresh.kind = "agent" /\ fresh.turn = e.turn
      /\ fresh.sub = 0 /\ fresh.text = <<>> /\ fresh.pending = FALSE
  BY <1>1, NewMessageIs
<1>4. \A m \in Messages : /\ MergeMessage(m, e) \in Messages
                          /\ MergeMessage(m, e).kind = m.kind /\ MergeMessage(m, e).turn = m.turn
                          /\ MergeMessage(m, e).sub = m.sub
                          /\ MergeMessage(m, e).pending => m.pending
                          /\ MergeMessage(m, e).text =
                                IF e.kind = "quiet" THEN m.text ELSE MergeText(m.text, e)
  <2> TAKE m \in Messages
  <2>1. e.kind = "quiet" => MergeMessage(m, e).text = m.text
    BY MergeMessageIs
  <2>2. e.kind # "quiet" => MergeMessage(m, e).text = MergeText(m.text, e)
    BY MergeMessageIs
  <2> QED  BY <2>1, <2>2, MergeMessageIs
<1> HIDE DEF fresh
<1>5. /\ made \in Messages /\ made.kind = "agent" /\ made.turn = e.turn /\ made.sub = 0
      /\ ~made.pending
  BY <1>3, <1>4
<1>6. e.kind = "answer" => \A m \in Messages : MergeMessage(m, e).text = Chunks(e.after, e.chunk)
  BY <1>4 DEF MergeText
<1>7. ASSUME NEW i \in Mine(messages, e.turn),
             s = [messages EXCEPT ![i] = MergeMessage(messages[i], e)]
      PROVE  /\ \A n, b \in Nat : (Bounded(messages, n, b) /\ e.turn <= b) => Bounded(s, n, b)
             /\ NonePending(messages) => NonePending(s)
             /\ \A u \in Turns : \A x :
                   /\ Has(messages, u, x)
                   /\ e.turn = u => e.kind \notin {"delta", "answer"}
                   => Has(s, u, x)
             /\ (e.kind = "answer") => Has(s, e.turn, Chunks(e.after, e.chunk))
  <2> DEFINE m == messages[i]
             g == MergeMessage(m, e)
  <2>1. i \in DOMAIN messages /\ m \in Messages
    BY <1>2 DEF Mine
  <2>2. /\ g \in Messages /\ g.kind = m.kind /\ g.turn = m.turn /\ g.sub = m.sub
        /\ g.pending => m.pending
        /\ g.text = IF e.kind = "quiet" THEN m.text ELSE MergeText(m.text, e)
    BY <1>4, <2>1
  <2>3. DOMAIN s = DOMAIN messages /\ \A j \in DOMAIN messages : s[j] = IF j = i THEN g ELSE messages[j]
    BY <1>7, <2>1
  <2> HIDE DEF s, g
  <2>4. \A u : Mine(s, u) = Mine(messages, u)
    BY <2>2, <2>3 DEF Mine, IsAgent
  <2>5. \A n, b \in Nat : (Bounded(messages, n, b) /\ e.turn <= b) => Bounded(s, n, b)
    BY <2>2, <2>3 DEF Bounded
  <2>6. NonePending(messages) => NonePending(s)
    BY <2>1, <2>2, <2>3 DEF NonePending
  <2>7. ASSUME NEW u \in Turns, NEW x, Has(messages, u, x),
               e.turn = u => e.kind \notin {"delta", "answer"}
        PROVE  Has(s, u, x)
    <3>1. PICK j \in Mine(messages, u) : messages[j].text = x
      BY <2>7 DEF Has
    <3>2. j \in DOMAIN messages /\ j \in Mine(s, u)
      BY <2>4 DEF Mine
    <3>3. CASE j = i
      <4>1. u = e.turn
        BY <3>3 DEF Mine, IsAgent
      <4>2. g.text = x
        BY <2>2, <2>7, <3>1, <3>3, <4>1 DEF MergeText
      <4> QED  BY <2>3, <3>2, <3>3, <4>2 DEF Has
    <3>4. CASE j # i
      BY <2>3, <3>1, <3>2, <3>4 DEF Has
    <3> QED  BY <3>3, <3>4
  <2>8. (e.kind = "answer") => Has(s, e.turn, Chunks(e.after, e.chunk))
    <3> HAVE e.kind = "answer"
    <3>1. g.text = Chunks(e.after, e.chunk)
      BY <1>6, <2>1 DEF g
    <3> QED  BY <2>1, <2>3, <2>4, <3>1 DEF Has
  <2> QED  BY <2>5, <2>6, <2>7, <2>8
<1>8. ASSUME s = Append(messages, made)
      PROVE  /\ \A n, b \in Nat : (Bounded(messages, n, b) /\ e.turn <= b) => Bounded(s, n, b)
             /\ NonePending(messages) => NonePending(s)
             /\ \A u \in Turns : \A x : Has(messages, u, x) => Has(s, u, x)
             /\ (e.kind = "answer") => Has(s, e.turn, Chunks(e.after, e.chunk))
  <2>1. /\ Len(s) = Len(messages) + 1 /\ \A i \in 1 .. Len(messages) : s[i] = messages[i]
        /\ s[Len(messages) + 1] = made /\ DOMAIN s = 1 .. Len(messages) + 1
    <3> HIDE DEF made
    <3>1. s \in Seq(Messages) /\ Len(s) = Len(messages) + 1
          /\ (\A i \in 1 .. Len(messages) : s[i] = messages[i]) /\ s[Len(messages) + 1] = made
      BY <1>5, <1>8, AppendProperties
    <3> HIDE DEF s
    <3> QED  BY <3>1, LenProperties
  <2> HIDE DEF s, made
  <2>2. \A i \in DOMAIN s : i \in DOMAIN messages \/ i = Len(messages) + 1
    BY <1>2, <2>1
  <2>3. DOMAIN messages \subseteq DOMAIN s /\ Len(messages) + 1 \in DOMAIN s
    BY <1>2, <2>1
  <2>4. \A n, b \in Nat : (Bounded(messages, n, b) /\ e.turn <= b) => Bounded(s, n, b)
    BY <1>2, <1>5, <2>1, <2>2 DEF Bounded
  <2>5. NonePending(messages) => NonePending(s)
    BY <1>2, <1>5, <2>1, <2>2 DEF NonePending
  <2>6. \A u \in Turns : \A x : Has(messages, u, x) => Has(s, u, x)
    <3> TAKE u \in Turns
    <3>1. \A i \in Mine(messages, u) : i \in Mine(s, u) /\ s[i] = messages[i]
      BY <1>2, <2>1, <2>3 DEF Mine
    <3> QED  BY <3>1 DEF Has
  <2>7. (e.kind = "answer") => Has(s, e.turn, Chunks(e.after, e.chunk))
    <3> HAVE e.kind = "answer"
    <3>1. made.text = Chunks(e.after, e.chunk)
      BY <1>3, <1>6 DEF made
    <3>2. Len(messages) + 1 \in Mine(s, e.turn)
      BY <1>5, <2>1, <2>3 DEF Mine, IsAgent
    <3> QED  BY <2>1, <3>1, <3>2 DEF Has
  <2> QED  BY <2>4, <2>5, <2>6, <2>7
<1>9. s \in Seq(Messages)
  <2>1. \A m \in Messages : MergeMessage(m, e) \in Messages
    BY <1>4
  <2>2. MergeMessage(NewMessage(e.turn), e) \in Messages
    BY <1>5 DEF fresh
  <2> HIDE DEF s
  <2> QED  BY <2>1, <2>2, MergeIn DEF s
<1> HIDE DEF s
<1> QED
  <2>1. CASE \E i \in Mine(messages, e.turn) :
                 s = [messages EXCEPT ![i] = MergeMessage(messages[i], e)]
    BY <1>7, <1>9, <2>1 DEF s
  <2>2. CASE e.kind \in {"started", "quiet", "ended"} /\ s = messages
    BY <1>9, <2>2 DEF s
  <2>3. CASE s = Append(messages, made)
    BY <1>8, <1>9, <2>3 DEF s
  <2>4. \/ \E i \in Mine(messages, e.turn) :
                 s = [messages EXCEPT ![i] = MergeMessage(messages[i], e)]
        \/ e.kind \in {"started", "quiet", "ended"} /\ s = messages
        \/ s = Append(messages, made)
    BY MergeCases DEF s, fresh
  <2> QED  BY <2>1, <2>2, <2>3, <2>4

\* With the same messages, the same reply is awaited.
LEMMA SameAwaited ==
    ASSUME NEW p, NEW q, q.messages = p.messages, q.waiting = p.waiting
    PROVE  /\ Single(p) => Single(q)
           /\ OnlyAwaited(p) => OnlyAwaited(q)
BY DEF Single, OnlyAwaited, IsPlaceholder

\* A page that awaits no reply has no placeholder.
LEMMA NoneAwaited ==
    ASSUME NEW p, p.waiting = 0
    PROVE  /\ Single(p)
           /\ OnlyAwaited(p) <=> NonePending(p.messages)
BY DEF Single, OnlyAwaited, NonePending, IsPlaceholder

\* The chunks shown after the event, if k were.
Grown(e, t, k) == IF e.turn = t /\ e.kind = "delta" THEN k + 1 ELSE k

\* Where they begin after it, if at b before.
Base(e, t, b) == IF e.turn = t /\ e.kind = "answer" THEN e.after ELSE b

\* What a frame of the timeline makes of the page.
Handled(p, r, e) ==
    /\ r \in Pages /\ r.waiting = 0
    /\ r.timeline = p.timeline \cup {e.turn}
    /\ r.over = IF e.kind = "ended" THEN p.over \cup {e.turn} ELSE p.over \ {e.turn}
    /\ r.active = IF e.kind = "ended" THEN Unless(p.active, e.turn)
                  ELSE IF e.kind = "started" THEN e.turn ELSE Else(p.active, e.turn)
    /\ \A n, b \in Nat : (Bounded(p.messages, n, b) /\ e.turn <= b) => Bounded(r.messages, n, b)
    /\ OnlyAwaited(p) => NonePending(r.messages)
    /\ \A u \in Turns : \A x :
          (/\ Has(p.messages, u, x)
           /\ e.turn = u => e.kind \notin {"delta", "answer"})
              => Has(r.messages, u, x)
    /\ (e.kind = "answer") => Has(r.messages, e.turn, Chunks(e.after, e.chunk))
    /\ \A u \in Turns : \A k \in 0 .. MaxChunks : \A b \in 0 .. k :
          (/\ Shows(p.messages, u, b, k)
           /\ (u = e.turn /\ p.waiting # 0 /\ e.kind # "ended") => Mine(p.messages, u) = {}
           /\ (e.turn = u /\ e.kind = "delta") => e.chunk = k + 1
           /\ (e.turn = u /\ e.kind = "answer") => e.chunk = k)
              => Shows(r.messages, u, Base(e, u, b), Grown(e, u, k))

\* A frame of the timeline makes of the page what Handled says.
LEMMA HandleTimelineIs ==
    ASSUME NEW p \in Pages, Single(p), NEW e \in Events, Chunked(e)
    PROVE  Handled(p, HandleTimeline(p, e), e)
<1> DEFINE t == e.turn
           r == HandleTimeline(p, e)
           seen == [p EXCEPT !.timeline = @ \cup {t}]
           over == IF e.kind = "ended" THEN p.over \cup {t} ELSE p.over \ {t}
           turn == IF e.kind = "ended" THEN Unless(p.active, t)
                   ELSE IF e.kind = "started" THEN t ELSE Else(p.active, t)
           timeline == p.timeline \cup {t}
           q == [p EXCEPT !.timeline = timeline, !.over = over, !.busy = FALSE, !.active = turn]
           next == IF e.kind = "ended" THEN DropPlaceholder(q) ELSE Bind(q, t)
<1>1. t \in Turns /\ t \in 0 .. MaxTurns
  BY ThreadWorkspaceAssumption DEF Events, Turns
<1>2. /\ over \in SUBSET Turns /\ timeline \in SUBSET Turns
      /\ p.active \in 0 .. MaxTurns /\ FALSE \in BOOLEAN
  BY <1>1, PageIs
<1>3. turn \in 0 .. MaxTurns
  BY <1>1, <1>2, ThreadWorkspaceAssumption DEF Unless, Else
<1>4. /\ q \in Pages /\ q.messages = p.messages /\ q.waiting = p.waiting
      /\ q.over = over /\ q.timeline = timeline /\ q.active = turn
  <2> DEFINE M == Seq(Messages)
  <2>1. Pages = [messages : M, active : 0 .. MaxTurns, busy : BOOLEAN,
                 over : SUBSET Turns, timeline : SUBSET Turns, waiting : 0 .. MaxSubmits]
    BY DEF Pages
  <2> HIDE DEF over, timeline, turn, M
  <2> QED  BY <1>2, <1>3, <2>1
<1>5. r = [next EXCEPT !.messages = Merge(@, e)]
  <2>1. e.kind = "ended" => Completed(seen, t) = DropPlaceholder(q)
    <3> HAVE e.kind = "ended"
    <3>1. [seen EXCEPT !.over = @ \cup {t}, !.busy = FALSE, !.active = Unless(@, t)] = q
      BY <1>2 DEF Pages
    <3> HIDE DEF q, seen
    <3> QED  BY <3>1 DEF Completed
  <2>2. e.kind # "ended" => Progressed(seen, e) = Bind(q, t)
    <3> HAVE e.kind # "ended"
    <3>1. [seen EXCEPT !.over = @ \ {t}, !.busy = FALSE,
                       !.active = IF e.kind = "started" THEN t ELSE Else(@, t)] = q
      BY <1>2 DEF Pages
    <3> HIDE DEF q, seen
    <3> QED  BY <3>1 DEF Progressed
  <2> HIDE DEF q
  <2> QED  BY <2>1, <2>2 DEF HandleTimeline
<1> HIDE DEF q, over, turn, timeline, r
<1>6. Single(q) /\ (OnlyAwaited(p) => OnlyAwaited(q))
  BY <1>4, SameAwaited
<1>7. /\ next \in Pages /\ next.waiting = 0 /\ next.active = turn
      /\ next.over = over /\ next.timeline = timeline
      /\ \A n, b \in Nat : (Bounded(p.messages, n, b) /\ t <= b) => Bounded(next.messages, n, b)
      /\ OnlyAwaited(p) => NonePending(next.messages)
      /\ \A u \in Turns : \A x : Has(p.messages, u, x) => Has(next.messages, u, x)
      /\ \A u \in Turns : \A b : \A k :
            (/\ Shows(p.messages, u, b, k)
             /\ (u = t /\ p.waiting # 0 /\ e.kind # "ended") => Mine(p.messages, u) = {})
                => Shows(next.messages, u, b, k)
  <2>1. CASE e.kind = "ended"
    <3>1. next = DropPlaceholder(q)
      BY <2>1
    <3> HIDE DEF next
    <3>2. /\ next \in Pages /\ next.waiting = 0 /\ next.active = q.active
          /\ next.over = q.over /\ next.timeline = q.timeline
      BY <1>4, <1>6, <3>1, DropIs
    <3>3. /\ \A n, b \in Nat : Bounded(q.messages, n, b) => Bounded(next.messages, n, b)
          /\ OnlyAwaited(q) => NonePending(next.messages)
          /\ \A u \in Turns : \A x : Has(q.messages, u, x) => Has(next.messages, u, x)
          /\ \A u \in Turns : \A b : \A k : Shows(q.messages, u, b, k) => Shows(next.messages, u, b, k)
      BY <1>4, <1>6, <3>1, DropThen
    <3> QED  BY <1>4, <1>6, <3>2, <3>3
  <2>2. CASE e.kind # "ended"
    <3>1. next = Bind(q, t)
      BY <2>2
    <3> HIDE DEF next, t
    <3>2. /\ next \in Pages /\ next.waiting = 0 /\ next.active = q.active
          /\ next.over = q.over /\ next.timeline = q.timeline
      BY <1>1, <1>4, <3>1, BindIs
    <3>3. /\ \A n, b \in Nat : (Bounded(q.messages, n, b) /\ t <= b) => Bounded(next.messages, n, b)
          /\ OnlyAwaited(q) => NonePending(next.messages)
          /\ \A u \in Turns : \A x : Has(q.messages, u, x) => Has(next.messages, u, x)
          /\ \A u \in Turns : \A b : \A k :
                (/\ Shows(q.messages, u, b, k)
                 /\ (u = t /\ q.waiting # 0) => Mine(q.messages, t) = {})
                     => Shows(next.messages, u, b, k)
      BY <1>1, <1>4, <1>6, <3>1, BindThen
    <3> QED  BY <1>4, <1>6, <2>2, <3>2, <3>3
  <2> QED  BY <2>1, <2>2
<1> DEFINE new == Merge(next.messages, e)
<1> HIDE DEF next
<1>8. /\ new \in Seq(Messages)
      /\ \A n, b \in Nat : (Bounded(next.messages, n, b) /\ t <= b) => Bounded(new, n, b)
      /\ NonePending(next.messages) => NonePending(new)
      /\ \A u \in Turns : \A x :
            (/\ Has(next.messages, u, x)
             /\ t = u => e.kind \notin {"delta", "answer"})
                => Has(new, u, x)
      /\ (e.kind = "answer") => Has(new, t, Chunks(e.after, e.chunk))
  <2>1. next.messages \in Seq(Messages)
    BY <1>7, PageIs
  <2> QED  BY <2>1, MergeThen
<1>9. ASSUME NEW u \in Turns, NEW k \in 0 .. MaxChunks, NEW b \in 0 .. k,
             Shows(next.messages, u, b, k),
             (t = u /\ e.kind = "delta") => e.chunk = k + 1,
             (t = u /\ e.kind = "answer") => e.chunk = k
      PROVE  Shows(new, u, Base(e, u, b), Grown(e, u, k))
  <2>1. next.messages \in Seq(Messages)
    BY <1>7, PageIs
  <2> QED  BY <1>9, <2>1, MergeShows DEF Grown, Base
<1> HIDE DEF new
<1>10. /\ r \in Pages /\ r.messages = new /\ r.waiting = next.waiting /\ r.active = next.active
       /\ r.over = next.over /\ r.timeline = next.timeline
  <2> DEFINE M == Seq(Messages)
  <2>1. Pages = [messages : M, active : 0 .. MaxTurns, busy : BOOLEAN,
                 over : SUBSET Turns, timeline : SUBSET Turns, waiting : 0 .. MaxSubmits]
    BY DEF Pages
  <2>2. r = [next EXCEPT !.messages = new] /\ new \in M /\ next \in Pages
    BY <1>5, <1>7, <1>8 DEF new
  <2> HIDE DEF M
  <2> QED  BY <2>1, <2>2
<1> QED
  <2>1. /\ r \in Pages /\ r.waiting = 0 /\ r.timeline = timeline /\ r.over = over /\ r.active = turn
    BY <1>7, <1>10
  <2>2. \A n, b \in Nat : (Bounded(p.messages, n, b) /\ t <= b) => Bounded(r.messages, n, b)
    BY <1>7, <1>8, <1>10
  <2>3. OnlyAwaited(p) => NonePending(r.messages)
    BY <1>7, <1>8, <1>10
  <2>4. \A u \in Turns : \A x :
           (/\ Has(p.messages, u, x)
            /\ t = u => e.kind \notin {"delta", "answer"})
               => Has(r.messages, u, x)
    BY <1>7, <1>8, <1>10
  <2>5. (e.kind = "answer") => Has(r.messages, t, Chunks(e.after, e.chunk))
    BY <1>8, <1>10
  <2>6. \A u \in Turns : \A k \in 0 .. MaxChunks : \A b \in 0 .. k :
           (/\ Shows(p.messages, u, b, k)
            /\ (u = t /\ p.waiting # 0 /\ e.kind # "ended") => Mine(p.messages, u) = {}
            /\ (t = u /\ e.kind = "delta") => e.chunk = k + 1
            /\ (t = u /\ e.kind = "answer") => e.chunk = k)
               => Shows(r.messages, u, Base(e, u, b), Grown(e, u, k))
    BY <1>7, <1>9, <1>10
  <2> QED  BY <2>1, <2>2, <2>3, <2>4, <2>5, <2>6 DEF Handled, r, timeline, over, turn

\* Settling the messages of a turn changes nothing of them but what is pending.
LEMMA SettledMessages ==
    ASSUME NEW p \in Pages, NEW t \in Turns, NEW messages,
           messages = [i \in DOMAIN p.messages |->
                         IF IsAgent(p.messages[i], t) THEN Settle(p.messages[i]) ELSE p.messages[i]]
    PROVE  /\ messages \in Seq(Messages) /\ DOMAIN messages = DOMAIN p.messages
           /\ \A i \in DOMAIN p.messages :
                 /\ messages[i].kind = p.messages[i].kind /\ messages[i].sub = p.messages[i].sub
                 /\ messages[i].text = p.messages[i].text /\ messages[i].turn = p.messages[i].turn
                 /\ messages[i].pending => p.messages[i].pending
<1> DEFINE D == DOMAIN p.messages
<1>1. D = 1 .. Len(p.messages) /\ Len(p.messages) \in Nat /\ \A i \in D : p.messages[i] \in Messages
  BY PageIs
<1>2. ASSUME NEW i \in D
      PROVE  /\ messages[i] \in Messages
             /\ messages[i].kind = p.messages[i].kind /\ messages[i].sub = p.messages[i].sub
             /\ messages[i].text = p.messages[i].text /\ messages[i].turn = p.messages[i].turn
             /\ messages[i].pending => p.messages[i].pending
  <2>1. messages[i] = IF IsAgent(p.messages[i], t) THEN Settle(p.messages[i]) ELSE p.messages[i]
    OBVIOUS
  <2>2. p.messages[i] \in Messages
    BY <1>1
  <2>3. CASE IsAgent(p.messages[i], t)
    <3>1. messages[i] = Settle(p.messages[i])
      BY <2>1, <2>3
    <3> QED  BY <2>2, <3>1, SettleIs
  <2>4. CASE ~IsAgent(p.messages[i], t)
    <3>1. messages[i] = p.messages[i]
      BY <2>1, <2>4
    <3> QED  BY <2>2, <3>1
  <2> QED  BY <2>3, <2>4
<1>3. DOMAIN messages = D /\ messages \in [1 .. Len(p.messages) -> Messages]
  BY <1>1, <1>2
<1>4. messages \in Seq(Messages)
  BY <1>1, <1>3, IsASeq
<1> HIDE DEF D
<1> QED  BY <1>2, <1>3, <1>4 DEF D

\* What a frame of the older protocol leaves true of the page.
Keeps(p, r, e) ==
    /\ r \in Pages /\ r.timeline = p.timeline /\ r.waiting \in {0, p.waiting}
    /\ r.over \subseteq p.over \cup {e.turn} /\ (e.kind # "ended" => r.over \subseteq p.over)
    /\ \A n, b \in Nat : (Bounded(p.messages, n, b) /\ e.turn <= b) => Bounded(r.messages, n, b)
    /\ Single(r) /\ (OnlyAwaited(p) => OnlyAwaited(r))
    /\ \A u \in Turns : \A x :
          (Has(p.messages, u, x) /\ (u = e.turn => e.kind # "delta")) => Has(r.messages, u, x)

\* The legacy start of a turn keeps what Keeps says.
LEMMA LegacyStartedKeeps ==
    ASSUME NEW p \in Pages, Single(p), NEW e \in Events, e.kind = "started"
    PROVE  Keeps(p, LegacyStarted(p, e.turn), e)
<1> DEFINE t == e.turn
           over == p.over \ {t}
           q == [p EXCEPT !.over = over, !.busy = FALSE, !.active = t]
           r == LegacyStarted(p, t)
<1>1. t \in Turns /\ t \in 0 .. MaxTurns /\ over \in SUBSET Turns
  BY ThreadWorkspaceAssumption, PageIs DEF Events, Turns
<1>2. /\ q \in Pages /\ q.messages = p.messages /\ q.waiting = p.waiting
      /\ q.over = over /\ q.timeline = p.timeline
  <2> DEFINE M == Seq(Messages)
  <2>1. Pages = [messages : M, active : 0 .. MaxTurns, busy : BOOLEAN,
                 over : SUBSET Turns, timeline : SUBSET Turns, waiting : 0 .. MaxSubmits]
    BY DEF Pages
  <2> HIDE DEF over, t, M
  <2> QED  BY <1>1, <2>1
<1>3. r = Bind(q, t)
  <2>1. [p EXCEPT !.over = @ \ {t}, !.busy = FALSE, !.active = t] = q
    BY DEF Pages
  <2> HIDE DEF q
  <2> QED  BY <2>1 DEF LegacyStarted
<1> HIDE DEF q, r
<1>4. Single(q) /\ (OnlyAwaited(p) => OnlyAwaited(q))
  BY <1>2, SameAwaited
<1> HIDE DEF t
<1>5. /\ r \in Pages /\ r.waiting = 0 /\ r.over = over /\ r.timeline = p.timeline
  BY <1>1, <1>2, <1>3, BindIs
<1>6. /\ \A n, b \in Nat : (Bounded(q.messages, n, b) /\ t <= b) => Bounded(r.messages, n, b)
      /\ OnlyAwaited(q) => NonePending(r.messages)
      /\ \A u \in Turns : \A x : Has(q.messages, u, x) => Has(r.messages, u, x)
  BY <1>1, <1>2, <1>3, <1>4, BindThen
<1>7. Single(r) /\ (NonePending(r.messages) => OnlyAwaited(r))
  BY <1>5, NoneAwaited
<1>8. /\ r.over \subseteq p.over \cup {t} /\ r.over \subseteq p.over
  BY <1>5
<1>9. \A n, b \in Nat : (Bounded(p.messages, n, b) /\ t <= b) => Bounded(r.messages, n, b)
  BY <1>2, <1>6
<1>10. \A u \in Turns : \A x : Has(p.messages, u, x) => Has(r.messages, u, x)
  BY <1>2, <1>6
<1> HIDE DEF over
<1> QED  BY <1>2, <1>4, <1>5, <1>6, <1>7, <1>8, <1>9, <1>10 DEF Keeps, t, r

\* So does its legacy end.
LEMMA LegacyEndedKeeps ==
    ASSUME NEW p \in Pages, Single(p), NEW e \in Events, e.kind = "ended"
    PROVE  Keeps(p, LegacyEnded(p, e.turn), e)
<1> DEFINE t == e.turn
           over == p.over \cup {t}
           turn == Unless(p.active, t)
           new == [i \in DOMAIN p.messages |->
                     IF IsAgent(p.messages[i], t) THEN Settle(p.messages[i]) ELSE p.messages[i]]
           r == LegacyEnded(p, t)
           m == p.messages
<1>1. t \in Turns /\ t \in 0 .. MaxTurns /\ over \in SUBSET Turns
  BY ThreadWorkspaceAssumption, PageIs DEF Events, Turns
<1>2. turn \in 0 .. MaxTurns
  BY PageIs, ThreadWorkspaceAssumption DEF Unless
<1>3. /\ new \in Seq(Messages) /\ DOMAIN new = DOMAIN p.messages
      /\ \A i \in DOMAIN p.messages :
            /\ new[i].kind = p.messages[i].kind /\ new[i].sub = p.messages[i].sub
            /\ new[i].text = p.messages[i].text /\ new[i].turn = p.messages[i].turn
            /\ new[i].pending => p.messages[i].pending
  <2>1. PICK f : f = new
    OBVIOUS
  <2>2. /\ f \in Seq(Messages) /\ DOMAIN f = DOMAIN p.messages
        /\ \A i \in DOMAIN p.messages :
              /\ f[i].kind = p.messages[i].kind /\ f[i].sub = p.messages[i].sub
              /\ f[i].text = p.messages[i].text /\ f[i].turn = p.messages[i].turn
              /\ f[i].pending => p.messages[i].pending
    <3> HIDE DEF t
    <3> QED  BY <1>1, <2>1, SettledMessages
  <2> HIDE DEF new
  <2> QED  BY <2>1, <2>2
<1>4. r = [p EXCEPT !.over = over, !.active = turn, !.messages = new]
  BY DEF LegacyEnded
<1> HIDE DEF new, over, turn, r
<1>5. /\ r \in Pages /\ r.messages = new /\ r.waiting = p.waiting
      /\ r.over = over /\ r.timeline = p.timeline
  <2> DEFINE M == Seq(Messages)
  <2>1. Pages = [messages : M, active : 0 .. MaxTurns, busy : BOOLEAN,
                 over : SUBSET Turns, timeline : SUBSET Turns, waiting : 0 .. MaxSubmits]
        /\ new \in M
    BY <1>3 DEF Pages
  <2> HIDE DEF t, M
  <2> QED  BY <1>1, <1>2, <1>4, <2>1
<1> HIDE DEF m, t
<1>6. \A i \in DOMAIN m : IsPlaceholder(r, new[i]) <=> IsPlaceholder(p, m[i])
  BY <1>3, <1>5 DEF IsPlaceholder, m
<1>7. Single(r)
  BY <1>3, <1>5, <1>6 DEF Single, m
<1>8. OnlyAwaited(p) => OnlyAwaited(r)
  BY <1>3, <1>5, <1>6 DEF OnlyAwaited, m
<1>9. \A n, b \in Nat : Bounded(m, n, b) => Bounded(new, n, b)
  BY <1>3 DEF Bounded, m
<1>10. \A u \in Turns : \A x : Has(m, u, x) => Has(new, u, x)
  <2>1. \A u : Mine(new, u) = Mine(m, u)
    BY <1>3 DEF Mine, IsAgent, m
  <2>2. \A u : \A i \in Mine(m, u) : new[i].text = m[i].text
    BY <1>3 DEF Mine, m
  <2> QED  BY <2>1, <2>2 DEF Has
<1>11. r.over \subseteq p.over \cup {t}
  BY <1>5 DEF over
<1> QED  BY <1>5, <1>7, <1>8, <1>9, <1>10, <1>11 DEF Keeps, m, t, r

\* So does a legacy chunk, which may add a message or lengthen one.
LEMMA LegacyDeltaKeeps ==
    ASSUME NEW p \in Pages, Single(p), NEW e \in Events, e.kind = "delta", Chunked(e)
    PROVE  Keeps(p, LegacyDelta(p, e), e)
<1> DEFINE t == e.turn
           over == p.over \ {t}
           turn == Else(p.active, t)
           m == p.messages
           last == Len(m)
           awaits == IsPlaceholder(p, m[last])
           mine == last # 0 /\ (IsAgent(m[last], t) \/ awaits)
           base == [p EXCEPT !.over = over, !.busy = FALSE, !.active = turn]
           r == LegacyDelta(p, e)
<1>1. t \in Turns /\ t \in 0 .. MaxTurns /\ over \in SUBSET Turns
  BY ThreadWorkspaceAssumption, PageIs DEF Events, Turns
<1>2. turn \in 0 .. MaxTurns
  BY <1>1, PageIs DEF Else
<1>3. e.chunk \in 1 .. MaxChunks
  BY ThreadWorkspaceAssumption DEF Chunked, Events
<1>4. m \in Seq(Messages) /\ last \in Nat /\ DOMAIN m = 1 .. last
      /\ \A i \in 1 .. last : m[i] \in Messages
  BY PageIs
<1>5. /\ base \in Pages /\ base.messages = m /\ base.waiting = p.waiting
      /\ base.over = over /\ base.timeline = p.timeline
  <2> DEFINE M == Seq(Messages)
  <2>1. Pages = [messages : M, active : 0 .. MaxTurns, busy : BOOLEAN,
                 over : SUBSET Turns, timeline : SUBSET Turns, waiting : 0 .. MaxSubmits]
    BY DEF Pages
  <2> HIDE DEF over, turn, t, M
  <2> QED  BY <1>1, <1>2, <2>1
<1>6. [p EXCEPT !.over = @ \ {e.turn}, !.busy = FALSE, !.active = Else(@, e.turn)] = base
  BY DEF Pages
<1>7. 0 \in 0 .. MaxSubmits /\ p.waiting \in 0 .. MaxSubmits
  BY ThreadWorkspaceAssumption, PageIs
<1>8. CASE mine
  <2> DEFINE old == m[last]
             made == Lengthened(old, e)
             new == [m EXCEPT ![last] = made]
             waiting == IF awaits THEN 0 ELSE p.waiting
  <2>1. last \in 1 .. last /\ old \in Messages
    BY <1>4, <1>8
  <2>2. /\ made \in Messages /\ made.kind = old.kind /\ made.sub = old.sub /\ made.turn = t
        /\ ~made.pending
    <3> DEFINE s == Settle(old)
               text == Append(old.text, e.chunk)
    <3>1. /\ s \in Messages /\ s.kind = old.kind /\ s.sub = old.sub
      BY <2>1, SettleIs
    <3>2. s.pending = FALSE
      BY <2>1, SettleIs
    <3>3. old.text \in Seq(1 .. MaxChunks)
      BY <2>1 DEF Messages
    <3>4. text \in Seq(1 .. MaxChunks)
      <4> HIDE DEF old
      <4> QED  BY <1>3, <3>3, AppendProperties
    <3> DEFINE T == Seq(1 .. MaxChunks)
    <3>5. Messages = [kind : {"user", "agent"}, turn : 0 .. MaxTurns, sub : 0 .. MaxSubmits,
                      text : T, pending : BOOLEAN]
          /\ text \in T
      BY <3>4 DEF Messages
    <3>6. made = [s EXCEPT !.turn = t, !.text = text]
      BY <2>1, SettleIs DEF Lengthened
    <3> HIDE DEF s, text, T, old, t, made
    <3> QED  BY <1>1, <3>1, <3>2, <3>5, <3>6
  <2>3. r = [base EXCEPT !.waiting = waiting, !.messages = new]
    <3>1. r = [base EXCEPT !.waiting = IF awaits THEN 0 ELSE @,
                           !.messages[last] = Lengthened(@, e)]
      <4> HIDE DEF base
      <4> QED  BY <1>6, <1>8 DEF LegacyDelta
    <3> HIDE DEF base, awaits
    <3> QED  BY <1>5, <3>1 DEF Pages
  <2>4. new \in Seq(Messages) /\ DOMAIN new = DOMAIN m
        /\ \A i \in DOMAIN m : new[i] = IF i = last THEN made ELSE m[i]
    <3>1. DOMAIN new = DOMAIN m /\ \A i \in DOMAIN m : new[i] = IF i = last THEN made ELSE m[i]
      BY <1>4, <2>1
    <3>2. new \in Seq(Messages)
      <4> HIDE DEF made, m, last
      <4> QED  BY <1>4, <2>1, <2>2, ExceptSeq
    <3> QED  BY <3>1, <3>2
  <2> HIDE DEF new, made
  <2>5. waiting \in 0 .. MaxSubmits
    BY <1>7
  <2>6. /\ r \in Pages /\ r.messages = new /\ r.waiting = waiting
        /\ r.over = over /\ r.timeline = p.timeline
    <3> DEFINE M == Seq(Messages)
    <3>1. Pages = [messages : M, active : 0 .. MaxTurns, busy : BOOLEAN,
                   over : SUBSET Turns, timeline : SUBSET Turns, waiting : 0 .. MaxSubmits]
          /\ new \in M
      BY <2>4 DEF Pages
    <3> HIDE DEF M, waiting, base, r
    <3> QED  BY <1>5, <2>3, <2>5, <3>1
  <2> HIDE DEF r, base
  <2>7. \A i \in DOMAIN m : i # last => new[i] = m[i]
    BY <2>4
  <2>8. new[last] = made /\ last \in DOMAIN m
    BY <1>4, <2>1, <2>4
  <2> HIDE DEF m, last, old, t
  <2>9. Single(r) /\ (OnlyAwaited(p) => OnlyAwaited(r))
    <3>1. CASE awaits
      <4>1. r.waiting = 0
        BY <2>6, <3>1
      <4>2. OnlyAwaited(p) => NonePending(new)
        <5> HAVE OnlyAwaited(p)
        <5>1. \A i \in DOMAIN m : i # last => ~m[i].pending
          BY <2>8, <3>1 DEF OnlyAwaited, Single, m
        <5> QED  BY <2>2, <2>4, <2>7, <2>8, <5>1 DEF NonePending
      <4> QED  BY <2>6, <4>1, <4>2, NoneAwaited
    <3>2. CASE ~awaits
      <4>1. r.waiting = p.waiting
        BY <2>6, <3>2
      <4>2. \A i \in DOMAIN m : IsPlaceholder(r, new[i]) <=> IsPlaceholder(p, m[i])
        BY <2>2, <2>7, <2>8, <4>1 DEF IsPlaceholder, old
      <4>3. \A i \in DOMAIN m : IsPlaceholder(p, m[i]) => i # last
        BY <3>2
      <4>4. Single(r)
        BY <2>4, <2>6, <2>7, <4>2, <4>3 DEF Single, m
      <4>5. OnlyAwaited(p) => OnlyAwaited(r)
        BY <2>2, <2>4, <2>6, <2>7, <2>8, <4>2, <4>3 DEF OnlyAwaited, m
      <4> QED  BY <4>4, <4>5
    <3> QED  BY <3>1, <3>2
  <2>10. \A n, b \in Nat : (Bounded(m, n, b) /\ t <= b) => Bounded(new, n, b)
    BY <2>2, <2>4, <2>7, <2>8 DEF Bounded, old
  <2>11. \A u \in Turns : \A x : (Has(m, u, x) /\ u # t) => Has(new, u, x)
    <3> SUFFICES ASSUME NEW u \in Turns, NEW x, Has(m, u, x), u # t PROVE Has(new, u, x)
      OBVIOUS
    <3>1. PICK i \in Mine(m, u) : m[i].text = x
      BY DEF Has
    <3>2. i \in DOMAIN m /\ IsAgent(m[i], u)
      BY DEF Mine
    <3>3. i # last
      <4> SUFFICES ASSUME i = last PROVE FALSE
        OBVIOUS
      <4>1. ~IsAgent(m[last], t)
        BY <3>2 DEF IsAgent
      <4>2. awaits
        BY <1>8, <4>1 DEF m, last, t
      <4>3. m[last].turn = 0
        BY <2>8, <4>2 DEF Single, m
      <4> QED  BY <3>2, <4>3 DEF IsAgent, Turns
    <3>4. i \in Mine(new, u) /\ new[i] = m[i]
      BY <2>4, <2>7, <3>2, <3>3 DEF Mine
    <3> QED  BY <3>1, <3>4 DEF Has
  <2>12. r.over \subseteq p.over
    BY <2>6
  <2>13. r.waiting \in {0, p.waiting}
    BY <2>6
  <2> HIDE DEF waiting, awaits, mine, over, turn
  <2> QED  BY <2>6, <2>9, <2>10, <2>11, <2>12, <2>13 DEF Keeps, m, t, r
<1>9. CASE ~mine
  <2> DEFINE made == [NewMessage(t) EXCEPT !.text = <<e.chunk>>]
             new == Append(m, made)
  <2>1. made \in Messages /\ made.sub = 0 /\ made.turn = t /\ ~made.pending
    <3> DEFINE T == Seq(1 .. MaxChunks)
               s == NewMessage(t)
               text == <<e.chunk>>
    <3>1. s \in Messages /\ s.sub = 0 /\ s.turn = t
      BY <1>1, NewMessageIs
    <3>2. s.pending = FALSE
      BY <1>1, NewMessageIs
    <3>3. text \in T
      BY <1>3
    <3>4. Messages = [kind : {"user", "agent"}, turn : 0 .. MaxTurns, sub : 0 .. MaxSubmits,
                      text : T, pending : BOOLEAN]
      BY DEF Messages
    <3>5. made = [s EXCEPT !.text = text]
      OBVIOUS
    <3> HIDE DEF s, text, T, t, made
    <3> QED  BY <3>1, <3>2, <3>3, <3>4, <3>5
  <2>2. r = [base EXCEPT !.messages = new]
    <3>1. r = [base EXCEPT !.messages = Append(@, made)]
      <4> HIDE DEF base
      <4> QED  BY <1>6, <1>9 DEF LegacyDelta
    <3> HIDE DEF base, made
    <3> QED  BY <1>5, <3>1 DEF Pages
  <2> HIDE DEF made
  <2>3. /\ new \in Seq(Messages) /\ Len(new) = last + 1 /\ new[last + 1] = made
        /\ \A i \in 1 .. last : new[i] = m[i]
    <3> HIDE DEF m
    <3> QED  BY <1>4, <2>1, AppendProperties DEF last
  <2>4. DOMAIN new = 1 .. last + 1
    <3> HIDE DEF new
    <3> QED  BY <2>3, LenProperties
  <2> HIDE DEF new
  <2>5. /\ r \in Pages /\ r.messages = new /\ r.waiting = p.waiting
        /\ r.over = over /\ r.timeline = p.timeline
    <3> DEFINE M == Seq(Messages)
    <3>1. Pages = [messages : M, active : 0 .. MaxTurns, busy : BOOLEAN,
                   over : SUBSET Turns, timeline : SUBSET Turns, waiting : 0 .. MaxSubmits]
          /\ new \in M
      BY <2>3 DEF Pages
    <3> HIDE DEF M, base, r
    <3> QED  BY <1>5, <2>2, <3>1
  <2> HIDE DEF r, base, mine, awaits, m, last, t
  <2>6. \A i \in DOMAIN new : (i \in DOMAIN m /\ new[i] = m[i]) \/ (i = last + 1 /\ new[i] = made)
    BY <1>4, <2>3, <2>4
  <2>7. \A i \in DOMAIN m : i \in DOMAIN new /\ new[i] = m[i]
    BY <1>4, <2>3, <2>4
  <2>8. ~IsPlaceholder(r, made) /\ \A x : IsPlaceholder(r, x) <=> IsPlaceholder(p, x)
    BY <1>7, <2>1, <2>5 DEF IsPlaceholder
  <2>9. Single(r)
    BY <2>5, <2>6, <2>8 DEF Single, m
  <2>10. OnlyAwaited(p) => OnlyAwaited(r)
    BY <2>1, <2>5, <2>6, <2>8 DEF OnlyAwaited, m
  <2>11. \A n, b \in Nat : (Bounded(m, n, b) /\ t <= b) => Bounded(new, n, b)
    BY <2>1, <2>6 DEF Bounded
  <2>12. \A u \in Turns : \A x : Has(m, u, x) => Has(new, u, x)
    <3> TAKE u \in Turns
    <3>1. \A i \in Mine(m, u) : i \in Mine(new, u) /\ new[i] = m[i]
      BY <2>7 DEF Mine
    <3> QED  BY <3>1 DEF Has
  <2>13. r.over \subseteq p.over
    BY <2>5
  <2> HIDE DEF over, turn
  <2> QED  BY <2>5, <2>9, <2>10, <2>11, <2>12, <2>13 DEF Keeps, m, t, r
<1> QED  BY <1>8, <1>9

\* A frame of the older protocol.
LEMMA HandleLegacyKeeps ==
    ASSUME NEW p \in Pages, Single(p), NEW e \in Events, Chunked(e), e.kind \in LegacyKinds
    PROVE  /\ Keeps(p, HandleLegacy(p, e), e)
           /\ e.turn \in p.timeline => HandleLegacy(p, e) = p
<1>1. CASE e.turn \in p.timeline
  <2>1. HandleLegacy(p, e) = p
    BY <1>1 DEF HandleLegacy
  <2>2. Keeps(p, p, e)
    BY DEF Keeps
  <2> QED  BY <2>1, <2>2
<1>2. CASE e.turn \notin p.timeline
  <2>1. CASE e.kind = "started"
    <3>1. HandleLegacy(p, e) = LegacyStarted(p, e.turn)
      BY <1>2, <2>1 DEF HandleLegacy
    <3> QED  BY <1>2, <2>1, <3>1, LegacyStartedKeeps
  <2>2. CASE e.kind = "delta"
    <3>1. HandleLegacy(p, e) = LegacyDelta(p, e)
      BY <1>2, <2>2 DEF HandleLegacy
    <3> QED  BY <1>2, <2>2, <3>1, LegacyDeltaKeeps
  <2>3. CASE e.kind = "ended"
    <3>1. HandleLegacy(p, e) = LegacyEnded(p, e.turn)
      BY <1>2, <2>3 DEF HandleLegacy
    <3> QED  BY <1>2, <2>3, <3>1, LegacyEndedKeeps
  <2> QED  BY <2>1, <2>2, <2>3 DEF LegacyKinds
<1> QED  BY <1>1, <1>2

\* A prompt and the reply it awaits.
LEMMA SubmittedIs ==
    ASSUME NEW p \in Pages, NEW n \in 1 .. MaxSubmits, NEW b \in Nat,
           Bounded(p.messages, n - 1, b)
    PROVE  \A r : r = Submitted(p, n) =>
             /\ r \in Pages /\ r.waiting = n /\ r.active = p.active
             /\ r.over = p.over /\ r.timeline = p.timeline
             /\ Bounded(r.messages, n, b) /\ Single(r)
             /\ NonePending(p.messages) => OnlyAwaited(r)
             /\ \A u \in Turns : \A x : Has(p.messages, u, x) => Has(r.messages, u, x)
             /\ \A u \in Turns : \A c : \A k : Shows(p.messages, u, c, k) => Shows(r.messages, u, c, k)
             /\ \A u \in Turns : Mine(r.messages, u) = Mine(p.messages, u)
<1> DEFINE prompt == [kind |-> "user", turn |-> 0, sub |-> n, text |-> <<>>, pending |-> FALSE]
           reply == [kind |-> "agent", turn |-> 0, sub |-> n, text |-> <<>>, pending |-> TRUE]
           m == p.messages
           added == <<prompt, reply>>
           new == m \o added
           r == Submitted(p, n)
<1>1. n \in Nat /\ n # 0 /\ n \in 0 .. MaxSubmits /\ MaxSubmits \in Nat /\ MaxTurns \in Nat
  BY ThreadWorkspaceAssumption
<1>2. /\ prompt \in Messages /\ prompt.kind = "user" /\ prompt.turn = 0 /\ prompt.sub = n
      /\ ~prompt.pending
  BY <1>1 DEF Messages
<1>3. /\ reply \in Messages /\ reply.kind = "agent" /\ reply.turn = 0 /\ reply.sub = n
      /\ reply.text = <<>>
  BY <1>1 DEF Messages
<1>4. m \in Seq(Messages) /\ Len(m) \in Nat /\ DOMAIN m = 1 .. Len(m)
      /\ \A i \in 1 .. Len(m) : m[i] \in Messages
  BY PageIs
<1> HIDE DEF prompt, reply, m
<1>5. /\ new \in Seq(Messages) /\ Len(new) = Len(m) + 2
      /\ \A i \in 1 .. Len(m) : new[i] = m[i]
      /\ new[Len(m) + 1] = prompt /\ new[Len(m) + 2] = reply
  <2>1. added \in Seq(Messages) /\ Len(added) = 2 /\ added[1] = prompt /\ added[2] = reply
    BY <1>2, <1>3
  <2> HIDE DEF added
  <2>2. /\ new \in Seq(Messages) /\ Len(new) = Len(m) + Len(added)
        /\ \A i \in 1 .. Len(m) + Len(added) : new[i] = IF i <= Len(m) THEN m[i] ELSE added[i - Len(m)]
    BY <1>4, <2>1, ConcatProperties
  <2> HIDE DEF new
  <2>3. \A i \in 1 .. Len(m) : new[i] = m[i]
    BY <1>4, <2>1, <2>2
  <2>4. new[Len(m) + 1] = added[1]
    BY <1>4, <2>1, <2>2
  <2>5. new[Len(m) + 2] = added[2]
    BY <1>4, <2>1, <2>2
  <2> QED  BY <2>1, <2>2, <2>3, <2>4, <2>5
<1>6. r = [p EXCEPT !.busy = TRUE, !.waiting = n, !.messages = new]
  BY DEF Submitted, m, prompt, reply
<1> HIDE DEF new, r
<1>7. DOMAIN new = 1 .. Len(m) + 2
  BY <1>5, LenProperties
<1>8. /\ r \in Pages /\ r.messages = new /\ r.waiting = n /\ r.active = p.active
      /\ r.over = p.over /\ r.timeline = p.timeline
  <2> DEFINE M == Seq(Messages)
  <2>1. Pages = [messages : M, active : 0 .. MaxTurns, busy : BOOLEAN,
                 over : SUBSET Turns, timeline : SUBSET Turns, waiting : 0 .. MaxSubmits]
        /\ new \in M
    BY <1>5 DEF Pages
  <2> HIDE DEF M
  <2> QED  BY <1>1, <1>6, <2>1
<1>9. \A i \in DOMAIN new : \/ i \in DOMAIN m /\ new[i] = m[i]
                            \/ i = Len(m) + 1 /\ new[i] = prompt
                            \/ i = Len(m) + 2 /\ new[i] = reply
  BY <1>4, <1>5, <1>7
<1>10. \A i \in DOMAIN m : i \in DOMAIN new /\ new[i] = m[i]
  BY <1>4, <1>5, <1>7
<1>11. \A i \in DOMAIN m : ~IsPlaceholder(r, m[i])
  <2>1. \A i \in DOMAIN m : m[i].sub <= n - 1 /\ m[i].sub \in Nat
    <3> TAKE i \in DOMAIN m
    <3>1. m[i] \in Messages
      BY <1>4
    <3>2. m[i].sub \in Nat
      BY <1>1, <3>1 DEF Messages
    <3> QED  BY <3>2 DEF Bounded, m
  <2> QED  BY <1>1, <1>8, <2>1 DEF IsPlaceholder
<1>12. ~IsPlaceholder(r, prompt) /\ IsPlaceholder(r, reply)
  BY <1>1, <1>2, <1>3, <1>8 DEF IsPlaceholder
<1>13. Single(r)
  BY <1>3, <1>8, <1>9, <1>11, <1>12 DEF Single
<1>14. NonePending(m) => OnlyAwaited(r)
  BY <1>2, <1>8, <1>9, <1>11, <1>12 DEF OnlyAwaited, NonePending
<1>15. Bounded(new, n, b)
  <2> SUFFICES ASSUME NEW i \in DOMAIN new PROVE new[i].sub <= n /\ new[i].turn <= b
    BY DEF Bounded
  <2>1. CASE i \in DOMAIN m /\ new[i] = m[i]
    <3>2. m[i].sub \in Nat
      <4>1. m[i] \in Messages
        BY <1>4, <2>1
      <4> QED  BY <1>1, <4>1 DEF Messages
    <3>1. m[i].sub <= n - 1 /\ m[i].sub \in Nat /\ m[i].turn <= b
      BY <2>1, <3>2 DEF Bounded, m
    <3> QED  BY <1>1, <2>1, <3>1
  <2>2. CASE new[i] = prompt
    BY <1>1, <1>2, <2>2
  <2>3. CASE new[i] = reply
    BY <1>1, <1>3, <2>3
  <2> QED  BY <1>9, <2>1, <2>2, <2>3
<1>16. ASSUME NEW u \in Turns
       PROVE  Mine(new, u) = Mine(m, u) /\ \A i \in Mine(m, u) : new[i] = m[i]
  <2>1. u # 0
    BY DEF Turns
  <2>2. \A i \in DOMAIN new : i \notin DOMAIN m => ~IsAgent(new[i], u)
    BY <1>2, <1>3, <1>9, <2>1 DEF IsAgent
  <2>3. \A i : i \in Mine(new, u) <=> i \in Mine(m, u)
    BY <1>10, <2>2 DEF Mine
  <2>4. \A i \in Mine(m, u) : i \in DOMAIN m
    BY DEF Mine
  <2> QED  BY <1>10, <2>3, <2>4
<1>17. \A u \in Turns : \A x : Has(m, u, x) => Has(new, u, x)
  BY <1>16 DEF Has
<1>18. \A u \in Turns : \A c : \A k : Shows(m, u, c, k) => Shows(new, u, c, k)
  BY <1>16 DEF Shows
<1> QED  BY <1>8, <1>13, <1>14, <1>15, <1>16, <1>17, <1>18 DEF r, m

\* The answer to the prompt.
LEMMA AcceptedIs ==
    ASSUME NEW p \in Pages, Single(p), p.waiting \in {0, submits}, NEW t \in Turns
    PROVE  \A r : r = Accepted(p, t) =>
             /\ r \in Pages /\ r.over = p.over /\ r.timeline = p.timeline
             /\ r.waiting \in {0, p.waiting} /\ (t \notin p.over => r.waiting = 0)
             /\ r.active = IF t \in p.over THEN p.active ELSE Else(p.active, t)
             /\ \A n, b \in Nat : (Bounded(p.messages, n, b) /\ t <= b) => Bounded(r.messages, n, b)
             /\ Single(r) /\ (OnlyAwaited(p) => OnlyAwaited(r))
             /\ \A u \in Turns : \A x : Has(p.messages, u, x) => Has(r.messages, u, x)
             /\ \A u \in Turns : \A b : \A k :
                   (/\ Shows(p.messages, u, b, k)
                    /\ (u = t /\ p.waiting # 0 /\ t \notin p.over) => Mine(p.messages, u) = {})
                       => Shows(r.messages, u, b, k)
             /\ t \in p.over => r.messages = p.messages
<1> DEFINE idle == [p EXCEPT !.busy = FALSE]
           next == IF p.waiting = submits THEN Bind(idle, t) ELSE idle
           r == Accepted(p, t)
           turn == Else(p.active, t)
           M == Seq(Messages)
<1>1. Pages = [messages : M, active : 0 .. MaxTurns, busy : BOOLEAN,
               over : SUBSET Turns, timeline : SUBSET Turns, waiting : 0 .. MaxSubmits]
  BY DEF Pages
<1>2. turn \in 0 .. MaxTurns
  BY PageIs, ThreadWorkspaceAssumption DEF Else, Turns
<1> HIDE DEF M, turn
<1>3. /\ idle \in Pages /\ idle.messages = p.messages /\ idle.waiting = p.waiting
      /\ idle.over = p.over /\ idle.timeline = p.timeline /\ idle.active = p.active
  BY <1>1
<1> HIDE DEF idle
<1>4. Single(idle) /\ (OnlyAwaited(p) => OnlyAwaited(idle))
  BY <1>3, SameAwaited
<1>5. CASE t \in p.over
  <2>1. r = idle
    BY <1>5 DEF Accepted, idle
  <2> HIDE DEF r
  <2> QED  BY <1>3, <1>4, <1>5, <2>1 DEF r
<1>6. CASE t \notin p.over
  <2>1. r = [next EXCEPT !.active = turn]
    BY <1>6 DEF Accepted, idle, turn
  <2>2. /\ next \in Pages /\ next.over = p.over /\ next.timeline = p.timeline /\ next.waiting = 0
        /\ \A n, b \in Nat : (Bounded(p.messages, n, b) /\ t <= b) => Bounded(next.messages, n, b)
        /\ OnlyAwaited(p) => NonePending(next.messages)
        /\ \A u \in Turns : \A x : Has(p.messages, u, x) => Has(next.messages, u, x)
        /\ \A u \in Turns : \A b : \A k :
              (Shows(p.messages, u, b, k) /\ ((u = t /\ p.waiting # 0) => Mine(p.messages, u) = {}))
                  => Shows(next.messages, u, b, k)
    <3>1. CASE p.waiting = submits
      <4>1. next = Bind(idle, t)
        BY <3>1
      <4> HIDE DEF next
      <4>2. /\ next \in Pages /\ next.waiting = 0
            /\ next.over = idle.over /\ next.timeline = idle.timeline
        BY <1>3, <4>1, BindIs
      <4>3. /\ \A n, b \in Nat : (Bounded(idle.messages, n, b) /\ t <= b) => Bounded(next.messages, n, b)
            /\ OnlyAwaited(idle) => NonePending(next.messages)
            /\ \A u \in Turns : \A x : Has(idle.messages, u, x) => Has(next.messages, u, x)
            /\ \A u \in Turns : \A b : \A k :
                  (/\ Shows(idle.messages, u, b, k)
                   /\ (u = t /\ idle.waiting # 0) => Mine(idle.messages, t) = {})
                       => Shows(next.messages, u, b, k)
        BY <1>3, <1>4, <4>1, BindThen
      <4>4. \A n, b \in Nat : (Bounded(p.messages, n, b) /\ t <= b) => Bounded(next.messages, n, b)
        BY <1>3, <4>3
      <4>5. OnlyAwaited(p) => NonePending(next.messages)
        BY <1>4, <4>3
      <4>6. \A u \in Turns : \A x : Has(p.messages, u, x) => Has(next.messages, u, x)
        BY <1>3, <4>3
      <4>7. ASSUME NEW u \in Turns, NEW b, NEW k, Shows(p.messages, u, b, k),
                   (u = t /\ p.waiting # 0) => Mine(p.messages, u) = {}
            PROVE  Shows(next.messages, u, b, k)
        <5>1. Shows(idle.messages, u, b, k)
          BY <1>3, <4>7
        <5>2. (u = t /\ idle.waiting # 0) => Mine(idle.messages, t) = {}
          BY <1>3, <4>7
        <5> QED  BY <4>3, <5>1, <5>2
      <4>8. \A u \in Turns : \A b : \A k :
              (Shows(p.messages, u, b, k) /\ ((u = t /\ p.waiting # 0) => Mine(p.messages, u) = {}))
                  => Shows(next.messages, u, b, k)
        BY <4>7
      <4>9. next.over = p.over /\ next.timeline = p.timeline
        BY <1>3, <4>2
      <4> QED  BY <4>2, <4>4, <4>5, <4>6, <4>8, <4>9
    <3>2. CASE p.waiting # submits
      <4>1. next = idle /\ idle.waiting = 0
        BY <1>3, <3>2
      <4> HIDE DEF next
      <4>2. OnlyAwaited(p) => NonePending(next.messages)
        <5>1. OnlyAwaited(idle) => NonePending(idle.messages)
          BY <4>1, NoneAwaited
        <5> QED  BY <1>4, <4>1, <5>1
      <4>3. next \in Pages /\ next.over = p.over /\ next.timeline = p.timeline /\ next.waiting = 0
            /\ next.messages = p.messages
        BY <1>3, <4>1
      <4> QED  BY <4>2, <4>3
    <3> QED  BY <3>1, <3>2
  <2> HIDE DEF next, r
  <2>3. /\ r \in Pages /\ r.messages = next.messages /\ r.waiting = next.waiting /\ r.active = turn
        /\ r.over = next.over /\ r.timeline = next.timeline
    BY <1>1, <1>2, <2>1, <2>2
  <2>4. Single(r) /\ (NonePending(r.messages) => OnlyAwaited(r))
    BY <2>2, <2>3, NoneAwaited
  <2> QED  BY <1>6, <2>2, <2>3, <2>4 DEF r, turn
<1> QED  BY <1>5, <1>6

\* An accepted prompt keeps what the page shows of every turn.
LEMMA AcceptedShows ==
    ASSUME NEW p \in Pages, Single(p), p.waiting \in {0, submits}, NEW t \in Turns,
           NEW u \in Turns, NEW b, NEW k, Shows(p.messages, u, b, k),
           (u = t /\ p.waiting # 0 /\ t \notin p.over) => Mine(p.messages, u) = {}
    PROVE  Shows(Accepted(p, t).messages, u, b, k)
<1>1. PICK r : r = Accepted(p, t)
  OBVIOUS
<1>2. \A v \in Turns : \A c : \A d :
         (/\ Shows(p.messages, v, c, d)
          /\ (v = t /\ p.waiting # 0 /\ t \notin p.over) => Mine(p.messages, v) = {})
             => Shows(r.messages, v, c, d)
  BY <1>1, AcceptedIs
<1> QED  BY <1>1, <1>2

\* The refusal of the prompt.
LEMMA RejectedIs ==
    ASSUME NEW p \in Pages, Single(p), p.waiting \in {0, submits}
    PROVE  \A r : r = Rejected(p) =>
             /\ r \in Pages /\ r.over = p.over /\ r.timeline = p.timeline
             /\ r.waiting = 0 /\ r.active = p.active
             /\ \A n, b \in Nat : Bounded(p.messages, n, b) => Bounded(r.messages, n, b)
             /\ OnlyAwaited(p) => NonePending(r.messages)
             /\ \A u \in Turns : \A x : Has(p.messages, u, x) => Has(r.messages, u, x)
             /\ \A u \in Turns : \A b : \A k : Shows(p.messages, u, b, k) => Shows(r.messages, u, b, k)
<1> DEFINE idle == [p EXCEPT !.busy = FALSE]
           r == Rejected(p)
           M == Seq(Messages)
<1>1. Pages = [messages : M, active : 0 .. MaxTurns, busy : BOOLEAN,
               over : SUBSET Turns, timeline : SUBSET Turns, waiting : 0 .. MaxSubmits]
  BY DEF Pages
<1> HIDE DEF M
<1>2. /\ idle \in Pages /\ idle.messages = p.messages /\ idle.waiting = p.waiting
      /\ idle.over = p.over /\ idle.timeline = p.timeline /\ idle.active = p.active
  BY <1>1
<1> HIDE DEF idle
<1>3. Single(idle) /\ (OnlyAwaited(p) => OnlyAwaited(idle))
  BY <1>2, SameAwaited
<1>4. CASE p.waiting = submits
  <2>1. r = DropPlaceholder(idle)
    BY <1>4 DEF Rejected, idle
  <2> HIDE DEF r
  <2>2. /\ r \in Pages /\ r.waiting = 0 /\ r.active = idle.active
        /\ r.over = idle.over /\ r.timeline = idle.timeline
    BY <1>2, <1>3, <2>1, DropIs
  <2>3. /\ \A n, b \in Nat : Bounded(idle.messages, n, b) => Bounded(r.messages, n, b)
        /\ OnlyAwaited(idle) => NonePending(r.messages)
        /\ \A u \in Turns : \A x : Has(idle.messages, u, x) => Has(r.messages, u, x)
        /\ \A u \in Turns : \A b : \A k : Shows(idle.messages, u, b, k) => Shows(r.messages, u, b, k)
    BY <1>2, <1>3, <2>1, DropThen
  <2> QED  BY <1>2, <1>3, <2>2, <2>3 DEF r
<1>5. CASE p.waiting # submits
  <2>1. r = idle /\ idle.waiting = 0
    BY <1>2, <1>5 DEF Rejected, idle
  <2>2. OnlyAwaited(p) => NonePending(idle.messages)
    BY <1>3, <2>1, NoneAwaited
  <2> HIDE DEF r
  <2> QED  BY <1>2, <2>1, <2>2 DEF r
<1> QED  BY <1>4, <1>5

-----------------------------------------------------------------------------
(* The sequences of events.                                                *)

\* A queue with one more event.
LEMMA Appended ==
    ASSUME NEW s \in Seq(Events), NEW e \in Events
    PROVE  \A r : r = Append(s, e) =>
             /\ r \in Seq(Events) /\ r # <<>> /\ Len(r) = Len(s) + 1 /\ Len(s) \in Nat
             /\ DOMAIN s = 1 .. Len(s) /\ DOMAIN r = 1 .. Len(s) + 1
             /\ \A i \in 1 .. Len(s) : s[i] \in Events /\ r[i] = s[i] /\ i \in 1 .. Len(s) + 1
             /\ r[Len(s) + 1] = e /\ Len(s) + 1 \in 1 .. Len(s) + 1
             /\ s # <<>> => Head(r) = Head(s)
             /\ s = <<>> => Head(r) = e /\ Len(s) = 0
<1> SUFFICES ASSUME NEW r, r = Append(s, e)
             PROVE  /\ r \in Seq(Events) /\ r # <<>> /\ Len(r) = Len(s) + 1 /\ Len(s) \in Nat
                    /\ DOMAIN s = 1 .. Len(s) /\ DOMAIN r = 1 .. Len(s) + 1
                    /\ \A i \in 1 .. Len(s) : s[i] \in Events /\ r[i] = s[i] /\ i \in 1 .. Len(s) + 1
                    /\ r[Len(s) + 1] = e /\ Len(s) + 1 \in 1 .. Len(s) + 1
                    /\ s # <<>> => Head(r) = Head(s)
                    /\ s = <<>> => Head(r) = e /\ Len(s) = 0
  OBVIOUS
<1>1. /\ r \in Seq(Events) /\ r # <<>> /\ Len(r) = Len(s) + 1
      /\ \A i \in 1 .. Len(s) : r[i] = s[i]
      /\ r[Len(s) + 1] = e
  BY AppendProperties
<1>2. Len(s) \in Nat /\ DOMAIN s = 1 .. Len(s) /\ DOMAIN r = 1 .. Len(s) + 1
  BY <1>1, LenProperties
<1>3. \A i \in 1 .. Len(s) : s[i] \in Events /\ i \in 1 .. Len(s) + 1
  BY <1>2, ElementOfSeq
<1>4. /\ s # <<>> => Head(r) = Head(s)
      /\ s = <<>> => Head(r) = e /\ Len(s) = 0
  BY HeadTailAppend
<1>5. Len(s) + 1 \in 1 .. Len(s) + 1
  BY <1>2
<1> QED  BY <1>1, <1>2, <1>3, <1>4, <1>5

\* A queue without its first event.
LEMMA Shortened ==
    ASSUME NEW s \in Seq(Events), s # <<>>
    PROVE  \A r : r = Tail(s) =>
             /\ r \in Seq(Events) /\ Len(s) \in Nat \ {0} /\ Len(r) = Len(s) - 1
             /\ DOMAIN s = 1 .. Len(s) /\ DOMAIN r = 1 .. Len(s) - 1
             /\ Head(s) = s[1] /\ s[1] \in Events /\ 1 \in DOMAIN s
             /\ \A i \in DOMAIN r : i + 1 \in DOMAIN s /\ r[i] = s[i + 1]
             /\ \A i \in DOMAIN s : s[i] \in Events /\ (i # 1 => i - 1 \in DOMAIN r /\ r[i - 1] = s[i])
<1> SUFFICES ASSUME NEW r, r = Tail(s)
             PROVE  /\ r \in Seq(Events) /\ Len(s) \in Nat \ {0} /\ Len(r) = Len(s) - 1
                    /\ DOMAIN s = 1 .. Len(s) /\ DOMAIN r = 1 .. Len(s) - 1
                    /\ Head(s) = s[1] /\ s[1] \in Events /\ 1 \in DOMAIN s
                    /\ \A i \in DOMAIN r : i + 1 \in DOMAIN s /\ r[i] = s[i + 1]
                    /\ \A i \in DOMAIN s : s[i] \in Events
                          /\ (i # 1 => i - 1 \in DOMAIN r /\ r[i - 1] = s[i])
  OBVIOUS
<1>1. /\ r \in Seq(Events) /\ Len(r) = Len(s) - 1
      /\ \A i \in 1 .. Len(r) : r[i] = s[i + 1]
  BY HeadTailProperties
<1>2. Len(s) \in Nat \ {0} /\ DOMAIN s = 1 .. Len(s) /\ DOMAIN r = 1 .. Len(s) - 1
  BY <1>1, LenProperties, EmptySeq
<1>3. \A i \in DOMAIN s : s[i] \in Events
  BY <1>2, ElementOfSeq
<1>4. Head(s) = s[1]
  OBVIOUS
<1>5. \A i \in DOMAIN r : i + 1 \in DOMAIN s /\ r[i] = s[i + 1]
  BY <1>1, <1>2
<1>6. \A i \in DOMAIN s : i # 1 => i - 1 \in DOMAIN r /\ r[i - 1] = s[i]
  <2> SUFFICES ASSUME NEW i \in DOMAIN s, i # 1 PROVE i - 1 \in DOMAIN r /\ r[i - 1] = s[i]
    OBVIOUS
  <2>1. i - 1 \in DOMAIN r /\ (i - 1) + 1 = i
    BY <1>2
  <2>2. r[i - 1] = s[(i - 1) + 1]
    BY <1>5, <2>1
  <2> QED  BY <2>1, <2>2
<1>7. 1 \in DOMAIN s
  BY <1>2
<1> QED  BY <1>1, <1>2, <1>3, <1>4, <1>5, <1>6, <1>7

\* The kept events are the last of those kept and the new one.
LEMMA KeepIs ==
    ASSUME TypeOK, StageInv, KeepEvent
    PROVE  /\ pipe # <<>> /\ Head(pipe) = pipe[1] /\ pipe[1] \in Events /\ ~pipe[1].legacy
           /\ kept' \in Seq(Events) /\ Len(kept') \in Nat /\ Len(kept') <= Limit
           /\ Len(kept) \in Nat /\ DOMAIN kept = 1 .. Len(kept)
           /\ \E d \in Nat :
                /\ d <= Len(kept) /\ DOMAIN kept' = 1 .. Len(kept) + 1 - d
                /\ \A i \in DOMAIN kept' :
                      \/ i + d \in DOMAIN kept /\ kept'[i] = kept[i + d]
                      \/ i + d = Len(kept) + 1 /\ kept'[i] = pipe[1]
                /\ (d # 0 /\ get.pc \in {"none", "asked"}) => ~Smooth'
           /\ past' \subseteq Disturbances
           /\ "missed" \notin past' => "missed" \notin past
           /\ Smooth' => past' = past
<1> DEFINE e == pipe[1]
           all == Append(kept, Head(pipe))
           full == Len(all) > Limit
           what == IF full /\ get.pc \in {"none", "asked"} THEN {"crossed"} ELSE {}
<1>1. pipe \in Seq(Events) /\ kept \in Seq(Events) /\ Limit \in Nat \ {0} /\ Len(kept) <= Limit
  BY ThreadWorkspaceAssumption DEF TypeOK
<1>2. stage = "keep" /\ pipe # <<>> /\ ~Head(pipe).legacy
  BY DEF KeepEvent, StageInv
<1>3. Head(pipe) = e /\ e \in Events
  BY <1>1, <1>2, Shortened
<1>4. /\ all \in Seq(Events) /\ Len(all) = Len(kept) + 1 /\ Len(kept) \in Nat
      /\ DOMAIN kept = 1 .. Len(kept) /\ DOMAIN all = 1 .. Len(kept) + 1
      /\ \A i \in 1 .. Len(kept) : all[i] = kept[i]
      /\ all[Len(kept) + 1] = e
      /\ \A i \in DOMAIN all : all[i] \in Events
  <2> DEFINE t == all
  <2>0. /\ t \in Seq(Events) /\ Len(t) = Len(kept) + 1 /\ Len(kept) \in Nat
        /\ DOMAIN kept = 1 .. Len(kept) /\ DOMAIN t = 1 .. Len(kept) + 1
        /\ \A i \in 1 .. Len(kept) : t[i] = kept[i]
        /\ t[Len(kept) + 1] = e
    BY <1>1, <1>3, Appended
  <2> HIDE DEF t
  <2>1. \A i \in DOMAIN t : t[i] \in Events
    BY <2>0, ElementOfSeq
  <2> QED  BY <2>0, <2>1 DEF t
<1>5. /\ kept' = IF full THEN SubSeq(all, Len(all) - Limit + 1, Len(all)) ELSE all
      /\ past' = Noted(what)
  BY DEF KeepEvent
<1> HIDE DEF all, e
<1>6. what \in SUBSET Disturbances
  BY DEF Disturbances
<1>7. /\ "missed" \notin past' => "missed" \notin past
      /\ Smooth' => past' = past \cup what /\ what \subseteq {"early", "cut"}
      /\ past' \subseteq Disturbances
  <2> HIDE DEF what
  <2> QED  BY <1>5, <1>6, NotedCalm, NotedIs
<1>8. Smooth' => past' = past
  BY <1>7
<1>9. CASE ~full
  <2>1. kept' = all /\ Len(all) <= Limit
    BY <1>1, <1>4, <1>5, <1>9
  <2>2. \A i \in DOMAIN kept' : \/ i + 0 \in DOMAIN kept /\ kept'[i] = kept[i + 0]
                                \/ i + 0 = Len(kept) + 1 /\ kept'[i] = e
    BY <1>4, <2>1
  <2>3. DOMAIN kept' = 1 .. Len(kept) + 1 - 0 /\ 0 \in Nat /\ 0 <= Len(kept)
    BY <1>4, <2>1
  <2>4. \E d \in Nat : /\ d <= Len(kept) /\ DOMAIN kept' = 1 .. Len(kept) + 1 - d
                       /\ \A i \in DOMAIN kept' :
                             \/ i + d \in DOMAIN kept /\ kept'[i] = kept[i + d]
                             \/ i + d = Len(kept) + 1 /\ kept'[i] = e
                       /\ (d # 0 /\ get.pc \in {"none", "asked"}) => ~Smooth'
    <3> WITNESS 0 \in Nat
    <3> QED  BY <2>2, <2>3
  <2> QED  BY <1>1, <1>2, <1>3, <1>4, <1>7, <1>8, <2>1, <2>4 DEF e
<1>10. CASE full
  <2> DEFINE d == Len(all) - Limit
  <2>1. d \in Nat /\ d <= Len(kept) /\ d # 0 /\ d = Len(kept) + 1 - Limit
    BY <1>1, <1>4, <1>10
  <2>2. kept' = SubSeq(all, d + 1, Len(all)) /\ d + 1 \in Int /\ Len(all) \in Int
        /\ \A i \in d + 1 .. Len(all) : all[i] \in Events
    BY <1>1, <1>4, <1>5, <1>10, <2>1
  <2>3. /\ kept' \in Seq(Events)
        /\ Len(kept') = IF d + 1 <= Len(all) THEN Len(all) - (d + 1) + 1 ELSE 0
        /\ \A i \in 1 .. Len(all) - (d + 1) + 1 : kept'[i] = all[(d + 1) + i - 1]
    <3> HIDE DEF d
    <3> QED  BY <2>2, SubSeqProperties
  <2>4. Len(kept') = Limit /\ Limit = Len(kept) + 1 - d
    BY <1>1, <1>4, <2>1, <2>3
  <2>5. DOMAIN kept' = 1 .. Len(kept) + 1 - d
    BY <2>3, <2>4, LenProperties
  <2> HIDE DEF d
  <2>6. ASSUME NEW i \in DOMAIN kept'
        PROVE  \/ i + d \in DOMAIN kept /\ kept'[i] = kept[i + d]
               \/ i + d = Len(kept) + 1 /\ kept'[i] = e
    <3>1. i \in 1 .. Len(kept) + 1 - d /\ Len(all) - (d + 1) + 1 = Len(kept) + 1 - d
      BY <1>4, <2>1, <2>5
    <3>2. kept'[i] = all[(d + 1) + i - 1]
      BY <2>3, <3>1
    <3>4. i \in Nat /\ (d + 1) + i - 1 = i + d
      BY <1>4, <2>1, <3>1
    <3>5. d \in Nat /\ Len(kept) \in Nat
      BY <1>4, <2>1
    <3>3. i + d \in 1 .. Len(kept) \/ i + d = Len(kept) + 1
      BY <3>1, <3>5
    <3> QED  BY <1>4, <3>2, <3>3, <3>4
  <2>7. get.pc \in {"none", "asked"} => ~Smooth'
    BY <1>7, <1>10
  <2>8. \E c \in Nat : /\ c <= Len(kept) /\ DOMAIN kept' = 1 .. Len(kept) + 1 - c
                       /\ \A i \in DOMAIN kept' :
                             \/ i + c \in DOMAIN kept /\ kept'[i] = kept[i + c]
                             \/ i + c = Len(kept) + 1 /\ kept'[i] = e
                       /\ (c # 0 /\ get.pc \in {"none", "asked"}) => ~Smooth'
    <3>1. d \in Nat
      BY <2>1
    <3> QED  BY <2>1, <2>5, <2>6, <2>7, <3>1
  <2>9. Len(kept') \in Nat /\ Len(kept') <= Limit
    BY <1>1, <2>4
  <2> QED  BY <1>2, <1>3, <1>4, <1>7, <1>8, <2>3, <2>8, <2>9 DEF e
<1> QED  BY <1>9, <1>10

-----------------------------------------------------------------------------
(* The types, and the one reply a page awaits.                             *)

\* A page of the prompts and the turns there were.
PageOK(p, n, b) ==
    /\ p \in Pages /\ Bounded(p.messages, n, b) /\ Single(p) /\ p.waiting \in {0, n}
    /\ p.timeline \subseteq 1 .. b /\ p.over \subseteq 1 .. b

\* The page is as PageOK says, by its type and AwaitedInv.
LEMMA PageOKIs ==
    ASSUME TypeOK, AwaitedInv
    PROVE  PageOK(page, submits, begun)
BY DEF TypeOK, AwaitedInv, PageOK, Pages, Bounded, Single

\* Turns, chunks and complete messages only grow, and a complete message does not.
LEMMA Grows ==
    ASSUME TypeOK, StageInv, [Next]_vars
    PROVE  /\ running' \in 0 .. begun' /\ begun' \in 0 .. MaxTurns /\ begun <= begun'
           /\ said' \in [Turns -> 0 .. MaxChunks] /\ whole' \in [Turns -> 0 .. MaxChunks]
           /\ first' \in [Turns -> 0 .. MaxChunks]
           /\ sequence' \in [Turns -> Nat] /\ stopping' \in 0 .. begun'
           /\ \A t \in Turns : /\ first'[t] <= whole'[t] /\ whole'[t] <= said'[t]
                               /\ said[t] <= said'[t] /\ whole[t] <= whole'[t]
                               /\ whole'[t] = whole[t] => first'[t] = first[t]
<1> USE ThreadWorkspaceAssumption
<1>1. /\ running \in 0 .. begun /\ begun \in 0 .. MaxTurns /\ MaxTurns \in Nat
      /\ said \in [Turns -> 0 .. MaxChunks] /\ whole \in [Turns -> 0 .. MaxChunks]
      /\ first \in [Turns -> 0 .. MaxChunks] /\ MaxChunks \in Nat
      /\ sequence \in [Turns -> Nat] /\ stopping \in 0 .. begun
      /\ \A t \in Turns : first[t] <= whole[t] /\ whole[t] <= said[t]
  BY DEF TypeOK
<1>2. ASSUME NEW e \in Events, Emits(e)
      PROVE  /\ running' \in 0 .. begun' /\ begun' \in 0 .. MaxTurns /\ begun <= begun'
             /\ said' \in [Turns -> 0 .. MaxChunks] /\ whole' \in [Turns -> 0 .. MaxChunks]
             /\ first' \in [Turns -> 0 .. MaxChunks]
             /\ sequence' \in [Turns -> Nat] /\ stopping' \in 0 .. begun'
             /\ \A t \in Turns : /\ first'[t] <= whole'[t] /\ whole'[t] <= said'[t]
                                 /\ said[t] <= said'[t] /\ whole[t] <= whole'[t]
                                 /\ whole'[t] = whole[t] => first'[t] = first[t]
  <2>1. e.turn \in Turns /\ e.turn \in 1 .. begun' /\ e.turn \in 1 .. MaxTurns
    BY <1>2 DEF Events, Emits, Turns
  <2>2. begun' \in 0 .. MaxTurns /\ begun <= begun' /\ running' \in 0 .. begun'
    <3>1. CASE e.kind = "started"
      <4>1. begun' = e.turn /\ running' = e.turn /\ e.turn = begun + 1
        BY <1>2, <3>1 DEF Emits
      <4>2. begun \in Nat /\ MaxTurns \in Nat
        BY <1>1
      <4> QED  BY <2>1, <4>1, <4>2
    <3>2. CASE e.kind # "started"
      <4>1. begun' = begun /\ running' \in {0, running}
        BY <1>2, <3>2 DEF Emits
      <4>2. running \in 0 .. begun /\ begun \in 0 .. MaxTurns /\ MaxTurns \in Nat
        BY <1>1
      <4> QED  BY <4>1, <4>2
    <3> QED  BY <3>1, <3>2
  <2>3. /\ said' \in [Turns -> 0 .. MaxChunks] /\ whole' \in [Turns -> 0 .. MaxChunks]
        /\ first' \in [Turns -> 0 .. MaxChunks]
        /\ \A t \in Turns : /\ first'[t] <= whole'[t] /\ whole'[t] <= said'[t]
                            /\ said[t] <= said'[t] /\ whole[t] <= whole'[t]
                            /\ whole'[t] = whole[t] => first'[t] = first[t]
    <3>0. \A t \in Turns : /\ said[t] \in Nat /\ whole[t] \in Nat /\ first[t] \in Nat
                           /\ said[t] <= MaxChunks /\ whole[t] <= MaxChunks
      BY <1>1
    <3>1. CASE e.kind = "delta"
      <4>1. /\ said' = [said EXCEPT ![e.turn] = @ + 1] /\ said[e.turn] < MaxChunks
            /\ whole' = whole /\ first' = first
        BY <1>2, <3>1 DEF Emits
      <4>2. said[e.turn] + 1 \in 0 .. MaxChunks
        BY <1>1, <2>1, <3>0, <4>1
      <4>3. \A t \in Turns : said[t] <= said'[t]
        BY <1>1, <2>1, <3>0, <4>1
      <4>4. said' \in [Turns -> 0 .. MaxChunks]
        BY <1>1, <2>1, <4>1, <4>2
      <4>5. \A t \in Turns : said'[t] \in Nat
        BY <4>4
      <4> QED  BY <1>1, <3>0, <4>1, <4>3, <4>4, <4>5
    <3>2. CASE e.kind = "answer"
      <4>1. /\ said' = said /\ whole[e.turn] < said[e.turn]
            /\ first' = [first EXCEPT ![e.turn] = whole[e.turn]]
            /\ whole' = [whole EXCEPT ![e.turn] = said[e.turn]]
        BY <1>2, <3>2 DEF Emits
      <4>2. \A t \in Turns : IF t = e.turn THEN first'[t] = whole[t] /\ whole'[t] = said[t]
                                           ELSE first'[t] = first[t] /\ whole'[t] = whole[t]
        BY <1>1, <2>1, <4>1
      <4> QED  BY <1>1, <2>1, <3>0, <4>1, <4>2
    <3>3. CASE e.kind \notin {"delta", "answer"}
      <4>1. said' = said /\ whole' = whole /\ first' = first
        BY <1>2, <3>3 DEF Emits
      <4> QED  BY <1>1, <3>0, <4>1
    <3> QED  BY <3>1, <3>2, <3>3
  <2>5. sequence' \in [Turns -> Nat]
    <3>1. sequence[e.turn] + 1 \in Nat /\ 0 \in Nat
      BY <1>1, <2>1
    <3>2. \/ sequence' = sequence
          \/ sequence' = [sequence EXCEPT ![e.turn] = IF e.kind = "ended" THEN 0 ELSE @ + 1]
      BY <1>2 DEF Emits
    <3> QED  BY <1>1, <2>1, <3>1, <3>2
  <2>6. stopping' \in 0 .. begun'
    <3>1. stopping' \in {0, stopping, e.turn}
      BY <1>2 DEF Emits
    <3> QED  BY <1>1, <2>1, <2>2, <3>1
  <2> QED  BY <2>2, <2>3, <2>5, <2>6
<1>3. ASSUME UNCHANGED agentVars
      PROVE  /\ running' \in 0 .. begun' /\ begun' \in 0 .. MaxTurns /\ begun <= begun'
             /\ said' \in [Turns -> 0 .. MaxChunks] /\ whole' \in [Turns -> 0 .. MaxChunks]
             /\ first' \in [Turns -> 0 .. MaxChunks]
             /\ sequence' \in [Turns -> Nat] /\ stopping' \in 0 .. begun'
             /\ \A t \in Turns : /\ first'[t] <= whole'[t] /\ whole'[t] <= said'[t]
                                 /\ said[t] <= said'[t] /\ whole[t] <= whole'[t]
                                 /\ whole'[t] = whole[t] => first'[t] = first[t]
  <2>1. /\ running' = running /\ begun' = begun /\ said' = said /\ whole' = whole
        /\ first' = first /\ sequence' = sequence /\ stopping' = stopping
    BY <1>3 DEF agentVars
  <2>2. \A t \in Turns : said[t] \in Nat /\ whole[t] \in Nat
    BY <1>1
  <2> QED  BY <1>1, <2>1, <2>2
<1>4. \/ \E e \in Events : Emits(e)
      \/ UNCHANGED agentVars
  BY StepCases DEF Asks, MarkActive, KeepEvent, SendTimeline, SendLegacy, Broadcast,
     Open,
     ReadEvents, ReadActive, LoadAnswered, LoadFailed, Connect, Break, HandleFrame, Submit,
     SubmitAnswered, SubmitRefused, InterruptAnswered
<1> QED  BY <1>2, <1>3, <1>4

\* The approvals are of turns that began.
LEMMA AskedStep ==
    ASSUME TypeOK, StageInv, [Next]_vars
    PROVE  /\ asked' \in [Turns -> {"no", "open", "done"}]
           /\ \A t \in Turns : asked'[t] # "no" => t <= begun'
<1>1. /\ asked \in [Turns -> {"no", "open", "done"}]
      /\ \A t \in Turns : asked[t] # "no" => t <= begun
      /\ begun <= begun' /\ begun \in Nat /\ begun' \in Nat
      /\ running \in 0 .. begun /\ Turns \subseteq Nat
  <2>1. /\ asked \in [Turns -> {"no", "open", "done"}] /\ running \in 0 .. begun
        /\ \A t \in Turns : asked[t] # "no" => t <= begun
    BY DEF TypeOK, StageInv
  <2>2. begun \in Nat /\ begun' \in Nat /\ begun <= begun'
    <3>1. begun' \in 0 .. MaxTurns /\ begun <= begun'
      BY Grows
    <3>2. begun \in 0 .. MaxTurns /\ MaxTurns \in Nat
      BY ThreadWorkspaceAssumption DEF TypeOK
    <3> QED  BY <3>1, <3>2
  <2>3. Turns \subseteq Nat
    BY DEF Turns
  <2> QED  BY <2>1, <2>2, <2>3
<1>2. CASE asked' = asked
  <2>1. \A t \in Turns : t \in Nat
    BY <1>1
  <2> QED  BY <1>1, <1>2, <2>1
<1>3. CASE Ask
  <2>1. asked' = [asked EXCEPT ![running] = "open"] /\ begun' = begun
    BY <1>3 DEF Ask
  <2>2. ASSUME NEW u \in Turns, asked'[u] # "no" PROVE u <= begun'
    <3>1. u = running \/ asked[u] # "no"
      BY <1>1, <2>1, <2>2
    <3> QED  BY <1>1, <2>1, <3>1
  <2> QED  BY <1>1, <2>1, <2>2
<1>4. ASSUME NEW t \in Turns, Resolve(t)
      PROVE  /\ asked' \in [Turns -> {"no", "open", "done"}]
             /\ \A u \in Turns : asked'[u] # "no" => u <= begun'
  <2>1. asked' = [asked EXCEPT ![t] = "done"] /\ begun' = begun /\ asked[t] = "open"
    BY <1>4 DEF Resolve
  <2> QED  BY <1>1, <2>1
<1> QED
  BY <1>2, <1>3, <1>4 DEF Next, vars, agentVars, BeginElsewhere, Begin, BeginQuietItem,
     Stream,
     FinishAnswer, Complete, End, StartTurn, RefuseTurn, InterruptTurn, ReportInterrupt,
     RefuseInterrupt, MarkActive, KeepEvent, SendTimeline, SendLegacy, Broadcast, Open,
     ReadEvents, ReadActive, LoadAnswered, LoadFailed, Connect, Break, HandleFrame, Submit,
     SubmitAnswered, SubmitRefused, Interrupt, InterruptAnswered, InterruptRefused

\* What an event says stays so.
LEMMA SoundStays ==
    ASSUME TypeOK, StageInv, [Next]_vars, NEW e \in Events, Sound(e)
    PROVE  Sound(e)'
<1>1. e.turn \in Turns /\ e.turn \in Nat /\ e.chunk \in 0 .. MaxChunks /\ MaxChunks \in Nat
  BY ThreadWorkspaceAssumption DEF Events, Turns
<1>2. /\ begun \in Nat /\ begun' \in Nat /\ begun <= begun'
      /\ said[e.turn] \in Nat /\ said'[e.turn] \in Nat /\ said[e.turn] <= said'[e.turn]
  <2>1. /\ said \in [Turns -> 0 .. MaxChunks] /\ said' \in [Turns -> 0 .. MaxChunks]
        /\ begun' \in 0 .. MaxTurns /\ begun \in 0 .. MaxTurns /\ MaxTurns \in Nat
        /\ begun <= begun'
    BY Grows, ThreadWorkspaceAssumption DEF TypeOK
  <2>2. said[e.turn] <= said'[e.turn]
    BY <1>1, Grows
  <2> QED  BY <1>1, <2>1, <2>2
<1>3. /\ whole[e.turn] \in Nat /\ whole'[e.turn] \in Nat /\ whole[e.turn] <= whole'[e.turn]
      /\ whole'[e.turn] = whole[e.turn] => first'[e.turn] = first[e.turn]
  <2>1. whole \in [Turns -> 0 .. MaxChunks] /\ whole' \in [Turns -> 0 .. MaxChunks]
    BY Grows DEF TypeOK
  <2>2. /\ whole[e.turn] <= whole'[e.turn]
        /\ whole'[e.turn] = whole[e.turn] => first'[e.turn] = first[e.turn]
    BY <1>1, Grows
  <2> QED  BY <1>1, <2>1, <2>2
<1>4. e.kind = "delta" => e.chunk \in 1 .. said'[e.turn]
  BY <1>1, <1>2 DEF Sound
<1>5. e.kind = "answer" => /\ e.after < e.chunk /\ e.chunk <= whole'[e.turn]
                           /\ e.chunk = whole'[e.turn] => e.after = first'[e.turn]
  BY <1>1, <1>3 DEF Sound
<1> QED  BY <1>1, <1>2, <1>4, <1>5 DEF Sound

\* What the page can rely on in a frame.
LEMMA FrameIs ==
    ASSUME TypeOK, EventInv, wire # <<>>
    PROVE  /\ Head(wire) = wire[1] /\ wire[1] \in Events /\ Chunked(wire[1]) /\ Sound(wire[1])
           /\ wire[1].turn \in Turns /\ wire[1].turn \in 1 .. begun
           /\ wire[1].legacy => wire[1].kind \in LegacyKinds
<1>1. Head(wire) = wire[1] /\ wire[1] \in Events /\ 1 \in DOMAIN wire
  BY Shortened DEF TypeOK
<1>2. Sound(wire[1]) /\ wire[1].turn \in Turns /\ wire[1].chunk \in 0 .. MaxChunks
  BY <1>1 DEF EventInv, Events
<1>3. said[wire[1].turn] \in 0 .. MaxChunks /\ MaxChunks \in Nat /\ begun \in Nat
  <2>1. said \in [Turns -> 0 .. MaxChunks] /\ begun \in 0 .. MaxTurns
    BY DEF TypeOK
  <2> QED  BY <1>2, <2>1, ThreadWorkspaceAssumption
<1>4. wire[1].turn \in 1 .. begun
  BY <1>2, <1>3, ThreadWorkspaceAssumption DEF Sound, Turns
<1>5. wire[1].chunk \in Nat /\ wire[1].after \in Nat
  BY <1>1, ThreadWorkspaceAssumption DEF Events
<1> QED  BY <1>1, <1>2, <1>3, <1>4, <1>5 DEF Sound, Chunked

\* Every step leaves the page as PageOK says.
LEMMA PageStep ==
    ASSUME TypeOK, EventInv, StageInv, AwaitedInv, [Next]_vars
    PROVE  PageOK(page', submits', begun')
<1> USE ThreadWorkspaceAssumption
<1>1. PageOK(page, submits, begun)
  BY PageOKIs
<1>2. page \in Pages /\ Bounded(page.messages, submits, begun) /\ Single(page)
      /\ page.waiting \in {0, submits} /\ page.timeline \subseteq 1 .. begun
      /\ page.over \subseteq 1 .. begun
  BY <1>1 DEF PageOK
<1>3. /\ submits \in 0 .. MaxSubmits /\ submits \in Nat /\ begun \in 0 .. MaxTurns /\ begun \in Nat
      /\ \A i \in DOMAIN page.messages : page.messages[i].turn \in Nat
      /\ 1 .. begun \subseteq Turns
  <2>1. \A i \in DOMAIN page.messages : page.messages[i].turn \in 0 .. MaxTurns
    BY <1>2, PageIs DEF Messages
  <2>2. \A i \in DOMAIN page.messages : page.messages[i].turn \in Nat
    BY <2>1
  <2>3. submits \in 0 .. MaxSubmits /\ MaxSubmits \in Nat /\ begun \in 0 .. MaxTurns
        /\ MaxTurns \in Nat
    BY DEF TypeOK
  <2>4. 1 .. begun \subseteq Turns
    BY <2>3 DEF Turns
  <2> QED  BY <2>2, <2>3, <2>4
<1>4. begun <= begun' /\ begun' \in Nat
  <2>1. begun <= begun' /\ begun' \in 0 .. MaxTurns
    BY Grows
  <2> QED  BY <2>1
<1>5. ASSUME page' = page, submits' = submits PROVE PageOK(page', submits', begun')
  <2>1. Bounded(page.messages, submits, begun')
    BY <1>2, <1>3, <1>4 DEF Bounded
  <2>2. page.timeline \subseteq 1 .. begun' /\ page.over \subseteq 1 .. begun'
    BY <1>2, <1>3, <1>4
  <2> QED  BY <1>2, <1>5, <2>1, <2>2 DEF PageOK
<1>6. ASSUME begun' = begun, submits' = submits, page' \in Pages, Single(page'),
             page'.waiting \in {0, page.waiting}, Bounded(page'.messages, submits, begun),
             page'.timeline \subseteq 1 .. begun, page'.over \subseteq 1 .. begun
      PROVE  PageOK(page', submits', begun')
  BY <1>2, <1>6 DEF PageOK
<1>7. CASE HandleFrame
  <2> DEFINE e == wire[1]
  <2>1. /\ Head(wire) = e /\ e \in Events /\ Chunked(e) /\ e.turn \in 1 .. begun
        /\ e.legacy => e.kind \in LegacyKinds
    BY <1>7, FrameIs DEF HandleFrame
  <2>2. /\ page' = IF e.legacy THEN HandleLegacy(page, e) ELSE HandleTimeline(page, e)
        /\ begun' = begun /\ submits' = submits
    BY <1>7, <2>1 DEF HandleFrame, agentVars, counts
  <2> HIDE DEF e
  <2>3. CASE e.legacy
    <3>1. Keeps(page, page', e)
      BY <1>2, <2>1, <2>2, <2>3, HandleLegacyKeeps
    <3>2. Bounded(page'.messages, submits, begun)
      BY <1>2, <1>3, <2>1, <3>1 DEF Keeps
    <3> QED  BY <1>2, <1>6, <2>1, <2>2, <3>1, <3>2 DEF Keeps
  <2>4. CASE ~e.legacy
    <3>1. page' = HandleTimeline(page, e)
      BY <2>2, <2>4
    <3>2. /\ page' \in Pages /\ page'.waiting = 0
          /\ page'.timeline = page.timeline \cup {e.turn}
          /\ page'.over = IF e.kind = "ended" THEN page.over \cup {e.turn} ELSE page.over \ {e.turn}
          /\ \A n, b \in Nat :
                (Bounded(page.messages, n, b) /\ e.turn <= b) => Bounded(page'.messages, n, b)
      <4>1. Handled(page, page', e)
        BY <1>2, <2>1, <3>1, HandleTimelineIs
      <4> QED  BY <4>1 DEF Handled
    <3>3. Bounded(page'.messages, submits, begun)
      BY <1>2, <1>3, <2>1, <3>2
    <3>4. Single(page')
      BY <3>2, NoneAwaited
    <3> QED  BY <1>2, <1>6, <2>1, <2>2, <3>2, <3>3, <3>4
  <2> QED  BY <2>3, <2>4
<1>8. CASE Submit
  <2>1. /\ page' = Submitted(page, submits') /\ submits' = submits + 1 /\ begun' = begun
        /\ submits < MaxSubmits
    BY <1>8 DEF Submit, agentVars
  <2>2. submits' \in 1 .. MaxSubmits /\ submits' - 1 = submits
    BY <1>3, <2>1
  <2>3. PICK n \in 1 .. MaxSubmits : n = submits' /\ n - 1 = submits
    BY <2>2
  <2>4. Bounded(page.messages, n - 1, begun)
    BY <1>2, <2>3
  <2>5. /\ page' \in Pages /\ page'.waiting = n
        /\ page'.over = page.over /\ page'.timeline = page.timeline
        /\ Bounded(page'.messages, n, begun) /\ Single(page')
    BY <1>2, <1>3, <2>1, <2>3, <2>4, SubmittedIs
  <2> QED  BY <1>2, <2>1, <2>3, <2>5 DEF PageOK
<1>9. CASE SubmitAnswered
  <2>1. page' = Accepted(page, post.turn) /\ begun' = begun /\ submits' = submits
        /\ post.turn \in 1 .. begun /\ post.turn \in Turns
    <3>1. page' = Accepted(page, post.turn) /\ begun' = begun /\ submits' = submits
      BY <1>9 DEF SubmitAnswered, agentVars, counts
    <3>2. post.turn \in 1 .. begun
      BY <1>9 DEF SubmitAnswered, StageInv
    <3>3. post.turn \in Turns
      BY <1>3, <3>2
    <3> QED  BY <3>1, <3>2, <3>3
  <2>2. /\ page' \in Pages /\ page'.over = page.over /\ page'.timeline = page.timeline
        /\ page'.waiting \in {0, page.waiting} /\ Single(page')
        /\ \A n, b \in Nat : (Bounded(page.messages, n, b) /\ post.turn <= b) => Bounded(page'.messages, n, b)
    BY <1>2, <2>1, AcceptedIs
  <2>3. Bounded(page'.messages, submits, begun)
    BY <1>2, <1>3, <2>1, <2>2
  <2> QED  BY <1>2, <1>6, <2>1, <2>2, <2>3
<1>10. CASE SubmitRefused
  <2>1. page' = Rejected(page) /\ begun' = begun /\ submits' = submits
    BY <1>10 DEF SubmitRefused, agentVars, counts
  <2>2. /\ page' \in Pages /\ page'.over = page.over /\ page'.timeline = page.timeline
        /\ page'.waiting = 0
        /\ \A n, b \in Nat : Bounded(page.messages, n, b) => Bounded(page'.messages, n, b)
    BY <1>2, <2>1, RejectedIs
  <2>3. Bounded(page'.messages, submits, begun)
    BY <1>2, <1>3, <2>2
  <2>4. Single(page')
    BY <2>2, NoneAwaited
  <2> QED  BY <1>2, <1>6, <2>1, <2>2, <2>3, <2>4
<1>11. CASE InterruptAnswered
  <2>1. page' = [page EXCEPT !.active = 0] /\ begun' = begun /\ submits' = submits
    BY <1>11 DEF InterruptAnswered, agentVars, counts
  <2>2. /\ page' \in Pages /\ page'.over = page.over /\ page'.timeline = page.timeline
        /\ page'.waiting = page.waiting /\ page'.messages = page.messages
    <3> DEFINE M == Seq(Messages)
    <3>1. Pages = [messages : M, active : 0 .. MaxTurns, busy : BOOLEAN,
                   over : SUBSET Turns, timeline : SUBSET Turns, waiting : 0 .. MaxSubmits]
      BY DEF Pages
    <3> HIDE DEF M
    <3> QED  BY <1>2, <2>1, <3>1
  <2>3. Single(page')
    BY <1>2, <2>2, SameAwaited
  <2> QED  BY <1>2, <1>6, <2>1, <2>2, <2>3
<1>12. CASE LoadAnswered
  <2> DEFINE new == IF page.messages = <<>> THEN History(get.events) ELSE page.messages
             turn == Else(page.active, get.active)
  <2>1. /\ page' = [page EXCEPT !.active = turn, !.messages = new]
        /\ begun' = begun /\ submits' = submits
    BY <1>12 DEF LoadAnswered, Loaded, agentVars, counts
  <2>2. turn \in 0 .. MaxTurns
    BY <1>2, PageIs DEF Else, TypeOK
  <2>3. History(get.events) \in Seq(Merged(begun))
    <3>1. get.events \in Seq(Events)
      BY DEF TypeOK
    <3>2. Len(get.events) \in Nat /\ DOMAIN get.events = 1 .. Len(get.events)
          /\ \A i \in 1 .. Len(get.events) : get.events[i] \in Events
      BY <3>1, LenProperties, ElementOfSeq
    <3>3. ASSUME NEW i \in 1 .. Len(get.events)
          PROVE  Chunked(get.events[i]) /\ get.events[i].turn <= begun
      <4>1. Sound(get.events[i]) /\ get.events[i] \in Events
        BY <3>2 DEF EventInv
      <4>2. /\ get.events[i].turn \in Turns /\ get.events[i].chunk \in 0 .. MaxChunks
            /\ get.events[i].after \in 0 .. MaxChunks
        BY <4>1 DEF Events
      <4>3. /\ said[get.events[i].turn] \in 0 .. MaxChunks
            /\ whole[get.events[i].turn] \in 0 .. MaxChunks
        BY <4>2 DEF TypeOK
      <4>4. MaxChunks \in Nat
        BY ThreadWorkspaceAssumption
      <4> QED  BY <4>1, <4>2, <4>3, <4>4 DEF Sound, Chunked
    <3> QED  BY <1>3, <3>1, <3>3, HistoryIn
  <2>4. /\ new \in Seq(Messages) /\ Bounded(new, submits, begun)
        /\ new = page.messages \/ \A i \in DOMAIN new : new[i].sub = 0
    <3>1. CASE page.messages = <<>>
      <4>1. new = History(get.events)
        BY <3>1
      <4> HIDE DEF new
      <4>2. new \in Seq(Merged(begun)) /\ Merged(begun) \subseteq Messages
        BY <2>3, <4>1 DEF Merged
      <4>3. \A i \in DOMAIN new : new[i] \in Merged(begun)
        BY <4>2, LenProperties, ElementOfSeq
      <4>4. \A i \in DOMAIN new : new[i].sub = 0 /\ new[i].turn <= begun
        BY <1>3, <4>3 DEF Merged
      <4>5. new \in Seq(Messages)
        BY <4>2, SeqMonotonic
      <4> QED  BY <1>3, <4>4, <4>5 DEF Bounded
    <3>2. CASE page.messages # <<>>
      BY <1>2, <3>2, PageIs
    <3> QED  BY <3>1, <3>2
  <2> HIDE DEF new, turn
  <2>5. /\ page' \in Pages /\ page'.over = page.over /\ page'.timeline = page.timeline
        /\ page'.waiting = page.waiting /\ page'.messages = new
    <3> DEFINE M == Seq(Messages)
    <3>1. Pages = [messages : M, active : 0 .. MaxTurns, busy : BOOLEAN,
                   over : SUBSET Turns, timeline : SUBSET Turns, waiting : 0 .. MaxSubmits]
          /\ new \in M
      BY <2>4 DEF Pages
    <3> HIDE DEF M
    <3> QED  BY <1>2, <2>1, <2>2, <3>1
  <2>6. Single(page')
    <3>1. CASE new = page.messages
      BY <1>2, <2>5, <3>1, SameAwaited
    <3>2. CASE \A i \in DOMAIN new : new[i].sub = 0
      BY <2>5, <3>2 DEF Single, IsPlaceholder
    <3> QED  BY <2>4, <3>1, <3>2
  <2> QED  BY <1>2, <1>6, <2>1, <2>4, <2>5, <2>6
<1>13. ASSUME NEW e \in Events, Emits(e) PROVE PageOK(page', submits', begun')
  BY <1>5, <1>13 DEF Emits, counts
<1>14. \/ \E e \in Events : Emits(e)
       \/ page' = page /\ submits' = submits
       \/ HandleFrame \/ Submit \/ SubmitAnswered \/ SubmitRefused \/ InterruptAnswered
       \/ LoadAnswered
  BY StepCases DEF Asks, MarkActive, KeepEvent, SendTimeline, SendLegacy, Broadcast,
     Open,
     ReadEvents, ReadActive, LoadFailed, Connect, Break, counts
<1> QED  BY <1>5, <1>7, <1>8, <1>9, <1>10, <1>11, <1>12, <1>13, <1>14

-----------------------------------------------------------------------------
(* What the gateway sends, and what a step notes.                          *)

\* The gateway broadcasts the first event or its legacy frame.
Sends(f) ==
    /\ pipe # <<>> /\ f.kind = pipe[1].kind /\ f.turn = pipe[1].turn
    /\ f.seq = pipe[1].seq /\ f.chunk = pipe[1].chunk /\ f.after = pipe[1].after
    /\ f.legacy => f.kind \in LegacyKinds
    /\ UNCHANGED <<agentVars, active, kept, sock, breaks, get, page, post, stop, counts, got>>
    /\ \/ wire' = Append(wire, f) /\ sock = "up"
       \/ wire' = wire /\ sock # "up"
    /\ "missed" \notin past' => "missed" \notin past /\ sock # "down"
    /\ \/ /\ stage = "send" /\ f = pipe[1] /\ ~f.legacy /\ f.kind \in LegacyKinds
          /\ stage' = "legacy" /\ pipe' = pipe
       \/ /\ stage = "send" /\ f = pipe[1] /\ ~f.legacy /\ f.kind \notin LegacyKinds
          /\ stage' = "take" /\ pipe' = Tail(pipe)
       \/ /\ stage = "legacy" /\ f.legacy /\ stage' = "take" /\ pipe' = Tail(pipe)

\* A step that broadcasts a frame is one of Sends.
LEMMA SendIs ==
    ASSUME TypeOK, StageInv, SendTimeline \/ SendLegacy
    PROVE  \E f \in Events : Sends(f)
<1>1. pipe # <<>> /\ pipe \in Seq(Events) /\ sock \in {"closed", "down", "up"}
  BY DEF TypeOK, StageInv, SendTimeline, SendLegacy
<1>2. Head(pipe) = pipe[1] /\ pipe[1] \in Events
  BY <1>1, Shortened
<1>3. ASSUME NEW f, Broadcast(f)
      PROVE  /\ UNCHANGED <<agentVars, active, kept, sock, breaks, get, page, post, stop, counts, got>>
             /\ \/ wire' = Append(wire, f) /\ sock = "up"
                \/ wire' = wire /\ sock # "up"
             /\ "missed" \notin past' => "missed" \notin past /\ sock # "down"
  <2> DEFINE what == IF sock = "down" THEN {"missed"} ELSE {}
  <2>1. past' = Noted(what) /\ what \in SUBSET Disturbances
    BY <1>3 DEF Broadcast, Disturbances
  <2>2. "missed" \notin past' => "missed" \notin past \cup what
    <3> HIDE DEF what
    <3> QED  BY <2>1, NotedCalm
  <2> QED  BY <1>3, <2>2 DEF Broadcast
<1>4. CASE SendTimeline
  <2>1. stage = "send" /\ Broadcast(pipe[1]) /\ ~pipe[1].legacy
    BY <1>2, <1>4 DEF SendTimeline, StageInv
  <2>2. IF pipe[1].kind \in LegacyKinds
          THEN stage' = "legacy" /\ pipe' = pipe ELSE stage' = "take" /\ pipe' = Tail(pipe)
    BY <1>2, <1>4 DEF SendTimeline
  <2>3. PICK f \in Events : f = pipe[1]
    BY <1>2
  <2>4. Sends(f)
    BY <1>1, <1>3, <2>1, <2>2, <2>3 DEF Sends
  <2> QED  BY <2>4
<1>5. CASE SendLegacy
  <2>1. PICK f : f = [pipe[1] EXCEPT !.legacy = TRUE]
    OBVIOUS
  <2>2. /\ f \in Events /\ f.legacy /\ f.kind = pipe[1].kind /\ f.turn = pipe[1].turn
        /\ f.seq = pipe[1].seq /\ f.chunk = pipe[1].chunk /\ f.after = pipe[1].after
    BY <1>2, <2>1 DEF Events
  <2>3. /\ stage = "legacy" /\ Broadcast(f) /\ stage' = "take" /\ pipe' = Tail(pipe)
        /\ f.kind \in LegacyKinds
    BY <1>2, <1>5, <2>1, <2>2 DEF SendLegacy, StageInv
  <2>4. Sends(f)
    BY <1>1, <1>3, <2>2, <2>3 DEF Sends
  <2> QED  BY <2>2, <2>4
<1> QED  BY <1>4, <1>5

\* The kinds of steps, with the two broadcasts as one.
LEMMA StepKinds ==
    ASSUME TypeOK, StageInv, [Next]_vars
    PROVE  \/ \E e \in Events : Emits(e)
           \/ \E f \in Events : Sends(f)
           \/ Asks \/ MarkActive \/ KeepEvent
           \/ Open \/ ReadEvents \/ ReadActive \/ LoadAnswered \/ LoadFailed
           \/ Connect \/ Break \/ HandleFrame
           \/ Submit \/ SubmitAnswered \/ SubmitRefused \/ InterruptAnswered
<1>1. SendTimeline \/ SendLegacy => \E f \in Events : Sends(f)
  BY SendIs
<1> QED  BY <1>1, StepCases

\* A step notes no less than was noted, unless it notes the worst.
LEMMA PastStep ==
    ASSUME TypeOK, [Next]_vars
    PROVE  /\ past' \subseteq Disturbances
           /\ "missed" \notin past' => "missed" \notin past
           /\ Smooth' => Smooth /\ past \subseteq past'
<1>1. past' = past \/ \E what \in SUBSET Disturbances : past' = Noted(what)
  <2>1. Loading \in SUBSET Disturbances
    BY DEF Loading, Disturbances
  <2>2. \A x : (IF x THEN Loading ELSE {"crossed"}) \in SUBSET Disturbances
    BY <2>1 DEF Disturbances
  <2>3. \A x : (IF x THEN {"crossed"} ELSE {}) \in SUBSET Disturbances
    BY DEF Disturbances
  <2>4. \A x : (IF x THEN {"missed"} ELSE {}) \in SUBSET Disturbances
    BY DEF Disturbances
  <2>5. \A x : (IF x THEN {"cut"} ELSE {}) \in SUBSET Disturbances
    BY DEF Disturbances
  <2>6. \A x, y : (IF x THEN {"crossed"} ELSE IF y THEN {"early"} ELSE {}) \in SUBSET Disturbances
    BY DEF Disturbances
  <2>7. {"missed"} \in SUBSET Disturbances
    BY DEF Disturbances
  <2>8. CASE UNCHANGED past
    BY <2>8
  <2>9. ASSUME NEW t, Begin(t) PROVE \E what \in SUBSET Disturbances : past' = Noted(what)
    BY <2>1, <2>9 DEF Begin
  <2>10. ASSUME NEW kind, NEW t, NEW chunk, Emit(kind, t, chunk)
         PROVE  \E what \in SUBSET Disturbances : past' = Noted(what)
    <3>1. past' = Noted(IF t = running THEN Loading ELSE {"crossed"})
      BY <2>10 DEF Emit
    <3> QED  BY <2>2, <3>1
  <2>11. CASE BeginElsewhere \/ StartTurn
    BY <2>9, <2>11 DEF BeginElsewhere, StartTurn
  <2>12. CASE Complete \/ InterruptTurn
    BY <2>10, <2>12 DEF Complete, InterruptTurn, End
  <2>13. CASE BeginQuietItem \/ Stream \/ FinishAnswer \/ Ask \/ \E t \in Turns : Resolve(t)
    BY <2>10, <2>13 DEF BeginQuietItem, Stream, FinishAnswer, Ask, Resolve
  <2>14. CASE ReportInterrupt
    BY <2>1, <2>14 DEF ReportInterrupt
  <2>15. CASE KeepEvent
    <3>1. \E x : past' = Noted(IF x THEN {"crossed"} ELSE {})
      BY <2>15 DEF KeepEvent
    <3> QED  BY <2>3, <3>1
  <2>16. CASE SendTimeline \/ SendLegacy
    <3>1. past' = Noted(IF sock = "down" THEN {"missed"} ELSE {})
      BY <2>16 DEF SendTimeline, SendLegacy, Broadcast
    <3> QED  BY <2>4, <3>1
  <2>17. CASE Open
    <3>1. \E x : past' = Noted(IF x THEN {"crossed"} ELSE {})
      BY <2>17 DEF Open
    <3> QED  BY <2>3, <3>1
  <2>18. CASE LoadFailed
    BY <2>7, <2>18 DEF LoadFailed
  <2>19. CASE Break
    <3>1. past' = Noted(IF wire # <<>> THEN {"missed"} ELSE {})
      BY <2>19 DEF Break
    <3> QED  BY <2>4, <3>1
  <2>20. CASE Submit
    <3>1. past' = Noted(IF get.pc # "done" THEN {"crossed"}
                        ELSE IF pipe # <<>> \/ wire # <<>> \/ running # 0 THEN {"early"} ELSE {})
      BY <2>20 DEF Submit
    <3> QED  BY <2>6, <3>1
  <2>21. CASE InterruptAnswered
    <3>1. past' = Noted(IF page.active \notin {0, stop.turn} THEN {"cut"} ELSE {})
      BY <2>21 DEF InterruptAnswered
    <3> QED  BY <2>5, <3>1
  <2> QED
    BY <2>8, <2>11, <2>12, <2>13, <2>14, <2>15, <2>16, <2>17, <2>18, <2>19, <2>20, <2>21
    DEF Next, vars, RefuseTurn, RefuseInterrupt, MarkActive, ReadEvents, ReadActive, LoadAnswered,
        Connect, HandleFrame, SubmitAnswered, SubmitRefused, Interrupt, InterruptRefused
<1>2. past \subseteq Disturbances
  BY DEF TypeOK, Disturbances
<1>3. CASE past' = past
  BY <1>2, <1>3 DEF Smooth
<1>4. ASSUME NEW what \in SUBSET Disturbances, past' = Noted(what)
      PROVE  /\ past' \subseteq Disturbances
             /\ "missed" \notin past' => "missed" \notin past
             /\ Smooth' => Smooth /\ past \subseteq past'
  <2>1. /\ past' \subseteq Disturbances
        /\ "missed" \notin past' => "missed" \notin past \cup what
        /\ Smooth' => past' = past \cup what
    BY <1>4, NotedCalm, NotedIs
  <2> QED  BY <2>1 DEF Smooth
<1> QED  BY <1>1, <1>3, <1>4

-----------------------------------------------------------------------------
(* What an event says stays so, and where everything can be.               *)

\* Sound, for any turns begun, chunks said, and messages complete.
Fits(e, b, s, w, f) ==
    /\ e.turn <= b
    /\ e.kind = "delta" => e.chunk \in 1 .. s[e.turn]
    /\ e.kind = "answer" => /\ e.after < e.chunk /\ e.chunk <= w[e.turn]
                            /\ e.chunk = w[e.turn] => e.after = f[e.turn]
    /\ e.legacy => e.kind \in LegacyKinds

\* What an event says stays so when more is said.
LEMMA FitsStays ==
    ASSUME TypeOK, StageInv, [Next]_vars, NEW e \in Events, Fits(e, begun, said, whole, first)
    PROVE  Fits(e, begun', said', whole', first')
<1>1. Sound(e)
  BY DEF Sound, Fits
<1>2. Sound(e)'
  BY <1>1, SoundStays
<1> QED  BY <1>2 DEF Sound, Fits

\* The events of every queue, and what they say.
LEMMA EventsAre ==
    ASSUME TypeOK, EventInv
    PROVE  /\ pipe \in Seq(Events) /\ wire \in Seq(Events)
           /\ kept \in Seq(Events) /\ get.events \in Seq(Events)
           /\ \A i \in DOMAIN pipe : pipe[i] \in Events /\ Fits(pipe[i], begun, said, whole, first)
                                     /\ (pipe[i].legacy => pipe[i].kind = "ended")
           /\ \A i \in DOMAIN wire : wire[i] \in Events /\ Fits(wire[i], begun, said, whole, first)
           /\ \A i \in DOMAIN kept : kept[i] \in Events /\ Fits(kept[i], begun, said, whole, first)
                                     /\ ~kept[i].legacy
           /\ \A i \in DOMAIN get.events :
                 /\ get.events[i] \in Events /\ Fits(get.events[i], begun, said, whole, first)
                 /\ ~get.events[i].legacy
<1>1. /\ pipe \in Seq(Events) /\ wire \in Seq(Events)
      /\ kept \in Seq(Events) /\ get.events \in Seq(Events)
  BY DEF TypeOK
<1>2. \A s \in Seq(Events) : \A i \in DOMAIN s : s[i] \in Events
  BY LenProperties, ElementOfSeq
<1>3. /\ \A i \in DOMAIN pipe : Fits(pipe[i], begun, said, whole, first)
                                /\ (pipe[i].legacy => pipe[i].kind = "ended")
      /\ \A i \in DOMAIN wire : Fits(wire[i], begun, said, whole, first)
      /\ \A i \in DOMAIN kept : Fits(kept[i], begun, said, whole, first) /\ ~kept[i].legacy
      /\ \A i \in DOMAIN get.events : Fits(get.events[i], begun, said, whole, first) /\ ~get.events[i].legacy
  BY DEF EventInv, Sound, Fits
<1> QED  BY <1>1, <1>2, <1>3

\* The event sent fits.
LEMMA EmittedFits ==
    ASSUME TypeOK, StageInv, NEW e \in Events, Emits(e)
    PROVE  Fits(e, begun', said', whole', first') /\ (e.legacy => e.kind = "ended")
<1>1. said \in [Turns -> 0 .. MaxChunks] /\ e.turn \in Turns /\ MaxChunks \in Nat
  BY ThreadWorkspaceAssumption DEF TypeOK, Events
<1>2. said[e.turn] \in Nat
  BY <1>1
<1>3. e.turn <= begun' /\ (e.legacy => e.kind = "ended")
  BY DEF Emits
<1>4. e.kind = "delta" => e.chunk \in 1 .. said'[e.turn]
  <2> HAVE e.kind = "delta"
  <2>1. e.chunk = said[e.turn] + 1 /\ said' = [said EXCEPT ![e.turn] = @ + 1]
    BY DEF Emits
  <2>2. said'[e.turn] = said[e.turn] + 1
    BY <1>1, <2>1
  <2> QED  BY <1>2, <2>1, <2>2
<1>5. e.kind = "answer" => /\ e.after < e.chunk /\ e.chunk = whole'[e.turn]
                          /\ e.after = first'[e.turn]
  <2> HAVE e.kind = "answer"
  <2>1. /\ e.chunk = said[e.turn] /\ e.after = whole[e.turn] /\ whole[e.turn] < said[e.turn]
        /\ first' = [first EXCEPT ![e.turn] = whole[e.turn]]
        /\ whole' = [whole EXCEPT ![e.turn] = said[e.turn]]
    BY DEF Emits
  <2>2. whole \in [Turns -> 0 .. MaxChunks] /\ first \in [Turns -> 0 .. MaxChunks]
    BY DEF TypeOK
  <2> QED  BY <1>1, <2>1, <2>2
<1>6. e.chunk \in Nat
  BY <1>1 DEF Events
<1> QED  BY <1>3, <1>4, <1>5, <1>6 DEF Fits, LegacyKinds

\* Every step preserves EventInv.
LEMMA EventStep ==
    ASSUME TypeOK, StageInv, EventInv, [Next]_vars
    PROVE  EventInv'
<1> DEFINE F(e) == Fits(e, begun', said', whole', first')
<1>1. /\ \A i \in DOMAIN pipe : pipe[i] \in Events /\ F(pipe[i]) /\ (pipe[i].legacy => pipe[i].kind = "ended")
      /\ \A i \in DOMAIN wire : wire[i] \in Events /\ F(wire[i])
      /\ \A i \in DOMAIN kept : kept[i] \in Events /\ F(kept[i]) /\ ~kept[i].legacy
      /\ \A i \in DOMAIN get.events : get.events[i] \in Events /\ F(get.events[i]) /\ ~get.events[i].legacy
      /\ pipe \in Seq(Events) /\ wire \in Seq(Events)
  BY EventsAre, FitsStays
<1>a. \A x \in got' : x[2] <= whole'[x[1]]
  <2>1. \A t \in Turns : whole[t] \in Nat /\ whole'[t] \in Nat /\ whole[t] <= whole'[t]
    <3>1. /\ whole \in [Turns -> 0 .. MaxChunks] /\ whole' \in [Turns -> 0 .. MaxChunks]
          /\ \A t \in Turns : whole[t] <= whole'[t]
      BY Grows DEF TypeOK
    <3> QED  BY <3>1
  <2>2. ASSUME NEW x \in got PROVE x[2] <= whole'[x[1]]
    <3>0. x \in Turns \X (1 .. MaxChunks) /\ MaxChunks \in Nat
      BY ThreadWorkspaceAssumption DEF TypeOK
    <3>1. x[1] \in Turns /\ x[2] \in Nat
      BY <3>0
    <3>a. x[2] <= whole[x[1]]
      BY DEF EventInv
    <3> QED  BY <2>1, <3>1, <3>a
  <2>3. CASE HandleFrame
    <3>1. /\ Head(wire) = wire[1] /\ Sound(wire[1]) /\ wire[1].turn \in Turns
          /\ wire[1] \in Events
      BY <2>3, FrameIs DEF HandleFrame
    <3>2. \A x \in got' : x \in got \/ (wire[1].kind = "answer" /\ x = <<wire[1].turn, wire[1].chunk>>)
      BY <2>3, <3>1 DEF HandleFrame
    <3>3. wire[1].kind = "answer" => wire[1].chunk <= whole'[wire[1].turn]
      <4>1. wire[1].chunk \in Nat
        BY <3>1 DEF Events
      <4> QED  BY <2>1, <3>1, <4>1 DEF Sound
    <3> QED  BY <2>2, <3>2, <3>3
  <2>4. CASE got' = got
    BY <2>2, <2>4
  <2> QED
    BY <2>3, <2>4, StepKinds DEF Emits, Sends, Asks, MarkActive, KeepEvent, Open, ReadEvents,
       ReadActive, LoadAnswered, LoadFailed, Connect, Break, Submit, SubmitAnswered,
       SubmitRefused, InterruptAnswered
<1>2. SUFFICES /\ \A i \in DOMAIN pipe' : F(pipe'[i]) /\ (pipe'[i].legacy => pipe'[i].kind = "ended")
               /\ \A i \in DOMAIN wire' : F(wire'[i])
               /\ \A i \in DOMAIN kept' : F(kept'[i]) /\ ~kept'[i].legacy
               /\ \A i \in DOMAIN get'.events : F(get'.events[i]) /\ ~get'.events[i].legacy
  BY <1>a DEF EventInv, Sound, Fits
<1>3. ASSUME NEW e \in Events, Emits(e)
      PROVE  /\ \A i \in DOMAIN pipe' : F(pipe'[i]) /\ (pipe'[i].legacy => pipe'[i].kind = "ended")
             /\ wire' = wire /\ kept' = kept /\ get' = get
  <2>1. F(e) /\ (e.legacy => e.kind = "ended")
    BY <1>3, EmittedFits
  <2>2. pipe' = Append(pipe, e) /\ wire' = wire /\ kept' = kept /\ get' = get
    BY <1>3 DEF Emits, netVars, hubVars
  <2> HIDE DEF F
  <2>3. \A i \in DOMAIN pipe' : (i \in DOMAIN pipe /\ pipe'[i] = pipe[i]) \/ pipe'[i] = e
    <3>1. /\ DOMAIN pipe = 1 .. Len(pipe) /\ DOMAIN pipe' = 1 .. Len(pipe) + 1 /\ Len(pipe) \in Nat
          /\ \A i \in 1 .. Len(pipe) : pipe'[i] = pipe[i]
          /\ pipe'[Len(pipe) + 1] = e
      BY <1>1, <2>2, Appended
    <3>2. \A i \in 1 .. Len(pipe) + 1 : i \in 1 .. Len(pipe) \/ i = Len(pipe) + 1
      BY <3>1
    <3> QED  BY <3>1, <3>2
  <2> QED  BY <1>1, <2>1, <2>2, <2>3
<1>4. ASSUME NEW f \in Events, Sends(f)
      PROVE  /\ \A i \in DOMAIN pipe' : F(pipe'[i]) /\ (pipe'[i].legacy => pipe'[i].kind = "ended")
             /\ \A i \in DOMAIN wire' : F(wire'[i])
             /\ kept' = kept /\ get' = get
  <2>1. pipe # <<>> /\ kept' = kept /\ get' = get /\ pipe' \in {pipe, Tail(pipe)}
        /\ wire' \in {wire, Append(wire, f)}
    BY <1>4 DEF Sends
  <2>2. 1 \in DOMAIN pipe /\ \A i \in DOMAIN Tail(pipe) : i + 1 \in DOMAIN pipe /\ Tail(pipe)[i] = pipe[i + 1]
    BY <1>1, <2>1, Shortened
  <2>3. F(f)
    BY <1>1, <1>4, <2>2 DEF Sends, Fits
  <2> HIDE DEF F
  <2>4. \A i \in DOMAIN Append(wire, f) :
           (i \in DOMAIN wire /\ Append(wire, f)[i] = wire[i]) \/ Append(wire, f)[i] = f
    <3>1. PICK r : r = Append(wire, f)
      OBVIOUS
    <3>2. /\ DOMAIN wire = 1 .. Len(wire) /\ DOMAIN r = 1 .. Len(wire) + 1 /\ Len(wire) \in Nat
          /\ \A i \in 1 .. Len(wire) : r[i] = wire[i]
          /\ r[Len(wire) + 1] = f
      BY <1>1, <3>1, Appended
    <3>3. \A i \in 1 .. Len(wire) + 1 : i \in 1 .. Len(wire) \/ i = Len(wire) + 1
      BY <3>2
    <3>4. \A i \in DOMAIN r : (i \in DOMAIN wire /\ r[i] = wire[i]) \/ r[i] = f
      BY <3>2, <3>3
    <3> QED  BY <3>1, <3>4
  <2>5. \A i \in DOMAIN pipe' : \E j \in DOMAIN pipe : pipe'[i] = pipe[j]
    BY <2>1, <2>2
  <2>6. \A i \in DOMAIN wire' : (i \in DOMAIN wire /\ wire'[i] = wire[i]) \/ wire'[i] = f
    BY <2>1, <2>4
  <2> QED  BY <1>1, <2>1, <2>3, <2>5, <2>6
<1>5. ASSUME KeepEvent
      PROVE  /\ \A i \in DOMAIN kept' : F(kept'[i]) /\ ~kept'[i].legacy
             /\ pipe' = pipe /\ wire' = wire /\ get' = get
  <2>1. pipe' = pipe /\ wire' = wire /\ get' = get
    BY <1>5 DEF KeepEvent, netVars
  <2>2. /\ pipe # <<>> /\ ~pipe[1].legacy
        /\ \A i \in DOMAIN kept' : kept'[i] = pipe[1] \/ \E j \in DOMAIN kept : kept'[i] = kept[j]
    BY <1>5, KeepIs
  <2>3. 1 \in DOMAIN pipe
    BY <1>1, <2>2, Shortened
  <2> HIDE DEF F
  <2> QED  BY <1>1, <2>1, <2>2, <2>3
<1>6. ASSUME HandleFrame
      PROVE  /\ \A i \in DOMAIN wire' : F(wire'[i])
             /\ pipe' = pipe /\ kept' = kept /\ get' = get
  <2>1. wire # <<>> /\ wire' = Tail(wire) /\ pipe' = pipe /\ kept' = kept /\ get' = get
    BY <1>6 DEF HandleFrame, hubVars
  <2>2. \A i \in DOMAIN wire' : i + 1 \in DOMAIN wire /\ wire'[i] = wire[i + 1]
    BY <1>1, <2>1, Shortened
  <2> HIDE DEF F
  <2> QED  BY <1>1, <2>1, <2>2
<1>7. ASSUME Break
      PROVE  wire' = <<>> /\ pipe' = pipe /\ kept' = kept /\ get' = get
  BY <1>7 DEF Break, hubVars
<1>8. \/ \E e \in Events : Emits(e)
      \/ \E f \in Events : Sends(f)
      \/ KeepEvent \/ HandleFrame \/ Break
      \/ pipe' = pipe /\ wire' = wire /\ kept' = kept
         /\ get'.events \in {get.events, kept, <<>>}
  <2>1. ReadEvents => get'.events = kept
    BY DEF ReadEvents, TypeOK
  <2>2. ReadActive \/ Open => get'.events = get.events
    BY DEF ReadActive, Open, TypeOK
  <2>3. LoadAnswered \/ LoadFailed => get'.events = <<>>
    BY DEF LoadAnswered, LoadFailed, NoGet
  <2> QED  BY <2>1, <2>2, <2>3, StepKinds DEF Asks, MarkActive, Open, ReadEvents, ReadActive,
           LoadAnswered, LoadFailed, Connect, Submit, SubmitAnswered, SubmitRefused,
           InterruptAnswered, hubVars, netVars
<1> HIDE DEF F
<1>9. DOMAIN <<>> = {}
  OBVIOUS
<1> QED  BY <1>1, <1>3, <1>4, <1>5, <1>6, <1>7, <1>8, <1>9

\* The gateway's stage is that of the event it is about.
LEMMA StageStep ==
    ASSUME TypeOK, StageInv, EventInv, [Next]_vars
    PROVE  /\ stage' \in {"take", "keep", "send", "legacy"}
           /\ stage' # "take" => pipe' # <<>>
           /\ stage' \in {"keep", "send"} => ~Head(pipe').legacy
           /\ stage' = "legacy" => Head(pipe').kind \in LegacyKinds
<1>1. /\ pipe \in Seq(Events) /\ stage \in {"take", "keep", "send", "legacy"}
      /\ stage # "take" => pipe # <<>>
      /\ stage \in {"keep", "send"} => ~Head(pipe).legacy
      /\ stage = "legacy" => Head(pipe).kind \in LegacyKinds
  BY DEF TypeOK, StageInv
<1>2. CASE UNCHANGED <<stage, pipe>>
  BY <1>1, <1>2
<1>3. ASSUME NEW e \in Events, Emits(e)
      PROVE  /\ stage' = stage /\ pipe' # <<>>
             /\ pipe # <<>> => Head(pipe') = Head(pipe)
  <2>1. pipe' = Append(pipe, e) /\ stage' = stage
    BY <1>3 DEF Emits, hubVars
  <2> QED  BY <1>1, <2>1, Appended
<1>4. ASSUME NEW e \in Events, Emits(e)
      PROVE  /\ stage' \in {"take", "keep", "send", "legacy"}
             /\ stage' # "take" => pipe' # <<>>
             /\ stage' \in {"keep", "send"} => ~Head(pipe').legacy
             /\ stage' = "legacy" => Head(pipe').kind \in LegacyKinds
  BY <1>1, <1>3, <1>4
<1>5. CASE MarkActive
  <2>1. pipe # <<>> /\ pipe' = pipe /\ stage' = IF Head(pipe).legacy THEN "legacy" ELSE "keep"
    BY <1>5 DEF MarkActive
  <2>2. Head(pipe) = pipe[1] /\ 1 \in DOMAIN pipe
    BY <1>1, <2>1, Shortened
  <2>3. Head(pipe).legacy => Head(pipe).kind = "ended"
    BY <2>2, EventsAre
  <2> QED  BY <2>1, <2>3 DEF LegacyKinds
<1>6. CASE KeepEvent
  BY <1>1, <1>6 DEF KeepEvent
<1>7. ASSUME NEW f \in Events, Sends(f)
      PROVE  /\ stage' \in {"take", "keep", "send", "legacy"}
             /\ stage' # "take" => pipe' # <<>>
             /\ stage' \in {"keep", "send"} => ~Head(pipe').legacy
             /\ stage' = "legacy" => Head(pipe').kind \in LegacyKinds
  <2>1. Head(pipe) = pipe[1]
    BY <1>1, <1>7, Shortened DEF Sends
  <2> QED  BY <1>7, <2>1 DEF Sends
<1>8. \/ \E e \in Events : Emits(e)
      \/ \E f \in Events : Sends(f)
      \/ MarkActive \/ KeepEvent \/ UNCHANGED <<stage, pipe>>
  BY StepKinds DEF Asks, Open, ReadEvents, ReadActive, LoadAnswered, LoadFailed,
     Connect, Break,
     HandleFrame, Submit, SubmitAnswered, SubmitRefused, InterruptAnswered, hubVars
<1> QED  BY <1>2, <1>4, <1>5, <1>6, <1>7, <1>8

\* The page's requests: of a page that opened, of turns that began.
LEMMA RequestStep ==
    ASSUME TypeOK, StageInv, EventInv, AwaitedInv, [Next]_vars
    PROVE  /\ running' \in {0, begun'}
           /\ post' \in [pc : {"none", "sent", "ok", "refused"}, turn : 0 .. MaxTurns]
           /\ stop' \in [pc : {"none", "sent", "ok", "refused"}, turn : 0 .. MaxTurns]
           /\ submits' \in 0 .. MaxSubmits /\ stops' \in 0 .. MaxStops
           /\ post'.pc # "none" => submits' # 0
           /\ post'.pc = "ok" => post'.turn \in 1 .. begun'
           /\ stop'.pc = "ok" => stop'.turn \in 1 .. begun' /\ stop'.turn # running'
<1> USE ThreadWorkspaceAssumption
<1> DEFINE R == [pc : {"none", "sent", "ok", "refused"}, turn : 0 .. MaxTurns]
<1>1. /\ running \in {0, begun} /\ begun \in Nat /\ begun' \in Nat /\ begun <= begun'
      /\ begun' \in 0 .. MaxTurns /\ MaxTurns \in Nat
      /\ post \in R /\ stop \in R
      /\ submits \in 0 .. MaxSubmits /\ stops \in 0 .. MaxStops
      /\ MaxSubmits \in Nat /\ MaxStops \in Nat
      /\ post.pc # "none" => submits # 0
      /\ post.pc = "ok" => post.turn \in 1 .. begun
      /\ stop.pc = "ok" => stop.turn \in 1 .. begun /\ stop.turn # running
  <2>1. begun' \in 0 .. MaxTurns /\ begun <= begun'
    BY Grows
  <2>2. begun \in 0 .. MaxTurns
    BY DEF TypeOK
  <2>3. begun \in Nat /\ begun' \in Nat
    BY <2>1, <2>2
  <2> QED  BY <2>1, <2>3 DEF TypeOK, StageInv
<1>2. page.active \in 0 .. MaxTurns
  BY DEF TypeOK
<1>3. ASSUME NEW e \in Events, Emits(e)
      PROVE  /\ running' \in {0, begun'} /\ post' \in R /\ stop' \in R
             /\ submits' \in 0 .. MaxSubmits /\ stops' \in 0 .. MaxStops
             /\ post'.pc # "none" => submits' # 0
             /\ post'.pc = "ok" => post'.turn \in 1 .. begun'
             /\ stop'.pc = "ok" => stop'.turn \in 1 .. begun' /\ stop'.turn # running'
  <2>1. e.turn \in 1 .. begun' /\ e.turn \in 0 .. MaxTurns /\ submits' = submits /\ stops' = stops
    BY <1>3 DEF Emits, Events, Turns, counts
  <2>2. running' \in {0, begun'}
    BY <1>1, <1>3 DEF Emits
  <2>3. /\ post' \in R
        /\ post'.pc # "none" => submits' # 0
        /\ post'.pc = "ok" => post'.turn \in 1 .. begun'
    <3>1. CASE post' = post
      BY <1>1, <2>1, <3>1
    <3>2. CASE /\ post.pc = "sent"
               /\ \E told \in {"ok", "refused"} : post' = [pc |-> told, turn |-> e.turn]
      BY <1>1, <2>1, <3>2
    <3> QED  BY <1>3, <3>1, <3>2 DEF Emits
  <2>4. stop' \in R /\ (stop'.pc = "ok" => stop'.turn \in 1 .. begun' /\ stop'.turn # running')
    <3>1. CASE stop' = stop
      <4>1. stop.pc = "ok" => stop.turn # running'
        <5>1. \/ running' = running
              \/ running' = 0
              \/ running' = begun + 1
          BY <1>3 DEF Emits
        <5>2. /\ begun \in Nat
              /\ stop.pc = "ok" => stop.turn \in 1 .. begun /\ stop.turn # running
          BY <1>1
        <5> QED  BY <5>1, <5>2
      <4> QED  BY <1>1, <3>1, <4>1
    <3>2. CASE /\ e.kind = "ended" /\ ~e.legacy /\ stop.pc = "sent" /\ stop.turn = running
               /\ \E told \in {"ok", "refused"} : stop' = [stop EXCEPT !.pc = told]
      <4>1. e.turn = running /\ running' = 0
        BY <1>3, <3>2 DEF Emits
      <4>2. stop' \in R /\ stop'.turn = running
        BY <1>1, <3>2
      <4> QED  BY <1>1, <2>1, <4>1, <4>2
    <3> QED  BY <1>3, <3>1, <3>2 DEF Emits
  <2> QED  BY <1>1, <2>1, <2>2, <2>3, <2>4
<1>4. ASSUME running' = running, begun' = begun, submits' = submits, post' = post, stop' = stop, stops' = stops
      PROVE  /\ running' \in {0, begun'} /\ post' \in R /\ stop' \in R
             /\ submits' \in 0 .. MaxSubmits /\ stops' \in 0 .. MaxStops
             /\ post'.pc # "none" => submits' # 0
             /\ post'.pc = "ok" => post'.turn \in 1 .. begun'
             /\ stop'.pc = "ok" => stop'.turn \in 1 .. begun' /\ stop'.turn # running'
  BY <1>1, <1>4
<1>5. ASSUME Asks
      PROVE  /\ running' \in {0, begun'} /\ post' \in R /\ stop' \in R
             /\ submits' \in 0 .. MaxSubmits /\ stops' \in 0 .. MaxStops
             /\ post'.pc # "none" => submits' # 0
             /\ post'.pc = "ok" => post'.turn \in 1 .. begun'
             /\ stop'.pc = "ok" => stop'.turn \in 1 .. begun' /\ stop'.turn # running'
  <2>1. running' = running /\ begun' = begun /\ submits' = submits /\ stops' \in 0 .. MaxStops
    BY <1>1, <1>5 DEF Asks, agentVars
  <2>2. /\ post' \in R
        /\ post'.pc # "none" => post.pc # "none"
        /\ post'.pc = "ok" => post' = post
    BY <1>1, <1>5 DEF Asks
  <2>3. stop' \in R /\ (stop'.pc = "ok" => stop' = stop)
    BY <1>1, <1>2, <1>5 DEF Asks, NoRequest
  <2> QED  BY <1>1, <2>1, <2>2, <2>3
<1>6. ASSUME Submit
      PROVE  /\ running' \in {0, begun'} /\ post' \in R /\ stop' \in R
             /\ submits' \in 0 .. MaxSubmits /\ stops' \in 0 .. MaxStops
             /\ post'.pc # "none" => submits' # 0
             /\ post'.pc = "ok" => post'.turn \in 1 .. begun'
             /\ stop'.pc = "ok" => stop'.turn \in 1 .. begun' /\ stop'.turn # running'
  <2>1. /\ running' = running /\ begun' = begun /\ submits' = submits + 1 /\ submits < MaxSubmits
        /\ post' = [pc |-> "sent", turn |-> 0] /\ stop' = stop /\ stops' = stops
    BY <1>6 DEF Submit, agentVars
  <2> QED  BY <1>1, <2>1
<1>7. ASSUME SubmitAnswered \/ SubmitRefused
      PROVE  /\ running' \in {0, begun'} /\ post' \in R /\ stop' \in R
             /\ submits' \in 0 .. MaxSubmits /\ stops' \in 0 .. MaxStops
             /\ post'.pc # "none" => submits' # 0
             /\ post'.pc = "ok" => post'.turn \in 1 .. begun'
             /\ stop'.pc = "ok" => stop'.turn \in 1 .. begun' /\ stop'.turn # running'
  <2>1. /\ running' = running /\ begun' = begun /\ submits' = submits
        /\ post' = NoRequest /\ stop' = stop /\ stops' = stops
    BY <1>7 DEF SubmitAnswered, SubmitRefused, agentVars, counts
  <2> QED  BY <1>1, <2>1 DEF NoRequest
<1>8. ASSUME InterruptAnswered
      PROVE  /\ running' \in {0, begun'} /\ post' \in R /\ stop' \in R
             /\ submits' \in 0 .. MaxSubmits /\ stops' \in 0 .. MaxStops
             /\ post'.pc # "none" => submits' # 0
             /\ post'.pc = "ok" => post'.turn \in 1 .. begun'
             /\ stop'.pc = "ok" => stop'.turn \in 1 .. begun' /\ stop'.turn # running'
  <2>1. /\ running' = running /\ begun' = begun /\ submits' = submits
        /\ post' = post /\ stop' = NoRequest /\ stops' = stops
    BY <1>8 DEF InterruptAnswered, agentVars, counts
  <2> QED  BY <1>1, <2>1 DEF NoRequest
<1>9. \/ \E e \in Events : Emits(e)
      \/ Asks \/ Submit \/ SubmitAnswered \/ SubmitRefused \/ InterruptAnswered
      \/ UNCHANGED <<running, begun, submits, post, stop, stops>>
  BY StepKinds DEF Sends, MarkActive, KeepEvent, Open, ReadEvents, ReadActive,
     LoadAnswered,
     LoadFailed, Connect, Break, HandleFrame, agentVars, counts
<1> HIDE DEF R
<1>10. /\ running' \in {0, begun'} /\ post' \in R /\ stop' \in R
       /\ submits' \in 0 .. MaxSubmits /\ stops' \in 0 .. MaxStops
       /\ post'.pc # "none" => submits' # 0
       /\ post'.pc = "ok" => post'.turn \in 1 .. begun'
       /\ stop'.pc = "ok" => stop'.turn \in 1 .. begun' /\ stop'.turn # running'
  BY <1>3, <1>4, <1>5, <1>6, <1>7, <1>8, <1>9
<1> QED  BY <1>10 DEF R

\* Before it opens, the page is as it was made.
LEMMA OpenStep ==
    ASSUME TypeOK, StageInv, [Next]_vars
    PROVE  /\ get'.pc = "none" <=> sock' = "closed"
           /\ get'.pc = "none" =>
                 get' = NoGet /\ page' = FreshPage /\ post'.pc = "none" /\ stop'.pc = "none"
           /\ sock' \in {"closed", "down", "up"} /\ breaks' \in 0 .. MaxBreaks
           /\ get'.pc \in {"none", "asked", "read", "ready", "done"}
           /\ get'.active \in 0 .. MaxTurns
<1> USE ThreadWorkspaceAssumption
<1>1. /\ get.pc = "none" <=> sock = "closed"
      /\ get.pc = "none" => get = NoGet /\ page = FreshPage /\ post.pc = "none" /\ stop.pc = "none"
      /\ sock \in {"closed", "down", "up"} /\ breaks \in 0 .. MaxBreaks /\ MaxBreaks \in Nat
      /\ get.pc \in {"none", "asked", "read", "ready", "done"}
      /\ get.active \in 0 .. MaxTurns /\ active \in 0 .. MaxTurns /\ MaxTurns \in Nat
      /\ (wire # <<>> => sock = "up")
      /\ get = [pc |-> get.pc, events |-> get.events, active |-> get.active]
  <2>1. active \in 0 .. begun /\ begun \in 0 .. MaxTurns /\ MaxTurns \in Nat
    BY DEF TypeOK
  <2>2. active \in 0 .. MaxTurns
    BY <2>1
  <2> QED  BY <2>1, <2>2 DEF TypeOK, StageInv
<1>2. CASE /\ UNCHANGED <<sock, breaks, get, page>>
           /\ post.pc = "none" => post'.pc = "none"
           /\ stop.pc = "none" => stop'.pc = "none" \/ get.pc # "none"
  BY <1>1, <1>2
<1>3. ASSUME NEW e \in Events, Emits(e)
      PROVE  /\ UNCHANGED <<sock, breaks, get, page>>
             /\ post.pc = "none" => post'.pc = "none"
             /\ stop.pc = "none" => stop'.pc = "none" \/ get.pc # "none"
  BY <1>3 DEF Emits, netVars
<1>4. ASSUME Asks
      PROVE  /\ UNCHANGED <<sock, breaks, get, page>>
             /\ post.pc = "none" => post'.pc = "none"
             /\ stop.pc = "none" => stop'.pc = "none" \/ get.pc # "none"
  BY <1>4 DEF Asks, netVars, NoRequest
<1>5. CASE Open
  <2>1. sock' = "down" /\ breaks' = breaks /\ get' = [get EXCEPT !.pc = "asked"]
    BY <1>5 DEF Open
  <2>2. get'.pc = "asked" /\ get'.active = get.active
    BY <1>1, <2>1
  <2> QED  BY <1>1, <2>1, <2>2
<1>6. CASE ReadEvents \/ ReadActive
  <2>1. /\ sock' = sock /\ breaks' = breaks /\ get.pc \in {"asked", "read"}
        /\ \/ get' = [get EXCEPT !.pc = "read", !.events = kept]
           \/ get' = [get EXCEPT !.pc = "ready", !.active = active]
    BY <1>6 DEF ReadEvents, ReadActive, netVars
  <2>2. get'.pc \in {"read", "ready"} /\ get'.active \in {get.active, active}
    BY <1>1, <2>1
  <2> QED  BY <1>1, <2>1, <2>2
<1>7. CASE LoadAnswered \/ LoadFailed
  <2>1. sock' = sock /\ breaks' = breaks /\ get.pc \in {"asked", "ready"}
        /\ get'.pc = "done" /\ get'.active = 0
    BY <1>7 DEF LoadAnswered, LoadFailed, netVars, NoGet
  <2> QED  BY <1>1, <2>1
<1>8. CASE Connect
  BY <1>1, <1>8 DEF Connect
<1>9. CASE Break
  BY <1>1, <1>9 DEF Break
<1>10. CASE HandleFrame
  BY <1>1, <1>10 DEF HandleFrame
<1>11. CASE Submit
  BY <1>1, <1>11 DEF Submit, netVars
<1>12. CASE SubmitAnswered \/ SubmitRefused \/ InterruptAnswered
  <2>1. sock' = sock /\ breaks' = breaks /\ get' = get
    BY <1>12 DEF SubmitAnswered, SubmitRefused, InterruptAnswered, netVars
  <2>2. post.pc # "none" \/ stop.pc # "none"
    BY <1>12 DEF SubmitAnswered, SubmitRefused, InterruptAnswered
  <2> QED  BY <1>1, <2>1, <2>2
<1>13. \/ \E e \in Events : Emits(e)
       \/ Asks \/ Open \/ ReadEvents \/ ReadActive \/ LoadAnswered \/ LoadFailed \/ Connect
       \/ Break \/ HandleFrame \/ Submit \/ SubmitAnswered \/ SubmitRefused \/ InterruptAnswered
       \/ /\ UNCHANGED <<sock, breaks, get, page>>
          /\ post.pc = "none" => post'.pc = "none"
          /\ stop.pc = "none" => stop'.pc = "none" \/ get.pc # "none"
  BY StepKinds DEF Sends, MarkActive, KeepEvent, netVars
<1> QED  BY <1>2, <1>3, <1>4, <1>5, <1>6, <1>7, <1>8, <1>9, <1>10, <1>11, <1>12, <1>13

\* Every step preserves StageInv.
LEMMA StageInvStep ==
    ASSUME TypeOK, StageInv, EventInv, AwaitedInv, [Next]_vars
    PROVE  StageInv'
<1>1. page'.waiting \in {0, submits'}
  BY PageStep DEF PageOK
<1> QED  BY <1>1, StageStep, RequestStep, OpenStep, AskedStep DEF StageInv

-----------------------------------------------------------------------------
(* The answers, and the types.                                             *)

\* The places of a queue with one more event, and of the queue before.
LEMMA AppendCases ==
    ASSUME NEW s \in Seq(Events), NEW e \in Events
    PROVE  \A r : r = Append(s, e) =>
             /\ \A i \in DOMAIN r : \/ i \in DOMAIN s /\ r[i] = s[i]
                                    \/ i \notin DOMAIN s /\ i = Len(s) + 1 /\ r[i] = e
             /\ \A i, j \in DOMAIN r : i < j => i \in DOMAIN s
             /\ \A i \in DOMAIN s : i \in DOMAIN r /\ r[i] = s[i] /\ i < Len(s) + 1 /\ i \in Nat
             /\ Len(s) + 1 \in DOMAIN r /\ r[Len(s) + 1] = e /\ Len(s) + 1 \notin DOMAIN s
<1> SUFFICES ASSUME NEW r, r = Append(s, e)
             PROVE  /\ \A i \in DOMAIN r : \/ i \in DOMAIN s /\ r[i] = s[i]
                                           \/ i \notin DOMAIN s /\ i = Len(s) + 1 /\ r[i] = e
                    /\ \A i, j \in DOMAIN r : i < j => i \in DOMAIN s
                    /\ \A i \in DOMAIN s : i \in DOMAIN r /\ r[i] = s[i] /\ i < Len(s) + 1 /\ i \in Nat
                    /\ Len(s) + 1 \in DOMAIN r /\ r[Len(s) + 1] = e /\ Len(s) + 1 \notin DOMAIN s
  OBVIOUS
<1>1. /\ Len(s) \in Nat /\ DOMAIN s = 1 .. Len(s) /\ DOMAIN r = 1 .. Len(s) + 1
      /\ \A i \in 1 .. Len(s) : r[i] = s[i]
      /\ r[Len(s) + 1] = e
  BY Appended
<1>2. ASSUME NEW i \in DOMAIN r
      PROVE  \/ i \in DOMAIN s /\ r[i] = s[i]
             \/ i \notin DOMAIN s /\ i = Len(s) + 1 /\ r[i] = e
  BY <1>1
<1>3. ASSUME NEW i \in DOMAIN r, NEW j \in DOMAIN r, i < j PROVE i \in DOMAIN s
  BY <1>1, <1>3
<1>4. ASSUME NEW i \in DOMAIN s
      PROVE  i \in DOMAIN r /\ r[i] = s[i] /\ i < Len(s) + 1 /\ i \in Nat
  BY <1>1
<1>5. Len(s) + 1 \in DOMAIN r /\ r[Len(s) + 1] = e /\ Len(s) + 1 \notin DOMAIN s
  BY <1>1
<1> QED  BY <1>2, <1>3, <1>4, <1>5

\* The places of a queue without its first event, and of the queue before.
LEMMA TailCases ==
    ASSUME NEW s \in Seq(Events), s # <<>>
    PROVE  \A r : r = Tail(s) =>
             /\ 1 \in DOMAIN s /\ Head(s) = s[1]
             /\ \A i \in DOMAIN r : i + 1 \in DOMAIN s /\ r[i] = s[i + 1] /\ 1 < i + 1 /\ i \in Nat
             /\ \A i, j \in DOMAIN r : i < j => i + 1 < j + 1
             /\ \A i \in DOMAIN s : i # 1 => i - 1 \in DOMAIN r /\ r[i - 1] = s[i] /\ (i - 1) + 1 = i
                                             /\ 1 < i
             /\ \A i \in DOMAIN s : ~(i < 1)
<1> SUFFICES ASSUME NEW r, r = Tail(s)
             PROVE  /\ 1 \in DOMAIN s /\ Head(s) = s[1]
                    /\ \A i \in DOMAIN r : i + 1 \in DOMAIN s /\ r[i] = s[i + 1] /\ 1 < i + 1 /\ i \in Nat
                    /\ \A i, j \in DOMAIN r : i < j => i + 1 < j + 1
                    /\ \A i \in DOMAIN s : i # 1 => i - 1 \in DOMAIN r /\ r[i - 1] = s[i]
                                                    /\ (i - 1) + 1 = i /\ 1 < i
                    /\ \A i \in DOMAIN s : ~(i < 1)
  OBVIOUS
<1>1. /\ Len(s) \in Nat \ {0} /\ DOMAIN s = 1 .. Len(s) /\ DOMAIN r = 1 .. Len(s) - 1
      /\ Head(s) = s[1] /\ 1 \in DOMAIN s
      /\ \A i \in DOMAIN r : i + 1 \in DOMAIN s /\ r[i] = s[i + 1]
      /\ \A i \in DOMAIN s : i # 1 => i - 1 \in DOMAIN r /\ r[i - 1] = s[i]
  BY Shortened
<1>2. \A i \in DOMAIN r : i \in Nat /\ 1 < i + 1
  BY <1>1
<1>3. \A i, j \in DOMAIN r : i < j => i + 1 < j + 1
  BY <1>1
<1>4. \A i \in DOMAIN s : ~(i < 1) /\ (i - 1) + 1 = i /\ (i # 1 => 1 < i)
  BY <1>1
<1> QED  BY <1>1, <1>2, <1>3, <1>4

\* What a step does to the events under way.
LEMMA FlowCases ==
    ASSUME TypeOK, StageInv, [Next]_vars
    PROVE  \/ \E e \in Events : Emits(e)
           \/ \E f \in Events : Sends(f)
           \/ HandleFrame
           \/ wire' = <<>> /\ UNCHANGED <<pipe, got>>
           \/ UNCHANGED <<pipe, wire, got>>
BY StepKinds DEF Asks, MarkActive, KeepEvent, Open, ReadEvents, ReadActive,
   LoadAnswered, LoadFailed,
   Connect, Break, Submit, SubmitAnswered, SubmitRefused, InterruptAnswered, hubVars, netVars

\* Every step preserves AnswerLast: a complete text is the last of its turn's only as
\* long as the turn streams no more, and every queue keeps its order.
LEMMA AnswerLastStep ==
    ASSUME TypeOK, StageInv, EventInv, AnswerLast, [Next]_vars
    PROVE  AnswerLast'
<1> DEFINE S == {"delta", "answer"}
           A(e) == e.kind = "answer" /\ e.chunk = said'[e.turn]
           G(t) == <<t, said'[t]>> \in got
<1>1. /\ pipe \in Seq(Events) /\ wire \in Seq(Events)
      /\ \A i \in DOMAIN pipe : /\ pipe[i].turn \in Turns /\ pipe[i].chunk \in Nat
                                /\ pipe[i].kind = "answer" => pipe[i].chunk <= whole[pipe[i].turn]
      /\ \A i \in DOMAIN wire : /\ wire[i].turn \in Turns /\ wire[i].chunk \in Nat
                                /\ wire[i].kind = "answer" => wire[i].chunk <= whole[wire[i].turn]
  <2>1. \A e \in Events : e.turn \in Turns /\ e.chunk \in Nat
    BY DEF Events
  <2> QED  BY <2>1, EventsAre DEF Fits
<1>r. /\ \A t \in Turns : /\ said[t] \in Nat /\ said'[t] \in Nat /\ whole[t] \in Nat
                          /\ whole[t] <= said[t] /\ said[t] <= said'[t]
      /\ \A t \in Turns : \A n : <<t, n>> \in got => n \in Nat /\ n <= whole[t]
  <2>1. /\ said \in [Turns -> 0 .. MaxChunks] /\ whole \in [Turns -> 0 .. MaxChunks]
        /\ said' \in [Turns -> 0 .. MaxChunks]
        /\ \A t \in Turns : whole[t] <= said[t]
    BY Grows DEF TypeOK
  <2>2. \A t \in Turns : said[t] <= said'[t]
    BY Grows
  <2>3. ASSUME NEW t \in Turns, NEW n, <<t, n>> \in got PROVE n \in Nat /\ n <= whole[t]
    BY <2>3 DEF TypeOK, EventInv
  <2>4. \A t \in Turns : said[t] \in Nat /\ said'[t] \in Nat /\ whole[t] \in Nat
    BY <2>1
  <2> QED  BY <2>1, <2>2, <2>3, <2>4
<1>s. /\ \A i \in DOMAIN pipe : A(pipe[i]) => IsLast(pipe[i])
      /\ \A i \in DOMAIN wire : A(wire[i]) => IsLast(wire[i])
      /\ \A t \in Turns : G(t) => <<t, said[t]>> \in got
  <2>1. \A i \in DOMAIN pipe : A(pipe[i]) => IsLast(pipe[i])
    BY <1>1, <1>r DEF IsLast
  <2>2. \A i \in DOMAIN wire : A(wire[i]) => IsLast(wire[i])
    BY <1>1, <1>r DEF IsLast
  <2>3. ASSUME NEW t \in Turns, G(t) PROVE <<t, said[t]>> \in got
    <3>1. said'[t] <= whole[t]
      BY <1>r, <2>3
    <3>2. said'[t] = said[t]
      BY <1>r, <3>1
    <3> QED  BY <2>3, <3>2
  <2> QED  BY <2>1, <2>2, <2>3
<1>2. /\ \A i, j \in DOMAIN pipe :
           i < j /\ A(pipe[i]) /\ pipe[j].turn = pipe[i].turn => pipe[j].kind \notin S
      /\ \A i, j \in DOMAIN wire :
           i < j /\ A(wire[i]) /\ wire[j].turn = wire[i].turn => wire[j].kind \notin S
      /\ \A i \in DOMAIN wire, j \in DOMAIN pipe :
           A(wire[i]) /\ pipe[j].turn = wire[i].turn => pipe[j].kind \notin S
      /\ \A i \in DOMAIN wire : G(wire[i].turn) => wire[i].kind \notin S
      /\ \A j \in DOMAIN pipe : G(pipe[j].turn) => pipe[j].kind \notin S
  <2> HIDE DEF A, G
  <2> QED  BY <1>1, <1>s DEF AnswerLast
<1>3. ASSUME NEW e \in Events, Emits(e) PROVE AnswerLast'
  <2>1. pipe' = Append(pipe, e) /\ wire' = wire /\ got' = got
    BY <1>3 DEF Emits, netVars
  <2>3. e.kind \in S => whole[e.turn] < said'[e.turn] /\ e.turn \in Turns
    <3>0. e.turn \in Turns /\ said \in [Turns -> 0 .. MaxChunks]
      BY DEF Events, TypeOK
    <3>1. e.kind = "delta" => said' = [said EXCEPT ![e.turn] = @ + 1]
      BY <1>3 DEF Emits
    <3>2. e.kind = "answer" => said' = said /\ whole[e.turn] < said[e.turn]
      BY <1>3 DEF Emits
    <3>3. e.kind = "delta" => said'[e.turn] = said[e.turn] + 1
      BY <3>0, <3>1
    <3> QED  BY <1>r, <3>0, <3>2, <3>3
  <2>4. e.kind \in S => /\ \A i \in DOMAIN pipe : A(pipe[i]) => pipe[i].turn # e.turn
                        /\ \A i \in DOMAIN wire : A(wire[i]) => wire[i].turn # e.turn
                        /\ ~G(e.turn)
    BY <1>1, <1>r, <2>3
  <2>2. /\ \A i \in DOMAIN pipe' : \/ i \in DOMAIN pipe /\ pipe'[i] = pipe[i]
                                   \/ i \notin DOMAIN pipe /\ pipe'[i] = e
        /\ \A i, j \in DOMAIN pipe' : i < j => i \in DOMAIN pipe
    BY <1>1, <2>1, AppendCases
  <2> HIDE DEF S
  <2>5. /\ \A i, j \in DOMAIN pipe' :
             i < j /\ A(pipe'[i]) /\ pipe'[j].turn = pipe'[i].turn => pipe'[j].kind \notin S
        /\ \A i \in DOMAIN wire, j \in DOMAIN pipe' :
             A(wire[i]) /\ pipe'[j].turn = wire[i].turn => pipe'[j].kind \notin S
        /\ \A j \in DOMAIN pipe' : G(pipe'[j].turn) => pipe'[j].kind \notin S
    <3> HIDE DEF A, G
    <3> QED  BY <1>2, <2>2, <2>4
  <2> QED  BY <1>2, <2>1, <2>5 DEF AnswerLast, IsLast, S
<1>4. ASSUME NEW f \in Events, Sends(f) PROVE AnswerLast'
  <2>1. /\ pipe # <<>> /\ f.kind = pipe[1].kind /\ f.turn = pipe[1].turn /\ got' = got
        /\ f.chunk = pipe[1].chunk /\ wire' \in {wire, Append(wire, f)}
        /\ \/ pipe' = pipe /\ f.kind \in LegacyKinds
           \/ pipe' = Tail(pipe)
    BY <1>4 DEF Sends
  <2>2. PICK r, s : r = Append(wire, f) /\ s = Tail(pipe)
    OBVIOUS
  <2>3. /\ 1 \in DOMAIN pipe
        /\ \A i \in DOMAIN s : i + 1 \in DOMAIN pipe /\ s[i] = pipe[i + 1] /\ 1 < i + 1
        /\ \A i, j \in DOMAIN s : i < j => i + 1 < j + 1
    BY <1>1, <2>1, <2>2, TailCases
  <2>4. /\ \A i \in DOMAIN r : \/ i \in DOMAIN wire /\ r[i] = wire[i]
                               \/ i \notin DOMAIN wire /\ r[i] = f
        /\ \A i, j \in DOMAIN r : i < j => i \in DOMAIN wire
    BY <1>1, <2>2, AppendCases
  <2>5. /\ \A i, j \in DOMAIN pipe' :
             i < j /\ A(pipe'[i]) /\ pipe'[j].turn = pipe'[i].turn => pipe'[j].kind \notin S
        /\ \A i \in DOMAIN wire, j \in DOMAIN pipe' :
             A(wire[i]) /\ pipe'[j].turn = wire[i].turn => pipe'[j].kind \notin S
        /\ \A j \in DOMAIN pipe' : G(pipe'[j].turn) => pipe'[j].kind \notin S
        /\ A(f) => \A j \in DOMAIN pipe' : pipe'[j].turn = f.turn => pipe'[j].kind \notin S
    <3>1. CASE pipe' = pipe /\ f.kind \in LegacyKinds
      BY <1>2, <3>1 DEF LegacyKinds
    <3>2. CASE pipe' = s
      <4>1. \A i, j \in DOMAIN s :
              i < j /\ A(s[i]) /\ s[j].turn = s[i].turn => s[j].kind \notin S
        BY <1>2, <2>3
      <4>2. /\ \A i \in DOMAIN wire, j \in DOMAIN s :
                  A(wire[i]) /\ s[j].turn = wire[i].turn => s[j].kind \notin S
            /\ \A j \in DOMAIN s : G(s[j].turn) => s[j].kind \notin S
        BY <1>2, <2>3
      <4>3. A(f) => \A j \in DOMAIN s : s[j].turn = f.turn => s[j].kind \notin S
        BY <1>2, <2>1, <2>3
      <4> QED  BY <3>2, <4>1, <4>2, <4>3
    <3> QED  BY <2>1, <2>2, <3>1, <3>2
  <2>6. /\ \A i, j \in DOMAIN wire' :
             i < j /\ A(wire'[i]) /\ wire'[j].turn = wire'[i].turn => wire'[j].kind \notin S
        /\ \A i \in DOMAIN wire', j \in DOMAIN pipe' :
             A(wire'[i]) /\ pipe'[j].turn = wire'[i].turn => pipe'[j].kind \notin S
        /\ \A i \in DOMAIN wire' : G(wire'[i].turn) => wire'[i].kind \notin S
    <3>1. CASE wire' = wire
      BY <1>2, <2>5, <3>1
    <3>2. CASE wire' = r
      <4>1. \A i \in DOMAIN wire : A(wire[i]) /\ f.turn = wire[i].turn => f.kind \notin S
        BY <1>2, <2>1, <2>3
      <4>2. G(f.turn) => f.kind \notin S
        BY <1>2, <2>1, <2>3
      <4> QED  BY <1>2, <2>4, <2>5, <3>2, <4>1, <4>2
    <3> QED  BY <2>1, <2>2, <3>1, <3>2
  <2> QED  BY <2>1, <2>5, <2>6 DEF AnswerLast, IsLast
<1>5. CASE HandleFrame
  <2>1. wire # <<>> /\ wire' = Tail(wire) /\ pipe' = pipe
    BY <1>5 DEF HandleFrame
  <2>2. /\ 1 \in DOMAIN wire /\ Head(wire) = wire[1]
        /\ \A i \in DOMAIN wire' : i + 1 \in DOMAIN wire /\ wire'[i] = wire[i + 1] /\ 1 < i + 1
        /\ \A i, j \in DOMAIN wire' : i < j => i + 1 < j + 1
    BY <1>1, <2>1, TailCases
  <2>3. \A t, n : <<t, n>> \in got' =>
            <<t, n>> \in got \/ (wire[1].kind = "answer" /\ t = wire[1].turn /\ n = wire[1].chunk)
    BY <1>5, <2>2 DEF HandleFrame
  <2>6. \A t : <<t, said'[t]>> \in got' => G(t) \/ (A(wire[1]) /\ t = wire[1].turn)
    BY <2>3
  <2> HIDE DEF A, G
  <2>4. \A i \in DOMAIN wire' : <<wire'[i].turn, said'[wire'[i].turn]>> \in got' => wire'[i].kind \notin S
    BY <1>2, <2>2, <2>6
  <2>5. \A j \in DOMAIN pipe' : <<pipe'[j].turn, said'[pipe'[j].turn]>> \in got' => pipe'[j].kind \notin S
    BY <1>2, <2>1, <2>2, <2>6
  <2>7. /\ \A i, j \in DOMAIN wire' :
             i < j /\ A(wire'[i]) /\ wire'[j].turn = wire'[i].turn => wire'[j].kind \notin S
        /\ \A i \in DOMAIN wire', j \in DOMAIN pipe :
             A(wire'[i]) /\ pipe[j].turn = wire'[i].turn => pipe[j].kind \notin S
    BY <1>2, <2>2
  <2> QED  BY <1>2, <2>1, <2>4, <2>5, <2>7 DEF AnswerLast, IsLast, A
<1>6. CASE wire' = <<>> /\ UNCHANGED <<pipe, got>>
  <2>1. DOMAIN wire' = {}
    BY <1>6
  <2> QED  BY <1>2, <1>6, <2>1 DEF AnswerLast, IsLast
<1>7. CASE UNCHANGED <<pipe, wire, got>>
  BY <1>2, <1>7 DEF AnswerLast, IsLast
<1> QED  BY <1>3, <1>4, <1>5, <1>6, <1>7, FlowCases

\* AnswerIsWhole, by Has.
LEMMA WholeIs ==
    AnswerIsWhole <=>
        \A t \in DOMAIN said : <<t, said[t]>> \in got => Has(page.messages, t, Answer(t))
BY DEF AnswerIsWhole, TextsShown, Has, Mine

\* The page goes on showing the answers it was told of.
LEMMA AnswerStep ==
    ASSUME TypeOK, StageInv, EventInv, AwaitedInv, AnswerLast, AnswerIsWhole, [Next]_vars
    PROVE  AnswerIsWhole'
<1> DEFINE G(t) == <<t, said[t]>> \in got
           H(m, t) == Has(m, t, Chunks(first[t], said[t]))
<1>1. /\ \A t \in Turns : G(t) => H(page.messages, t)
      /\ DOMAIN said = Turns /\ DOMAIN said' = Turns
      /\ page \in Pages /\ Single(page) /\ page.waiting \in {0, submits}
      /\ Bounded(page.messages, submits, begun)
  <2>1. DOMAIN said = Turns /\ DOMAIN said' = Turns
    BY Grows DEF TypeOK
  <2> QED  BY <2>1, WholeIs, PageOKIs DEF PageOK, Answer
<1>w. \A t \in Turns : \A n : <<t, n>> \in got => n \in Nat /\ n <= whole[t]
  <2> SUFFICES ASSUME NEW t \in Turns, NEW n, <<t, n>> \in got PROVE n \in Nat /\ n <= whole[t]
    OBVIOUS
  <2> QED  BY DEF TypeOK, EventInv
<1>2. ASSUME NEW t \in Turns, <<t, said'[t]>> \in got PROVE G(t) /\ said'[t] = said[t] /\ first'[t] = first[t]
  <2>1. said'[t] <= whole[t]
    BY <1>2, <1>w
  <2>2. /\ said[t] \in Nat /\ said'[t] \in Nat /\ whole[t] \in Nat /\ whole'[t] \in Nat
        /\ whole[t] <= said[t]
    <3>1. /\ said \in [Turns -> 0 .. MaxChunks] /\ whole \in [Turns -> 0 .. MaxChunks]
          /\ said' \in [Turns -> 0 .. MaxChunks] /\ whole' \in [Turns -> 0 .. MaxChunks]
          /\ \A u \in Turns : whole[u] <= said[u]
      BY Grows DEF TypeOK
    <3> QED  BY <3>1
  <2>3. /\ said[t] <= said'[t] /\ whole[t] <= whole'[t] /\ whole'[t] <= said'[t]
        /\ whole'[t] = whole[t] => first'[t] = first[t]
    BY Grows
  <2>4. said'[t] = said[t] /\ whole'[t] = whole[t]
    BY <2>1, <2>2, <2>3
  <2> QED  BY <1>2, <2>3, <2>4
<1>3. SUFFICES \A t \in Turns :
          <<t, said'[t]>> \in got' => Has(page'.messages, t, Chunks(first'[t], said'[t]))
  BY <1>1 DEF AnswerIsWhole, TextsShown, Has, Mine, Answer
<1>4. CASE got' = got /\ \A t \in Turns : G(t) => H(page'.messages, t)
  BY <1>2, <1>4
<1>5. CASE HandleFrame
  <2> DEFINE e == wire[1]
  <2>1. /\ Head(wire) = e /\ e \in Events /\ Chunked(e) /\ Sound(e) /\ e.turn \in Turns
        /\ e.legacy => e.kind \in LegacyKinds
        /\ 1 \in DOMAIN wire
    BY <1>5, FrameIs, Shortened DEF HandleFrame, TypeOK
  <2>2. G(e.turn) => e.kind \notin {"delta", "answer"}
    BY <2>1 DEF AnswerLast
  <2>3. /\ page' = IF e.legacy THEN HandleLegacy(page, e) ELSE HandleTimeline(page, e)
        /\ got' = IF e.kind = "answer" THEN got \cup {<<e.turn, e.chunk>>} ELSE got
        /\ said' = said /\ first' = first
    BY <1>5, <2>1 DEF HandleFrame, agentVars
  <2>4. e.kind = "answer" /\ e.chunk = said[e.turn] => e.after = first[e.turn]
    <3>1. /\ said[e.turn] \in Nat /\ whole[e.turn] \in Nat /\ whole[e.turn] <= said[e.turn]
      <4>1. /\ said \in [Turns -> 0 .. MaxChunks] /\ whole \in [Turns -> 0 .. MaxChunks]
            /\ \A u \in Turns : whole[u] <= said[u]
        BY DEF TypeOK
      <4> QED  BY <2>1, <4>1
    <3> HIDE DEF e
    <3> QED  BY <2>1, <3>1 DEF Sound
  <2>7. e.legacy => e.kind # "answer"
    BY <2>1 DEF LegacyKinds
  <2> HIDE DEF e
  <2>5. CASE e.legacy
    <3>1. Keeps(page, page', e)
      BY <1>1, <2>1, <2>3, <2>5, HandleLegacyKeeps
    <3>2. \A u \in Turns : \A x :
             (Has(page.messages, u, x) /\ (u = e.turn => e.kind # "delta")) => Has(page'.messages, u, x)
      BY <3>1 DEF Keeps
    <3>3. \A t \in Turns : G(t) => H(page'.messages, t)
      BY <1>1, <2>2, <3>2
    <3> HIDE DEF H, G
    <3> QED  BY <1>4, <2>3, <2>5, <2>7, <3>3
  <2>6. CASE ~e.legacy
    <3>1. Handled(page, page', e)
      BY <1>1, <2>1, <2>3, <2>6, HandleTimelineIs
    <3>2. /\ \A u \in Turns : \A x :
               (/\ Has(page.messages, u, x)
                /\ e.turn = u => e.kind \notin {"delta", "answer"})
                  => Has(page'.messages, u, x)
          /\ (e.kind = "answer") => Has(page'.messages, e.turn, Chunks(e.after, e.chunk))
      BY <3>1 DEF Handled
    <3>3. \A t \in Turns : G(t) => H(page'.messages, t)
      BY <1>1, <2>2, <3>2
    <3>4. e.kind = "answer" /\ e.chunk = said[e.turn] => H(page'.messages, e.turn)
      BY <2>4, <3>2
    <3>5. ASSUME NEW t \in Turns, <<t, said[t]>> \in got' PROVE H(page'.messages, t)
      <4>1. G(t) \/ (e.kind = "answer" /\ t = e.turn /\ e.chunk = said[t])
        BY <2>3, <3>5
      <4> HIDE DEF H, G
      <4> QED  BY <3>3, <3>4, <4>1
    <3> QED  BY <2>3, <3>5
  <2> QED  BY <2>5, <2>6
<1>6. ASSUME NEW q, \A u \in Turns : \A x : Has(page.messages, u, x) => Has(q, u, x)
      PROVE  \A t \in Turns : G(t) => H(q, t)
  BY <1>1, <1>6
<1>7. CASE Submit
  <2>1. page' = Submitted(page, submits') /\ submits' = submits + 1 /\ submits < MaxSubmits /\ got' = got
    BY <1>7 DEF Submit
  <2>2. submits \in 0 .. MaxSubmits /\ MaxSubmits \in Nat /\ begun \in Nat
    <3>1. submits \in 0 .. MaxSubmits /\ MaxSubmits \in Nat /\ begun \in 0 .. MaxTurns
      BY ThreadWorkspaceAssumption DEF TypeOK
    <3> QED  BY <3>1
  <2>3. submits' \in 1 .. MaxSubmits /\ submits' - 1 = submits
    BY <2>1, <2>2
  <2>4. PICK n \in 1 .. MaxSubmits : n = submits' /\ n - 1 = submits
    BY <2>3
  <2>5. Bounded(page.messages, n - 1, begun)
    BY <1>1, <2>4
  <2>6. \A u \in Turns : \A x : Has(page.messages, u, x) => Has(page'.messages, u, x)
    BY <1>1, <2>1, <2>2, <2>4, <2>5, SubmittedIs
  <2>7. \A t \in Turns : G(t) => H(page'.messages, t)
    BY <1>6, <2>6
  <2> HIDE DEF H, G
  <2> QED  BY <1>4, <2>1, <2>7
<1>8. CASE SubmitAnswered
  <2>1. page' = Accepted(page, post.turn) /\ got' = got /\ post.turn \in Turns
    <3>1. post.turn \in 1 .. begun /\ begun \in 0 .. MaxTurns /\ MaxTurns \in Nat
      BY <1>8, ThreadWorkspaceAssumption DEF SubmitAnswered, StageInv, TypeOK
    <3>2. post.turn \in Turns
      BY <3>1 DEF Turns
    <3> QED  BY <1>8, <3>2 DEF SubmitAnswered
  <2>2. \A u \in Turns : \A x : Has(page.messages, u, x) => Has(page'.messages, u, x)
    BY <1>1, <2>1, AcceptedIs
  <2>3. \A t \in Turns : G(t) => H(page'.messages, t)
    BY <1>6, <2>2
  <2> HIDE DEF H, G
  <2> QED  BY <1>4, <2>1, <2>3
<1>9. CASE SubmitRefused
  <2>1. page' = Rejected(page) /\ got' = got
    BY <1>9 DEF SubmitRefused
  <2>2. \A u \in Turns : \A x : Has(page.messages, u, x) => Has(page'.messages, u, x)
    BY <1>1, <2>1, RejectedIs
  <2>3. \A t \in Turns : G(t) => H(page'.messages, t)
    BY <1>6, <2>2
  <2> HIDE DEF H, G
  <2> QED  BY <1>4, <2>1, <2>3
<1>10. CASE InterruptAnswered
  <2>1. page' = [page EXCEPT !.active = 0] /\ got' = got
    BY <1>10 DEF InterruptAnswered
  <2>2. page'.messages = page.messages
    BY <1>1, <2>1 DEF Pages
  <2> QED  BY <1>1, <1>4, <2>1, <2>2
<1>11. CASE LoadAnswered
  <2>1. page' = Loaded(page) /\ got' = got
    BY <1>11 DEF LoadAnswered
  <2>2. CASE page.messages = <<>>
    <3>1. \A t : ~H(page.messages, t)
      BY <2>2 DEF Has, Mine
    <3>2. \A t \in Turns : G(t) => H(page'.messages, t)
      BY <1>6, <3>1
    <3> HIDE DEF H, G
    <3> QED  BY <1>4, <2>1, <3>2
  <2>3. CASE page.messages # <<>>
    <3>1. page'.messages = page.messages
      BY <1>1, <2>1, <2>3 DEF Pages, Loaded
    <3> QED  BY <1>1, <1>4, <2>1, <3>1
  <2> QED  BY <2>2, <2>3
<1>12. \/ got' = got /\ page' = page
       \/ HandleFrame \/ Submit \/ SubmitAnswered \/ SubmitRefused \/ InterruptAnswered
       \/ LoadAnswered
  BY StepKinds DEF Asks, Emits, Sends, MarkActive, KeepEvent, Open, ReadEvents,
     ReadActive, LoadFailed,
     Connect, Break
<1> QED  BY <1>1, <1>4, <1>5, <1>7, <1>8, <1>9, <1>10, <1>11, <1>12

\* Every step preserves the type invariant.
LEMMA TypeStep ==
    ASSUME TypeOK, StageInv, EventInv, AwaitedInv, [Next]_vars
    PROVE  TypeOK'
<1> USE ThreadWorkspaceAssumption
<1>1. /\ pipe \in Seq(Events) /\ wire \in Seq(Events) /\ kept \in Seq(Events)
      /\ get.events \in Seq(Events) /\ Len(kept) <= Limit
      /\ (wire # <<>> => sock = "up") /\ got \subseteq Turns \X (1 .. MaxChunks)
      /\ active \in 0 .. begun /\ begun \in Nat /\ begun' \in Nat /\ begun <= begun'
  <2>1. begun \in 0 .. MaxTurns /\ begun' \in 0 .. MaxTurns /\ MaxTurns \in Nat /\ begun <= begun'
    BY Grows DEF TypeOK
  <2>2. begun \in Nat /\ begun' \in Nat
    BY <2>1
  <2> QED  BY <2>1, <2>2 DEF TypeOK
<1>2. pipe' \in Seq(Events) /\ wire' \in Seq(Events) /\ (wire' # <<>> => sock' = "up")
  <2>1. ASSUME NEW e \in Events, Emits(e)
        PROVE  pipe' \in Seq(Events) /\ wire' = wire /\ sock' = sock
    <3>1. pipe' = Append(pipe, e) /\ wire' = wire /\ sock' = sock
      BY <2>1 DEF Emits, netVars
    <3> QED  BY <1>1, <3>1, Appended
  <2>2. ASSUME NEW f \in Events, Sends(f)
        PROVE  pipe' \in Seq(Events) /\ wire' \in Seq(Events) /\ (wire' # <<>> => sock' = "up")
    <3>1. /\ pipe # <<>> /\ pipe' \in {pipe, Tail(pipe)} /\ sock' = sock
          /\ \/ wire' = Append(wire, f) /\ sock = "up"
             \/ wire' = wire
      BY <2>2 DEF Sends
    <3>2. Tail(pipe) \in Seq(Events) /\ Append(wire, f) \in Seq(Events)
      BY <1>1, <3>1, Shortened, Appended
    <3> QED  BY <1>1, <3>1, <3>2
  <2>3. CASE HandleFrame
    <3>1. wire # <<>> /\ wire' = Tail(wire) /\ pipe' = pipe /\ sock' = sock
      BY <2>3 DEF HandleFrame
    <3> QED  BY <1>1, <3>1, Shortened
  <2>4. CASE Break
    <3>1. wire' = <<>> /\ pipe' = pipe
      BY <2>4 DEF Break
    <3>2. <<>> \in Seq(Events)
      OBVIOUS
    <3> QED  BY <1>1, <3>1, <3>2
  <2>5. CASE Open
    <3>1. wire = <<>> /\ UNCHANGED <<pipe, wire>>
      BY <1>1, <2>5 DEF Open, StageInv
    <3> QED  BY <1>1, <3>1
  <2>6. CASE Connect
    <3>1. sock' = "up" /\ UNCHANGED <<pipe, wire>>
      BY <2>6 DEF Connect
    <3> QED  BY <1>1, <3>1
  <2>7. CASE UNCHANGED <<pipe, wire, sock>>
    BY <1>1, <2>7
  <2> QED
    BY <1>1, <2>1, <2>2, <2>3, <2>4, <2>5, <2>6, <2>7, StepKinds DEF Asks, MarkActive,
       KeepEvent,
       ReadEvents, ReadActive, LoadAnswered, LoadFailed, Submit, SubmitAnswered, SubmitRefused,
       InterruptAnswered, netVars
<1>3. active' \in 0 .. begun' /\ kept' \in Seq(Events) /\ Len(kept') <= Limit
  <2>1. CASE MarkActive
    <3>1. pipe # <<>> /\ active' = ActiveAfter(Head(pipe), active) /\ kept' = kept
      BY <2>1 DEF MarkActive
    <3>2. Head(pipe) = pipe[1] /\ 1 \in DOMAIN pipe
      BY <1>1, <3>1, Shortened
    <3>3. pipe[1] \in Events /\ pipe[1].turn <= begun
      BY <3>2, EventsAre DEF Fits
    <3>4. pipe[1].turn \in 0 .. begun
      BY <1>1, <3>3 DEF Events, Turns
    <3>5. active' \in {pipe[1].turn, 0, active}
      BY <3>1, <3>2 DEF ActiveAfter
    <3> QED  BY <1>1, <3>1, <3>4, <3>5
  <2>2. CASE KeepEvent
    <3>1. active' = active
      BY <2>2 DEF KeepEvent
    <3> QED  BY <1>1, <2>2, <3>1, KeepIs
  <2>3. CASE active' = active /\ kept' = kept
    BY <1>1, <2>3
  <2> QED
    BY <2>1, <2>2, <2>3, StepKinds DEF Emits, Sends, Asks, Open, ReadEvents,
       ReadActive, LoadAnswered,
       LoadFailed, Connect, Break, HandleFrame, Submit, SubmitAnswered, SubmitRefused,
       InterruptAnswered, hubVars
<1>4. get' \in [pc : {"none", "asked", "read", "ready", "done"},
                events : Seq(Events), active : 0 .. MaxTurns]
  <2> DEFINE E == Seq(Events)
  <2>1. /\ get \in [pc : {"none", "asked", "read", "ready", "done"}, events : E, active : 0 .. MaxTurns]
        /\ kept \in E /\ <<>> \in E /\ active \in 0 .. MaxTurns /\ 0 \in 0 .. MaxTurns
    <3>1. active \in 0 .. begun /\ begun \in 0 .. MaxTurns /\ MaxTurns \in Nat
      BY DEF TypeOK
    <3>2. active \in 0 .. MaxTurns /\ 0 \in 0 .. MaxTurns
      BY <3>1
    <3>3. get \in [pc : {"none", "asked", "read", "ready", "done"}, events : Seq(Events), active : 0 .. MaxTurns]
      BY DEF TypeOK
    <3> QED  BY <1>1, <3>2, <3>3
  <2>2. \/ get' = get \/ get' = [get EXCEPT !.pc = "asked"]
        \/ get' = [get EXCEPT !.pc = "read", !.events = kept]
        \/ get' = [get EXCEPT !.pc = "ready", !.active = active]
        \/ get' = [pc |-> "done", events |-> <<>>, active |-> 0]
    <3>1. LoadAnswered \/ LoadFailed => get' = [pc |-> "done", events |-> <<>>, active |-> 0]
      <4>1. [NoGet EXCEPT !.pc = "done"] = [pc |-> "done", events |-> <<>>, active |-> 0]
        BY DEF NoGet
      <4> QED  BY <4>1 DEF LoadAnswered, LoadFailed
    <3> QED
      BY <3>1, StepKinds DEF Emits, Sends, Asks, MarkActive, KeepEvent, Open,
         ReadEvents, ReadActive,
         Connect, Break, HandleFrame, Submit, SubmitAnswered, SubmitRefused, InterruptAnswered
  <2> HIDE DEF E
  <2>3. get' \in [pc : {"none", "asked", "read", "ready", "done"}, events : E, active : 0 .. MaxTurns]
    <3> DEFINE G == [pc : {"none", "asked", "read", "ready", "done"}, events : E, active : 0 .. MaxTurns]
    <3>1. [get EXCEPT !.pc = "asked"] \in G
      BY <2>1
    <3>2. [get EXCEPT !.pc = "read", !.events = kept] \in G
      BY <2>1
    <3>3. [get EXCEPT !.pc = "ready", !.active = active] \in G
      BY <2>1
    <3>4. [pc |-> "done", events |-> <<>>, active |-> 0] \in G
      BY <2>1
    <3>5. get \in G
      BY <2>1
    <3> HIDE DEF G
    <3>6. get' \in G
      BY <2>2, <3>1, <3>2, <3>3, <3>4, <3>5
    <3> QED  BY <3>6 DEF G
  <2> QED  BY <2>3 DEF E
<1>5. got' \subseteq Turns \X (1 .. MaxChunks)
  <2>1. CASE HandleFrame
    <3>1. Head(wire) = wire[1] /\ Sound(wire[1]) /\ wire[1] \in Events
      BY <2>1, FrameIs DEF HandleFrame
    <3>2. /\ got' \subseteq got \cup {<<wire[1].turn, wire[1].chunk>>}
          /\ wire[1].kind # "answer" => got' = got
      BY <2>1, <3>1 DEF HandleFrame
    <3>3. wire[1].turn \in Turns /\ wire[1].chunk \in 0 .. MaxChunks /\ wire[1].after \in 0 .. MaxChunks
      BY <3>1 DEF Events
    <3>4. wire[1].kind = "answer" => wire[1].chunk \in 1 .. MaxChunks
      BY <3>1, <3>3 DEF Sound
    <3>5. wire[1].kind = "answer" => <<wire[1].turn, wire[1].chunk>> \in Turns \X (1 .. MaxChunks)
      BY <3>3, <3>4
    <3> QED  BY <1>1, <3>2, <3>5
  <2>2. CASE got' = got
    BY <1>1, <2>2
  <2> QED
    BY <2>1, <2>2, StepKinds DEF Emits, Sends, Asks, MarkActive, KeepEvent, Open,
       ReadEvents,
       ReadActive, LoadAnswered, LoadFailed, Connect, Break, Submit, SubmitAnswered,
       SubmitRefused, InterruptAnswered
<1>6. page' \in Pages /\ page'.over \subseteq page'.timeline \cup 1 .. begun'
  BY PageStep DEF PageOK
<1>7. past' \subseteq {"missed", "crossed", "cut", "early"}
  BY PastStep DEF Disturbances
<1>8. /\ running' \in 0 .. begun' /\ begun' \in 0 .. MaxTurns
      /\ said' \in [Turns -> 0 .. MaxChunks] /\ whole' \in [Turns -> 0 .. MaxChunks]
      /\ first' \in [Turns -> 0 .. MaxChunks]
      /\ \A t \in Turns : first'[t] <= whole'[t] /\ whole'[t] <= said'[t]
      /\ sequence' \in [Turns -> Nat] /\ stopping' \in 0 .. begun'
      /\ asked' \in [Turns -> {"no", "open", "done"}]
  BY Grows, AskedStep
<1>9. /\ post' \in [pc : {"none", "sent", "ok", "refused"}, turn : 0 .. MaxTurns]
      /\ stop' \in [pc : {"none", "sent", "ok", "refused"}, turn : 0 .. MaxTurns]
      /\ submits' \in 0 .. MaxSubmits /\ stops' \in 0 .. MaxStops
  BY RequestStep
<1>10. /\ sock' \in {"closed", "down", "up"} /\ breaks' \in 0 .. MaxBreaks
       /\ stage' \in {"take", "keep", "send", "legacy"}
  BY OpenStep, StageStep
<1> QED  BY <1>2, <1>3, <1>4, <1>5, <1>6, <1>7, <1>8, <1>9, <1>10 DEF TypeOK, Pages

\* Every step preserves AwaitedInv.
LEMMA AwaitedStep ==
    ASSUME TypeOK, StageInv, EventInv, AwaitedInv, [Next]_vars
    PROVE  AwaitedInv'
<1>1. PageOK(page', submits', begun')
  BY PageStep
<1> QED  BY <1>1 DEF AwaitedInv, PageOK, Bounded, Single

-----------------------------------------------------------------------------
(* A page that lost no frame hears of a turn from its timeline.            *)

\* The first of the events about the turn is one of the timeline.
FirstIn(s, t, n) ==
    \E k \in DOMAIN s : /\ ~s[k].legacy /\ (k = 1 => n) /\ s[k].turn = t
                        /\ \A j \in DOMAIN s : j < k => s[j].turn # t

\* Told, for any page and queues; n tells whether the first event of p is still to be sent.
Hears(t, timeline, w, p, n) ==
    \/ t \in timeline
    \/ FirstIn(w, t, TRUE)
    \/ (\A j \in DOMAIN w : w[j].turn # t) /\ FirstIn(p, t, n)

\* Told, before a step and after it.
LEMMA ToldIs ==
    ASSUME NEW t
    PROVE  /\ Told(t) <=> Hears(t, page.timeline, wire, pipe, stage # "legacy")
           /\ Told(t)' <=> Hears(t, page'.timeline, wire', pipe', stage' # "legacy")
BY DEF Told, Hears, FirstIn, Sent, ToSend

\* One more event at the end does not change which is the first about a turn.
LEMMA FirstAppended ==
    ASSUME NEW s \in Seq(Events), NEW e \in Events, NEW t, NEW n \in BOOLEAN
    PROVE  /\ FirstIn(s, t, n) => FirstIn(Append(s, e), t, n)
           /\ ((\A i \in DOMAIN s : s[i].turn # t) /\ e.turn = t /\ ~e.legacy /\ (s = <<>> => n))
                 => FirstIn(Append(s, e), t, n)
           /\ ((\A i \in DOMAIN s : s[i].turn # t) /\ e.turn # t)
                 => \A i \in DOMAIN Append(s, e) : Append(s, e)[i].turn # t
<1>1. PICK r : r = Append(s, e)
  OBVIOUS
<1>2. /\ \A i \in DOMAIN r : \/ i \in DOMAIN s /\ r[i] = s[i]
                             \/ i \notin DOMAIN s /\ i = Len(s) + 1 /\ r[i] = e
      /\ \A i, j \in DOMAIN r : i < j => i \in DOMAIN s
      /\ \A i \in DOMAIN s : i \in DOMAIN r /\ r[i] = s[i] /\ i < Len(s) + 1 /\ i \in Nat
      /\ Len(s) + 1 \in DOMAIN r /\ r[Len(s) + 1] = e /\ Len(s) + 1 \notin DOMAIN s
  BY <1>1, AppendCases
<1>3. ASSUME FirstIn(s, t, n) PROVE FirstIn(r, t, n)
  <2>1. PICK k \in DOMAIN s : /\ ~s[k].legacy /\ (k = 1 => n) /\ s[k].turn = t
                              /\ \A j \in DOMAIN s : j < k => s[j].turn # t
    BY <1>3 DEF FirstIn
  <2>2. k \in DOMAIN r /\ r[k] = s[k] /\ \A j \in DOMAIN r : j < k => j \in DOMAIN s /\ r[j] = s[j]
    BY <1>2
  <2> QED  BY <2>1, <2>2 DEF FirstIn
<1>4. ASSUME \A i \in DOMAIN s : s[i].turn # t, e.turn = t, ~e.legacy, s = <<>> => n
      PROVE  FirstIn(r, t, n)
  <2>1. Len(s) + 1 = 1 => n
    <3>1. s # <<>> => Len(s) \in Nat \ {0}
      BY EmptySeq
    <3>2. s # <<>> => Len(s) + 1 # 1
      BY <3>1
    <3> QED  BY <1>4, <3>2
  <2>2. \A j \in DOMAIN r : j < Len(s) + 1 => r[j].turn # t
    BY <1>2, <1>4
  <2> QED  BY <1>2, <1>4, <2>1, <2>2 DEF FirstIn
<1>5. ASSUME \A i \in DOMAIN s : s[i].turn # t, e.turn # t
      PROVE  \A i \in DOMAIN r : r[i].turn # t
  BY <1>2, <1>5
<1> QED  BY <1>1, <1>3, <1>4, <1>5

\* The first event about a turn is the first of all, or is the first of the rest.
LEMMA FirstTail ==
    ASSUME NEW s \in Seq(Events), s # <<>>, NEW t, NEW n, FirstIn(s, t, n)
    PROVE  \/ /\ s[1].turn = t /\ ~s[1].legacy /\ n
           \/ s[1].turn # t /\ FirstIn(Tail(s), t, TRUE)
<1>1. PICK r : r = Tail(s)
  OBVIOUS
<1>2. /\ 1 \in DOMAIN s
      /\ \A i \in DOMAIN r : i + 1 \in DOMAIN s /\ r[i] = s[i + 1] /\ 1 < i + 1 /\ i \in Nat
      /\ \A i, j \in DOMAIN r : i < j => i + 1 < j + 1
      /\ \A i \in DOMAIN s : i # 1 => i - 1 \in DOMAIN r /\ r[i - 1] = s[i] /\ (i - 1) + 1 = i /\ 1 < i
  BY <1>1, TailCases
<1>3. PICK k \in DOMAIN s : /\ ~s[k].legacy /\ (k = 1 => n) /\ s[k].turn = t
                            /\ \A j \in DOMAIN s : j < k => s[j].turn # t
  BY DEF FirstIn
<1>4. CASE k = 1
  BY <1>3, <1>4
<1>5. CASE k # 1
  <2>1. k - 1 \in DOMAIN r /\ r[k - 1] = s[k] /\ (k - 1) + 1 = k /\ s[1].turn # t
    BY <1>2, <1>3, <1>5
  <2>2. ASSUME NEW j \in DOMAIN r, j < k - 1 PROVE r[j].turn # t
    <3>1. j + 1 \in DOMAIN s /\ j + 1 < k /\ r[j] = s[j + 1]
      BY <1>2, <2>1, <2>2
    <3> QED  BY <1>3, <3>1
  <2>3. FirstIn(r, t, TRUE)
    BY <1>3, <2>1, <2>2 DEF FirstIn
  <2> QED  BY <1>1, <2>1, <2>3
<1> QED  BY <1>4, <1>5

\* The turns the page was told of by the timeline only grow, with the frames handled.
LEMMA TimelineStep ==
    ASSUME TypeOK, StageInv, EventInv, AwaitedInv, [Next]_vars
    PROVE  \/ page'.timeline = page.timeline
           \/ /\ HandleFrame /\ ~wire[1].legacy
              /\ page'.timeline = page.timeline \cup {wire[1].turn}
<1>1. page \in Pages /\ Single(page) /\ page.waiting \in {0, submits}
      /\ Bounded(page.messages, submits, begun)
  BY PageOKIs DEF PageOK
<1>2. CASE HandleFrame
  <2> DEFINE e == wire[1]
  <2>1. /\ Head(wire) = e /\ e \in Events /\ Chunked(e) /\ (e.legacy => e.kind \in LegacyKinds)
    BY <1>2, FrameIs DEF HandleFrame
  <2>2. page' = IF e.legacy THEN HandleLegacy(page, e) ELSE HandleTimeline(page, e)
    BY <1>2, <2>1 DEF HandleFrame
  <2> HIDE DEF e
  <2>3. e.legacy => Keeps(page, page', e)
    BY <1>1, <2>1, <2>2, HandleLegacyKeeps
  <2>4. ~e.legacy => Handled(page, page', e)
    BY <1>1, <2>1, <2>2, HandleTimelineIs
  <2> QED  BY <1>2, <2>3, <2>4 DEF Keeps, Handled, e
<1>3. CASE Submit
  BY <1>1, <1>3 DEF Submit, Submitted, Pages
<1>4. CASE SubmitAnswered
  <2>1. page' = Accepted(page, post.turn) /\ post.turn \in Turns
    <3>1. post.turn \in 1 .. begun /\ begun \in 0 .. MaxTurns /\ MaxTurns \in Nat
      BY <1>4, ThreadWorkspaceAssumption DEF SubmitAnswered, StageInv, TypeOK
    <3>2. post.turn \in Turns
      BY <3>1 DEF Turns
    <3> QED  BY <1>4, <3>2 DEF SubmitAnswered
  <2> QED  BY <1>1, <2>1, AcceptedIs
<1>5. CASE SubmitRefused
  <2>1. page' = Rejected(page)
    BY <1>5 DEF SubmitRefused
  <2> QED  BY <1>1, <2>1, RejectedIs
<1>6. CASE InterruptAnswered
  BY <1>1, <1>6 DEF InterruptAnswered, Pages
<1>7. CASE LoadAnswered
  BY <1>1, <1>7 DEF LoadAnswered, Loaded, Pages
<1>8. \/ page' = page
      \/ HandleFrame \/ Submit \/ SubmitAnswered \/ SubmitRefused \/ InterruptAnswered
      \/ LoadAnswered
  BY StepKinds DEF Asks, Emits, Sends, MarkActive, KeepEvent, Open, ReadEvents,
     ReadActive, LoadFailed,
     Connect, Break
<1> QED  BY <1>2, <1>3, <1>4, <1>5, <1>6, <1>7, <1>8

\* A page that is to hear of a turn from its timeline first still is, or has heard.
LEMMA ToldStep ==
    ASSUME TypeOK, StageInv, EventInv, AwaitedInv, [Next]_vars, sock # "closed", "missed" \notin past',
           NEW t, Told(t)
    PROVE  Told(t)'
<1>1. pipe \in Seq(Events) /\ wire \in Seq(Events)
      /\ Hears(t, page.timeline, wire, pipe, stage # "legacy")
  BY ToldIs DEF TypeOK
<1>2. SUFFICES Hears(t, page'.timeline, wire', pipe', stage' # "legacy")
  BY ToldIs
<1>3. page.timeline \subseteq page'.timeline
  BY TimelineStep
<1>4. CASE t \in page.timeline
  BY <1>3, <1>4 DEF Hears
<1>5. ASSUME NEW e \in Events, Emits(e)
      PROVE  Hears(t, page'.timeline, wire', pipe', stage' # "legacy")
  <2>1. pipe' = Append(pipe, e) /\ wire' = wire /\ stage' = stage
    BY <1>5 DEF Emits, netVars, hubVars
  <2>2. FirstIn(pipe, t, stage # "legacy") => FirstIn(pipe', t, stage' # "legacy")
    BY <1>1, <2>1, FirstAppended
  <2> QED  BY <1>1, <1>3, <2>1, <2>2 DEF Hears
<1>6. ASSUME NEW f \in Events, Sends(f)
      PROVE  Hears(t, page'.timeline, wire', pipe', stage' # "legacy")
  <2>1. /\ pipe # <<>> /\ f.turn = pipe[1].turn /\ wire' = Append(wire, f)
        /\ \/ /\ f = pipe[1] /\ stage = "send"
              /\ (stage' = "legacy" /\ pipe' = pipe) \/ (stage' = "take" /\ pipe' = Tail(pipe))
           \/ stage = "legacy" /\ stage' = "take" /\ pipe' = Tail(pipe)
    BY <1>6 DEF Sends, TypeOK
  <2>2. FirstIn(wire, t, TRUE) => FirstIn(wire', t, TRUE)
    BY <1>1, <2>1, FirstAppended
  <2>3. ASSUME \A j \in DOMAIN wire : wire[j].turn # t, FirstIn(pipe, t, stage # "legacy")
        PROVE  Hears(t, page'.timeline, wire', pipe', stage' # "legacy")
    <3>1. CASE pipe[1].turn = t /\ ~pipe[1].legacy /\ stage # "legacy"
      <4>1. f.turn = t /\ ~f.legacy
        BY <2>1, <3>1
      <4>2. FirstIn(wire', t, TRUE)
        BY <1>1, <2>1, <2>3, <4>1, FirstAppended
      <4> QED  BY <4>2 DEF Hears
    <3>2. CASE pipe[1].turn # t /\ FirstIn(Tail(pipe), t, TRUE)
      <4>1. \A j \in DOMAIN wire' : wire'[j].turn # t
        BY <1>1, <2>1, <2>3, <3>2, FirstAppended
      <4>2. FirstIn(pipe', t, stage' # "legacy")
        <5>1. CASE pipe' = Tail(pipe) /\ stage' = "take"
          BY <3>2, <5>1
        <5>2. CASE pipe' = pipe
          <6>1. PICK k \in DOMAIN pipe : /\ ~pipe[k].legacy /\ pipe[k].turn = t
                                         /\ \A j \in DOMAIN pipe : j < k => pipe[j].turn # t
            BY <2>3 DEF FirstIn
          <6> QED  BY <3>2, <5>2, <6>1 DEF FirstIn
        <5> QED  BY <2>1, <5>1, <5>2
      <4> QED  BY <4>1, <4>2 DEF Hears
    <3> QED  BY <1>1, <2>1, <2>3, <3>1, <3>2, FirstTail
  <2> QED  BY <1>1, <1>4, <2>2, <2>3 DEF Hears
<1>7. CASE HandleFrame
  <2>1. wire # <<>> /\ wire' = Tail(wire) /\ pipe' = pipe /\ stage' = stage
    BY <1>7 DEF HandleFrame, hubVars
  <2>2. ASSUME FirstIn(wire, t, TRUE) PROVE t \in page'.timeline \/ FirstIn(wire', t, TRUE)
    <3>1. CASE wire[1].turn = t /\ ~wire[1].legacy
      <4>1. page'.timeline = page.timeline \cup {wire[1].turn}
        <5> DEFINE e == wire[1]
        <5>1. /\ Head(wire) = e /\ e \in Events /\ Chunked(e)
          BY <2>1, FrameIs
        <5>2. page' = HandleTimeline(page, e)
          BY <1>7, <3>1, <5>1 DEF HandleFrame
        <5> HIDE DEF e
        <5>3. page \in Pages /\ Single(page)
          BY PageOKIs DEF PageOK
        <5>4. Handled(page, page', e)
          BY <5>1, <5>2, <5>3, HandleTimelineIs
        <5> QED  BY <5>4 DEF Handled, e
      <4> QED  BY <3>1, <4>1
    <3>2. CASE FirstIn(Tail(wire), t, TRUE)
      BY <2>1, <3>2
    <3> QED  BY <1>1, <2>1, <2>2, <3>1, <3>2, FirstTail
  <2>3. ASSUME \A j \in DOMAIN wire : wire[j].turn # t PROVE \A j \in DOMAIN wire' : wire'[j].turn # t
    <3>1. \A i \in DOMAIN wire' : i + 1 \in DOMAIN wire /\ wire'[i] = wire[i + 1]
      BY <1>1, <2>1, TailCases
    <3> QED  BY <2>3, <3>1
  <2> QED  BY <1>1, <1>3, <2>1, <2>2, <2>3 DEF Hears
<1>8. CASE MarkActive
  <2>1. /\ pipe # <<>> /\ pipe' = pipe /\ wire' = wire
        /\ stage' = IF Head(pipe).legacy THEN "legacy" ELSE "keep"
    BY <1>8 DEF MarkActive, netVars
  <2>2. Head(pipe) = pipe[1]
    BY <1>1, <2>1, TailCases
  <2>3. FirstIn(pipe, t, stage # "legacy") => FirstIn(pipe', t, stage' # "legacy")
    BY <2>1, <2>2 DEF FirstIn
  <2> QED  BY <1>1, <1>3, <2>1, <2>3 DEF Hears
<1>9. CASE KeepEvent
  <2>1. pipe' = pipe /\ wire' = wire /\ stage = "keep" /\ stage' = "send"
    BY <1>9 DEF KeepEvent, netVars
  <2> QED  BY <1>1, <1>3, <2>1 DEF Hears
<1>10. CASE Break
  <2> DEFINE what == IF wire # <<>> THEN {"missed"} ELSE {}
  <2>1. past' = Noted(what) /\ what \in SUBSET Disturbances
    BY <1>10 DEF Break, Disturbances
  <2>2. "missed" \notin what
    <3> HIDE DEF what
    <3> QED  BY <2>1, NotedCalm
  <2>3. wire = <<>> /\ wire' = wire /\ pipe' = pipe /\ stage' = stage
    BY <1>10, <2>2 DEF Break, hubVars
  <2> QED  BY <1>1, <1>3, <2>3 DEF Hears
<1>11. CASE UNCHANGED <<pipe, wire, stage>>
  BY <1>1, <1>3, <1>11 DEF Hears
<1> QED
  BY <1>5, <1>6, <1>7, <1>8, <1>9, <1>10, <1>11, StepKinds DEF Asks, Open, ReadEvents,
     ReadActive,
     LoadAnswered, LoadFailed, Connect, Submit, SubmitAnswered, SubmitRefused, InterruptAnswered,
     hubVars, netVars

\* The steps by which the page changes, with what each makes of it.
Changes ==
    \/ page' = page /\ (post' = post \/ (post.pc = "sent" /\ post' = [post EXCEPT !.pc = "refused"]))
    \/ page' = page /\ \E e \in Events : Emits(e)
    \/ /\ HandleFrame /\ wire # <<>> /\ wire[1] \in Events
       /\ ~wire[1].legacy /\ Handled(page, page', wire[1])
    \/ /\ HandleFrame /\ wire # <<>> /\ wire[1] \in Events
       /\ wire[1].legacy /\ Keeps(page, page', wire[1])
       /\ wire[1].turn \in page.timeline => page' = page
    \/ Submit
    \/ SubmitAnswered /\ post.turn \in Turns
    \/ SubmitRefused
    \/ InterruptAnswered /\ page' = [page EXCEPT !.active = 0]
    \/ LoadAnswered /\ page' = Loaded(page)

\* Every step changes the page in one of the ways of Changes.
LEMMA PageChanges ==
    ASSUME TypeOK, StageInv, EventInv, AwaitedInv, [Next]_vars
    PROVE  Changes
<1>1. page \in Pages /\ Single(page)
  BY PageOKIs DEF PageOK
<1>2. CASE HandleFrame
  <2> DEFINE e == wire[1]
  <2>1. /\ wire # <<>> /\ Head(wire) = e /\ e \in Events /\ Chunked(e)
        /\ (e.legacy => e.kind \in LegacyKinds)
    BY <1>2, FrameIs DEF HandleFrame
  <2>2. page' = IF e.legacy THEN HandleLegacy(page, e) ELSE HandleTimeline(page, e)
    BY <1>2, <2>1 DEF HandleFrame
  <2> HIDE DEF e
  <2>3. e.legacy => Keeps(page, page', e) /\ (e.turn \in page.timeline => page' = page)
    BY <1>1, <2>1, <2>2, HandleLegacyKeeps
  <2>4. ~e.legacy => Handled(page, page', e)
    BY <1>1, <2>1, <2>2, HandleTimelineIs
  <2> QED  BY <1>2, <2>1, <2>3, <2>4 DEF Changes, e
<1>3. SubmitAnswered => post.turn \in Turns
  <2> HAVE SubmitAnswered
  <2>1. post.turn \in 1 .. begun /\ begun \in 0 .. MaxTurns /\ MaxTurns \in Nat
    BY ThreadWorkspaceAssumption DEF SubmitAnswered, StageInv, TypeOK
  <2> QED  BY <2>1 DEF Turns
<1>4. InterruptAnswered => page' = [page EXCEPT !.active = 0]
  BY DEF InterruptAnswered
<1>5. LoadAnswered => page' = Loaded(page)
  BY DEF LoadAnswered
<1>6. \/ page' = page /\ (post' = post \/ (post.pc = "sent" /\ post' = [post EXCEPT !.pc = "refused"]))
      \/ page' = page /\ \E e \in Events : Emits(e)
      \/ HandleFrame \/ Submit \/ SubmitAnswered \/ SubmitRefused \/ InterruptAnswered
      \/ LoadAnswered
  <2>1. \A e : Emits(e) => page' = page
    BY DEF Emits
  <2> QED
    BY <2>1, StepKinds DEF Asks, Sends, MarkActive, KeepEvent, Open, ReadEvents,
       ReadActive, LoadFailed,
     Connect, Break
<1> QED  BY <1>2, <1>3, <1>4, <1>5, <1>6 DEF Changes

\* What the page is once it has loaded.
LEMMA LoadedIs ==
    ASSUME TypeOK, EventInv, AwaitedInv
    PROVE  \A r : r = Loaded(page) =>
             /\ r.over = page.over /\ r.timeline = page.timeline /\ r.waiting = page.waiting
             /\ r.active = Else(page.active, get.active)
             /\ r.messages = IF page.messages = <<>> THEN History(get.events) ELSE page.messages
             /\ OnlyAwaited(page) => OnlyAwaited(r)
<1> SUFFICES ASSUME NEW r, r = Loaded(page)
             PROVE  /\ r.over = page.over /\ r.timeline = page.timeline /\ r.waiting = page.waiting
                    /\ r.active = Else(page.active, get.active)
                    /\ r.messages = IF page.messages = <<>> THEN History(get.events) ELSE page.messages
                    /\ OnlyAwaited(page) => OnlyAwaited(r)
  OBVIOUS
<1>1. page \in Pages
  BY PageOKIs DEF PageOK
<1>2. /\ r.over = page.over /\ r.timeline = page.timeline /\ r.waiting = page.waiting
      /\ r.active = Else(page.active, get.active)
      /\ r.messages = IF page.messages = <<>> THEN History(get.events) ELSE page.messages
  BY <1>1 DEF Loaded, Pages
<1>3. CASE page.messages = <<>>
  <2>1. get.events \in Seq(Events) /\ begun \in Nat
    <3>1. begun \in 0 .. MaxTurns /\ MaxTurns \in Nat
      BY ThreadWorkspaceAssumption DEF TypeOK
    <3> QED  BY <3>1 DEF TypeOK
  <2>2. Len(get.events) \in Nat /\ DOMAIN get.events = 1 .. Len(get.events)
    BY <2>1, LenProperties
  <2>3. ASSUME NEW i \in 1 .. Len(get.events)
        PROVE  Chunked(get.events[i]) /\ get.events[i].turn <= begun
    <3>1. Sound(get.events[i]) /\ get.events[i] \in Events
      BY <2>1, <2>2, ElementOfSeq DEF EventInv
    <3>2. /\ get.events[i].turn \in Turns /\ get.events[i].chunk \in 0 .. MaxChunks
          /\ get.events[i].after \in 0 .. MaxChunks
      BY <3>1 DEF Events
    <3>3. /\ said[get.events[i].turn] \in 0 .. MaxChunks
          /\ whole[get.events[i].turn] \in 0 .. MaxChunks
      BY <3>2 DEF TypeOK
    <3>4. MaxChunks \in Nat
      BY ThreadWorkspaceAssumption
    <3> QED  BY <3>1, <3>2, <3>3, <3>4 DEF Sound, Chunked
  <2>4. r.messages \in Seq(Merged(begun))
    BY <1>2, <1>3, <2>1, <2>3, HistoryIn
  <2>5. \A i \in DOMAIN r.messages : r.messages[i] \in Merged(begun)
    BY <2>4, LenProperties, ElementOfSeq
  <2>6. OnlyAwaited(r)
    BY <2>5 DEF OnlyAwaited, Merged
  <2> QED  BY <1>2, <2>6
<1>4. CASE page.messages # <<>>
  BY <1>2, <1>4, SameAwaited
<1> QED  BY <1>3, <1>4

\* Every step preserves PendingInv: the answer to the prompt and the events of its turn
\* bind or drop the placeholder in either order.
LEMMA PendingStep ==
    ASSUME TypeOK, StageInv, EventInv, AwaitedInv, PendingInv, [Next]_vars
    PROVE  PendingInv'
<1> SUFFICES ASSUME "missed" \notin past'
             PROVE  /\ OnlyAwaited(page')
                    /\ page'.waiting # 0 => post'.pc # "none"
                    /\ post'.pc = "ok" =>
                          /\ Hears(post'.turn, page'.timeline, wire', pipe', stage' # "legacy")
                          /\ post'.turn \in page'.over => post'.turn \in page'.timeline
                          /\ post'.turn \in page'.timeline => page'.waiting = 0
  BY ToldIs DEF PendingInv, OnlyAwaited, Told, Hears, FirstIn, Sent, ToSend
<1>1. /\ OnlyAwaited(page)
      /\ page.waiting # 0 => post.pc # "none"
      /\ post.pc = "ok" => /\ Hears(post.turn, page.timeline, wire, pipe, stage # "legacy")
                           /\ post.turn \in page.over => post.turn \in page.timeline
                           /\ post.turn \in page.timeline => page.waiting = 0
  BY PastStep, ToldIs DEF PendingInv, OnlyAwaited
<1>2. page \in Pages /\ Single(page) /\ page.waiting \in {0, submits}
      /\ Bounded(page.messages, submits, begun)
      /\ page.over \subseteq 1 .. begun /\ page.timeline \subseteq 1 .. begun
  BY PageOKIs DEF PageOK
<1>3. ASSUME post.pc = "ok"
      PROVE  Hears(post.turn, page'.timeline, wire', pipe', stage' # "legacy")
  <2>1. sock # "closed"
    BY <1>3 DEF StageInv
  <2>2. PICK t : t = post.turn
    OBVIOUS
  <2>3. Told(t)
    BY <1>1, <1>3, <2>2, ToldIs
  <2>4. Told(t)'
    BY <2>1, <2>3, ToldStep
  <2> QED  BY <2>2, <2>4, ToldIs
<1>4. ASSUME post' = post, page'.waiting \in {0, page.waiting}, OnlyAwaited(page'),
             page'.timeline = page.timeline, page'.over \subseteq page.over
      PROVE  /\ OnlyAwaited(page')
             /\ page'.waiting # 0 => post'.pc # "none"
             /\ post'.pc = "ok" => /\ Hears(post'.turn, page'.timeline, wire', pipe', stage' # "legacy")
                                   /\ post'.turn \in page'.over => post'.turn \in page'.timeline
                                   /\ post'.turn \in page'.timeline => page'.waiting = 0
  BY <1>1, <1>3, <1>4
<1>5. ASSUME NEW e \in Events, Emits(e), e.kind = "started", post.pc = "sent",
             \E told \in {"ok", "refused"} : post' = [pc |-> told, turn |-> e.turn]
      PROVE  /\ OnlyAwaited(page')
             /\ page'.waiting # 0 => post'.pc # "none"
             /\ Hears(post'.turn, page'.timeline, wire', pipe', stage' # "legacy")
             /\ post'.turn \notin page'.over /\ post'.turn \notin page'.timeline
  <2>1. /\ page' = page /\ e.turn = begun + 1 /\ ~e.legacy /\ pipe' = Append(pipe, e) /\ wire' = wire
        /\ stage' = stage /\ post'.turn = e.turn /\ post'.pc # "none"
    BY <1>5 DEF Emits, netVars, hubVars
  <2>2. begun \in Nat
    <3>1. begun \in 0 .. MaxTurns /\ MaxTurns \in Nat
      BY ThreadWorkspaceAssumption DEF TypeOK
    <3> QED  BY <3>1
  <2>3. /\ \A i \in DOMAIN pipe : pipe[i].turn # e.turn
        /\ \A i \in DOMAIN wire : wire[i].turn # e.turn
        /\ e.turn \notin page.over /\ e.turn \notin page.timeline
    <3>1. \A i \in DOMAIN pipe : pipe[i].turn <= begun /\ pipe[i].turn \in Nat
      BY EventsAre DEF Fits, Events, Turns
    <3>2. \A i \in DOMAIN wire : wire[i].turn <= begun /\ wire[i].turn \in Nat
      BY EventsAre DEF Fits, Events, Turns
    <3>3. e.turn \notin 1 .. begun
      BY <2>1, <2>2
    <3> QED  BY <1>2, <2>1, <2>2, <3>1, <3>2, <3>3
  <2>4. pipe \in Seq(Events) /\ (pipe = <<>> => stage # "legacy")
    BY DEF TypeOK, StageInv
  <2>5. FirstIn(pipe', e.turn, stage' # "legacy")
    BY <2>1, <2>3, <2>4, FirstAppended
  <2> QED  BY <1>1, <2>1, <2>3, <2>5 DEF Hears
<1>6. ASSUME NEW e \in Events, Emits(e)
      PROVE  \/ page' = page /\ post' = post
             \/ /\ e.kind = "started" /\ post.pc = "sent"
                /\ \E told \in {"ok", "refused"} : post' = [pc |-> told, turn |-> e.turn]
  BY <1>6 DEF Emits
<1>7. CASE page' = page /\ post' = post
  BY <1>1, <1>4, <1>7
<1>8. CASE page' = page /\ post.pc = "sent" /\ post' = [post EXCEPT !.pc = "refused"]
  <2>1. post'.pc = "refused"
    BY <1>8 DEF TypeOK
  <2> QED  BY <1>1, <1>8, <2>1
<1>9. ASSUME HandleFrame, wire # <<>>, wire[1] \in Events, ~wire[1].legacy, Handled(page, page', wire[1])
      PROVE  /\ OnlyAwaited(page') /\ page'.waiting = 0 /\ post' = post
             /\ post'.pc = "ok" => (post'.turn \in page'.over => post'.turn \in page'.timeline)
  <2> DEFINE e == wire[1]
  <2>1. /\ page'.waiting = 0 /\ page'.timeline = page.timeline \cup {e.turn}
        /\ page'.over \subseteq page.over \cup {e.turn} /\ NonePending(page'.messages)
    BY <1>1, <1>9 DEF Handled
  <2>2. post' = post
    BY <1>9 DEF HandleFrame
  <2>3. OnlyAwaited(page')
    BY <2>1, NoneAwaited
  <2> QED  BY <1>1, <2>1, <2>2, <2>3
<1>10. ASSUME HandleFrame, wire # <<>>, wire[1] \in Events, wire[1].legacy, Keeps(page, page', wire[1]),
              wire[1].turn \in page.timeline => page' = page
       PROVE  /\ OnlyAwaited(page') /\ page'.waiting \in {0, page.waiting} /\ post' = post
              /\ post'.pc = "ok" => (post'.turn \in page'.over => post'.turn \in page'.timeline)
              /\ page'.timeline = page.timeline
  <2> DEFINE e == wire[1]
  <2>1. /\ page'.waiting \in {0, page.waiting} /\ page'.timeline = page.timeline
        /\ page'.over \subseteq page.over \cup {e.turn} /\ OnlyAwaited(page')
    BY <1>1, <1>10 DEF Keeps
  <2>2. post' = post
    BY <1>10 DEF HandleFrame
  <2>3. 1 \in DOMAIN wire /\ \A k \in DOMAIN wire : k # 1 => 1 < k
    BY <1>10, TailCases DEF TypeOK
  <2>4. (post.pc = "ok" /\ post.turn = e.turn) => e.turn \in page.timeline
    BY <1>1, <1>10, <2>3 DEF Hears, FirstIn
  <2> QED  BY <1>1, <2>1, <2>2, <2>4
<1>11. CASE Submit
  <2>1. /\ page' = Submitted(page, submits') /\ submits' = submits + 1 /\ submits < MaxSubmits
        /\ post.pc = "none" /\ post'.pc = "sent"
    BY <1>11 DEF Submit
  <2>2. submits \in 0 .. MaxSubmits /\ MaxSubmits \in Nat /\ begun \in Nat
    <3>1. submits \in 0 .. MaxSubmits /\ MaxSubmits \in Nat /\ begun \in 0 .. MaxTurns
      BY ThreadWorkspaceAssumption DEF TypeOK
    <3> QED  BY <3>1
  <2>3. submits' \in 1 .. MaxSubmits /\ submits' - 1 = submits
    BY <2>1, <2>2
  <2>4. PICK n \in 1 .. MaxSubmits : n = submits' /\ n - 1 = submits
    BY <2>3
  <2>5. Bounded(page.messages, n - 1, begun)
    BY <1>2, <2>4
  <2>6. NonePending(page.messages)
    BY <1>1, <2>1, NoneAwaited
  <2>7. OnlyAwaited(page')
    BY <1>2, <2>1, <2>2, <2>4, <2>5, <2>6, SubmittedIs
  <2> QED  BY <2>1, <2>7
<1>12. CASE SubmitAnswered /\ post.turn \in Turns
  <2>1. page' = Accepted(page, post.turn) /\ post.pc = "ok" /\ post'.pc = "none"
    BY <1>12 DEF SubmitAnswered, NoRequest
  <2>2. /\ page'.waiting \in {0, page.waiting} /\ (post.turn \notin page.over => page'.waiting = 0)
        /\ OnlyAwaited(page')
    BY <1>1, <1>2, <1>12, <2>1, AcceptedIs
  <2> QED  BY <1>1, <2>1, <2>2
<1>13. CASE SubmitRefused
  <2>1. page' = Rejected(page) /\ post'.pc = "none"
    BY <1>13 DEF SubmitRefused, NoRequest
  <2>2. page'.waiting = 0 /\ NonePending(page'.messages)
    BY <1>1, <1>2, <2>1, RejectedIs
  <2>3. OnlyAwaited(page')
    BY <2>2, NoneAwaited
  <2> QED  BY <2>1, <2>2, <2>3
<1>14. CASE InterruptAnswered /\ page' = [page EXCEPT !.active = 0]
  <2>1. post' = post
    BY <1>14 DEF InterruptAnswered
  <2>2. page'.messages = page.messages /\ page'.waiting = page.waiting
        /\ page'.timeline = page.timeline /\ page'.over = page.over
    BY <1>2, <1>14 DEF Pages
  <2>3. OnlyAwaited(page')
    BY <1>1, <2>2, SameAwaited
  <2> QED  BY <1>4, <2>1, <2>2, <2>3
<1>15. CASE LoadAnswered /\ page' = Loaded(page)
  <2>1. post' = post
    BY <1>15 DEF LoadAnswered
  <2>2. /\ page'.over = page.over /\ page'.timeline = page.timeline /\ page'.waiting = page.waiting
        /\ OnlyAwaited(page')
    BY <1>1, <1>15, LoadedIs
  <2> QED  BY <1>4, <2>1, <2>2
<1>16. CASE page' = page /\ \E e \in Events : Emits(e)
  BY <1>3, <1>5, <1>6, <1>7, <1>16
<1>17. CASE /\ HandleFrame /\ wire # <<>> /\ wire[1] \in Events
            /\ ~wire[1].legacy /\ Handled(page, page', wire[1])
  BY <1>3, <1>9, <1>17
<1>18. CASE /\ HandleFrame /\ wire # <<>> /\ wire[1] \in Events
            /\ wire[1].legacy /\ Keeps(page, page', wire[1])
            /\ wire[1].turn \in page.timeline => page' = page
  <2>1. /\ OnlyAwaited(page') /\ page'.waiting \in {0, page.waiting} /\ post' = post
        /\ post'.pc = "ok" => (post'.turn \in page'.over => post'.turn \in page'.timeline)
        /\ page'.timeline = page.timeline
    BY <1>10, <1>18
  <2> QED  BY <1>1, <1>3, <2>1
<1> QED
  BY <1>7, <1>8, <1>11, <1>12, <1>13, <1>14, <1>15, <1>16, <1>17, <1>18,
     PageChanges DEF Changes

-----------------------------------------------------------------------------
(* The gateway's active turn.                                              *)

\* The events and the active turn are the agent's: ActiveInv of any of them.
ActiveOK(p, n, run, stp, act) ==
    /\ \A i, j \in DOMAIN p : i < j /\ p[j].kind = "started" => p[i].turn < p[j].turn
    /\ \A i \in DOMAIN p : p[i].kind = "ended" => p[i].turn # run
    /\ stp # 0 => stp # run
    /\ \A i \in DOMAIN p : (i = 1 => n) /\ p[i].kind = "started" =>
          /\ act < p[i].turn
          /\ p[i].turn = run
                \/ \E j \in DOMAIN p : (j = 1 => n) /\ p[j].kind = "ended" /\ p[j].turn = p[i].turn
    /\ run # 0 =>
          \/ act = run
          \/ \E i \in DOMAIN p : (i = 1 => n) /\ p[i].kind = "started" /\ p[i].turn = run
    /\ act \in {0, run}
          \/ \E j \in DOMAIN p : (j = 1 => n) /\ p[j].kind = "ended" /\ p[j].turn = act

\* ActiveInv, before a step and after it.
LEMMA ActiveIs ==
    /\ ActiveInv <=> ActiveOK(pipe, stage = "take", running, stopping, active)
    /\ ActiveInv' <=> ActiveOK(pipe', stage' = "take", running', stopping', active')
BY DEF ActiveInv, ActiveOK, ToMark

\* Every step preserves ActiveInv.
LEMMA ActiveStep ==
    ASSUME TypeOK, StageInv, EventInv, ActiveInv, [Next]_vars
    PROVE  ActiveInv'
<1> DEFINE n == stage = "take"
           m == stage' = "take"
<1>1. /\ pipe \in Seq(Events) /\ ActiveOK(pipe, n, running, stopping, active)
      /\ begun \in Nat /\ active \in Nat /\ active <= begun /\ running \in {0, begun} /\ running \in Nat
      /\ \A i \in DOMAIN pipe : pipe[i].turn \in Nat /\ pipe[i].turn # 0 /\ pipe[i].turn <= begun
      /\ pipe = <<>> => n
  <2>1. begun \in 0 .. MaxTurns /\ MaxTurns \in Nat /\ active \in 0 .. begun /\ running \in 0 .. begun
        /\ running \in {0, begun} /\ (pipe = <<>> => n)
    BY ThreadWorkspaceAssumption DEF TypeOK, StageInv
  <2>2. begun \in Nat
    BY <2>1
  <2>3. \A i \in DOMAIN pipe : pipe[i].turn \in Nat /\ pipe[i].turn # 0 /\ pipe[i].turn <= begun
    BY EventsAre DEF Fits, Events, Turns
  <2> QED  BY <2>1, <2>2, <2>3, ActiveIs DEF TypeOK
<1> SUFFICES ActiveOK(pipe', m, running', stopping', active')
  BY ActiveIs
<1>2. /\ \A i, j \in DOMAIN pipe : i < j /\ pipe[j].kind = "started" => pipe[i].turn < pipe[j].turn
      /\ \A i \in DOMAIN pipe : pipe[i].kind = "ended" => pipe[i].turn # running
      /\ stopping # 0 => stopping # running
      /\ \A i \in DOMAIN pipe : (i = 1 => n) /\ pipe[i].kind = "started" =>
            /\ active < pipe[i].turn
            /\ pipe[i].turn = running
                  \/ \E j \in DOMAIN pipe : (j = 1 => n) /\ pipe[j].kind = "ended"
                                            /\ pipe[j].turn = pipe[i].turn
      /\ running # 0 =>
            \/ active = running
            \/ \E i \in DOMAIN pipe : (i = 1 => n) /\ pipe[i].kind = "started" /\ pipe[i].turn = running
      /\ active \in {0, running}
            \/ \E j \in DOMAIN pipe : (j = 1 => n) /\ pipe[j].kind = "ended" /\ pipe[j].turn = active
  BY <1>1 DEF ActiveOK
<1> HIDE DEF n, m
<1>3. ASSUME NEW e \in Events, Emits(e) PROVE ActiveOK(pipe', m, running', stopping', active')
  <2>1. /\ pipe' = Append(pipe, e) /\ m = n /\ active' = active
        /\ e.kind = "started" => /\ running = 0 /\ stopping = 0 /\ e.turn = begun + 1 /\ running' = e.turn
                                 /\ ~e.legacy
        /\ (e.kind = "ended" /\ ~e.legacy) => running' = 0 /\ e.turn = running
        /\ (e.kind # "started" /\ ~(e.kind = "ended" /\ ~e.legacy)) => running' = running
        /\ e.legacy => e.kind = "ended" /\ e.turn = stopping /\ stopping' = 0
        /\ ~e.legacy => (stopping' = stopping \/ (e.kind = "ended" /\ stopping' = e.turn))
    BY <1>3 DEF Emits, hubVars, n, m
  <2> DEFINE last == Len(pipe) + 1
  <2>2. /\ \A i \in DOMAIN pipe' : \/ i \in DOMAIN pipe /\ pipe'[i] = pipe[i]
                                   \/ i \notin DOMAIN pipe /\ i = last /\ pipe'[i] = e
        /\ \A i, j \in DOMAIN pipe' : i < j => i \in DOMAIN pipe
        /\ \A i \in DOMAIN pipe : i \in DOMAIN pipe' /\ pipe'[i] = pipe[i]
        /\ last \in DOMAIN pipe' /\ pipe'[last] = e
    BY <1>1, <2>1, AppendCases
  <2>3. last = 1 => n
    <3>1. pipe # <<>> => Len(pipe) \in Nat \ {0}
      BY <1>1, EmptySeq
    <3>2. pipe # <<>> => last # 1
      BY <3>1
    <3> QED  BY <1>1, <3>2
  <2>4. e.turn \in Nat /\ e.turn # 0
    BY DEF Events, Turns
  <2> HIDE DEF last
  <2>5. \A i, j \in DOMAIN pipe' : i < j /\ pipe'[j].kind = "started" => pipe'[i].turn < pipe'[j].turn
    BY <1>1, <1>2, <2>1, <2>2
  <2>6. \A i \in DOMAIN pipe' : pipe'[i].kind = "ended" => pipe'[i].turn # running'
    <3>1. ASSUME NEW i \in DOMAIN pipe, pipe[i].kind = "ended" PROVE pipe[i].turn # running'
      <4>1. pipe[i].turn # running /\ pipe[i].turn # 0 /\ pipe[i].turn # begun + 1
        BY <1>1, <1>2, <3>1
      <4> QED  BY <2>1, <4>1
    <3>2. e.kind = "ended" => e.turn # running'
      BY <1>2, <2>1, <2>4
    <3> QED  BY <2>2, <3>1, <3>2
  <2>7. stopping' # 0 => stopping' # running'
    BY <1>2, <2>1, <2>4
  <2>8. ASSUME NEW i \in DOMAIN pipe', (i = 1 => m), pipe'[i].kind = "started"
        PROVE  /\ active' < pipe'[i].turn
               /\ pipe'[i].turn = running'
                     \/ \E j \in DOMAIN pipe' : (j = 1 => m) /\ pipe'[j].kind = "ended"
                                                /\ pipe'[j].turn = pipe'[i].turn
    <3>1. CASE i \in DOMAIN pipe /\ pipe'[i] = pipe[i]
      <4>1. /\ active < pipe[i].turn
            /\ pipe[i].turn = running
                  \/ \E j \in DOMAIN pipe : (j = 1 => n) /\ pipe[j].kind = "ended"
                                            /\ pipe[j].turn = pipe[i].turn
        BY <1>2, <2>1, <2>8, <3>1
      <4>2. CASE \E j \in DOMAIN pipe : (j = 1 => n) /\ pipe[j].kind = "ended" /\ pipe[j].turn = pipe[i].turn
        BY <2>1, <2>2, <3>1, <4>1, <4>2
      <4>3. CASE pipe[i].turn = running
        <5>1. e.kind # "started"
          BY <1>1, <2>1, <3>1, <4>3
        <5>2. CASE running' = running
          BY <2>1, <3>1, <4>1, <4>3, <5>2
        <5>3. CASE e.kind = "ended" /\ e.turn = running
          BY <2>1, <2>2, <2>3, <3>1, <4>1, <4>3, <5>3
        <5> QED  BY <2>1, <5>1, <5>2, <5>3
      <4> QED  BY <4>1, <4>2, <4>3
    <3>2. CASE pipe'[i] = e
      <4>1. e.turn = begun + 1 /\ running' = e.turn
        BY <2>1, <2>8, <3>2
      <4> QED  BY <1>1, <2>1, <3>2, <4>1
    <3> QED  BY <2>2, <3>1, <3>2
  <2>9. ASSUME running' # 0
        PROVE  \/ active' = running'
               \/ \E i \in DOMAIN pipe' : (i = 1 => m) /\ pipe'[i].kind = "started" /\ pipe'[i].turn = running'
    <3>1. CASE e.kind = "started"
      BY <2>1, <2>2, <2>3, <3>1
    <3>2. CASE e.kind # "started"
      BY <1>2, <2>1, <2>2, <2>9, <3>2
    <3> QED  BY <3>1, <3>2
  <2>10. active' \in {0, running'}
          \/ \E j \in DOMAIN pipe' : (j = 1 => m) /\ pipe'[j].kind = "ended" /\ pipe'[j].turn = active'
    <3>1. CASE \E j \in DOMAIN pipe : (j = 1 => n) /\ pipe[j].kind = "ended" /\ pipe[j].turn = active
      BY <2>1, <2>2, <3>1
    <3>2. CASE active \in {0, running}
      BY <2>1, <2>2, <2>3, <3>2
    <3> QED  BY <1>2, <3>1, <3>2
  <2> QED  BY <2>5, <2>6, <2>7, <2>8, <2>9, <2>10 DEF ActiveOK
<1>4. ASSUME NEW f \in Events, Sends(f) PROVE ActiveOK(pipe', m, running', stopping', active')
  <2>1. /\ active' = active /\ running' = running /\ stopping' = stopping /\ pipe # <<>> /\ ~n
        /\ \/ pipe' = pipe /\ m = n
           \/ pipe' = Tail(pipe) /\ m
    BY <1>4 DEF Sends, agentVars, n, m
  <2>2. CASE pipe' = pipe /\ m = n
    BY <1>1, <2>1, <2>2
  <2>3. CASE pipe' = Tail(pipe) /\ m
    <3>1. /\ \A i \in DOMAIN pipe' : i + 1 \in DOMAIN pipe /\ pipe'[i] = pipe[i + 1] /\ i + 1 # 1
          /\ \A i, j \in DOMAIN pipe' : i < j => i + 1 < j + 1
          /\ \A i \in DOMAIN pipe : i # 1 => i - 1 \in DOMAIN pipe' /\ pipe'[i - 1] = pipe[i]
      BY <1>1, <2>1, <2>3, TailCases
    <3>2. \A i, j \in DOMAIN pipe' : i < j /\ pipe'[j].kind = "started" => pipe'[i].turn < pipe'[j].turn
      BY <1>2, <3>1
    <3>3. \A i \in DOMAIN pipe' : pipe'[i].kind = "ended" => pipe'[i].turn # running
      BY <1>2, <3>1
    <3>4. ASSUME NEW i \in DOMAIN pipe', pipe'[i].kind = "started"
          PROVE  /\ active < pipe'[i].turn
                 /\ pipe'[i].turn = running
                       \/ \E j \in DOMAIN pipe' : pipe'[j].kind = "ended" /\ pipe'[j].turn = pipe'[i].turn
      <4>1. /\ active < pipe[i + 1].turn
            /\ pipe[i + 1].turn = running
                  \/ \E j \in DOMAIN pipe : j # 1 /\ pipe[j].kind = "ended" /\ pipe[j].turn = pipe[i + 1].turn
        BY <1>2, <2>1, <3>1, <3>4
      <4> QED  BY <3>1, <4>1
    <3>5. running # 0 => \/ active = running
                         \/ \E i \in DOMAIN pipe' : pipe'[i].kind = "started" /\ pipe'[i].turn = running
      BY <1>2, <2>1, <3>1
    <3>6. active \in {0, running} \/ \E j \in DOMAIN pipe' : pipe'[j].kind = "ended" /\ pipe'[j].turn = active
      BY <1>2, <2>1, <3>1
    <3> QED  BY <1>2, <2>1, <2>3, <3>2, <3>3, <3>4, <3>5, <3>6 DEF ActiveOK
  <2> QED  BY <2>1, <2>2, <2>3
<1>5. CASE MarkActive
  <2>1. /\ pipe # <<>> /\ pipe' = pipe /\ active' = ActiveAfter(Head(pipe), active) /\ n /\ ~m
        /\ running' = running /\ stopping' = stopping
    BY <1>5 DEF MarkActive, agentVars, n, m
  <2> DEFINE e == pipe[1]
  <2>2. Head(pipe) = e /\ 1 \in DOMAIN pipe /\ \A i \in DOMAIN pipe : i # 1 => 1 < i
    BY <1>1, <2>1, TailCases
  <2>3. /\ e.kind = "started" => active' = e.turn
        /\ (e.kind = "ended" /\ active = e.turn) => active' = 0
        /\ (e.kind # "started" /\ ~(e.kind = "ended" /\ active = e.turn)) => active' = active
    BY <2>1, <2>2 DEF ActiveAfter
  <2>4. ASSUME NEW i \in DOMAIN pipe, i # 1, pipe[i].kind = "started"
        PROVE  /\ active' < pipe[i].turn
               /\ pipe[i].turn = running
                     \/ \E j \in DOMAIN pipe : j # 1 /\ pipe[j].kind = "ended" /\ pipe[j].turn = pipe[i].turn
    <3>1. e.turn < pipe[i].turn
      BY <1>2, <2>2, <2>4
    <3>2. /\ active < pipe[i].turn
          /\ pipe[i].turn = running
                \/ \E j \in DOMAIN pipe : pipe[j].kind = "ended" /\ pipe[j].turn = pipe[i].turn
      BY <1>2, <2>1, <2>4
    <3>3. e.turn # pipe[i].turn /\ 0 < pipe[i].turn
      BY <1>1, <2>2, <3>1
    <3> QED  BY <2>3, <3>1, <3>2, <3>3
  <2>5. ASSUME running # 0
        PROVE  \/ active' = running
               \/ \E i \in DOMAIN pipe : i # 1 /\ pipe[i].kind = "started" /\ pipe[i].turn = running
    <3>1. CASE active = running
      <4>1. e.kind # "started"
        BY <1>1, <1>2, <2>1, <2>2, <2>5, <3>1
      <4>2. ~(e.kind = "ended" /\ active = e.turn)
        BY <1>2, <2>2, <3>1
      <4> QED  BY <2>3, <3>1, <4>1, <4>2
    <3>2. CASE \E i \in DOMAIN pipe : pipe[i].kind = "started" /\ pipe[i].turn = running
      BY <2>3, <3>2
    <3> QED  BY <1>2, <2>5, <3>1, <3>2
  <2>6. active' \in {0, running}
          \/ \E j \in DOMAIN pipe : j # 1 /\ pipe[j].kind = "ended" /\ pipe[j].turn = active'
    <3>1. CASE e.kind = "started"
      BY <1>2, <2>1, <2>2, <2>3, <3>1
    <3>2. CASE e.kind # "started"
      BY <1>2, <2>3, <3>2
    <3> QED  BY <3>1, <3>2
  <2> QED  BY <1>2, <2>1, <2>4, <2>5, <2>6 DEF ActiveOK
<1>6. CASE KeepEvent
  <2>1. pipe' = pipe /\ active' = active /\ running' = running /\ stopping' = stopping /\ m = n
    BY <1>6 DEF KeepEvent, agentVars, n, m
  <2> QED  BY <1>1, <2>1
<1>7. CASE UNCHANGED <<pipe, stage, active, running, stopping>>
  <2>1. m = n
    BY <1>7 DEF n, m
  <2> QED  BY <1>1, <1>7, <2>1
<1> QED
  BY <1>3, <1>4, <1>5, <1>6, <1>7, StepKinds DEF Asks, Open, ReadEvents, ReadActive,
     LoadAnswered,
     LoadFailed, Connect, Break, HandleFrame, Submit, SubmitAnswered, SubmitRefused,
     InterruptAnswered, hubVars, agentVars

-----------------------------------------------------------------------------
(* The order of the events.                                                *)

\* The next event of the turn that runs is numbered higher.
Passed(e, run, n) == e.turn = run => e.seq <= n[run] /\ e.kind # "ended"

\* OrderInv of any events under way, keep and send telling whether the first of those
\* sent by the client is still to be kept and to be broadcast.
OrderOK(p, w, k, keep, send, run, n) ==
    /\ Ordered(p) /\ Ordered(w) /\ Ordered(k)
    /\ \A i \in DOMAIN w, j \in DOMAIN p :
          ~w[i].legacy /\ ~p[j].legacy /\ (j = 1 => send) => Before(w[i], p[j])
    /\ \A i \in DOMAIN k, j \in DOMAIN p : ~p[j].legacy /\ (j = 1 => keep) => Before(k[i], p[j])
    /\ \A i \in DOMAIN p : ~p[i].legacy => Passed(p[i], run, n)
    /\ \A i \in DOMAIN w : ~w[i].legacy => Passed(w[i], run, n)
    /\ \A i \in DOMAIN k : Passed(k[i], run, n)

\* OrderInv, before a step and after it.
LEMMA OrderIs ==
    /\ OrderInv <=>
          (Smooth => /\ Ordered(get.events)
                     /\ OrderOK(pipe, wire, kept, stage \in {"take", "keep"}, stage # "legacy",
                                running, sequence))
    /\ OrderInv' <=>
          (Smooth' => /\ Ordered(get'.events)
                      /\ OrderOK(pipe', wire', kept', stage' \in {"take", "keep"},
                                 stage' # "legacy", running', sequence'))
BY DEF OrderInv, OrderOK, Sent, ToSend, ToKeep, Past, Passed

\* Events in order stay so with one that comes after them.
LEMMA OrderedAppended ==
    ASSUME NEW s \in Seq(Events), NEW e \in Events, Ordered(s),
           ~e.legacy => \A i \in DOMAIN s : ~s[i].legacy => Before(s[i], e)
    PROVE  Ordered(Append(s, e))
<1>1. PICK r : r = Append(s, e)
  OBVIOUS
<1>2. /\ \A i \in DOMAIN r : \/ i \in DOMAIN s /\ r[i] = s[i]
                             \/ i \notin DOMAIN s /\ r[i] = e
      /\ \A i, j \in DOMAIN r : i < j => i \in DOMAIN s
  BY <1>1, AppendCases
<1>3. Ordered(r)
  BY <1>2 DEF Ordered
<1> QED  BY <1>1, <1>3

\* Events in order stay so without their first, which comes before the others.
LEMMA OrderedTail ==
    ASSUME NEW s \in Seq(Events), s # <<>>, Ordered(s)
    PROVE  \A r : r = Tail(s) =>
             /\ Ordered(r)
             /\ \A i \in DOMAIN r : ~s[1].legacy /\ ~r[i].legacy => Before(s[1], r[i])
             /\ \A i \in DOMAIN r : \E j \in DOMAIN s : j # 1 /\ r[i] = s[j]
<1> SUFFICES ASSUME NEW r, r = Tail(s)
             PROVE  /\ Ordered(r)
                    /\ \A i \in DOMAIN r : ~s[1].legacy /\ ~r[i].legacy => Before(s[1], r[i])
                    /\ \A i \in DOMAIN r : \E j \in DOMAIN s : j # 1 /\ r[i] = s[j]
  OBVIOUS
<1>1. /\ 1 \in DOMAIN s
      /\ \A i \in DOMAIN r : i + 1 \in DOMAIN s /\ r[i] = s[i + 1] /\ 1 < i + 1 /\ i \in Nat
      /\ \A i, j \in DOMAIN r : i < j => i + 1 < j + 1
  BY TailCases
<1>2. Ordered(r)
  BY <1>1 DEF Ordered
<1>3. \A i \in DOMAIN r : ~s[1].legacy /\ ~r[i].legacy => Before(s[1], r[i])
  BY <1>1 DEF Ordered
<1>4. \A i \in DOMAIN r : i + 1 # 1
  BY <1>1
<1> QED  BY <1>1, <1>2, <1>3, <1>4

\* An event sent on a calm page comes after all before it.
LEMMA EmitFollows ==
    ASSUME TypeOK, StageInv, NEW e \in Events, Emits(e), Smooth'
    PROVE  /\ ~e.legacy => Passed(e, running', sequence')
           /\ \A f \in Events : Fits(f, begun, said, whole, first) /\ Passed(f, running, sequence) =>
                /\ Passed(f, running', sequence')
                /\ ~e.legacy => Before(f, e)
<1>1. /\ running \in {0, begun} /\ begun \in Nat /\ sequence \in [Turns -> Nat]
      /\ said \in [Turns -> 0 .. MaxChunks] /\ whole \in [Turns -> 0 .. MaxChunks]
      /\ \A t \in Turns : whole[t] <= said[t]
      /\ MaxChunks \in Nat
  <2>1. begun \in 0 .. MaxTurns /\ MaxTurns \in Nat
    BY ThreadWorkspaceAssumption DEF TypeOK
  <2>2. running \in {0, begun} /\ sequence \in [Turns -> Nat] /\ said \in [Turns -> 0 .. MaxChunks]
        /\ whole \in [Turns -> 0 .. MaxChunks] /\ (\A t \in Turns : whole[t] <= said[t])
        /\ MaxChunks \in Nat
    BY ThreadWorkspaceAssumption DEF TypeOK, StageInv
  <2> QED  BY <2>1, <2>2
<1>2. \A f \in Events : f.turn \in Turns /\ f.turn \in Nat /\ f.turn # 0 /\ f.seq \in Nat /\ f.chunk \in Nat
  BY ThreadWorkspaceAssumption DEF Events, Turns
<1>3. e.legacy \/ e.kind = "started" \/ e.turn = running
  BY DEF Emits
<1>4. CASE e.legacy
  <2>1. running' = running /\ sequence' = sequence
    BY <1>4 DEF Emits
  <2> QED  BY <1>4, <2>1
<1>5. CASE ~e.legacy /\ e.kind = "started"
  <2>1. e.turn = begun + 1 /\ running' = e.turn /\ e.seq = sequence[e.turn] + 1
        /\ sequence' = [sequence EXCEPT ![e.turn] = sequence[e.turn] + 1]
    BY <1>5 DEF Emits
  <2>2. sequence'[e.turn] = e.seq
    BY <1>1, <1>2, <2>1
  <2>3. Passed(e, running', sequence')
    BY <1>2, <1>5, <2>1, <2>2 DEF Passed
  <2>4. ASSUME NEW f \in Events, Fits(f, begun, said, whole, first)
        PROVE  f.turn < e.turn /\ f.turn # e.turn
    BY <1>1, <1>2, <2>1, <2>4 DEF Fits
  <2>5. ASSUME NEW f \in Events, Fits(f, begun, said, whole, first)
        PROVE  Passed(f, running', sequence') /\ Before(f, e)
    <3>1. f.turn <= e.turn /\ f.turn # e.turn
      BY <1>2, <2>4, <2>5
    <3> QED  BY <2>1, <3>1 DEF Passed, Before
  <2> QED  BY <2>3, <2>5
<1>6. CASE ~e.legacy /\ e.kind # "started" /\ e.turn = running
  <2>1. /\ e.turn = begun /\ e.seq = sequence[e.turn] + 1
        /\ running' = IF e.kind = "ended" THEN 0 ELSE running
        /\ sequence' = [sequence EXCEPT ![e.turn] = IF e.kind = "ended" THEN 0 ELSE sequence[e.turn] + 1]
        /\ e.kind = "delta" => e.chunk = said[e.turn] + 1
        /\ e.kind = "answer" => e.chunk = said[e.turn] /\ whole[e.turn] < said[e.turn]
    BY <1>1, <1>2, <1>6 DEF Emits
  <2>2. e.kind # "ended" => sequence'[e.turn] = e.seq /\ running' = e.turn
    BY <1>1, <1>2, <1>6, <2>1
  <2>3. Passed(e, running', sequence')
    BY <1>2, <1>6, <2>1, <2>2 DEF Passed
  <2>4. ASSUME NEW f \in Events, Fits(f, begun, said, whole, first), Passed(f, running, sequence)
        PROVE  Passed(f, running', sequence') /\ Before(f, e)
    <3>1. f.turn = e.turn => f.seq <= sequence[e.turn] /\ f.kind # "ended" /\ f.seq < e.seq /\ f.seq <= e.seq
      <4> HAVE f.turn = e.turn
      <4>1. f.seq <= sequence[e.turn] /\ f.kind # "ended"
        BY <1>6, <2>4 DEF Passed
      <4>2. sequence[e.turn] \in Nat /\ e.seq = sequence[e.turn] + 1 /\ f.seq \in Nat
        BY <1>1, <1>2, <2>1
      <4> QED  BY <4>1, <4>2
    <3>2. f.turn <= e.turn
      BY <2>1, <2>4 DEF Fits
    <3>3. Passed(f, running', sequence')
      <4>1. CASE e.kind = "ended"
        <5>1. running' = 0 /\ f.turn # 0
          BY <1>2, <2>1, <4>1
        <5> QED  BY <5>1 DEF Passed
      <4>2. CASE e.kind # "ended"
        BY <2>2, <3>1, <4>2 DEF Passed
      <4> QED  BY <4>1, <4>2
    <3>4. f.turn = e.turn /\ f.kind \in Spoken /\ e.kind \in Spoken =>
              f.chunk < e.chunk \/ (f.chunk = e.chunk /\ f.kind = "delta" /\ e.kind = "answer")
      <4> SUFFICES ASSUME f.turn = e.turn, f.kind \in {"delta", "answer"},
                          e.kind \in {"delta", "answer"}
                   PROVE  f.chunk < e.chunk
                             \/ (f.chunk = e.chunk /\ f.kind = "delta" /\ e.kind = "answer")
        BY DEF Spoken
      <4>1. /\ f.kind = "delta" => f.chunk \in 1 .. said[e.turn]
            /\ f.kind = "answer" => f.chunk <= whole[e.turn]
        BY <2>4 DEF Fits
      <4>2. said[e.turn] \in Nat /\ whole[e.turn] \in Nat /\ whole[e.turn] <= said[e.turn]
            /\ f.chunk \in Nat
        BY <1>1, <1>2
      <4>3. /\ e.kind = "delta" => e.chunk = said[e.turn] + 1
            /\ e.kind = "answer" => e.chunk = said[e.turn] /\ whole[e.turn] < said[e.turn]
        BY <2>1
      <4>4. f.chunk <= said[e.turn] /\ (f.kind = "answer" => f.chunk <= whole[e.turn])
        BY <4>1, <4>2
      <4> QED  BY <4>2, <4>3, <4>4
    <3> QED  BY <3>1, <3>2, <3>3, <3>4 DEF Before
  <2> QED  BY <2>3, <2>4
<1> QED  BY <1>3, <1>4, <1>5, <1>6

\* Every step preserves OrderInv.
LEMMA OrderStep ==
    ASSUME TypeOK, StageInv, EventInv, OrderInv, [Next]_vars
    PROVE  OrderInv'
<1> DEFINE kp == stage \in {"take", "keep"}
           sp == stage # "legacy"
           kq == stage' \in {"take", "keep"}
           sq == stage' # "legacy"
           OK == OrderOK(pipe', wire', kept', kq, sq, running', sequence')
<1> SUFFICES ASSUME Smooth' PROVE Ordered(get'.events) /\ OK
  BY OrderIs
<1>1. /\ OrderOK(pipe, wire, kept, kp, sp, running, sequence) /\ Ordered(get.events)
      /\ pipe \in Seq(Events) /\ wire \in Seq(Events) /\ kept \in Seq(Events)
      /\ \A i \in DOMAIN pipe : pipe[i] \in Events /\ Fits(pipe[i], begun, said, whole, first)
      /\ \A i \in DOMAIN wire : wire[i] \in Events /\ Fits(wire[i], begun, said, whole, first)
      /\ \A i \in DOMAIN kept : kept[i] \in Events /\ Fits(kept[i], begun, said, whole, first) /\ ~kept[i].legacy
  BY PastStep, OrderIs, EventsAre
<1> HIDE DEF kp, sp, kq, sq
<1>2. /\ Ordered(pipe) /\ Ordered(wire) /\ Ordered(kept)
      /\ \A i \in DOMAIN wire, j \in DOMAIN pipe :
            ~wire[i].legacy /\ ~pipe[j].legacy /\ (j = 1 => sp) => Before(wire[i], pipe[j])
      /\ \A i \in DOMAIN kept, j \in DOMAIN pipe : ~pipe[j].legacy /\ (j = 1 => kp) => Before(kept[i], pipe[j])
      /\ \A i \in DOMAIN pipe : ~pipe[i].legacy => Passed(pipe[i], running, sequence)
      /\ \A i \in DOMAIN wire : ~wire[i].legacy => Passed(wire[i], running, sequence)
      /\ \A i \in DOMAIN kept : Passed(kept[i], running, sequence)
  BY <1>1 DEF OrderOK
<1>3. ASSUME NEW e \in Events, Emits(e) PROVE OK /\ get' = get
  <2>1. pipe' = Append(pipe, e) /\ wire' = wire /\ kept' = kept /\ stage' = stage /\ get' = get
    BY <1>3 DEF Emits, netVars, hubVars
  <2>2. kq = kp /\ sq = sp
    BY <2>1 DEF kp, kq, sp, sq
  <2>3. \A f \in Events : Fits(f, begun, said, whole, first) /\ Passed(f, running, sequence) =>
            Passed(f, running', sequence') /\ (~e.legacy => Before(f, e))
    BY <1>3, EmitFollows
  <2>4. ~e.legacy => Passed(e, running', sequence')
    BY <1>3, EmitFollows
  <2>5. /\ \A i \in DOMAIN pipe' : \/ i \in DOMAIN pipe /\ pipe'[i] = pipe[i]
                                   \/ i \notin DOMAIN pipe /\ pipe'[i] = e
    BY <1>1, <2>1, AppendCases
  <2>6. Ordered(pipe')
    BY <1>1, <1>2, <2>1, <2>3, OrderedAppended
  <2>7. \A i \in DOMAIN pipe' : ~pipe'[i].legacy => Passed(pipe'[i], running', sequence')
    BY <1>1, <1>2, <2>3, <2>4, <2>5
  <2>8. \A i \in DOMAIN wire : ~wire[i].legacy =>
            Passed(wire[i], running', sequence') /\ (~e.legacy => Before(wire[i], e))
    BY <1>1, <1>2, <2>3
  <2>9. \A i \in DOMAIN kept : Passed(kept[i], running', sequence') /\ (~e.legacy => Before(kept[i], e))
    BY <1>1, <1>2, <2>3
  <2>10. \A i \in DOMAIN wire, j \in DOMAIN pipe' :
            ~wire[i].legacy /\ ~pipe'[j].legacy /\ (j = 1 => sp) => Before(wire[i], pipe'[j])
    BY <1>2, <2>5, <2>8
  <2>11. \A i \in DOMAIN kept, j \in DOMAIN pipe' : ~pipe'[j].legacy /\ (j = 1 => kp) => Before(kept[i], pipe'[j])
    BY <1>2, <2>5, <2>9
  <2> QED  BY <1>2, <2>1, <2>2, <2>6, <2>7, <2>8, <2>9, <2>10, <2>11 DEF OrderOK
<1>4. ASSUME NEW f \in Events, Sends(f) PROVE OK /\ get' = get
  <2>1. /\ pipe # <<>> /\ kept' = kept /\ running' = running /\ sequence' = sequence /\ get' = get
        /\ wire' \in {wire, Append(wire, f)}
        /\ \/ f = pipe[1] /\ ~f.legacy /\ sp /\ pipe' = pipe /\ ~kq /\ ~sq
           \/ f = pipe[1] /\ ~f.legacy /\ sp /\ pipe' = Tail(pipe)
           \/ f.legacy /\ pipe' = Tail(pipe)
    BY <1>4 DEF Sends, agentVars, sp, kq, sq
  <2>13. PICK s : s = Tail(pipe)
    OBVIOUS
  <2>14. 1 \in DOMAIN pipe /\ \A j \in DOMAIN pipe : j # 1 => 1 < j
    BY <1>1, <2>1, TailCases
  <2>15. /\ Ordered(s)
         /\ \A i \in DOMAIN s : ~pipe[1].legacy /\ ~s[i].legacy => Before(pipe[1], s[i])
         /\ \A i \in DOMAIN s : \E j \in DOMAIN pipe : j # 1 /\ s[i] = pipe[j]
    <3>1. pipe # <<>> /\ Ordered(pipe) /\ pipe \in Seq(Events)
      BY <1>1, <1>2, <2>1
    <3>2. Ordered(s)
      BY <2>13, <3>1, OrderedTail
    <3>3. \A i \in DOMAIN s : ~pipe[1].legacy /\ ~s[i].legacy => Before(pipe[1], s[i])
      BY <2>13, <3>1, OrderedTail
    <3>4. \A i \in DOMAIN s : \E j \in DOMAIN pipe : j # 1 /\ s[i] = pipe[j]
      BY <2>13, <3>1, OrderedTail
    <3> QED  BY <3>2, <3>3, <3>4
  <2>2. /\ Ordered(Tail(pipe))
        /\ \A i \in DOMAIN Tail(pipe) : ~pipe[1].legacy /\ ~Tail(pipe)[i].legacy => Before(pipe[1], Tail(pipe)[i])
        /\ \A i \in DOMAIN Tail(pipe) : \E j \in DOMAIN pipe : j # 1 /\ Tail(pipe)[i] = pipe[j]
        /\ 1 \in DOMAIN pipe
        /\ \A j \in DOMAIN pipe : j # 1 => 1 < j
    BY <2>13, <2>14, <2>15
  <2>3. /\ \A i \in DOMAIN pipe' : \E j \in DOMAIN pipe :
               pipe'[i] = pipe[j] /\ (j = 1 => i = 1 /\ ~kq /\ ~sq)
        /\ Ordered(pipe')
    BY <1>2, <2>1, <2>2
  <2>4. ~f.legacy => \A j \in DOMAIN pipe' : ~pipe'[j].legacy /\ (j = 1 => sq) => Before(f, pipe'[j])
    <3> SUFFICES ASSUME ~f.legacy, NEW j \in DOMAIN pipe', ~pipe'[j].legacy, j = 1 => sq
                 PROVE  Before(f, pipe'[j])
      OBVIOUS
    <3>1. CASE pipe' = pipe
      <4>1. j # 1 /\ j \in DOMAIN pipe /\ f = pipe[1]
        BY <2>1, <2>2, <3>1
      <4>2. 1 < j
        BY <2>2, <4>1
      <4> QED  BY <1>2, <2>2, <3>1, <4>1, <4>2 DEF Ordered
    <3>2. CASE pipe' = Tail(pipe)
      BY <2>1, <2>2, <3>2
    <3> QED  BY <2>1, <3>1, <3>2
  <2>5. ~f.legacy => /\ \A i \in DOMAIN wire : ~wire[i].legacy => Before(wire[i], f)
                     /\ Passed(f, running', sequence')
    BY <1>2, <2>1, <2>2
  <2>6. Ordered(Append(wire, f))
    BY <1>1, <1>2, <2>5, OrderedAppended
  <2>7. \A i \in DOMAIN wire' : (i \in DOMAIN wire /\ wire'[i] = wire[i]) \/ wire'[i] = f
    <3>1. PICK r : r = Append(wire, f)
      OBVIOUS
    <3>2. \A i \in DOMAIN r : (i \in DOMAIN wire /\ r[i] = wire[i]) \/ r[i] = f
      BY <1>1, <3>1, AppendCases
    <3> QED  BY <2>1, <3>1, <3>2
  <2>8. Ordered(wire')
    BY <1>2, <2>1, <2>6
  <2>9. \A i \in DOMAIN wire' : ~wire'[i].legacy => Passed(wire'[i], running', sequence')
    BY <1>2, <2>1, <2>5, <2>7
  <2>10. \A i \in DOMAIN pipe' : ~pipe'[i].legacy => Passed(pipe'[i], running', sequence')
    BY <1>2, <2>1, <2>3
  <2>11. \A i \in DOMAIN kept', j \in DOMAIN pipe' : ~pipe'[j].legacy /\ (j = 1 => kq) => Before(kept'[i], pipe'[j])
    BY <1>2, <2>1, <2>3
  <2>12. \A i \in DOMAIN wire', j \in DOMAIN pipe' :
            ~wire'[i].legacy /\ ~pipe'[j].legacy /\ (j = 1 => sq) => Before(wire'[i], pipe'[j])
    BY <1>2, <2>3, <2>4, <2>7
  <2> QED  BY <1>2, <2>1, <2>3, <2>8, <2>9, <2>10, <2>11, <2>12 DEF OrderOK
<1>5. ASSUME KeepEvent PROVE OK
  <2>1. /\ pipe' = pipe /\ wire' = wire /\ running' = running /\ sequence' = sequence /\ get' = get
        /\ kp /\ ~kq /\ sq /\ sp
    BY <1>5 DEF KeepEvent, agentVars, netVars, kp, kq, sq, sp
  <2>2. /\ pipe # <<>> /\ pipe[1] \in Events /\ ~pipe[1].legacy
        /\ Len(kept) \in Nat /\ DOMAIN kept = 1 .. Len(kept)
    BY <1>5, KeepIs
  <2>3. PICK d \in Nat :
                /\ d <= Len(kept) /\ DOMAIN kept' = 1 .. Len(kept) + 1 - d
                /\ \A i \in DOMAIN kept' :
                      \/ i + d \in DOMAIN kept /\ kept'[i] = kept[i + d]
                      \/ i + d = Len(kept) + 1 /\ kept'[i] = pipe[1]
    BY <1>5, KeepIs
  <2>4. \A i, j \in DOMAIN kept' : i < j => i + d < j + d /\ i + d \in DOMAIN kept
    BY <2>2, <2>3
  <2>5. 1 \in DOMAIN pipe /\ \A j \in DOMAIN pipe : j # 1 => 1 < j
    BY <1>1, <2>2, TailCases
  <2>6. \A i \in DOMAIN kept : Before(kept[i], pipe[1])
    BY <1>2, <2>1, <2>2, <2>5
  <2>7. ASSUME NEW i \in DOMAIN kept', NEW j \in DOMAIN kept', i < j PROVE Before(kept'[i], kept'[j])
    <3>1. i + d < j + d /\ i + d \in DOMAIN kept /\ i + d # Len(kept) + 1
      BY <2>2, <2>4, <2>7
    <3>2. kept'[i] = kept[i + d]
      BY <2>3, <3>1
    <3>3. CASE j + d \in DOMAIN kept /\ kept'[j] = kept[j + d]
      BY <1>1, <1>2, <3>1, <3>2, <3>3 DEF Ordered
    <3>4. CASE kept'[j] = pipe[1]
      BY <2>6, <3>1, <3>2, <3>4
    <3> QED  BY <2>3, <3>3, <3>4
  <2>8. Ordered(kept')
    BY <2>7 DEF Ordered
  <2>9. \A i \in DOMAIN kept' : kept'[i] = pipe[1] \/ \E j \in DOMAIN kept : kept'[i] = kept[j]
    BY <2>3
  <2>10. \A i \in DOMAIN kept' : Passed(kept'[i], running, sequence)
    BY <1>2, <2>2, <2>5, <2>9
  <2>11. \A i \in DOMAIN kept', j \in DOMAIN pipe : ~pipe[j].legacy /\ (j = 1 => kq) => Before(kept'[i], pipe[j])
    <3>1. \A j \in DOMAIN pipe : ~pipe[j].legacy /\ j # 1 => Before(pipe[1], pipe[j])
      BY <1>2, <2>2, <2>5 DEF Ordered
    <3> QED  BY <1>2, <2>1, <2>9, <3>1
  <2> QED  BY <1>2, <2>1, <2>8, <2>10, <2>11 DEF OrderOK
<1>6. ASSUME HandleFrame PROVE OK
  <2>1. /\ wire # <<>> /\ wire' = Tail(wire) /\ pipe' = pipe /\ kept' = kept /\ get' = get
        /\ running' = running /\ sequence' = sequence /\ stage' = stage
    BY <1>6 DEF HandleFrame, hubVars, agentVars
  <2>2. kq = kp /\ sq = sp
    BY <2>1 DEF kp, kq, sp, sq
  <2>4. Ordered(wire')
    BY <1>1, <1>2, <2>1, OrderedTail
  <2>5. \A i \in DOMAIN wire' : i + 1 \in DOMAIN wire /\ wire'[i] = wire[i + 1]
    BY <1>1, <2>1, TailCases
  <2>3. Ordered(wire') /\ \A i \in DOMAIN wire' : \E j \in DOMAIN wire : wire'[i] = wire[j]
    BY <2>4, <2>5
  <2> QED  BY <1>2, <2>1, <2>2, <2>3 DEF OrderOK
<1>7. ASSUME Break PROVE OK
  <2>1. /\ wire' = <<>> /\ pipe' = pipe /\ kept' = kept /\ get' = get
        /\ running' = running /\ sequence' = sequence /\ stage' = stage
    BY <1>7 DEF Break, hubVars, agentVars
  <2>2. kq = kp /\ sq = sp
    BY <2>1 DEF kp, kq, sp, sq
  <2>3. Ordered(wire') /\ DOMAIN wire' = {}
    BY <2>1 DEF Ordered
  <2> QED  BY <1>2, <2>1, <2>2, <2>3 DEF OrderOK
<1>8. ASSUME MarkActive PROVE OK
  <2>1. /\ wire' = wire /\ pipe' = pipe /\ kept' = kept /\ get' = get
        /\ running' = running /\ sequence' = sequence /\ kp /\ sp
    BY <1>8 DEF MarkActive, netVars, agentVars, kp, sp
  <2> QED  BY <1>2, <2>1 DEF OrderOK
<1>9. ASSUME UNCHANGED <<pipe, wire, kept, stage, running, sequence>> PROVE OK
  <2>2. kq = kp /\ sq = sp
    BY <1>9 DEF kp, kq, sp, sq
  <2> QED  BY <1>1, <1>9, <2>2
<1>10. /\ ReadEvents => get'.events = kept
       /\ ReadActive \/ Open => get'.events = get.events
       /\ LoadAnswered \/ LoadFailed => get'.events = <<>>
  BY DEF ReadEvents, ReadActive, Open, LoadAnswered, LoadFailed, NoGet, TypeOK
<1>11. Ordered(<<>>)
  BY DEF Ordered
<1>12. \/ \E e \in Events : Emits(e)
       \/ \E f \in Events : Sends(f)
       \/ KeepEvent \/ HandleFrame \/ Break \/ MarkActive
       \/ /\ UNCHANGED <<pipe, wire, kept, stage, running, sequence>>
          /\ get'.events \in {get.events, kept, <<>>}
  BY <1>10, StepKinds DEF Asks, Open, ReadEvents, ReadActive,
           LoadAnswered, LoadFailed, Connect, Submit, SubmitAnswered, SubmitRefused,
           InterruptAnswered, hubVars, netVars, agentVars
<1>13. KeepEvent \/ HandleFrame \/ Break \/ MarkActive => get' = get
  BY DEF KeepEvent, HandleFrame, Break, MarkActive, hubVars
<1> HIDE DEF OK
<1> QED  BY <1>1, <1>2, <1>3, <1>4, <1>5, <1>6, <1>7, <1>8, <1>9, <1>11, <1>12, <1>13

-----------------------------------------------------------------------------
(* What a page that opens between turns reads.                             *)

\* A chunk of a turn, or a text that ends with it.
Says(e, what, t, d) == e.kind = what /\ e.turn = t /\ e.chunk = d

\* Every chunk and every last text is kept or is still to be.
AllKept(p, k, keep, s, w) ==
    \A t \in Turns :
        /\ \A d \in 1 .. s[t] :
              \/ \E i \in DOMAIN k : Says(k[i], "delta", t, d)
              \/ \E i \in DOMAIN p : ~p[i].legacy /\ (i = 1 => keep) /\ Says(p[i], "delta", t, d)
        /\ w[t] # 0 =>
              \/ \E i \in DOMAIN k : Says(k[i], "answer", t, w[t])
              \/ \E i \in DOMAIN p :
                    ~p[i].legacy /\ (i = 1 => keep) /\ Says(p[i], "answer", t, w[t])

\* Nothing runs, nothing is under way, and the page is empty.
AtRest ==
    /\ running = 0 /\ stopping = 0 /\ pipe = <<>> /\ wire = <<>>
    /\ page = FreshPage /\ post.pc = "none" /\ stop.pc = "none"
    /\ get.active = 0

\* KeptInv, before a step and after it.
LEMMA KeptIs ==
    /\ KeptInv <=>
          (Smooth =>
              /\ get.pc = "none" => AllKept(pipe, kept, stage \in {"take", "keep"}, said, whole)
              /\ get.pc \in {"asked", "read", "ready"} => AtRest
              /\ get.pc = "asked" => Whole(kept)
              /\ get.pc \in {"read", "ready"} => Whole(get.events))
    /\ KeptInv' <=>
          (Smooth' =>
              /\ get'.pc = "none" => AllKept(pipe', kept', stage' \in {"take", "keep"}, said', whole')
              /\ get'.pc \in {"asked", "read", "ready"} => AtRest'
              /\ get'.pc = "asked" => Whole(kept)'
              /\ get'.pc \in {"read", "ready"} => Whole(get.events)')
BY DEF KeptInv, AllKept, AtRest, ToKeep, Says, IsChunk, IsText

\* What is kept, or still to be, stays complete while nothing is trimmed.
LEMMA AllKeptStep ==
    ASSUME TypeOK, StageInv, EventInv, [Next]_vars, Smooth', get.pc = "none",
           AllKept(pipe, kept, stage \in {"take", "keep"}, said, whole)
    PROVE  AllKept(pipe', kept', stage' \in {"take", "keep"}, said', whole')
<1> DEFINE kp == stage \in {"take", "keep"}
           kq == stage' \in {"take", "keep"}
           Has1(k, t, d) == \/ \E i \in DOMAIN kept : Says(kept[i], k, t, d)
                            \/ \E i \in DOMAIN pipe :
                               ~pipe[i].legacy /\ (i = 1 => kp) /\ Says(pipe[i], k, t, d)
           Has2(k, t, d) == \/ \E i \in DOMAIN kept' : Says(kept'[i], k, t, d)
                            \/ \E i \in DOMAIN pipe' :
                               ~pipe'[i].legacy /\ (i = 1 => kq) /\ Says(pipe'[i], k, t, d)
           All2 == \A t \in Turns : /\ \A d \in 1 .. said'[t] : Has2("delta", t, d)
                                    /\ whole'[t] # 0 => Has2("answer", t, whole'[t])
<1>1. /\ pipe \in Seq(Events) /\ kept \in Seq(Events)
      /\ said \in [Turns -> 0 .. MaxChunks] /\ MaxChunks \in Nat
      /\ whole \in [Turns -> 0 .. MaxChunks]
  BY ThreadWorkspaceAssumption DEF TypeOK
<1>a. \A t \in Turns : /\ \A d \in 1 .. said[t] : Has1("delta", t, d)
                       /\ whole[t] # 0 => Has1("answer", t, whole[t])
  BY DEF AllKept
<1>2. SUFFICES All2
  BY DEF AllKept
<1>3. ASSUME NEW e \in Events, Emits(e) PROVE All2
  <2>1. /\ pipe' = Append(pipe, e) /\ kept' = kept /\ stage' = stage
        /\ IF e.kind = "delta"
             THEN e.chunk = said[e.turn] + 1 /\ said' = [said EXCEPT ![e.turn] = said[e.turn] + 1]
             ELSE said' = said
        /\ IF e.kind = "answer"
             THEN e.chunk = said[e.turn] /\ whole' = [whole EXCEPT ![e.turn] = said[e.turn]]
             ELSE whole' = whole
        /\ e.legacy => e.kind = "ended"
    BY <1>3 DEF Emits, hubVars
  <2>2. /\ \A i \in DOMAIN pipe : i \in DOMAIN pipe' /\ pipe'[i] = pipe[i]
        /\ Len(pipe) + 1 \in DOMAIN pipe' /\ pipe'[Len(pipe) + 1] = e
    BY <1>1, <2>1, AppendCases
  <2>3. ASSUME NEW k, NEW t, NEW d, Has1(k, t, d) PROVE Has2(k, t, d)
    BY <2>1, <2>2, <2>3
  <2>4. ASSUME NEW t \in Turns, NEW d \in 1 .. said'[t]
        PROVE  d \in 1 .. said[t] \/ (e.kind = "delta" /\ t = e.turn /\ d = e.chunk)
    <3>1. CASE said'[t] = said[t]
      BY <2>4, <3>1
    <3>2. CASE e.kind = "delta" /\ t = e.turn
      <4>1. said'[t] = said[t] + 1 /\ e.chunk = said[t] + 1 /\ said[t] \in Nat
        BY <1>1, <2>1, <2>4, <3>2
      <4> QED  BY <2>4, <3>2, <4>1
    <3> QED  BY <1>1, <2>1, <3>1, <3>2
  <2>6. ASSUME NEW t \in Turns
        PROVE  whole'[t] = whole[t] \/ (e.kind = "answer" /\ t = e.turn /\ whole'[t] = e.chunk)
    BY <1>1, <2>1
  <2>5. e.kind \in {"delta", "answer"} => Has2(e.kind, e.turn, e.chunk)
    <3> HAVE e.kind \in {"delta", "answer"}
    <3>1. ~e.legacy /\ Says(e, e.kind, e.turn, e.chunk)
      BY <2>1 DEF Says
    <3>2. Len(pipe) + 1 = 1 => kq
      <4>1. Len(pipe) + 1 = 1 => pipe = <<>>
        BY <1>1, EmptySeq, LenProperties
      <4>2. pipe = <<>> => stage = "take"
        BY DEF StageInv
      <4> QED  BY <2>1, <4>1, <4>2
    <3> HIDE DEF kq
    <3> QED  BY <2>2, <3>1, <3>2
  <2> HIDE DEF Has1, Has2
  <2>7. ASSUME NEW t \in Turns, NEW d \in 1 .. said'[t] PROVE Has2("delta", t, d)
    BY <1>a, <2>3, <2>4, <2>5
  <2>8. ASSUME NEW t \in Turns, whole'[t] # 0 PROVE Has2("answer", t, whole'[t])
    BY <1>a, <2>3, <2>5, <2>6, <2>8
  <2> QED  BY <2>7, <2>8
<1>4. ASSUME said' = said, whole' = whole, \A k, t, d : Has1(k, t, d) => Has2(k, t, d)
      PROVE  All2
  <2> HIDE DEF Has1, Has2
  <2> QED  BY <1>a, <1>4
<1>5. ASSUME NEW f \in Events, Sends(f)
      PROVE  said' = said /\ whole' = whole /\ \A k, t, d : Has1(k, t, d) => Has2(k, t, d)
  <2>1. /\ pipe # <<>> /\ said' = said /\ whole' = whole /\ kept' = kept /\ ~kp
        /\ pipe' = pipe \/ (kq /\ pipe' = Tail(pipe))
    BY <1>5 DEF Sends, agentVars
  <2>2. \A i \in DOMAIN pipe : i # 1 => i - 1 \in DOMAIN Tail(pipe) /\ Tail(pipe)[i - 1] = pipe[i]
    BY <1>1, <2>1, TailCases
  <2> HIDE DEF kp, kq
  <2> QED  BY <2>1, <2>2
<1>6. CASE KeepEvent
  <2>1. pipe' = pipe /\ said' = said /\ whole' = whole
    BY <1>6 DEF KeepEvent, agentVars
  <2>2. Len(kept) \in Nat /\ DOMAIN kept = 1 .. Len(kept)
    BY <1>6, KeepIs
  <2>3. PICK d \in Nat :
                /\ d <= Len(kept) /\ DOMAIN kept' = 1 .. Len(kept) + 1 - d
                /\ \A i \in DOMAIN kept' :
                      \/ i + d \in DOMAIN kept /\ kept'[i] = kept[i + d]
                      \/ i + d = Len(kept) + 1 /\ kept'[i] = pipe[1]
                /\ (d # 0 /\ get.pc \in {"none", "asked"}) => ~Smooth'
    BY <1>6, KeepIs
  <2>4. d = 0
    BY <2>3
  <2>5. /\ \A i \in DOMAIN kept : i \in DOMAIN kept' /\ kept'[i] = kept[i]
        /\ Len(kept) + 1 \in DOMAIN kept' /\ kept'[Len(kept) + 1] = pipe[1]
    BY <2>2, <2>3, <2>4
  <2> HIDE DEF kp, kq
  <2>6. \A k, t, n : Has1(k, t, n) => Has2(k, t, n)
    BY <2>1, <2>5
  <2> HIDE DEF Has1, Has2
  <2> QED  BY <1>4, <2>1, <2>6
<1>7. CASE MarkActive
  <2>1. /\ pipe # <<>> /\ pipe' = pipe /\ kept' = kept /\ said' = said /\ whole' = whole
        /\ stage' = IF Head(pipe).legacy THEN "legacy" ELSE "keep"
    BY <1>7 DEF MarkActive, agentVars
  <2>2. Head(pipe) = pipe[1]
    BY <1>1, <2>1, TailCases
  <2>3. ~pipe[1].legacy => kq
    BY <2>1, <2>2
  <2> HIDE DEF kp, kq
  <2>4. \A k, t, n : Has1(k, t, n) => Has2(k, t, n)
    BY <2>1, <2>3
  <2> HIDE DEF Has1, Has2
  <2> QED  BY <1>4, <2>1, <2>4
<1>8. CASE UNCHANGED <<pipe, kept, stage, said, whole>>
  <2>1. \A k, t, n : Has1(k, t, n) => Has2(k, t, n)
    BY <1>8
  <2> HIDE DEF Has1, Has2
  <2> QED  BY <1>4, <1>8, <2>1
<1> HIDE DEF Has1, Has2, All2
<1> QED
  BY <1>3, <1>4, <1>5, <1>6, <1>7, <1>8, StepKinds DEF Asks, Open, ReadEvents,
     ReadActive,
     LoadAnswered, LoadFailed, Connect, Break, HandleFrame, Submit, SubmitAnswered, SubmitRefused,
     InterruptAnswered, hubVars, agentVars

\* On a calm page nothing happens while it loads.
LEMMA LoadingStep ==
    ASSUME TypeOK, StageInv, ActiveInv, KeptInv, [Next]_vars, Smooth',
           get.pc \in {"asked", "read", "ready"}, get'.pc \in {"asked", "read", "ready"}
    PROVE  /\ AtRest' /\ UNCHANGED <<said, whole, kept>>
           /\ \/ get'.pc = get.pc /\ get'.events = get.events
              \/ get.pc = "asked" /\ get'.pc = "read" /\ get'.events = kept
              \/ get.pc = "read" /\ get'.pc = "ready" /\ get'.events = get.events
<1>1. AtRest
  BY PastStep, KeptIs
<1>2. /\ running = 0 /\ stopping = 0 /\ pipe = <<>> /\ wire = <<>>
      /\ page = FreshPage /\ post.pc = "none" /\ stop.pc = "none" /\ get.active = 0
      /\ page.active = 0 /\ active = 0
  <2>1. running = 0 /\ stopping = 0 /\ pipe = <<>> /\ wire = <<>>
        /\ page = FreshPage /\ post.pc = "none" /\ stop.pc = "none" /\ get.active = 0
    BY <1>1 DEF AtRest
  <2>2. DOMAIN pipe = {}
    BY <2>1
  <2>3. active \in {0, running}
    BY <2>2 DEF ActiveInv, ToMark
  <2> QED  BY <2>1, <2>3 DEF FreshPage
<1>3. /\ UNCHANGED <<said, whole, kept, running, stopping, pipe, page, post>> /\ wire' = <<>>
      /\ stop'.pc = "none"
      /\ \/ get' = get
         \/ ReadEvents
         \/ ReadActive
  <2>1. ASSUME NEW e \in Events, Emits(e) PROVE FALSE
    BY <2>1 DEF Emits
  <2>2. ASSUME NEW f \in Events, Sends(f) PROVE FALSE
    BY <1>2, <2>2 DEF Sends
  <2>3. ~MarkActive
    BY <1>2 DEF MarkActive
  <2>4. ~KeepEvent
    BY <1>2 DEF KeepEvent, StageInv
  <2>5. ~Open /\ ~LoadAnswered /\ ~LoadFailed
    BY DEF Open, LoadAnswered, LoadFailed, NoGet
  <2>6. ~HandleFrame /\ ~SubmitAnswered /\ ~SubmitRefused /\ ~InterruptAnswered
    BY <1>2 DEF HandleFrame, SubmitAnswered, SubmitRefused, InterruptAnswered
  <2>7. ASSUME Submit PROVE FALSE
    <3> DEFINE what == IF get.pc # "done" THEN {"crossed"}
                       ELSE IF pipe # <<>> \/ wire # <<>> \/ running # 0 THEN {"early"} ELSE {}
    <3>1. past' = Noted(what) /\ what \in SUBSET Disturbances /\ "crossed" \in what
      BY <2>7 DEF Submit, Disturbances
    <3>2. what \subseteq {"early", "cut"}
      <4> HIDE DEF what
      <4> QED  BY <3>1, NotedCalm
    <3> QED  BY <3>1, <3>2
  <2>8. CASE Asks
    BY <1>2, <2>8 DEF Asks, agentVars, hubVars, netVars, NoRequest
  <2>9. CASE ReadEvents
    BY <1>2, <2>9 DEF ReadEvents, agentVars, hubVars, netVars
  <2>10. CASE ReadActive
    BY <1>2, <2>10 DEF ReadActive, agentVars, hubVars, netVars
  <2>11. CASE Connect
    BY <1>2, <2>11 DEF Connect, agentVars, hubVars
  <2>12. CASE Break
    BY <1>2, <2>12 DEF Break, agentVars, hubVars
  <2> QED
    BY <2>1, <2>2, <2>3, <2>4, <2>5, <2>6, <2>7, <2>8, <2>9, <2>10, <2>11, <2>12,
       StepKinds
<1>4. /\ get'.active = 0
      /\ \/ get'.pc = get.pc /\ get'.events = get.events
         \/ get.pc = "asked" /\ get'.pc = "read" /\ get'.events = kept
         \/ get.pc = "read" /\ get'.pc = "ready" /\ get'.events = get.events
  BY <1>2, <1>3 DEF ReadEvents, ReadActive, TypeOK
<1> QED  BY <1>2, <1>3, <1>4 DEF AtRest

\* A page that opens between turns finds everything kept and nothing under way.
LEMMA OpenIs ==
    ASSUME TypeOK, StageInv, KeptInv, Open, Smooth'
    PROVE  AtRest' /\ Whole(kept)' /\ get'.pc = "asked"
<1> DEFINE what == IF running # 0 \/ pipe # <<>> \/ stopping # 0 THEN {"crossed"} ELSE {}
<1>1. past' = Noted(what) /\ what \in SUBSET Disturbances
  BY DEF Open, Disturbances
<1>2. what \subseteq {"early", "cut"} /\ past' = past \cup what
  <2> HIDE DEF what
  <2> QED  BY <1>1, NotedCalm
<1>3. running = 0 /\ pipe = <<>> /\ stopping = 0
  BY <1>2
<1>4. Smooth
  BY <1>2 DEF Smooth
<1>5. /\ get = NoGet /\ page = FreshPage /\ post.pc = "none" /\ stop.pc = "none" /\ wire = <<>>
      /\ get.pc = "none"
  BY DEF Open, StageInv, TypeOK
<1>6. /\ get' = [get EXCEPT !.pc = "asked"]
      /\ UNCHANGED <<running, stopping, pipe, wire, page, post, stop, said, whole, kept>>
  BY DEF Open, agentVars, hubVars
<1>7. AllKept(pipe, kept, stage \in {"take", "keep"}, said, whole)
  BY <1>4, <1>5, KeptIs
<1>8. DOMAIN pipe = {}
  BY <1>3
<1>9. Whole(kept)
  BY <1>7, <1>8 DEF AllKept, Whole, Says, IsChunk, IsText
<1>10. get'.pc = "asked" /\ get'.active = 0
  BY <1>5, <1>6 DEF NoGet
<1> QED  BY <1>3, <1>5, <1>6, <1>9, <1>10 DEF AtRest, Whole, IsChunk, IsText

\* Every step preserves KeptInv.
LEMMA KeptStep ==
    ASSUME TypeOK, StageInv, EventInv, ActiveInv, KeptInv, [Next]_vars
    PROVE  KeptInv'
<1> SUFFICES ASSUME Smooth'
             PROVE  /\ get'.pc = "none" => AllKept(pipe', kept', stage' \in {"take", "keep"}, said', whole')
                    /\ get'.pc \in {"asked", "read", "ready"} => AtRest'
                    /\ get'.pc = "asked" => Whole(kept)'
                    /\ get'.pc \in {"read", "ready"} => Whole(get.events)'
  BY KeptIs
<1>1. /\ get.pc = "none" => AllKept(pipe, kept, stage \in {"take", "keep"}, said, whole)
      /\ get.pc = "asked" => Whole(kept)
      /\ get.pc \in {"read", "ready"} => Whole(get.events)
  BY PastStep, KeptIs
<1>2. /\ get'.pc = "none" => get.pc = "none"
      /\ get'.pc \in {"asked", "read", "ready"} => get.pc \in {"asked", "read", "ready"} \/ Open
  <2>1. \/ get' = get \/ Open
        \/ ReadEvents \/ ReadActive
        \/ get'.pc = "done"
    BY StepKinds DEF Emits, Sends, Asks, MarkActive, KeepEvent, LoadAnswered,
       LoadFailed, Connect,
       Break, HandleFrame, Submit, SubmitAnswered, SubmitRefused, InterruptAnswered, NoGet
  <2> QED  BY <2>1 DEF ReadEvents, ReadActive, Open, TypeOK
<1>3. get'.pc = "none" => AllKept(pipe', kept', stage' \in {"take", "keep"}, said', whole')
  BY <1>1, <1>2, AllKeptStep
<1>4. CASE Open
  BY <1>3, <1>4, OpenIs
<1>5. CASE get.pc \in {"asked", "read", "ready"} /\ get'.pc \in {"asked", "read", "ready"}
  BY <1>1, <1>5, LoadingStep DEF Whole, IsChunk, IsText
<1> QED  BY <1>2, <1>3, <1>4, <1>5

-----------------------------------------------------------------------------
(* What is to come to a calm page.                                         *)

\* An event is to come, for any queues; send tells whether the first of p is to be sent.
IsComing(e, w, p, send) ==
    \/ \E i \in DOMAIN w : ~w[i].legacy /\ w[i] = e
    \/ \E i \in DOMAIN p : ~p[i].legacy /\ (i = 1 => send) /\ p[i] = e

\* Coming, before a step and after it.
LEMMA ComingIs ==
    /\ \A e : e \in Coming <=> IsComing(e, wire, pipe, stage # "legacy")
    /\ \A e : e \in Coming' <=> IsComing(e, wire', pipe', stage' # "legacy")
BY DEF Coming, Sent, ToSend, IsComing

\* What is to come are sound events of the timeline.
LEMMA ComingAre ==
    ASSUME TypeOK, EventInv
    PROVE  \A e \in Coming : e \in Events /\ ~e.legacy /\ Fits(e, begun, said, whole, first)
BY EventsAre DEF Coming, Sent, ToSend

\* What a step does to what is to come, if the page loses no frame.
Comes ==
    \/ \E e \in Events : Emits(e) /\ (e.legacy => Coming' = Coming)
                         /\ (~e.legacy => Coming' = Coming \cup {e})
    \/ /\ HandleFrame /\ wire # <<>> /\ ~wire[1].legacy
       /\ wire[1] \in Coming /\ Coming = Coming' \cup {wire[1]}
    \/ HandleFrame /\ wire # <<>> /\ wire[1].legacy /\ Coming' = Coming
    \/ /\ Coming' = Coming /\ UNCHANGED <<running, stopping, said, whole, first>>
       /\ ~HandleFrame

\* Every step does to what is to come one of the things Comes says.
LEMMA ComingStep ==
    ASSUME TypeOK, StageInv, [Next]_vars, sock # "closed", "missed" \notin past'
    PROVE  Comes
<1> DEFINE sp == stage # "legacy"
           sq == stage' # "legacy"
           In(e) == IsComing(e, wire, pipe, sp)
           Out(e) == IsComing(e, wire', pipe', sq)
<1>1. pipe \in Seq(Events) /\ wire \in Seq(Events)
  BY DEF TypeOK
<1>2. (\A e : Out(e) <=> In(e)) => Coming' = Coming
  <2> HAVE \A e : Out(e) <=> In(e)
  <2>1. \A e : e \in Coming' <=> e \in Coming
    BY ComingIs
  <2> QED  BY <2>1
<1>3. ASSUME NEW e \in Events, Emits(e) PROVE Comes
  <2>1. pipe' = Append(pipe, e) /\ wire' = wire /\ stage' = stage
    BY <1>3 DEF Emits, netVars, hubVars
  <2>2. /\ \A i \in DOMAIN pipe' : \/ i \in DOMAIN pipe /\ pipe'[i] = pipe[i]
                                   \/ i \notin DOMAIN pipe /\ i = Len(pipe) + 1 /\ pipe'[i] = e
        /\ \A i \in DOMAIN pipe : i \in DOMAIN pipe' /\ pipe'[i] = pipe[i]
        /\ Len(pipe) + 1 \in DOMAIN pipe' /\ pipe'[Len(pipe) + 1] = e
    BY <1>1, <2>1, AppendCases
  <2>3. Len(pipe) + 1 = 1 => sp
    <3>1. Len(pipe) + 1 = 1 => pipe = <<>>
      BY <1>1, EmptySeq, LenProperties
    <3>2. pipe = <<>> => stage = "take"
      BY DEF StageInv
    <3> QED  BY <3>1, <3>2
  <2>4. \A x : Out(x) <=> In(x) \/ (~e.legacy /\ x = e)
    <3> SUFFICES ASSUME NEW x PROVE Out(x) <=> In(x) \/ (~e.legacy /\ x = e)
      OBVIOUS
    <3>1. ASSUME Out(x) PROVE In(x) \/ (~e.legacy /\ x = e)
      BY <2>1, <2>2, <3>1 DEF IsComing
    <3>2. ASSUME In(x) PROVE Out(x)
      BY <2>1, <2>2, <3>2 DEF IsComing
    <3>3. ASSUME ~e.legacy, x = e PROVE Out(x)
      BY <2>1, <2>2, <2>3, <3>3 DEF IsComing
    <3> QED  BY <3>1, <3>2, <3>3
  <2>5. \A x : x \in Coming' <=> x \in Coming \/ (~e.legacy /\ x = e)
    BY <2>4, ComingIs
  <2>6. (e.legacy => Coming' = Coming) /\ (~e.legacy => Coming' = Coming \cup {e})
    BY <2>5
  <2> QED  BY <1>3, <2>6 DEF Comes
<1>4. ASSUME NEW f \in Events, Sends(f)
      PROVE  Coming' = Coming /\ UNCHANGED <<running, stopping, said, whole, first>> /\ ~HandleFrame
  <2>1. /\ pipe # <<>> /\ wire' = Append(wire, f)
        /\ UNCHANGED <<running, stopping, said, whole, first>>
        /\ \/ f = pipe[1] /\ ~f.legacy /\ sp /\ pipe' = pipe /\ ~sq
           \/ f = pipe[1] /\ ~f.legacy /\ sp /\ pipe' = Tail(pipe) /\ sq
           \/ f.legacy /\ ~sp /\ pipe' = Tail(pipe) /\ sq
    BY <1>4 DEF Sends, agentVars, TypeOK
  <2>2. PICK s : s = Tail(pipe)
    OBVIOUS
  <2>3. /\ 1 \in DOMAIN pipe
        /\ \A i \in DOMAIN s : i + 1 \in DOMAIN pipe /\ s[i] = pipe[i + 1] /\ 1 < i + 1
        /\ \A i \in DOMAIN pipe : i # 1 => i - 1 \in DOMAIN s /\ s[i - 1] = pipe[i]
    BY <1>1, <2>1, <2>2, TailCases
  <2>4. /\ \A i \in DOMAIN wire' : \/ i \in DOMAIN wire /\ wire'[i] = wire[i]
                                   \/ wire'[i] = f
        /\ \A i \in DOMAIN wire : i \in DOMAIN wire' /\ wire'[i] = wire[i]
        /\ Len(wire) + 1 \in DOMAIN wire' /\ wire'[Len(wire) + 1] = f
    BY <1>1, <2>1, AppendCases
  <2>5. ASSUME NEW x PROVE Out(x) <=> In(x)
    <3>1. ASSUME Out(x) PROVE In(x)
      <4>1. ASSUME NEW i \in DOMAIN wire', ~wire'[i].legacy, wire'[i] = x PROVE In(x)
        BY <2>1, <2>3, <2>4, <4>1 DEF IsComing
      <4>2. ASSUME NEW i \in DOMAIN pipe', ~pipe'[i].legacy, i = 1 => sq, pipe'[i] = x PROVE In(x)
        <5>1. CASE pipe' = pipe /\ ~sq
          BY <4>2, <5>1 DEF IsComing
        <5>2. CASE pipe' = s
          <6>1. i + 1 \in DOMAIN pipe /\ pipe[i + 1] = x /\ ~pipe[i + 1].legacy /\ i + 1 # 1
            BY <2>3, <4>2, <5>2
          <6> QED  BY <6>1 DEF IsComing
        <5> QED  BY <2>1, <2>2, <5>1, <5>2
      <4> QED  BY <3>1, <4>1, <4>2 DEF IsComing
    <3>2. ASSUME In(x) PROVE Out(x)
      <4>1. ASSUME NEW i \in DOMAIN wire, ~wire[i].legacy, wire[i] = x PROVE Out(x)
        BY <2>4, <4>1 DEF IsComing
      <4>2. ASSUME NEW i \in DOMAIN pipe, ~pipe[i].legacy, i = 1 => sp, pipe[i] = x PROVE Out(x)
        <5>1. CASE i = 1
          BY <2>1, <2>4, <4>2, <5>1 DEF IsComing
        <5>2. CASE i # 1 /\ pipe' = pipe
          BY <4>2, <5>2 DEF IsComing
        <5>3. CASE i # 1 /\ pipe' = s /\ sq
          BY <2>3, <4>2, <5>3 DEF IsComing
        <5> QED  BY <2>1, <2>2, <5>1, <5>2, <5>3
      <4> QED  BY <3>2, <4>1, <4>2 DEF IsComing
    <3> QED  BY <3>1, <3>2
  <2>6. ~HandleFrame
    <3> SUFFICES ASSUME HandleFrame PROVE FALSE
      OBVIOUS
    <3>1. wire' = Tail(wire) /\ wire # <<>>
      BY DEF HandleFrame
    <3>2. Len(Tail(wire)) = Len(wire) - 1 /\ Len(Append(wire, f)) = Len(wire) + 1 /\ Len(wire) \in Nat
      BY <1>1, <3>1, Shortened, Appended
    <3> QED  BY <2>1, <3>1, <3>2
  <2> HIDE DEF In, Out
  <2> QED  BY <1>2, <2>1, <2>5, <2>6
<1>5. CASE HandleFrame
  <2>1. wire # <<>> /\ wire' = Tail(wire) /\ pipe' = pipe /\ stage' = stage
    BY <1>5 DEF HandleFrame, hubVars
  <2>2. PICK s : s = Tail(wire)
    OBVIOUS
  <2>3. /\ 1 \in DOMAIN wire
        /\ \A i \in DOMAIN s : i + 1 \in DOMAIN wire /\ s[i] = wire[i + 1]
        /\ \A i \in DOMAIN wire : i # 1 => i - 1 \in DOMAIN s /\ s[i - 1] = wire[i]
    BY <1>1, <2>1, <2>2, TailCases
  <2>4. \A x : In(x) <=> Out(x) \/ (~wire[1].legacy /\ x = wire[1])
    <3> SUFFICES ASSUME NEW x PROVE In(x) <=> Out(x) \/ (~wire[1].legacy /\ x = wire[1])
      OBVIOUS
    <3>1. ASSUME Out(x) PROVE In(x)
      BY <2>1, <2>2, <2>3, <3>1 DEF IsComing
    <3>2. ASSUME In(x) PROVE Out(x) \/ (~wire[1].legacy /\ x = wire[1])
      <4>1. ASSUME NEW i \in DOMAIN wire, ~wire[i].legacy, wire[i] = x
            PROVE  Out(x) \/ (~wire[1].legacy /\ x = wire[1])
        <5>1. CASE i = 1
          BY <4>1, <5>1
        <5>2. CASE i # 1
          BY <2>1, <2>2, <2>3, <4>1, <5>2 DEF IsComing
        <5> QED  BY <5>1, <5>2
      <4>2. ASSUME NEW i \in DOMAIN pipe, ~pipe[i].legacy, i = 1 => sp, pipe[i] = x PROVE Out(x)
        BY <2>1, <4>2 DEF IsComing
      <4> QED  BY <3>2, <4>1, <4>2 DEF IsComing
    <3>3. ASSUME ~wire[1].legacy, x = wire[1] PROVE In(x)
      BY <2>3, <3>3 DEF IsComing
    <3> QED  BY <3>1, <3>2, <3>3
  <2>5. \A x : x \in Coming <=> x \in Coming' \/ (~wire[1].legacy /\ x = wire[1])
    BY <2>4, ComingIs
  <2>6. /\ wire[1].legacy => Coming' = Coming
        /\ ~wire[1].legacy => wire[1] \in Coming /\ Coming = Coming' \cup {wire[1]}
    BY <2>5
  <2> QED  BY <1>5, <2>1, <2>6 DEF Comes
<1>6. ASSUME ~HandleFrame, UNCHANGED <<running, stopping, said, whole, first, pipe, wire>>,
             pipe # <<>> /\ ~pipe[1].legacy => (sq <=> sp)
      PROVE  Comes
  <2>1. \A i \in DOMAIN pipe : i = 1 => pipe # <<>>
    OBVIOUS
  <2>2. \A x : Out(x) <=> In(x)
    BY <1>6, <2>1 DEF IsComing
  <2> HIDE DEF In, Out
  <2> QED  BY <1>2, <1>6, <2>2 DEF Comes
<1>7. ASSUME MarkActive
      PROVE  /\ UNCHANGED <<running, stopping, said, whole, first, pipe, wire>>
             /\ pipe # <<>> /\ ~pipe[1].legacy => (sq <=> sp)
  <2>1. /\ pipe # <<>> /\ stage = "take" /\ UNCHANGED <<running, stopping, said, whole, first, pipe, wire>>
        /\ stage' = IF Head(pipe).legacy THEN "legacy" ELSE "keep"
    BY <1>7 DEF MarkActive, agentVars, netVars
  <2>2. Head(pipe) = pipe[1]
    BY <1>1, <2>1, TailCases
  <2> QED  BY <2>1, <2>2
<1>8. ASSUME Break PROVE UNCHANGED <<running, stopping, said, whole, first, pipe, wire, stage>>
  <2> DEFINE what == IF wire # <<>> THEN {"missed"} ELSE {}
  <2>1. past' = Noted(what) /\ what \in SUBSET Disturbances
    BY <1>8 DEF Break, Disturbances
  <2>2. "missed" \notin what
    <3> HIDE DEF what
    <3> QED  BY <2>1, NotedCalm
  <2> QED  BY <1>8, <2>2 DEF Break, agentVars, hubVars
<1>9. KeepEvent => UNCHANGED <<running, stopping, said, whole, first, pipe, wire>> /\ (sq <=> sp)
  BY DEF KeepEvent, agentVars, netVars
<1>10. \/ \E e \in Events : Emits(e)
       \/ \E f \in Events : Sends(f)
       \/ HandleFrame \/ MarkActive \/ KeepEvent \/ Break
       \/ UNCHANGED <<running, stopping, said, whole, first, pipe, wire, stage>>
  BY StepKinds DEF Asks, Open, ReadEvents, ReadActive, LoadAnswered, LoadFailed,
     Connect,
     Submit, SubmitAnswered, SubmitRefused, InterruptAnswered, hubVars, netVars, agentVars
<1>11. UNCHANGED <<running, stopping, said, whole, first, pipe, wire, stage>> => 
          UNCHANGED <<running, stopping, said, whole, first, pipe, wire>> /\ (sq <=> sp)
  OBVIOUS
<1>12. UNCHANGED <<running, stopping, said, whole, first, pipe, wire>> /\ (pipe # <<>> /\ ~pipe[1].legacy => (sq <=> sp))
         => Comes
  BY <1>5, <1>6
<1> HIDE DEF sp, sq
<1>13. (\E f \in Events : Sends(f)) => Comes
  BY <1>4 DEF Comes
<1> QED  BY <1>3, <1>5, <1>7, <1>8, <1>9, <1>10, <1>11, <1>12, <1>13

\* What the page makes of a frame.
LEMMA FrameHandled ==
    ASSUME TypeOK, EventInv, AwaitedInv, HandleFrame
    PROVE  /\ wire # <<>> /\ wire[1] \in Events
           /\ ~wire[1].legacy => Handled(page, page', wire[1])
           /\ wire[1].legacy => Keeps(page, page', wire[1])
           /\ wire[1].legacy /\ wire[1].turn \in page.timeline => page' = page
<1> DEFINE e == wire[1]
<1>1. page \in Pages /\ Single(page)
  BY PageOKIs DEF PageOK
<1>2. /\ wire # <<>> /\ Head(wire) = e /\ e \in Events /\ Chunked(e)
      /\ (e.legacy => e.kind \in LegacyKinds)
  BY FrameIs DEF HandleFrame
<1>3. page' = IF e.legacy THEN HandleLegacy(page, e) ELSE HandleTimeline(page, e)
  BY <1>2 DEF HandleFrame
<1> HIDE DEF e
<1>4. e.legacy => Keeps(page, page', e) /\ (e.turn \in page.timeline => page' = page)
  BY <1>1, <1>2, <1>3, HandleLegacyKeeps
<1>5. ~e.legacy => Handled(page, page', e)
  BY <1>1, <1>2, <1>3, HandleTimelineIs
<1> QED  BY <1>2, <1>4, <1>5 DEF e

\* What the page does of its own.
Own ==
    \/ page' = page
    \/ Submit
    \/ SubmitAnswered /\ post.turn \in Turns
    \/ SubmitRefused
    \/ InterruptAnswered /\ page' = [page EXCEPT !.active = 0]

\* The calm page handles the frames of the timeline in their order, and the others
\* leave it as it is.
Calm ==
    \/ \E e \in Events : /\ Emits(e) /\ page' = page
                         /\ e.legacy => Coming' = Coming
                         /\ ~e.legacy => Coming' = Coming \cup {e}
    \/ \E e \in Coming : /\ HandleFrame /\ e = wire[1] /\ e \in Events /\ Coming = Coming' \cup {e}
                         /\ \A f \in Coming' : Before(e, f)
                         /\ Handled(page, page', e) /\ UNCHANGED <<running, said, whole, first, post, stop>>
    \/ Coming' = Coming /\ UNCHANGED <<running, said, whole, first>> /\ Own

\* Every step of a calm page is as Calm says.
LEMMA CalmStep ==
    ASSUME TypeOK, StageInv, EventInv, AwaitedInv, OrderInv, FrameInv, [Next]_vars, Smooth',
           get.pc = "done"
    PROVE  Calm
<1>1. Smooth /\ "missed" \notin past' /\ sock # "closed"
  BY PastStep DEF Smooth, StageInv
<1>2. Comes
  BY <1>1, ComingStep
<1>3. CASE \E e \in Events : Emits(e) /\ (e.legacy => Coming' = Coming)
                             /\ (~e.legacy => Coming' = Coming \cup {e})
  <2>1. \A e : Emits(e) => page' = page
    BY DEF Emits
  <2> QED  BY <1>3, <2>1 DEF Calm
<1>4. CASE /\ HandleFrame /\ wire # <<>> /\ ~wire[1].legacy
           /\ wire[1] \in Coming /\ Coming = Coming' \cup {wire[1]}
  <2>1. wire[1] \in Events /\ Handled(page, page', wire[1])
    BY <1>4, FrameHandled
  <2>2. /\ Ordered(wire)
        /\ \A i \in Sent, j \in ToSend : Before(wire[i], pipe[j])
    BY <1>1 DEF OrderInv
  <2>3. wire' = Tail(wire) /\ pipe' = pipe /\ stage' = stage /\ UNCHANGED <<running, said, whole, first, post, stop>>
    BY <1>4 DEF HandleFrame, hubVars, agentVars
  <2>4. PICK s : s = Tail(wire)
    OBVIOUS
  <2>5. /\ \A i \in DOMAIN s : ~wire[1].legacy /\ ~s[i].legacy => Before(wire[1], s[i])
        /\ 1 \in DOMAIN wire
    <3>1. wire \in Seq(Events) /\ wire # <<>> /\ Ordered(wire)
      BY <1>4, <2>2 DEF TypeOK
    <3>2. \A i \in DOMAIN s : ~wire[1].legacy /\ ~s[i].legacy => Before(wire[1], s[i])
      BY <2>4, <3>1, OrderedTail
    <3>3. 1 \in DOMAIN wire
      BY <3>1, TailCases
    <3> QED  BY <3>2, <3>3
  <2>6. \A j \in ToSend : Before(wire[1], pipe[j])
    BY <1>4, <2>2, <2>5 DEF Sent
  <2>7. ASSUME NEW f \in Coming' PROVE Before(wire[1], f)
    <3>1. IsComing(f, wire', pipe', stage' # "legacy")
      BY ComingIs
    <3>2. CASE \E i \in DOMAIN s : ~s[i].legacy /\ s[i] = f
      BY <1>4, <2>5, <3>2
    <3>3. CASE \E i \in DOMAIN pipe : ~pipe[i].legacy /\ (i = 1 => stage # "legacy") /\ pipe[i] = f
      BY <2>6, <3>3 DEF ToSend
    <3> QED  BY <2>3, <2>4, <3>1, <3>2, <3>3 DEF IsComing
  <2> QED  BY <1>4, <2>1, <2>3, <2>7 DEF Calm
<1>5. CASE HandleFrame /\ wire # <<>> /\ wire[1].legacy /\ Coming' = Coming
  <2>1. wire[1].turn \in Turns /\ 1 \in DOMAIN wire /\ \A j \in DOMAIN wire : ~(j < 1) /\ (j # 1 => 1 < j)
    BY <1>5, FrameIs, TailCases DEF TypeOK
  <2>2. Told(wire[1].turn) \/ Silent(wire[1].turn)
    BY <1>1, <2>1 DEF FrameInv
  <2>3. ~Silent(wire[1].turn)
    BY <2>1 DEF Silent
  <2>4. wire[1].turn \in page.timeline
    BY <1>5, <2>1, <2>2, <2>3 DEF Told, Sent
  <2>5. page' = page /\ UNCHANGED <<running, said, whole, first>>
    BY <1>5, <2>4, FrameHandled DEF HandleFrame, agentVars
  <2> QED  BY <1>5, <2>5 DEF Calm, Own
<1>6. CASE Coming' = Coming /\ UNCHANGED <<running, stopping, said, whole, first>> /\ ~HandleFrame
  <2>1. ~LoadAnswered
    BY DEF LoadAnswered
  <2> QED  BY <1>6, <2>1, PageChanges DEF Calm, Changes, Own
<1> QED  BY <1>2, <1>3, <1>4, <1>5, <1>6 DEF Comes

\* A calm page loads at rest.
LEMMA LoadIs ==
    ASSUME TypeOK, StageInv, EventInv, AwaitedInv, KeptInv, [Next]_vars, Smooth',
           get.pc # "done", get'.pc = "done"
    PROVE  /\ AtRest /\ Whole(get.events)
           /\ page'.messages = History(get.events)
           /\ page'.active = 0 /\ page'.timeline = {} /\ page'.over = {} /\ page'.waiting = 0
           /\ UNCHANGED <<running, stopping, said, whole, first, pipe, wire>> /\ Coming' = {}
<1>1. \/ get' = get
      \/ Open \/ ReadEvents \/ ReadActive \/ LoadAnswered \/ LoadFailed
  BY StepKinds DEF Emits, Sends, Asks, MarkActive, KeepEvent, Connect,
       Break, HandleFrame, Submit, SubmitAnswered, SubmitRefused, InterruptAnswered
<1>2. ~LoadFailed
  <2> SUFFICES ASSUME LoadFailed PROVE FALSE
    OBVIOUS
  <2>1. past' = Noted({"missed"}) /\ {"missed"} \in SUBSET Disturbances
    BY DEF LoadFailed, Disturbances
  <2>2. {"missed"} \subseteq {"early", "cut"}
    BY <2>1, NotedCalm
  <2> QED  BY <2>2
<1>3. LoadAnswered
  BY <1>1, <1>2 DEF Open, ReadEvents, ReadActive, TypeOK
<1>4. get.pc = "ready" /\ page' = Loaded(page) /\ UNCHANGED <<running, stopping, said, whole, first, pipe, wire>>
  BY <1>3 DEF LoadAnswered, agentVars, netVars
<1>5. AtRest /\ Whole(get.events)
  BY <1>4, PastStep, KeptIs
<1>6. /\ page = FreshPage /\ get.active = 0 /\ pipe = <<>> /\ wire = <<>>
      /\ page.messages = <<>> /\ page.active = 0 /\ page.timeline = {} /\ page.over = {}
      /\ page.waiting = 0
  BY <1>5 DEF AtRest, FreshPage
<1>7. /\ page'.over = page.over /\ page'.timeline = page.timeline /\ page'.waiting = page.waiting
      /\ page'.active = Else(page.active, get.active)
      /\ page'.messages = IF page.messages = <<>> THEN History(get.events) ELSE page.messages
  BY <1>4, LoadedIs
<1>8. Coming' = {}
  <2>1. DOMAIN pipe' = {} /\ DOMAIN wire' = {}
    BY <1>4, <1>6
  <2>2. \A e : ~IsComing(e, wire', pipe', stage' # "legacy")
    BY <2>1 DEF IsComing
  <2> QED  BY <2>2, ComingIs
<1> QED  BY <1>4, <1>5, <1>6, <1>7, <1>8 DEF Else

-----------------------------------------------------------------------------
(* What is to come to the calm page.                                       *)

\* FrameInv but for Told and Silent, of any frames to come and any page.
FrameOK(coming, timeline, over, run) ==
    /\ \A e \in coming :
          /\ \A t \in timeline : t <= e.turn
          /\ e.turn = run \/ \E f \in coming : f.kind = "ended" /\ f.turn = e.turn
    /\ \A t \in timeline \ over : t = run \/ \E f \in coming : f.kind = "ended" /\ f.turn = t
    /\ run # 0 =>
          \/ run \in timeline
          \/ \E e \in coming : e.kind = "started" /\ e.turn = run

\* FrameInv, before a step and after it.
LEMMA FrameInvIs ==
    /\ FrameInv <=>
          (Smooth /\ get.pc = "done" =>
              /\ \A t \in Turns : Told(t) \/ Silent(t)
              /\ FrameOK(Coming, page.timeline, page.over, running))
    /\ FrameInv' <=>
          (Smooth' /\ get'.pc = "done" =>
              /\ \A t \in Turns : Told(t)' \/ Silent(t)'
              /\ FrameOK(Coming', page'.timeline, page'.over, running'))
BY DEF FrameInv, FrameOK

\* A turn nothing is to come of stays so, or begins and is told of by its timeline.
LEMMA SilentStep ==
    ASSUME TypeOK, StageInv, EventInv, [Next]_vars, Smooth', NEW t \in Turns, Silent(t)
    PROVE  Told(t)' \/ Silent(t)'
<1>1. /\ pipe \in Seq(Events) /\ wire \in Seq(Events)
      /\ running # t /\ stopping # t /\ t # 0
      /\ \A i \in DOMAIN pipe : pipe[i].turn # t
      /\ \A i \in DOMAIN wire : wire[i].turn # t
  BY ThreadWorkspaceAssumption DEF Silent, TypeOK, Turns
<1>2. ASSUME NEW e \in Events, Emits(e) PROVE Told(t)' \/ Silent(t)'
  <2>1. pipe' = Append(pipe, e) /\ wire' = wire /\ stage' = stage
    BY <1>2 DEF Emits, netVars, hubVars
  <2>2. CASE e.turn = t
    <3>1. ~e.legacy
      BY <1>1, <1>2, <2>2 DEF Emits
    <3>2. pipe = <<>> => stage # "legacy"
      BY DEF StageInv
    <3>3. FirstIn(pipe', t, stage' # "legacy")
      BY <1>1, <2>1, <2>2, <3>1, <3>2, FirstAppended
    <3>4. Hears(t, page'.timeline, wire', pipe', stage' # "legacy")
      BY <1>1, <2>1, <3>3 DEF Hears
    <3> QED  BY <3>4, ToldIs
  <2>3. CASE e.turn # t
    <3>1. \A i \in DOMAIN pipe' : pipe'[i].turn # t
      BY <1>1, <2>1, <2>3, FirstAppended
    <3>2. running' # t /\ stopping' # t
      BY <1>1, <1>2, <2>3 DEF Emits
    <3> QED  BY <1>1, <2>1, <3>1, <3>2 DEF Silent
  <2> QED  BY <2>2, <2>3
<1>3. ASSUME NEW f \in Events, Sends(f) PROVE Silent(t)'
  <2>1. /\ pipe # <<>> /\ f.turn = pipe[1].turn /\ UNCHANGED <<running, stopping>>
        /\ wire' = Append(wire, f) \/ wire' = wire
        /\ pipe' = pipe \/ pipe' = Tail(pipe)
    BY <1>3 DEF Sends, agentVars
  <2>2. 1 \in DOMAIN pipe /\ \A i \in DOMAIN Tail(pipe) : i + 1 \in DOMAIN pipe /\ Tail(pipe)[i] = pipe[i + 1]
    BY <1>1, <2>1, Shortened
  <2>3. \A i \in DOMAIN pipe' : pipe'[i].turn # t
    BY <1>1, <2>1, <2>2
  <2>4. \A i \in DOMAIN wire' : wire'[i].turn # t
    BY <1>1, <2>1, <2>2, FirstAppended
  <2> QED  BY <1>1, <2>1, <2>3, <2>4 DEF Silent
<1>4. CASE HandleFrame
  <2>1. wire # <<>> /\ wire' = Tail(wire) /\ pipe' = pipe /\ UNCHANGED <<running, stopping>>
    BY <1>4 DEF HandleFrame, agentVars
  <2>2. \A i \in DOMAIN wire' : i + 1 \in DOMAIN wire /\ wire'[i] = wire[i + 1]
    BY <1>1, <2>1, Shortened
  <2> QED  BY <1>1, <2>1, <2>2 DEF Silent
<1>5. CASE UNCHANGED <<running, stopping, pipe>> /\ wire' \in {wire, <<>>}
  <2>1. DOMAIN <<>> = {}
    OBVIOUS
  <2> QED  BY <1>1, <1>5, <2>1 DEF Silent
<1> QED
  BY <1>2, <1>3, <1>4, <1>5, StepKinds DEF Asks, MarkActive, KeepEvent, Open,
     ReadEvents, ReadActive,
     LoadAnswered, LoadFailed, Connect, Break, Submit, SubmitAnswered, SubmitRefused,
     InterruptAnswered, netVars, agentVars

\* Every turn is told of by its timeline first, or nothing of it is to come.
LEMMA HeardStep ==
    ASSUME TypeOK, StageInv, EventInv, AwaitedInv, [Next]_vars, Smooth', get.pc = "done",
           NEW t \in Turns, Told(t) \/ Silent(t)
    PROVE  Told(t)' \/ Silent(t)'
<1>1. sock # "closed" /\ "missed" \notin past'
  BY DEF StageInv, Smooth
<1> QED  BY <1>1, ToldStep, SilentStep

\* The page's turns do not change when it sends a prompt or hears of its own.
LEMMA SameTurns ==
    ASSUME TypeOK, AwaitedInv, Own
    PROVE  page'.timeline = page.timeline /\ page'.over = page.over
<1>1. page \in Pages /\ Single(page) /\ page.waiting \in {0, submits}
  BY PageOKIs DEF PageOK
<1>2. CASE Submit
  BY <1>1, <1>2 DEF Submit, Submitted, Pages
<1>3. CASE SubmitAnswered /\ post.turn \in Turns
  <2>1. page' = Accepted(page, post.turn)
    BY <1>3 DEF SubmitAnswered
  <2> QED  BY <1>1, <1>3, <2>1, AcceptedIs
<1>4. CASE SubmitRefused
  <2>1. page' = Rejected(page)
    BY <1>4 DEF SubmitRefused
  <2> QED  BY <1>1, <2>1, RejectedIs
<1>5. CASE InterruptAnswered /\ page' = [page EXCEPT !.active = 0]
  BY <1>1, <1>5 DEF Pages
<1> QED  BY <1>2, <1>3, <1>4, <1>5 DEF Own

\* Every step preserves FrameInv.
LEMMA FrameStep ==
    ASSUME TypeOK, StageInv, EventInv, AwaitedInv, OrderInv, KeptInv, FrameInv, [Next]_vars
    PROVE  FrameInv'
<1> SUFFICES ASSUME Smooth', get'.pc = "done"
             PROVE  /\ \A t \in Turns : Told(t)' \/ Silent(t)'
                    /\ FrameOK(Coming', page'.timeline, page'.over, running')
  BY FrameInvIs
<1>1. CASE get.pc # "done"
  <2>1. /\ AtRest /\ page'.timeline = {} /\ Coming' = {}
        /\ UNCHANGED <<running, stopping, pipe, wire>>
    BY <1>1, LoadIs
  <2>2. running = 0 /\ stopping = 0 /\ pipe = <<>> /\ wire = <<>>
    BY <2>1 DEF AtRest
  <2>3. DOMAIN pipe = {} /\ DOMAIN wire = {}
    BY <2>2
  <2>4. \A t \in Turns : t # 0
    BY DEF Turns
  <2>5. \A t \in Turns : Silent(t)'
    BY <2>1, <2>2, <2>3, <2>4 DEF Silent
  <2> QED  BY <2>1, <2>2, <2>5 DEF FrameOK
<1>2. CASE get.pc = "done"
  <2>1. /\ \A t \in Turns : Told(t) \/ Silent(t)
        /\ FrameOK(Coming, page.timeline, page.over, running)
    BY <1>2, PastStep, FrameInvIs
  <2>2. \A t \in Turns : Told(t)' \/ Silent(t)'
    BY <1>2, <2>1, HeardStep
  <2>3. /\ \A e \in Coming :
             /\ \A t \in page.timeline : t <= e.turn
             /\ e.turn = running \/ \E f \in Coming : f.kind = "ended" /\ f.turn = e.turn
        /\ \A t \in page.timeline \ page.over :
             t = running \/ \E f \in Coming : f.kind = "ended" /\ f.turn = t
        /\ running # 0 =>
             \/ running \in page.timeline
             \/ \E e \in Coming : e.kind = "started" /\ e.turn = running
    BY <2>1 DEF FrameOK
  <2>4. /\ begun \in Nat /\ running \in {0, begun} /\ page.timeline \subseteq 1 .. begun
        /\ \A e \in Coming : e \in Events /\ e.turn # 0 /\ e.turn \in Nat
    <3>1. begun \in 0 .. MaxTurns /\ MaxTurns \in Nat
      BY ThreadWorkspaceAssumption DEF TypeOK
    <3> QED  BY <3>1, ComingAre DEF StageInv, AwaitedInv, Events, Turns
  <2>5. ASSUME NEW e \in Events, Emits(e), page' = page, e.legacy => Coming' = Coming,
               ~e.legacy => Coming' = Coming \cup {e}
        PROVE  FrameOK(Coming', page'.timeline, page'.over, running')
    <3>1. CASE e.legacy
      <4>1. running' = running
        BY <2>5, <3>1 DEF Emits
      <4> QED  BY <2>1, <2>5, <3>1, <4>1
    <3>2. CASE ~e.legacy
      <4>1. /\ e.kind = "started" => running = 0 /\ e.turn = begun + 1 /\ running' = e.turn
            /\ e.kind # "started" => e.turn = running
            /\ e.kind \notin {"started", "ended"} => running' = running
            /\ e.kind = "ended" => running' = 0
        BY <2>5, <3>2 DEF Emits
      <4>2. \A t \in page.timeline : t <= e.turn /\ t # 0
        <5>1. e.turn # 0
          BY ThreadWorkspaceAssumption DEF Events, Turns
        <5>2. e.turn \in {begun, begun + 1}
          BY <2>4, <4>1, <5>1
        <5>3. \A t \in page.timeline : t \in 1 .. begun
          BY <2>4
        <5> QED  BY <2>4, <5>2, <5>3
      <4>3. \A t : t # 0 /\ t = running => t = running' \/ (e.kind = "ended" /\ e.turn = t)
        BY <4>1
      <4>4. e.turn = running' \/ e.kind = "ended"
        BY <4>1
      <4>5. Coming' = Coming \cup {e}
        BY <2>5, <3>2
      <4>6. ASSUME NEW f \in Coming'
            PROVE  /\ \A t \in page.timeline : t <= f.turn
                   /\ f.turn = running' \/ \E g \in Coming' : g.kind = "ended" /\ g.turn = f.turn
        BY <2>3, <2>4, <4>2, <4>3, <4>4, <4>5
      <4>7. ASSUME NEW t \in page.timeline \ page.over
            PROVE  t = running' \/ \E g \in Coming' : g.kind = "ended" /\ g.turn = t
        BY <2>3, <4>2, <4>3, <4>5
      <4>8. running' # 0 => \/ running' \in page.timeline
                            \/ \E g \in Coming' : g.kind = "started" /\ g.turn = running'
        BY <2>3, <4>1, <4>5
      <4> QED  BY <2>5, <4>6, <4>7, <4>8 DEF FrameOK
    <3> QED  BY <3>1, <3>2
  <2>6. ASSUME NEW e \in Coming, HandleFrame, e \in Events, Coming = Coming' \cup {e},
               \A f \in Coming' : Before(e, f), Handled(page, page', e),
               UNCHANGED running
        PROVE  FrameOK(Coming', page'.timeline, page'.over, running')
    <3>1. /\ page'.timeline = page.timeline \cup {e.turn}
          /\ page'.over = IF e.kind = "ended" THEN page.over \cup {e.turn} ELSE page.over \ {e.turn}
      BY <2>6 DEF Handled
    <3>2. /\ \A f \in Coming' : f \in Coming /\ e.turn <= f.turn
          /\ \A f \in Coming' : f.turn = e.turn => e.kind # "ended"
      BY <2>6 DEF Before
    <3>3. ASSUME NEW f \in Coming'
          PROVE  /\ \A t \in page'.timeline : t <= f.turn
                 /\ f.turn = running \/ \E g \in Coming' : g.kind = "ended" /\ g.turn = f.turn
      BY <2>3, <2>6, <3>1, <3>2
    <3>4. ASSUME NEW t \in page'.timeline \ page'.over
          PROVE  t = running \/ \E g \in Coming' : g.kind = "ended" /\ g.turn = t
      <4>1. CASE t = e.turn
        <5>1. e.kind # "ended"
          BY <3>1, <3>4, <4>1
        <5> QED  BY <2>3, <2>6, <4>1, <5>1
      <4>2. CASE t # e.turn
        <5>1. t \in page.timeline \ page.over
          BY <3>1, <3>4, <4>2
        <5> QED  BY <2>3, <2>6, <4>2, <5>1
      <4> QED  BY <4>1, <4>2
    <3>5. running # 0 => \/ running \in page'.timeline
                         \/ \E g \in Coming' : g.kind = "started" /\ g.turn = running
      BY <2>3, <2>6, <3>1
    <3> QED  BY <2>6, <3>3, <3>4, <3>5 DEF FrameOK
  <2>7. CASE Coming' = Coming /\ UNCHANGED <<running, said, whole, first>> /\ Own
    <3>1. page'.timeline = page.timeline /\ page'.over = page.over
      BY <2>7, SameTurns
    <3>2. Coming' = Coming /\ running' = running
      BY <2>7
    <3> QED  BY <2>1, <2>2, <3>1, <3>2
  <2>8. Calm
    BY <1>2, CalmStep
  <2> QED  BY <2>2, <2>5, <2>6, <2>7, <2>8 DEF Calm
<1> QED  BY <1>1, <1>2

-----------------------------------------------------------------------------
(* The calm page's active turn.                                            *)

\* A turn the page has yet to hear of has an event to come.
LEMMA ToldComing ==
    ASSUME NEW t, Told(t), t \notin page.timeline
    PROVE  \E e \in Coming : e.turn = t
BY DEF Told, Coming

\* The end of the running turn is not to come yet.
LEMMA NoneEnded ==
    ASSUME OrderInv, Smooth
    PROVE  \A e \in Coming : e.turn = running => e.kind # "ended"
BY DEF OrderInv, Coming, Sent, ToSend, Past

\* PageActiveInv, of any frames to come and any page.
ActiveShown(coming, current, timeline, run) ==
    /\ run # 0 =>
          \/ current = run /\ run \in timeline
          \/ \E e \in coming : e.kind = "started" /\ e.turn = run
    /\ current \in {0, run}
          \/ \E e \in coming : e.kind = "ended" /\ e.turn = current

\* PageActiveInv, before a step and after it.
LEMMA PageActiveIs ==
    /\ PageActiveInv <=>
          (past \subseteq {"early"} /\ get.pc = "done" =>
              ActiveShown(Coming, page.active, page.timeline, running))
    /\ PageActiveInv' <=>
          (past' \subseteq {"early"} /\ get'.pc = "done" =>
              ActiveShown(Coming', page'.active, page'.timeline, running'))
BY DEF PageActiveInv, ActiveShown

\* The answer to an interrupt that cut nothing short.
LEMMA CutIs ==
    ASSUME TypeOK, InterruptAnswered, past' \subseteq {"early"}
    PROVE  stop.pc = "ok" /\ page.active \in {0, stop.turn}
<1> DEFINE what == IF page.active \notin {0, stop.turn} THEN {"cut"} ELSE {}
<1>1. past' = Noted(what) /\ what \in SUBSET Disturbances /\ Smooth'
  BY DEF InterruptAnswered, Disturbances, Smooth
<1>2. past' = past \cup what
  <2> HIDE DEF what
  <2> QED  BY <1>1, NotedCalm
<1>3. what = {}
  BY <1>2
<1> QED  BY <1>3 DEF InterruptAnswered

\* Every step preserves PageActiveInv.
LEMMA PageActiveStep ==
    ASSUME TypeOK, StageInv, EventInv, AwaitedInv, PendingInv, OrderInv, KeptInv, FrameInv,
           PageActiveInv, [Next]_vars
    PROVE  PageActiveInv'
<1> DEFINE Goal == ActiveShown(Coming', page'.active, page'.timeline, running')
<1> SUFFICES ASSUME past' \subseteq {"early"}, get'.pc = "done" PROVE Goal
  BY PageActiveIs
<1>1. Smooth' /\ Smooth /\ past \subseteq {"early"} /\ "missed" \notin past
  <2>1. Smooth'
    BY DEF Smooth
  <2> QED  BY <2>1, PastStep
<1>2. CASE get.pc # "done"
  <2>1. /\ AtRest /\ page'.active = 0 /\ UNCHANGED running
    BY <1>1, <1>2, LoadIs
  <2> QED  BY <2>1 DEF AtRest, ActiveShown
<1>3. CASE get.pc = "done"
  <2>1. /\ running # 0 =>
             \/ page.active = running /\ running \in page.timeline
             \/ \E e \in Coming : e.kind = "started" /\ e.turn = running
        /\ page.active \in {0, running}
             \/ \E e \in Coming : e.kind = "ended" /\ e.turn = page.active
    BY <1>1, <1>3, PageActiveIs DEF ActiveShown
  <2>2. /\ \A e \in Coming :
             /\ \A t \in page.timeline : t <= e.turn
             /\ e.turn = running \/ \E f \in Coming : f.kind = "ended" /\ f.turn = e.turn
        /\ \A t \in page.timeline \ page.over :
             t = running \/ \E f \in Coming : f.kind = "ended" /\ f.turn = t
    BY <1>1, <1>3, FrameInvIs DEF FrameOK
  <2>3. \A e \in Coming : e.turn = running => e.kind # "ended"
    BY <1>1, NoneEnded
  <2>4. /\ begun \in Nat /\ running \in {0, begun} /\ running \in Nat
        /\ \A e \in Coming : e \in Events /\ e.turn # 0 /\ e.turn \in Nat /\ e.turn <= begun
    <3>1. begun \in 0 .. MaxTurns /\ MaxTurns \in Nat
      BY ThreadWorkspaceAssumption DEF TypeOK
    <3>2. running \in {0, begun} /\ running \in 0 .. begun
      BY DEF TypeOK, StageInv
    <3> QED  BY <3>1, <3>2, ComingAre DEF Fits, Events, Turns
  <2>5. ASSUME NEW e \in Events, Emits(e), page' = page, e.legacy => Coming' = Coming,
               ~e.legacy => Coming' = Coming \cup {e}
        PROVE  Goal
    <3>1. CASE e.legacy
      <4>1. running' = running
        BY <2>5, <3>1 DEF Emits
      <4> QED  BY <2>1, <2>5, <3>1, <4>1 DEF ActiveShown
    <3>2. CASE ~e.legacy /\ e.kind = "started"
      <4>1. running = 0 /\ running' = e.turn /\ Coming' = Coming \cup {e}
        BY <2>5, <3>2 DEF Emits
      <4> QED  BY <2>1, <2>5, <3>2, <4>1 DEF ActiveShown
    <3>3. CASE ~e.legacy /\ e.kind = "ended"
      <4>1. e.turn = running /\ running' = 0 /\ Coming' = Coming \cup {e}
        BY <2>5, <3>3 DEF Emits
      <4> QED  BY <2>1, <2>5, <3>3, <4>1 DEF ActiveShown
    <3>4. CASE ~e.legacy /\ e.kind \notin {"started", "ended"}
      <4>1. running' = running /\ Coming' = Coming \cup {e}
        BY <2>5, <3>4 DEF Emits
      <4> QED  BY <2>1, <2>5, <4>1 DEF ActiveShown
    <3> QED  BY <3>1, <3>2, <3>3, <3>4
  <2>6. ASSUME NEW e \in Coming, e \in Events, Coming = Coming' \cup {e},
               Handled(page, page', e), UNCHANGED running
        PROVE  Goal
    <3>1. /\ page'.timeline = page.timeline \cup {e.turn}
          /\ e.kind = "ended" => page'.active = IF page.active = e.turn THEN 0 ELSE page.active
          /\ e.kind = "started" => page'.active = e.turn
          /\ e.kind \notin {"started", "ended"} =>
                page'.active = IF page.active = 0 THEN e.turn ELSE page.active
      BY <2>6 DEF Handled, Unless, Else
    <3>2. ASSUME running # 0
          PROVE  \/ page'.active = running /\ running \in page'.timeline
                 \/ \E f \in Coming' : f.kind = "started" /\ f.turn = running
      <4>1. CASE page.active = running /\ running \in page.timeline
        <5>1. e.kind = "started" => e.turn = running
          <6>1. running <= e.turn /\ e.turn <= begun /\ running = begun
            BY <2>2, <2>4, <3>2, <4>1
          <6> QED  BY <2>4, <6>1
        <5>2. e.kind = "ended" => page.active # e.turn
          BY <2>3, <4>1
        <5> QED  BY <3>1, <3>2, <4>1, <5>1, <5>2
      <4>2. CASE \E f \in Coming : f.kind = "started" /\ f.turn = running
        BY <2>6, <3>1, <4>2
      <4> QED  BY <2>1, <3>2, <4>1, <4>2
    <3>3. page'.active \in {0, running}
             \/ \E f \in Coming' : f.kind = "ended" /\ f.turn = page'.active
      <4>1. CASE e.kind = "ended"
        BY <2>1, <2>6, <3>1, <4>1
      <4>2. CASE e.kind # "ended" /\ page'.active = e.turn
        BY <2>2, <2>6, <4>2
      <4>3. CASE e.kind # "ended" /\ page'.active = page.active
        BY <2>1, <2>6, <4>3
      <4> QED  BY <3>1, <4>1, <4>2, <4>3
    <3> QED  BY <2>6, <3>2, <3>3 DEF ActiveShown
  <2>7. ASSUME Coming' = Coming, running' = running, Own PROVE Goal
    <3>1. page'.timeline = page.timeline
      BY <2>7, SameTurns
    <3>2. page \in Pages /\ Single(page) /\ page.waiting \in {0, submits}
      BY PageOKIs DEF PageOK
    <3>3. CASE page'.active = page.active
      BY <2>1, <2>7, <3>1, <3>3 DEF ActiveShown
    <3>4. Submit => page'.active = page.active
      BY <3>2 DEF Submit, Submitted, Pages
    <3>5. ASSUME SubmitAnswered, post.turn \in Turns PROVE Goal
      <4>1. /\ page' = Accepted(page, post.turn)
            /\ Told(post.turn)
        BY <1>1, <3>5 DEF SubmitAnswered, PendingInv
      <4>2. page'.active = IF post.turn \in page.over THEN page.active ELSE Else(page.active, post.turn)
        BY <3>2, <3>5, <4>1, AcceptedIs
      <4>3. CASE page.active = 0 /\ post.turn \notin page.over
        <5>1. page'.active = post.turn
          BY <4>2, <4>3 DEF Else
        <5>2. post.turn = running \/ \E f \in Coming : f.kind = "ended" /\ f.turn = post.turn
          <6>1. CASE post.turn \in page.timeline
            BY <2>2, <4>3, <6>1
          <6>2. CASE post.turn \notin page.timeline
            <7>1. PICK f \in Coming : f.turn = post.turn
              BY <4>1, <6>2, ToldComing
            <7> QED  BY <2>2, <7>1
          <6> QED  BY <6>1, <6>2
        <5>3. running # 0 => \E f \in Coming : f.kind = "started" /\ f.turn = running
          BY <2>1, <4>3
        <5> QED  BY <2>7, <5>1, <5>2, <5>3 DEF ActiveShown
      <4>4. CASE page'.active = page.active
        BY <3>3, <4>4
      <4> QED  BY <4>2, <4>3, <4>4 DEF Else
    <3>6. SubmitRefused => page'.active = page.active
      <4> HAVE SubmitRefused
      <4>1. page' = Rejected(page)
        BY DEF SubmitRefused
      <4> QED  BY <3>2, <4>1, RejectedIs
    <3>7. ASSUME InterruptAnswered, page' = [page EXCEPT !.active = 0] PROVE Goal
      <4>1. stop.pc = "ok" /\ page.active \in {0, stop.turn}
        BY <3>7, CutIs
      <4>2. stop.turn # running
        BY <4>1 DEF StageInv
      <4>3. page'.active = 0
        BY <3>2, <3>7 DEF Pages
      <4>4. running # 0 => \E f \in Coming : f.kind = "started" /\ f.turn = running
        BY <2>1, <4>1, <4>2
      <4> QED  BY <2>7, <4>3, <4>4 DEF ActiveShown
    <3> HIDE DEF Goal
    <3> QED  BY <2>7, <3>3, <3>4, <3>5, <3>6, <3>7 DEF Own
  <2>8. Calm
    BY <1>1, <1>3, CalmStep
  <2> HIDE DEF Goal
  <2> QED  BY <2>5, <2>6, <2>7, <2>8 DEF Calm
<1> QED  BY <1>2, <1>3

-----------------------------------------------------------------------------
(* The calm page's text.                                                   *)

\* The page shows the chunks of the turn that are not to come, from the beginning of the
\* last complete message on unless the text of that message is to come.
ShowsRest(coming, messages, t, c, w, a) ==
    \E k \in 0 .. c : \E b \in 0 .. k :
        /\ Shows(messages, t, b, k)
        /\ \A d \in 1 .. c : d > k <=> \E e \in coming : Says(e, "delta", t, d)
        /\ \A e \in coming : e.kind = "answer" /\ e.turn = t => k <= e.chunk
        /\ \/ \E e \in coming : Says(e, "answer", t, w)
           \/ b = a /\ \A e \in coming : ~(e.kind = "answer" /\ e.turn = t)

\* What is to come and the turn that runs have no message yet.
Unseen(coming, messages, run) ==
    \A t \in Turns : (t = run \/ \E e \in coming : e.turn = t) => Mine(messages, t) = {}

\* TextInv, before a step and after it.
LEMMA TextIs ==
    /\ TextInv <=>
          (past \subseteq {"cut"} /\ get.pc = "done" =>
              /\ \A t \in Turns : ShowsRest(Coming, page.messages, t, said[t], whole[t], first[t])
              /\ page.waiting # 0 => Unseen(Coming, page.messages, running))
    /\ TextInv' <=>
          (past' \subseteq {"cut"} /\ get'.pc = "done" =>
              /\ \A t \in Turns :
                    ShowsRest(Coming', page'.messages, t, said'[t], whole'[t], first'[t])
              /\ page'.waiting # 0 => Unseen(Coming', page'.messages, running'))
BY DEF TextInv, ShowsRest, Unseen, Says, IsChunk, IsText

\* The chunks and texts of a turn are counted.
LEMMA CountsAre ==
    ASSUME TypeOK, NEW t \in Turns
    PROVE  /\ said[t] \in Nat /\ whole[t] \in Nat /\ first[t] \in Nat /\ MaxChunks \in Nat
           /\ said[t] \in 0 .. MaxChunks /\ whole[t] \in 0 .. said[t] /\ first[t] \in 0 .. whole[t]
           /\ whole[t] = 0 => first[t] = 0
           /\ first[t] \in 0 .. said[t]
<1>1. /\ said[t] \in 0 .. MaxChunks /\ whole[t] \in 0 .. MaxChunks /\ first[t] \in 0 .. MaxChunks
      /\ MaxChunks \in Nat /\ first[t] <= whole[t] /\ whole[t] <= said[t]
  BY ThreadWorkspaceAssumption DEF TypeOK
<1> QED  BY <1>1

\* The page that loads shows all that was said since the last complete message began.
LEMMA TextLoaded ==
    ASSUME TypeOK, EventInv, OrderInv, Smooth, Whole(get.events), NEW t \in Turns
    PROVE  ShowsRest({}, History(get.events), t, said[t], whole[t], first[t])
<1> DEFINE events == get.events
<1>1. /\ events \in Seq(Events) /\ Ordered(events) /\ Len(events) \in Nat
      /\ DOMAIN events = 1 .. Len(events)
      /\ \A i \in DOMAIN events : events[i] \in Events /\ Fits(events[i], begun, said, whole, first)
                                  /\ ~events[i].legacy
      /\ \A d \in 1 .. said[t] : \E i \in DOMAIN events : IsChunk(events[i], t, d)
      /\ whole[t] # 0 => \E i \in DOMAIN events :
             events[i].kind = "answer" /\ events[i].turn = t /\ events[i].chunk = whole[t]
  <2>1. events \in Seq(Events) /\ Ordered(events)
    BY EventsAre DEF OrderInv
  <2>2. Len(events) \in Nat /\ DOMAIN events = 1 .. Len(events)
    <3> HIDE DEF events
    <3> QED  BY <2>1, LenProperties
  <2>3. \A d \in 1 .. said[t] : \E i \in DOMAIN events : IsChunk(events[i], t, d)
    BY DEF Whole
  <2>4. whole[t] # 0 => \E i \in DOMAIN events :
            events[i].kind = "answer" /\ events[i].turn = t /\ events[i].chunk = whole[t]
    BY DEF Whole, IsText
  <2> QED  BY <2>1, <2>2, <2>3, <2>4, EventsAre
<1>2. /\ said[t] \in 0 .. MaxChunks /\ whole[t] \in 0 .. said[t] /\ first[t] \in 0 .. whole[t]
      /\ whole[t] = 0 => first[t] = 0
      /\ said[t] \in Nat /\ whole[t] \in Nat /\ first[t] \in 0 .. said[t]
  BY CountsAre
<1>3. \A i \in 1 .. Len(events) : Chunked(events[i]) /\ ~events[i].legacy
  <2> SUFFICES ASSUME NEW i \in 1 .. Len(events) PROVE Chunked(events[i]) /\ ~events[i].legacy
    OBVIOUS
  <2>1. events[i] \in Events /\ Fits(events[i], begun, said, whole, first) /\ ~events[i].legacy
    BY <1>1
  <2>2. /\ events[i].turn \in Turns /\ events[i].chunk \in 0 .. MaxChunks
        /\ events[i].after \in 0 .. MaxChunks
    BY <2>1 DEF Events
  <2>3. /\ said[events[i].turn] \in Nat /\ whole[events[i].turn] \in Nat /\ MaxChunks \in Nat
    BY <2>2, CountsAre
  <2> HIDE DEF events
  <2> QED  BY <2>1, <2>2, <2>3 DEF Fits, Chunked
<1>4. \A i \in 1 .. Len(events) : events[i].turn = t =>
               /\ events[i].kind = "delta" => events[i].chunk \in 1 .. said[t]
               /\ events[i].kind = "answer" => /\ events[i].chunk \in 1 .. whole[t]
                                               /\ events[i].chunk = whole[t] => events[i].after = first[t]
  <2> SUFFICES ASSUME NEW i \in 1 .. Len(events), events[i].turn = t
               PROVE  /\ events[i].kind = "delta" => events[i].chunk \in 1 .. said[t]
                      /\ events[i].kind = "answer" =>
                            /\ events[i].chunk \in 1 .. whole[t]
                            /\ events[i].chunk = whole[t] => events[i].after = first[t]
    OBVIOUS
  <2>1. events[i] \in Events /\ Fits(events[i], begun, said, whole, first)
    BY <1>1
  <2>2. events[i].chunk \in 0 .. MaxChunks /\ events[i].after \in 0 .. MaxChunks /\ MaxChunks \in Nat
    BY <2>1, ThreadWorkspaceAssumption DEF Events
  <2> HIDE DEF events
  <2> QED  BY <1>2, <2>1, <2>2 DEF Fits
<1> HIDE DEF events
<1>5. Shows(History(events), t, first[t], said[t])
  <2>1. PICK c \in 0 .. MaxChunks : c = said[t]
    BY <1>2
  <2>2. PICK w \in 0 .. c : w = whole[t]
    BY <1>2, <2>1
  <2>3. PICK a \in 0 .. w : a = first[t]
    BY <1>2, <2>2
  <2>4. /\ w = 0 => a = 0
        /\ \A i \in 1 .. Len(events) : events[i].turn = t =>
               /\ events[i].kind = "delta" => events[i].chunk \in 1 .. c
               /\ events[i].kind = "answer" => /\ events[i].chunk \in 1 .. w
                                               /\ events[i].chunk = w => events[i].after = a
        /\ \A d \in 1 .. c : \E i \in DOMAIN events : IsChunk(events[i], t, d)
        /\ w # 0 => \E i \in DOMAIN events :
               events[i].kind = "answer" /\ events[i].turn = t /\ events[i].chunk = w
    BY <1>1, <1>2, <1>4, <2>1, <2>2, <2>3
  <2>5. Shows(History(events), t, a, c)
    BY <1>1, <1>3, <2>4, HistoryShows
  <2> QED  BY <2>1, <2>3, <2>5
<1>6. \A d \in 1 .. said[t] : ~(d > said[t])
  BY <1>2
<1>7. said[t] \in 0 .. said[t]
  BY <1>2
<1> QED  BY <1>2, <1>5, <1>6, <1>7 DEF ShowsRest, events

\* A frame of the timeline shows the next chunk, or the text that ends with the last.
LEMMA TextHandled ==
    ASSUME TypeOK, EventInv, NEW e \in Coming, NEW coming, Coming = coming \cup {e},
           \A f \in coming : Before(e, f), NEW r, Handled(page, r, e),
           page.waiting # 0 => Unseen(Coming, page.messages, running),
           NEW t \in Turns, ShowsRest(Coming, page.messages, t, said[t], whole[t], first[t])
    PROVE  ShowsRest(coming, r.messages, t, said[t], whole[t], first[t])
<1>1. PICK k \in 0 .. said[t] : \E b \in 0 .. k :
         /\ Shows(page.messages, t, b, k)
         /\ \A d \in 1 .. said[t] : d > k <=> \E f \in Coming : Says(f, "delta", t, d)
         /\ \A f \in Coming : f.kind = "answer" /\ f.turn = t => k <= f.chunk
         /\ \/ \E f \in Coming : Says(f, "answer", t, whole[t])
            \/ b = first[t] /\ \A f \in Coming : ~(f.kind = "answer" /\ f.turn = t)
  BY DEF ShowsRest
<1>a. PICK b \in 0 .. k :
         /\ Shows(page.messages, t, b, k)
         /\ \A d \in 1 .. said[t] : d > k <=> \E f \in Coming : Says(f, "delta", t, d)
         /\ \A f \in Coming : f.kind = "answer" /\ f.turn = t => k <= f.chunk
         /\ \/ \E f \in Coming : Says(f, "answer", t, whole[t])
            \/ b = first[t] /\ \A f \in Coming : ~(f.kind = "answer" /\ f.turn = t)
  BY <1>1
<1>2. said[t] \in 0 .. MaxChunks /\ MaxChunks \in Nat /\ said[t] \in Nat /\ k \in Nat /\ k <= said[t]
      /\ k \in 0 .. MaxChunks /\ whole[t] \in Nat /\ whole[t] <= said[t] /\ b \in Nat /\ b <= k
  <2>1. said[t] \in 0 .. MaxChunks /\ MaxChunks \in Nat /\ said[t] \in Nat /\ whole[t] \in 0 .. said[t]
    BY CountsAre
  <2> QED  BY <2>1
<1>3. /\ e \in Events /\ e.turn \in Turns /\ Fits(e, begun, said, whole, first)
      /\ e.chunk \in Nat /\ e.after \in Nat
      /\ \A f \in Coming : f \in Events /\ Fits(f, begun, said, whole, first) /\ f.chunk \in Nat
  <2>1. \A f \in Coming : f \in Events /\ Fits(f, begun, said, whole, first)
    BY ComingAre
  <2>2. \A f \in Events : f.turn \in Turns /\ f.chunk \in Nat /\ f.after \in Nat
    BY ThreadWorkspaceAssumption DEF Events
  <2> QED  BY <2>1, <2>2
<1>4. \A f \in coming :
          e.turn = f.turn /\ e.kind \in {"delta", "answer"} /\ f.kind \in {"delta", "answer"} =>
              e.chunk < f.chunk \/ (e.chunk = f.chunk /\ e.kind = "delta" /\ f.kind = "answer")
  BY DEF Before, Spoken
<1>5. ASSUME t = e.turn, e.kind = "delta" PROVE e.chunk = k + 1 /\ e.chunk \in 1 .. said[t]
  <2>1. e.chunk \in 1 .. said[t] /\ Says(e, "delta", t, e.chunk)
    BY <1>3, <1>5 DEF Fits, Says
  <2>2. e.chunk > k
    BY <1>a, <2>1
  <2>3. k + 1 \in 1 .. said[t] /\ k + 1 > k
    BY <1>2, <2>1, <2>2
  <2>4. PICK f \in Coming : Says(f, "delta", t, k + 1)
    BY <1>a, <2>3
  <2>5. f # e => e.chunk < k + 1
    BY <1>4, <1>5, <2>4 DEF Says
  <2>6. f = e => e.chunk = k + 1
    BY <2>4 DEF Says
  <2>7. ~(e.chunk < k + 1)
    BY <1>2, <2>1, <2>2
  <2> QED  BY <2>1, <2>5, <2>6, <2>7
<1>6. ASSUME t = e.turn, e.kind = "answer" PROVE e.chunk = k /\ e.after < e.chunk
  <2>1. e.after < e.chunk /\ e.chunk <= whole[t] /\ k <= e.chunk
    BY <1>3, <1>6, <1>a DEF Fits
  <2> SUFFICES ASSUME e.chunk # k PROVE FALSE
    BY <2>1
  <2>2. e.chunk \in 1 .. said[t] /\ e.chunk > k
    BY <1>2, <1>3, <2>1
  <2>3. PICK f \in Coming : Says(f, "delta", t, e.chunk)
    BY <1>a, <2>2
  <2>4. f.kind = "delta" /\ f.turn = t /\ f.chunk = e.chunk /\ f # e
    BY <1>6, <2>3 DEF Says
  <2>5. e.chunk < f.chunk
    BY <1>4, <1>6, <2>4
  <2> QED  BY <1>3, <2>4, <2>5
<1>7. t = e.turn /\ page.waiting # 0 => Mine(page.messages, t) = {}
  BY DEF Unseen
<1>8. Shows(r.messages, t, Base(e, t, b), Grown(e, t, k))
  BY <1>a, <1>2, <1>5, <1>6, <1>7 DEF Handled
<1>9. CASE t = e.turn /\ e.kind = "delta"
  <2>1. /\ Grown(e, t, k) = k + 1 /\ e.chunk = k + 1 /\ k + 1 \in 0 .. said[t]
        /\ Base(e, t, b) = b /\ b \in 0 .. k + 1
    BY <1>2, <1>5, <1>9 DEF Grown, Base
  <2>2. ASSUME NEW d \in 1 .. said[t] PROVE d > k + 1 <=> \E f \in coming : Says(f, "delta", t, d)
    <3>1. ASSUME d > k + 1 PROVE \E f \in coming : Says(f, "delta", t, d)
      <4>1. d > k /\ d # k + 1
        BY <1>2, <2>2, <3>1
      <4>2. PICK f \in Coming : Says(f, "delta", t, d)
        BY <1>a, <2>2, <4>1
      <4>3. f # e
        BY <2>1, <4>1, <4>2 DEF Says
      <4> QED  BY <4>2, <4>3
    <3>2. ASSUME NEW f \in coming, Says(f, "delta", t, d) PROVE d > k + 1
      <4>1. k + 1 < d
        BY <1>4, <1>9, <2>1, <3>2 DEF Says
      <4> QED  BY <1>2, <2>2, <4>1
    <3> QED  BY <3>1, <3>2
  <2>3. Shows(r.messages, t, b, k + 1)
    BY <1>8, <2>1
  <2>4. ASSUME NEW f \in coming, f.kind = "answer", f.turn = t PROVE k + 1 <= f.chunk
    <3>1. e.chunk < f.chunk \/ e.chunk = f.chunk
      BY <1>4, <1>9, <2>4
    <3>2. f.chunk \in Nat
      BY <1>3, <2>4
    <3> QED  BY <1>2, <2>1, <3>1, <3>2
  <2>5. \A f : ~(e.kind = "answer" /\ f = e)
    BY <1>9
  <2>6. \/ \E f \in coming : Says(f, "answer", t, whole[t])
        \/ b = first[t] /\ \A f \in coming : ~(f.kind = "answer" /\ f.turn = t)
    <3>1. ~Says(e, "answer", t, whole[t])
      BY <1>9 DEF Says
    <3> QED  BY <1>a, <3>1
  <2> QED  BY <2>1, <2>2, <2>3, <2>4, <2>6 DEF ShowsRest
<1>10. CASE ~(t = e.turn /\ e.kind = "delta")
  <2>1. Grown(e, t, k) = k
    BY <1>10 DEF Grown
  <2>2. \A d : ~Says(e, "delta", t, d)
    BY <1>10 DEF Says
  <2>3. \A d : (\E f \in Coming : Says(f, "delta", t, d)) <=> (\E f \in coming : Says(f, "delta", t, d))
    BY <2>2
  <2>4. \A d \in 1 .. said[t] : d > k <=> \E f \in coming : Says(f, "delta", t, d)
    BY <1>a, <2>3
  <2>5. \A f \in coming : f.kind = "answer" /\ f.turn = t => k <= f.chunk
    BY <1>a
  <2>6. CASE t = e.turn /\ e.kind = "answer"
    <3>1. Shows(r.messages, t, e.after, k) /\ e.after \in 0 .. k
      BY <1>2, <1>3, <1>6, <1>8, <2>1, <2>6 DEF Base
    <3>2. CASE e.chunk = whole[t]
      <4>1. e.after = first[t]
        BY <1>3, <2>6, <3>2 DEF Fits
      <4>2. ASSUME NEW f \in coming, f.kind = "answer", f.turn = t PROVE FALSE
        <5>1. f.chunk <= whole[t] /\ f.chunk \in Nat
          BY <1>3, <4>2 DEF Fits
        <5>2. e.chunk < f.chunk
          BY <1>4, <2>6, <4>2
        <5> QED  BY <1>2, <3>2, <5>1, <5>2
      <4> QED  BY <2>4, <2>5, <3>1, <4>1, <4>2 DEF ShowsRest
    <3>3. CASE e.chunk # whole[t]
      <4>1. PICK f \in Coming : Says(f, "answer", t, whole[t])
        BY <1>a, <2>6
      <4>2. f \in coming
        BY <3>3, <4>1 DEF Says
      <4> QED  BY <2>4, <2>5, <3>1, <4>1, <4>2 DEF ShowsRest
    <3> QED  BY <3>2, <3>3
  <2>7. CASE ~(t = e.turn /\ e.kind = "answer")
    <3>1. Shows(r.messages, t, b, k)
      BY <1>8, <2>1, <2>7 DEF Base
    <3>2. ~Says(e, "answer", t, whole[t])
      BY <2>7 DEF Says
    <3>3. \/ \E f \in coming : Says(f, "answer", t, whole[t])
          \/ b = first[t] /\ \A f \in coming : ~(f.kind = "answer" /\ f.turn = t)
      BY <1>a, <3>2
    <3> QED  BY <2>4, <2>5, <3>1, <3>3 DEF ShowsRest
  <2> QED  BY <2>6, <2>7
<1> QED  BY <1>9, <1>10

\* A chunk that is sent is to come, and so is a text.
LEMMA TextEmitted ==
    ASSUME TypeOK, NEW e \in Events, Emits(e), e.legacy => Coming' = Coming,
           ~e.legacy => Coming' = Coming \cup {e},
           NEW t \in Turns, ShowsRest(Coming, page.messages, t, said[t], whole[t], first[t])
    PROVE  ShowsRest(Coming', page.messages, t, said'[t], whole'[t], first'[t])
<1>1. PICK k \in 0 .. said[t] : \E b \in 0 .. k :
         /\ Shows(page.messages, t, b, k)
         /\ \A d \in 1 .. said[t] : d > k <=> \E f \in Coming : Says(f, "delta", t, d)
         /\ \A f \in Coming : f.kind = "answer" /\ f.turn = t => k <= f.chunk
         /\ \/ \E f \in Coming : Says(f, "answer", t, whole[t])
            \/ b = first[t] /\ \A f \in Coming : ~(f.kind = "answer" /\ f.turn = t)
  BY DEF ShowsRest
<1>a. PICK b \in 0 .. k :
         /\ Shows(page.messages, t, b, k)
         /\ \A d \in 1 .. said[t] : d > k <=> \E f \in Coming : Says(f, "delta", t, d)
         /\ \A f \in Coming : f.kind = "answer" /\ f.turn = t => k <= f.chunk
         /\ \/ \E f \in Coming : Says(f, "answer", t, whole[t])
            \/ b = first[t] /\ \A f \in Coming : ~(f.kind = "answer" /\ f.turn = t)
  BY <1>1
<1>2. /\ said \in [Turns -> 0 .. MaxChunks] /\ MaxChunks \in Nat
      /\ whole \in [Turns -> 0 .. MaxChunks] /\ first \in [Turns -> 0 .. MaxChunks]
  BY ThreadWorkspaceAssumption DEF TypeOK
<1>3. said[t] \in Nat /\ k \in Nat /\ k <= said[t]
  <2>1. said[t] \in Nat
    BY CountsAre
  <2> QED  BY <2>1
<1>4. CASE e.kind = "delta" /\ e.turn = t
  <2>1. /\ ~e.legacy /\ e.chunk = said[t] + 1 /\ said' = [said EXCEPT ![t] = said[t] + 1]
        /\ whole' = whole /\ first' = first
    BY <1>4 DEF Emits
  <2>2. said'[t] = said[t] + 1
    BY <1>2, <2>1
  <2>3. ASSUME NEW d \in 1 .. said'[t] PROVE d > k <=> \E f \in Coming' : Says(f, "delta", t, d)
    <3>1. CASE d = said[t] + 1
      BY <1>3, <1>4, <2>1, <3>1 DEF Says
    <3>2. CASE d # said[t] + 1
      <4>1. d \in 1 .. said[t]
        BY <1>3, <2>2, <2>3, <3>2
      <4>2. ~Says(e, "delta", t, d)
        BY <2>1, <3>2 DEF Says
      <4> QED  BY <1>a, <2>1, <4>1, <4>2
    <3> QED  BY <3>1, <3>2
  <2>4. k \in 0 .. said'[t]
    BY <1>3, <2>2
  <2>5. /\ \A f \in Coming' : f.kind = "answer" /\ f.turn = t => k <= f.chunk
        /\ \/ \E f \in Coming' : Says(f, "answer", t, whole'[t])
           \/ b = first'[t] /\ \A f \in Coming' : ~(f.kind = "answer" /\ f.turn = t)
    BY <1>a, <1>4, <2>1
  <2> QED  BY <1>a, <2>3, <2>4, <2>5 DEF ShowsRest
<1>5. CASE ~(e.kind = "delta" /\ e.turn = t)
  <2>1. said'[t] = said[t]
    BY <1>2, <1>5 DEF Emits
  <2>2. \A d : ~Says(e, "delta", t, d)
    BY <1>5 DEF Says
  <2>3. \A d : (\E f \in Coming : Says(f, "delta", t, d)) <=> (\E f \in Coming' : Says(f, "delta", t, d))
    BY <2>2
  <2>4. \A d \in 1 .. said'[t] : d > k <=> \E f \in Coming' : Says(f, "delta", t, d)
    BY <1>a, <2>1, <2>3
  <2>5. CASE e.kind = "answer" /\ e.turn = t
    <3>1. ~e.legacy /\ e.chunk = said[t] /\ whole' = [whole EXCEPT ![t] = said[t]]
      BY <2>5 DEF Emits
    <3>2. whole'[t] = said[t]
      BY <1>2, <3>1
    <3>3. e \in Coming' /\ Says(e, "answer", t, whole'[t])
      BY <2>5, <3>1, <3>2 DEF Says
    <3>4. \A f \in Coming' : f.kind = "answer" /\ f.turn = t => k <= f.chunk
      BY <1>a, <1>3, <3>1
    <3> QED  BY <1>a, <2>1, <2>4, <3>3, <3>4 DEF ShowsRest
  <2>6. CASE ~(e.kind = "answer" /\ e.turn = t)
    <3>1. whole'[t] = whole[t] /\ first'[t] = first[t]
      BY <1>2, <2>6 DEF Emits
    <3>2. /\ \A f \in Coming' : f.kind = "answer" /\ f.turn = t => k <= f.chunk
          /\ \/ \E f \in Coming' : Says(f, "answer", t, whole'[t])
             \/ b = first'[t] /\ \A f \in Coming' : ~(f.kind = "answer" /\ f.turn = t)
      BY <1>a, <2>6, <3>1
    <3> QED  BY <1>a, <2>1, <2>4, <3>2 DEF ShowsRest
  <2> QED  BY <2>5, <2>6
<1> QED  BY <1>4, <1>5

\* A prompt that is not early is sent when nothing is to come.
LEMMA EarlyIs ==
    ASSUME TypeOK, Submit, past' \subseteq {"cut"}
    PROVE  running = 0 /\ pipe = <<>> /\ wire = <<>>
<1> DEFINE what == IF get.pc # "done" THEN {"crossed"}
                   ELSE IF pipe # <<>> \/ wire # <<>> \/ running # 0 THEN {"early"} ELSE {}
<1>1. past' = Noted(what) /\ what \in SUBSET Disturbances /\ Smooth'
  BY DEF Submit, Disturbances, Smooth
<1>2. past' = past \cup what
  <2> HIDE DEF what
  <2> QED  BY <1>1, NotedCalm
<1> QED  BY <1>2

\* Every step preserves TextInv: the next chunk to come is the one after those shown.
LEMMA TextStep ==
    ASSUME TypeOK, StageInv, EventInv, AwaitedInv, PendingInv, OrderInv, KeptInv, FrameInv, TextInv,
           [Next]_vars
    PROVE  TextInv'
<1> DEFINE All == \A t \in Turns : ShowsRest(Coming', page'.messages, t, said'[t], whole'[t], first'[t])
           Free == page'.waiting # 0 => Unseen(Coming', page'.messages, running')
<1> SUFFICES ASSUME past' \subseteq {"cut"}, get'.pc = "done" PROVE All /\ Free
  BY TextIs
<1>1. Smooth' /\ Smooth /\ past \subseteq {"cut"} /\ "missed" \notin past
  <2>1. Smooth'
    BY DEF Smooth
  <2> QED  BY <2>1, PastStep
<1>2. CASE get.pc # "done"
  <2>1. /\ Whole(get.events) /\ page'.messages = History(get.events) /\ page'.waiting = 0
        /\ UNCHANGED <<said, whole, first>> /\ Coming' = {}
    BY <1>1, <1>2, LoadIs
  <2>2. \A t \in Turns : ShowsRest({}, History(get.events), t, said[t], whole[t], first[t])
    BY <1>1, <2>1, TextLoaded
  <2> QED  BY <2>1, <2>2
<1>3. CASE get.pc = "done"
  <2>1. /\ \A t \in Turns : ShowsRest(Coming, page.messages, t, said[t], whole[t], first[t])
        /\ page.waiting # 0 => Unseen(Coming, page.messages, running)
    BY <1>1, <1>3, TextIs
  <2>2. page \in Pages /\ Single(page) /\ page.waiting \in {0, submits}
        /\ Bounded(page.messages, submits, begun)
    BY PageOKIs DEF PageOK
  <2>3. ASSUME NEW e \in Events, Emits(e), page' = page, e.legacy => Coming' = Coming,
               ~e.legacy => Coming' = Coming \cup {e}
        PROVE  All /\ Free
    <3>1. All
      <4>1. \A t \in Turns : ShowsRest(Coming', page.messages, t, said'[t], whole'[t], first'[t])
        BY <2>1, <2>3, TextEmitted
      <4> QED  BY <2>3, <4>1
    <3>2. ASSUME page.waiting # 0, NEW t \in Turns, t = running' \/ \E f \in Coming' : f.turn = t
          PROVE  Mine(page.messages, t) = {}
      <4>1. \/ running' = 0 \/ running' = running
            \/ e.kind = "started" /\ e.turn = begun + 1 /\ running' = begun + 1
        BY <2>3 DEF Emits
      <4>2. ~e.legacy => e.turn = running \/ (e.kind = "started" /\ e.turn = begun + 1)
        BY <1>1, <2>3 DEF Emits
      <4>3. t # 0
        BY DEF Turns
      <4>4. CASE t = running \/ \E f \in Coming : f.turn = t
        BY <2>1, <3>2, <4>4 DEF Unseen
      <4>5. CASE t = begun + 1
        <5>1. begun \in Nat
          <6>1. begun \in 0 .. MaxTurns /\ MaxTurns \in Nat
            BY ThreadWorkspaceAssumption DEF TypeOK
          <6> QED  BY <6>1
        <5>2. \A i \in DOMAIN page.messages : page.messages[i].turn <= begun
          BY DEF AwaitedInv
        <5>3. \A i \in DOMAIN page.messages : page.messages[i].turn # t
          BY <4>5, <5>1, <5>2
        <5> QED  BY <5>3 DEF Mine, IsAgent
      <4> QED  BY <2>3, <3>2, <4>1, <4>2, <4>3, <4>4, <4>5
    <3>3. Free
      BY <2>3, <3>2 DEF Unseen
    <3> QED  BY <3>1, <3>3
  <2>4. ASSUME NEW e \in Coming, Coming = Coming' \cup {e}, \A f \in Coming' : Before(e, f),
               Handled(page, page', e), UNCHANGED <<running, said, whole, first>>
        PROVE  All /\ Free
    <3>1. page'.waiting = 0
      BY <2>4 DEF Handled
    <3>2. PICK coming : coming = Coming'
      OBVIOUS
    <3>3. \A t \in Turns : ShowsRest(coming, page'.messages, t, said[t], whole[t], first[t])
      BY <2>1, <2>4, <3>2, TextHandled
    <3> QED  BY <2>4, <3>1, <3>2, <3>3
  <2>5. ASSUME Coming' = Coming, UNCHANGED <<running, said, whole, first>>, Own PROVE All /\ Free
    <3>1. ASSUME \A t \in Turns : \A b : \A k : Shows(page.messages, t, b, k) => Shows(page'.messages, t, b, k)
          PROVE  All
      <4> SUFFICES ASSUME NEW t \in Turns PROVE ShowsRest(Coming, page'.messages, t, said[t], whole[t], first[t])
        BY <2>5
      <4>1. ShowsRest(Coming, page.messages, t, said[t], whole[t], first[t])
        BY <2>1
      <4> QED  BY <3>1, <4>1 DEF ShowsRest
    <3>2. CASE page'.messages = page.messages /\ page'.waiting = page.waiting
      BY <2>1, <2>5, <3>2
    <3>3. ASSUME Submit PROVE All /\ Free
      <4>1. running = 0 /\ pipe = <<>> /\ wire = <<>>
        BY <3>3, EarlyIs
      <4>2. Coming = {}
        <5>1. DOMAIN pipe = {} /\ DOMAIN wire = {}
          BY <4>1
        <5> QED  BY <5>1 DEF Coming, Sent, ToSend
      <4>3. \A t \in Turns : t # 0
        BY DEF Turns
      <4>4. Free
        BY <2>5, <4>1, <4>2, <4>3 DEF Unseen
      <4>5. /\ page' = Submitted(page, submits') /\ submits' = submits + 1 /\ submits < MaxSubmits
        BY <3>3 DEF Submit
      <4>6. submits \in 0 .. MaxSubmits /\ MaxSubmits \in Nat /\ begun \in 0 .. MaxTurns /\ MaxTurns \in Nat
        BY ThreadWorkspaceAssumption DEF TypeOK
      <4>7. submits' \in 1 .. MaxSubmits /\ submits' - 1 = submits /\ begun \in Nat
        BY <4>5, <4>6
      <4>8. PICK n \in 1 .. MaxSubmits : n = submits' /\ n - 1 = submits
        BY <4>7
      <4>9. \A t \in Turns : \A b : \A k : Shows(page.messages, t, b, k) => Shows(page'.messages, t, b, k)
        <5>1. Bounded(page.messages, n - 1, begun)
          BY <2>2, <4>8
        <5>2. page' = Submitted(page, n)
          BY <4>5, <4>8
        <5> QED  BY <2>2, <4>7, <5>1, <5>2, SubmittedIs
      <4> QED  BY <3>1, <4>4, <4>9
    <3>4. ASSUME SubmitAnswered, post.turn \in Turns PROVE All /\ Free
      <4>1. /\ page' = Accepted(page, post.turn)
            /\ Told(post.turn)
            /\ post.turn \in page.timeline => page.waiting = 0
        BY <1>1, <3>4 DEF SubmitAnswered, PendingInv
      <4>2. /\ page'.waiting \in {0, page.waiting}
            /\ post.turn \notin page.over => page'.waiting = 0
            /\ post.turn \in page.over => page'.messages = page.messages
        BY <2>2, <3>4, <4>1, AcceptedIs
      <4>6. ASSUME NEW u \in Turns, NEW b, NEW k, Shows(page.messages, u, b, k),
                   (u = post.turn /\ page.waiting # 0 /\ post.turn \notin page.over)
                      => Mine(page.messages, u) = {}
            PROVE  Shows(page'.messages, u, b, k)
        <5>1. Shows(Accepted(page, post.turn).messages, u, b, k)
          BY <2>2, <3>4, <4>6, AcceptedShows
        <5> QED  BY <4>1, <5>1
      <4>3. page.waiting # 0 => Mine(page.messages, post.turn) = {}
        <5> HAVE page.waiting # 0
        <5>1. PICK f \in Coming : f.turn = post.turn
          BY <4>1, ToldComing
        <5> QED  BY <2>1, <3>4, <5>1 DEF Unseen
      <4>4. All
        BY <3>1, <4>3, <4>6
      <4>5. Free
        BY <2>1, <2>5, <4>2
      <4> QED  BY <4>4, <4>5
    <3>5. ASSUME SubmitRefused PROVE All /\ Free
      <4>1. page' = Rejected(page)
        BY <3>5 DEF SubmitRefused
      <4>2. /\ page'.waiting = 0
            /\ \A u \in Turns : \A b : \A k : Shows(page.messages, u, b, k) => Shows(page'.messages, u, b, k)
        BY <2>2, <4>1, RejectedIs
      <4> QED  BY <3>1, <4>2
    <3>6. ASSUME page' = [page EXCEPT !.active = 0]
          PROVE  page'.messages = page.messages /\ page'.waiting = page.waiting
      BY <2>2, <3>6 DEF Pages
    <3>7. page' = page => page'.messages = page.messages /\ page'.waiting = page.waiting
      OBVIOUS
    <3> HIDE DEF All, Free
    <3> QED  BY <2>5, <3>2, <3>3, <3>4, <3>5, <3>6, <3>7 DEF Own
  <2>6. Calm
    BY <1>1, <1>3, CalmStep
  <2> HIDE DEF All, Free
  <2> QED  BY <2>3, <2>4, <2>5, <2>6 DEF Calm
<1> QED  BY <1>2, <1>3

-----------------------------------------------------------------------------
(* The theorems.                                                           *)

\* Nothing has happened yet.
LEMMA InitInv == Init => IInv
<1> SUFFICES ASSUME Init PROVE IInv
  OBVIOUS
<1> USE ThreadWorkspaceAssumption
<1>1. /\ running = 0 /\ begun = 0 /\ said = [t \in Turns |-> 0]
      /\ whole = [t \in Turns |-> 0] /\ first = [t \in Turns |-> 0]
      /\ asked = [t \in Turns |-> "no"] /\ sequence = [t \in Turns |-> 0] /\ stopping = 0
      /\ pipe = <<>> /\ stage = "take" /\ active = 0 /\ kept = <<>>
      /\ sock = "closed" /\ breaks = 0 /\ wire = <<>>
      /\ get = NoGet /\ page = FreshPage /\ post = NoRequest /\ stop = NoRequest
      /\ submits = 0 /\ stops = 0 /\ past = {} /\ got = {}
  BY DEF Init
<1>2. /\ DOMAIN pipe = {} /\ DOMAIN wire = {} /\ DOMAIN kept = {}
      /\ DOMAIN get.events = {} /\ DOMAIN page.messages = {}
      /\ pipe \in Seq(Events) /\ wire \in Seq(Events) /\ kept \in Seq(Events)
      /\ get.events \in Seq(Events) /\ page.messages \in Seq(Messages) /\ Len(kept) = 0
  BY <1>1 DEF NoGet, FreshPage
<1>3. /\ get.pc = "none" /\ get.active = 0 /\ post.pc = "none" /\ stop.pc = "none"
      /\ page.waiting = 0 /\ page.timeline = {} /\ page.over = {}
  BY <1>1 DEF NoGet, FreshPage, NoRequest
<1>4. \A t \in Turns : said[t] = 0 /\ whole[t] = 0 /\ first[t] = 0 /\ asked[t] = "no" /\ sequence[t] = 0
  BY <1>1
<1>5. TypeOK
  BY <1>1, <1>2, <1>4 DEF TypeOK, NoGet, FreshPage, NoRequest
<1>6. EventInv
  BY <1>1, <1>2 DEF EventInv
<1>7. StageInv
  BY <1>1, <1>3, <1>4 DEF StageInv
<1>8. AnswerLast /\ AnswerIsWhole
  BY <1>1, <1>2 DEF AnswerLast, AnswerIsWhole
<1>9. AwaitedInv /\ PendingInv
  BY <1>1, <1>2, <1>3 DEF AwaitedInv, PendingInv
<1>10. ActiveInv
  BY <1>1, <1>2 DEF ActiveInv, ToMark
<1>11. OrderInv
  BY <1>1, <1>2 DEF OrderInv, Ordered, Sent, ToSend, ToKeep
<1>12. KeptInv
  BY <1>3, <1>4 DEF KeptInv
<1>13. FrameInv /\ PageActiveInv /\ TextInv
  BY <1>3 DEF FrameInv, PageActiveInv, TextInv
<1> QED
  BY <1>5, <1>6, <1>7, <1>8, <1>9, <1>10, <1>11, <1>12, <1>13 DEF IInv

\* The inductive invariant holds in every reachable state.
THEOREM Invariance == Spec => []IInv
<1>1. IInv /\ [Next]_vars => IInv'
  BY TypeStep, EventStep, StageInvStep, AnswerLastStep, AnswerStep, AwaitedStep,
     PendingStep, ActiveStep, OrderStep, KeptStep, FrameStep, PageActiveStep, TextStep
     DEF IInv
<1> QED
  BY InitInv, <1>1, PTL DEF Spec

\* Every variable keeps its type: turns, chunks, queues and requests of any number,
\* and what the gateway keeps of a thread stays within its limit.
THEOREM TypeCorrect == Spec => []TypeOK
<1>1. IInv => TypeOK
  BY DEF IInv
<1> QED  BY <1>1, Invariance, PTL

\* Once the complete text of a turn's last message reached the page, the turn is shown
\* with exactly that text, whatever the page lost, repeated or read out of order before:
\* the message that mergeTimelineEvent completes is found again, and what comes late
\* does not touch it.
THEOREM AnswerWhole == Spec => []AnswerIsWhole
<1>1. IInv => AnswerIsWhole
  BY DEF IInv
<1> QED  BY <1>1, Invariance, PTL

\* A page with no prompt on its way shows no reply as awaited, unless it lost frames:
\* the answer to its prompt and the turn's events bind or drop the placeholder in
\* whichever order they come.
THEOREM PlaceholderGone == Spec => []PlaceholderGoes
<1>1. IInv => PlaceholderGoes
  <2> SUFFICES ASSUME IInv, post.pc = "none", "missed" \notin past,
                      NEW i \in DOMAIN page.messages
               PROVE  ~page.messages[i].pending
    BY DEF PlaceholderGoes
  <2> QED  BY DEF IInv, PendingInv, IsPlaceholder
<1> QED  BY <1>1, Invariance, PTL

\* When everything has arrived nothing is to come.
LEMMA SettledIsCalm ==
    ASSUME Settled
    PROVE  Coming = {} /\ get.pc = "done"
<1>1. DOMAIN pipe = {} /\ DOMAIN wire = {} /\ get.pc = "done"
  BY DEF Settled
<1> QED  BY <1>1 DEF Coming, Sent, ToSend

\* A page that lost nothing and was not opened into a turn offers a prompt exactly when
\* the agent is at rest, also when the answer to its own prompt comes after that
\* prompt's turn.
THEOREM CalmActive == Spec => []CalmActiveIsTrue
<1>1. IInv => CalmActiveIsTrue
  <2> SUFFICES ASSUME IInv, Settled, past \subseteq {"early"} PROVE page.active = running
    BY DEF CalmActiveIsTrue
  <2>1. Coming = {} /\ get.pc = "done"
    BY SettledIsCalm
  <2> QED  BY <2>1 DEF IInv, PageActiveInv
<1> QED  BY <1>1, Invariance, PTL

\* A page that lost nothing, was not opened into a turn and sent no prompt early shows
\* of every turn, in one message, its last complete message and every chunk after it,
\* once and in order: the history it read, the broadcasts and the legacy frames neither
\* repeat nor tear it.
THEOREM CalmText == Spec => []CalmTextIsTrue
<1>1. IInv => CalmTextIsTrue
  <2> SUFFICES ASSUME IInv, Settled, past \subseteq {"cut"}, NEW t \in DOMAIN said
               PROVE  /\ TextsShown(t) \subseteq {Answer(t)}
                      /\ said[t] > 0 => TextsShown(t) # {}
    BY DEF CalmTextIsTrue
  <2>1. Coming = {} /\ get.pc = "done" /\ TypeOK
    BY SettledIsCalm DEF IInv
  <2>2. t \in Turns
    BY <2>1 DEF TypeOK
  <2>a. said[t] \in Nat
    BY <2>1, <2>2, CountsAre
  <2>3. PICK k \in 0 .. said[t] : \E b \in 0 .. k :
            /\ Shows(page.messages, t, b, k)
            /\ \A d \in 1 .. said[t] : d > k <=> \E e \in Coming : Says(e, "delta", t, d)
            /\ \/ \E e \in Coming : Says(e, "answer", t, whole[t])
               \/ b = first[t]
    BY <2>1, <2>2, TextIs DEF IInv, ShowsRest
  <2>4. k = said[t]
    <3> SUFFICES ASSUME k # said[t] PROVE FALSE
      OBVIOUS
    <3>1. said[t] \in 1 .. said[t] /\ said[t] > k
      BY <2>a
    <3> QED  BY <2>1, <2>3, <3>1
  <2>5. Shows(page.messages, t, first[t], said[t])
    BY <2>1, <2>3, <2>4
  <2>6. \A i \in Mine(page.messages, t) : page.messages[i].text = Answer(t)
    BY <2>5 DEF Shows, Answer
  <2>7. said[t] > 0 => Mine(page.messages, t) # {}
    BY <2>a, <2>5 DEF Shows
  <2>8. TextsShown(t) = {page.messages[i].text : i \in Mine(page.messages, t)}
    BY DEF TextsShown, Mine
  <2> QED  BY <2>6, <2>7, <2>8
<1> QED  BY <1>1, Invariance, PTL
=============================================================================
