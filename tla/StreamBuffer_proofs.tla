------------------------- MODULE StreamBuffer_proofs -------------------------
(* Proofs about StreamBuffer, for any viewers, workers and bounds. The       *)
(* inductive invariant is TypeOK: with ChunksOK, what the writer leaves, and *)
(* ReadsOK, what a read knows. That positions do not go back, and that a     *)
(* viewer on the pulling worker misses nothing, are read off it step by step.*)
EXTENDS StreamBuffer, FiniteSetTheorems, WellFoundedInduction, TLAPS

USE BufferAssumption

(***************************************************************************)
(* Sets of chunks                                                           *)
(***************************************************************************)
\* There is an oldest chunk.
LEMMA LeastExists ==
  ASSUME NEW S \in SUBSET Nat, S # {}
  PROVE  LeastOf(S) \in S /\ \A y \in S : LeastOf(S) <= y
<1> DEFINE Below == {p \in Nat \X Nat : p[1] < p[2]}
<1>1. IsWellFoundedOn(Below, Nat)
  BY NatLessThanWellFounded DEF OpToRel
<1>2. PICK x \in S : \A y \in S : ~ (<<y, x>> \in Below)
  <2> HIDE DEF Below
  <2> QED  BY <1>1, WFMin
<1>3. ASSUME NEW y \in S PROVE x <= y
  <2>1. y < x => <<y, x>> \in Below
    OBVIOUS
  <2>2. ~ (y < x)
    BY <1>2, <2>1
  <2>3. QED  BY <2>2
<1>4. QED  BY <1>3 DEF LeastOf

\* A read finds no more chunks than there are numbers in it.
LEMMA CountInRange ==
  ASSUME NEW a \in Nat, NEW b \in Nat, NEW S \in SUBSET ((a + 1)..b), S # {}
  PROVE  Cardinality(S) \in 1..(b - a)
<1>1. IsFiniteSet((a + 1)..b) /\ Cardinality((a + 1)..b) = IF a + 1 > b THEN 0 ELSE b - (a + 1) + 1
  BY FS_Interval
<1>2. IsFiniteSet(S) /\ Cardinality(S) <= Cardinality((a + 1)..b)
  BY <1>1, FS_Subset
<1>3. Cardinality(S) \in Nat /\ Cardinality(S) # 0
  BY <1>2, FS_CardinalityType, FS_EmptySet
<1>4. PICK x \in S : TRUE
  OBVIOUS
<1>5. x \in (a + 1)..b
  OBVIOUS
<1>6. b >= a + 1
  BY <1>5
<1>7. QED  BY <1>1, <1>2, <1>3, <1>6

(***************************************************************************)
(* Type invariant                                                           *)
(***************************************************************************)
\* Nothing is written, and nobody watches.
LEMMA InitType == Init => TypeOK
BY DEF Init, TypeOK, ChunksOK, ReadsOK, Last, PC

\* Each command of the writer keeps the type invariant.
LEMMA WriteType ==
  ASSUME TypeOK, Write
  PROVE  TypeOK'
<1>1. CASE Incr
  BY <1>1 DEF TypeOK, ChunksOK, ReadsOK, Last, Incr, buffers, viewer
<1>2. CASE Store
  BY <1>2 DEF TypeOK, ChunksOK, ReadsOK, Last, Store, buffers, viewer
<1>3. CASE StoreFails
  BY <1>3 DEF TypeOK, ChunksOK, ReadsOK, Last, StoreFails, redis, buffers, viewer
<1>4. CASE NoteIndex
  BY <1>4 DEF TypeOK, ChunksOK, ReadsOK, Last, NoteIndex, redis, viewer
<1>5. QED  BY <1>1, <1>2, <1>3, <1>4 DEF Write

\* The oldest chunk expires: those that are left are still all from some number on.
LEMMA ExpireType ==
  ASSUME TypeOK, Expire
  PROVE  TypeOK'
<1>1. stored \in SUBSET Nat /\ stored # {}
  <2>1. Last \in Int
    BY DEF TypeOK, Last
  <2>2. \A n \in 1..Last : n \in Nat
    BY <2>1
  <2>3. stored \subseteq 1..Last /\ stored # {}
    BY DEF TypeOK, ChunksOK, Expire
  <2>4. QED  BY <2>2, <2>3
<1>2. LeastOf(stored) \in stored /\ \A y \in stored : LeastOf(stored) <= y
  BY <1>1, LeastExists
<1>3. Last' = Last /\ Last \in Int
  BY DEF TypeOK, Last, Expire, writer
<1>4. ASSUME errors' = 0, NEW n \in stored', NEW y \in n..Last
      PROVE  y \in stored'
  <2>1. n \in stored /\ n # LeastOf(stored) /\ n..Last \subseteq stored
    BY <1>4 DEF TypeOK, ChunksOK, Expire, writer
  <2>2. n \in Nat /\ LeastOf(stored) \in Nat
    BY <1>1, <1>2, <2>1
  <2>3. LeastOf(stored) < n /\ n <= y
    BY <1>2, <1>3, <2>1, <2>2
  <2>4. QED  BY <2>1, <2>2, <2>3 DEF Expire
<1>5. ChunksOK'
  BY <1>3, <1>4 DEF TypeOK, ChunksOK, Expire, buffers
<1>6. QED  BY <1>5 DEF TypeOK, ReadsOK, Expire, writer, buffers, viewer

\* A buffer object on another worker is no business of the writer's.
LEMMA OpenType ==
  ASSUME TypeOK, NEW w \in Worker, OpenBuffer(w)
  PROVE  TypeOK'
BY DEF TypeOK, ChunksOK, ReadsOK, Last, OpenBuffer, redis, writer, viewer

\* Where a viewer starts is not past the head.
LEMMA StartInRange ==
  ASSUME TypeOK, NEW v \in Viewer, NEW n \in StartPositions(v)
  PROVE  n \in 0..head
BY DEF TypeOK, ChunksOK, Last, StartPositions, Local, Larger

\* To start and to leave is not to read.
LEMMA JoinType ==
  ASSUME TypeOK, NEW v \in Viewer, NEW n \in StartPositions(v), Join(v, n)
  PROVE  TypeOK'
<1>1. n \in 0..head
  BY StartInRange
<1>2. QED  BY <1>1 DEF TypeOK, ChunksOK, ReadsOK, Last, Join, Goto, PC, redis, writer, buffers

\* A viewer that leaves forgets what it read.
LEMMA LeaveType ==
  ASSUME TypeOK, NEW v \in Viewer, Leave(v)
  PROVE  TypeOK'
BY DEF TypeOK, ChunksOK, ReadsOK, Last, Leave, Goto, PC, redis, writer, buffers

\* A read that finds chunks moves the index of its worker to a number that is taken, and
\* on the worker that writes to one whose write is over.
LEMMA FetchType ==
  ASSUME TypeOK, NEW v \in Viewer, Fetch(v)
  PROVE  TypeOK'
<1>1. CASE Found(v) = {}
  BY <1>1 DEF TypeOK, ChunksOK, ReadsOK, Last, Fetch, Goto, PC, redis, writer
<1>2. CASE Found(v) # {}
  <2>1. Last \in Nat /\ limit[v] \in Nat /\ local_index[v] \in Nat
    BY <1>2 DEF TypeOK, ChunksOK, Last, Found
  <2>2. Found(v) \in SUBSET ((local_index[v] + 1)..Smaller(limit[v], Last))
    BY <2>1 DEF TypeOK, ChunksOK, Found, Asked, Smaller
  <2>3. Cardinality(Found(v)) \in 1..(Smaller(limit[v], Last) - local_index[v])
    BY <1>2, <2>1, <2>2, CountInRange DEF Smaller
  <2>4. local_index[v] + Cardinality(Found(v)) \in 0..Last
    BY <2>1, <2>3 DEF Smaller
  <2>5. Last \in 0..head
    BY <2>1 DEF TypeOK, Last
  <2> DEFINE n == local_index[v] + Cardinality(Found(v))
  <2>6. /\ pc[v] = "fetch"
        /\ index' = [index EXCEPT ![WorkerOf[v]] = Larger(@, n)]
        /\ pc' = [pc EXCEPT ![v] = "send"]
        /\ UNCHANGED <<redis, writer, open, local_index, upto, limit>>
    BY <1>2 DEF Fetch, Goto
  <2>7. n \in 0..Last
    BY <2>4
  <2> HIDE DEF n
  <2>8. /\ \A w \in Worker : index'[w] \in 0..head /\ index'[w] >= index[w]
        /\ index' \in [Worker -> 0..head]
        /\ index'[Owner] <= Last
    BY <2>5, <2>6, <2>7 DEF TypeOK, ChunksOK, Larger
  <2>9. ChunksOK'
    BY <2>6, <2>8 DEF TypeOK, ChunksOK, Last, redis, writer
  <2>10. ReadsOK'
    BY <2>6, <2>8 DEF TypeOK, ReadsOK, PC, redis
  <2>11. QED  BY <2>6, <2>8, <2>9, <2>10 DEF TypeOK, PC, redis, writer
<1>3. QED  BY <1>1, <1>2

\* Each step of a viewer's loop keeps the type invariant.
LEMMA WatchType ==
  ASSUME TypeOK, NEW v \in Viewer, Watch(v)
  PROVE  TypeOK'
<1>1. CASE CountChunks(v)
  BY <1>1 DEF TypeOK, ChunksOK, ReadsOK, Last, CountChunks, ChunkCount, Local, Smaller, Larger, Goto, PC,
              redis, writer, buffers
<1>2. CASE ReadIndex(v)
  BY <1>2 DEF TypeOK, ChunksOK, ReadsOK, Last, ReadIndex, Smaller, Goto, PC, redis, writer, buffers
<1>3. CASE Fetch(v)
  BY <1>3, FetchType
<1>4. CASE Sent(v)
  BY <1>4 DEF TypeOK, ChunksOK, ReadsOK, Last, Sent, Goto, PC, redis, writer, buffers
<1>5. CASE Jump(v)
  BY <1>5 DEF TypeOK, ChunksOK, ReadsOK, Last, Jump, Oldest, NearHead, Local, Larger, Goto, PC,
              redis, writer, buffers
<1>6. CASE Wait(v)
  BY <1>6 DEF TypeOK, ChunksOK, ReadsOK, Last, Wait, Goto, PC, redis, writer, buffers
<1>7. CASE Wake(v)
  BY <1>7 DEF TypeOK, ChunksOK, ReadsOK, Last, Wake, Goto, PC, redis, writer, buffers
<1>8. QED  BY <1>1, <1>2, <1>3, <1>4, <1>5, <1>6, <1>7 DEF Watch

\* Every step keeps the type invariant: it is inductive as it stands.
LEMMA TypeStep ==
  ASSUME TypeOK, [Next]_vars
  PROVE  TypeOK'
<1>1. CASE UNCHANGED vars
  BY <1>1 DEF TypeOK, ChunksOK, ReadsOK, Last, PC, vars
<1>2. CASE Next
  BY <1>2, WriteType, ExpireType, OpenType, JoinType, LeaveType, WatchType DEF Next
<1>3. QED  BY <1>1, <1>2

\* The shape of the state, what the writer leaves and what a read knows, at any
\* interleaving of the writer, the expiry and the viewers of all workers.
THEOREM TypeCorrect == Spec => []TypeOK
<1>1. Init => TypeOK
  BY InitType
<1>2. TypeOK /\ [Next]_vars => TypeOK'
  BY TypeStep
<1>3. QED  BY <1>1, <1>2, PTL DEF Spec

(***************************************************************************)
(* Positions                                                                *)
(***************************************************************************)
\* What a step does to the place and the position of a viewer u.
LEMMA Moves ==
  ASSUME TypeOK, [Next]_vars, NEW u \in Viewer
  PROVE  \/ pc'[u] = pc[u] /\ local_index'[u] = local_index[u]
         \/ pc[u] = "away" \/ pc'[u] = "away"
         \/ Watch(u)
<1>1. CASE UNCHANGED vars
  BY <1>1 DEF vars
<1>2. CASE Write \/ Expire \/ \E w \in Worker : OpenBuffer(w)
  BY <1>2 DEF Write, Incr, Store, StoreFails, NoteIndex, Expire, OpenBuffer, viewer
<1>3. ASSUME NEW v \in Viewer, Watch(v) \/ Leave(v) \/ \E n \in StartPositions(v) : Join(v, n)
      PROVE  \/ pc'[u] = pc[u] /\ local_index'[u] = local_index[u]
             \/ pc[u] = "away" \/ pc'[u] = "away"
             \/ Watch(u)
  <2>1. CASE v # u
    <3>1. CASE Watch(v)
      BY <2>1, <3>1 DEF Watch, CountChunks, ReadIndex, Fetch, Sent, Jump, Wait, Wake, Goto, TypeOK
    <3>2. CASE Leave(v) \/ \E n \in StartPositions(v) : Join(v, n)
      BY <2>1, <3>2 DEF Leave, Join, Goto, TypeOK
    <3>3. QED  BY <1>3, <3>1, <3>2
  <2>2. CASE v = u
    BY <1>3, <2>2 DEF Leave, Join, Goto, TypeOK
  <2>3. QED  BY <2>1, <2>2
<1>4. QED  BY <1>1, <1>2, <1>3 DEF Next

\* A viewer's own step does not take it back.
LEMMA WatchForward ==
  ASSUME TypeOK, NEW v \in Viewer, Watch(v)
  PROVE  local_index'[v] >= local_index[v]
<1>1. CASE Sent(v)
  BY <1>1 DEF TypeOK, ReadsOK, Sent
<1>2. CASE Jump(v)
  BY <1>2 DEF TypeOK, Jump, Oldest, NearHead, Local, Larger
<1>3. CASE ~Sent(v) /\ ~Jump(v)
  BY <1>3 DEF Watch, CountChunks, ReadIndex, Fetch, Wait, Wake, TypeOK
<1>4. QED  BY <1>1, <1>2, <1>3

\* No viewer is sent a chunk again, nor an earlier one after a later one, whatever
\* expires and whatever write fails.
THEOREM PositionsAdvance == Spec => NeverBack
<1>1. ASSUME TypeOK, [Next]_vars
      PROVE  \A v \in Viewer : pc[v] # "away" /\ pc'[v] # "away" =>
               local_index'[v] >= local_index[v]
  <2>1. SUFFICES ASSUME NEW v \in Viewer, pc[v] # "away", pc'[v] # "away"
                 PROVE  local_index'[v] >= local_index[v]
    OBVIOUS
  <2>2. local_index[v] \in Nat
    BY <1>1 DEF TypeOK
  <2>3. QED  BY <1>1, <2>1, <2>2, Moves, WatchForward
<1>2. QED  BY <1>1, TypeCorrect, PTL DEF Spec, NeverBack

(***************************************************************************)
(* Nothing missed                                                           *)
(***************************************************************************)
\* A read that ends at a chunk the writer has counted, or that asks for one chunk only,
\* finds each chunk that is not expired.
LEMMA FetchMissesNothing ==
  ASSUME TypeOK, NEW v \in Viewer, WorkerOf[v] = Owner, pc[v] = "fetch", Found(v) # {},
         NEW n \in (local_index[v] + 1)..upto[v], Live(n)
  PROVE  n \in Found(v)
<1>1. /\ head \in Nat /\ local_index[v] \in Nat /\ upto[v] \in Nat /\ index[Owner] \in Nat
      /\ limit[v] = upto[v] /\ index[Owner] <= Last
      /\ upto[v] = local_index[v] + 1 \/ upto[v] <= index[Owner]
  BY DEF TypeOK, ReadsOK, ChunksOK
<1>2. CASE n \in stored
  BY <1>1, <1>2 DEF Found, Asked
<1>3. CASE writing = "store" /\ n = head
  <2>1. upto[v] = local_index[v] + 1
    BY <1>1, <1>3 DEF Last
  <2>2. Found(v) = {n}
    BY <1>1, <2>1 DEF Found, Asked
  <2>3. QED  BY <2>2
<1>4. QED  BY <1>2, <1>3 DEF Live

\* The search for the oldest chunk finds one when the last one is there.
LEMMA OldestExists ==
  ASSUME NEW low \in Nat, NEW high \in Nat, low <= high, high \in stored
  PROVE  Oldest(low, high) # {}
<1> DEFINE S == (low..high) \cap stored
<1>1. S \in SUBSET Nat /\ S # {}
  OBVIOUS
<1>2. LeastOf(S) \in S /\ \A y \in S : LeastOf(S) <= y
  BY <1>1, LeastExists
<1> DEFINE k == LeastOf(S)
<1>3. k = low \/ k - 1 \notin stored
  <2>1. k \in low..high
    BY <1>2
  <2>2. SUFFICES ASSUME k # low, k - 1 \in stored
                 PROVE  FALSE
    OBVIOUS
  <2>3. k - 1 \in S
    BY <2>1, <2>2
  <2>4. QED  BY <1>2, <2>1, <2>3
<1>4. QED  BY <1>2, <1>3 DEF Oldest

\* A jump passes only chunks that have expired: until a write fails, the chunks in Redis
\* are all those from some number on.
LEMMA JumpMissesNothing ==
  ASSUME TypeOK, errors = 0, NEW v \in Viewer, WorkerOf[v] = Owner, Jump(v),
         NEW n \in (local_index[v] + 1)..local_index'[v]
  PROVE  ~Live(n)
<1> DEFINE low == local_index[v] + 1
<1>1. /\ head \in Nat /\ local_index[v] \in Nat /\ index[Owner] \in Nat /\ Last \in Int
      /\ index[Owner] <= Last /\ Last <= head /\ low <= index[Owner]
      /\ \A m \in stored : m \in Nat /\ m..Last \subseteq stored
  BY DEF TypeOK, ChunksOK, Last, Jump, Local
<1>2. CASE Oldest(low, index[Owner]) = {}
  <2>1. local_index'[v] = NearHead(v)
    BY <1>2 DEF Jump, Local, TypeOK
  <2>2. n <= index[Owner]
    BY <1>1, <2>1 DEF NearHead, Local, Larger
  <2>3. index[Owner] \notin stored
    BY <1>1, <1>2, OldestExists
  <2>4. n \notin stored
    BY <1>1, <2>2, <2>3
  <2>5. ~(writing = "store" /\ n = head)
    BY <1>1, <2>2 DEF Last
  <2>6. QED  BY <2>4, <2>5 DEF Live
<1>3. CASE Oldest(low, index[Owner]) # {}
  <2>1. PICK k \in Oldest(low, index[Owner]) : local_index'[v] = k - 1
    BY <1>3 DEF Jump, Local, TypeOK
  <2>2. k \in low..index[Owner] /\ (k = low \/ k - 1 \notin stored)
    BY <2>1 DEF Oldest
  <2>3. k \in Nat /\ n \in Nat /\ low <= n /\ n <= k - 1 /\ k - 1 < index[Owner]
    BY <1>1, <2>1, <2>2
  <2>4. k - 1 \notin stored
    BY <1>1, <2>2, <2>3
  <2>5. n \notin stored
    BY <1>1, <2>3, <2>4
  <2>6. ~(writing = "store" /\ n = head)
    BY <1>1, <2>3 DEF Last
  <2>7. QED  BY <2>5, <2>6 DEF Live
<1>4. QED  BY <1>2, <1>3

\* A viewer that found nothing does not leave before it has jumped or waited.
LEMMA EmptyStays ==
  ASSUME TypeOK, [Next]_vars, NEW u \in Viewer, pc[u] = "empty"
  PROVE  pc'[u] # "away"
<1>1. CASE UNCHANGED vars
  BY <1>1 DEF vars
<1>2. CASE Write \/ Expire \/ \E w \in Worker : OpenBuffer(w)
  BY <1>2 DEF Write, Incr, Store, StoreFails, NoteIndex, Expire, OpenBuffer, viewer
<1>3. ASSUME NEW v \in Viewer, Watch(v) \/ Leave(v) \/ \E n \in StartPositions(v) : Join(v, n)
      PROVE  pc'[u] # "away"
  <2>1. CASE Watch(v)
    BY <2>1 DEF Watch, CountChunks, ReadIndex, Fetch, Sent, Jump, Wait, Wake, Goto, TypeOK
  <2>2. CASE Leave(v) \/ \E n \in StartPositions(v) : Join(v, n)
    BY <2>2 DEF Leave, Join, Goto, TypeOK
  <2>3. QED  BY <1>3, <2>1, <2>2
<1>4. QED  BY <1>1, <1>2, <1>3 DEF Next

\* A viewer on the worker that pulls the stream passes over no chunk that is in Redis or
\* about to be, as long as no write fails.
THEOREM NothingMissed == Spec => OwnerViewersMissNothing
<1>1. ASSUME TypeOK, [Next]_vars
      PROVE  \A v \in Viewer : WorkerOf[v] = Owner /\ errors = 0 =>
               /\ pc[v] = "fetch" /\ pc'[v] = "send" =>
                    \A n \in (local_index[v] + 1)..upto[v] : Live(n) => n \in Found(v)
               /\ pc[v] = "empty" =>
                    \A n \in (local_index[v] + 1)..local_index'[v] : ~Live(n)
  <2>1. SUFFICES ASSUME NEW v \in Viewer, WorkerOf[v] = Owner, errors = 0
                 PROVE  /\ pc[v] = "fetch" /\ pc'[v] = "send" =>
                             \A n \in (local_index[v] + 1)..upto[v] : Live(n) => n \in Found(v)
                        /\ pc[v] = "empty" =>
                             \A n \in (local_index[v] + 1)..local_index'[v] : ~Live(n)
    OBVIOUS
  <2>2. \/ pc'[v] = pc[v] /\ local_index'[v] = local_index[v]
        \/ pc[v] = "away" \/ pc'[v] = "away"
        \/ Watch(v)
    BY <1>1, Moves
  <2>3. ASSUME pc[v] = "fetch", pc'[v] = "send",
               NEW n \in (local_index[v] + 1)..upto[v], Live(n)
        PROVE  n \in Found(v)
    <3>1. Watch(v)
      BY <2>2, <2>3
    <3>2. Fetch(v)
      BY <2>3, <3>1 DEF Watch, CountChunks, ReadIndex, Sent, Jump, Wait, Wake
    <3>3. Found(v) # {}
      BY <1>1, <2>3, <3>2 DEF Fetch, Goto, TypeOK
    <3>4. QED  BY <1>1, <2>1, <2>3, <3>3, FetchMissesNothing
  <2>4. ASSUME pc[v] = "empty", NEW n \in (local_index[v] + 1)..local_index'[v]
        PROVE  ~Live(n)
    <3>1. local_index'[v] # local_index[v]
      BY <1>1, <2>4 DEF TypeOK
    <3>2. pc'[v] # "away"
      BY <1>1, <2>4, EmptyStays
    <3>3. Watch(v)
      BY <2>2, <2>4, <3>1, <3>2
    <3>4. Jump(v)
      BY <2>4, <3>1, <3>3 DEF Watch, CountChunks, ReadIndex, Fetch, Sent, Wait, Wake
    <3>5. QED  BY <1>1, <2>1, <2>4, <3>4, JumpMissesNothing
  <2>5. QED  BY <2>3, <2>4
<1>2. QED  BY <1>1, TypeCorrect, PTL DEF Spec, OwnerViewersMissNothing
=============================================================================
