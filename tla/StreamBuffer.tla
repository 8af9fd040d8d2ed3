---------------------------- MODULE StreamBuffer ----------------------------
(* The chunks of one live channel in Redis, and the positions of its viewers *)
(* (live_proxy/input/buffer.py and the loop of output/ts/generator.py). The  *)
(* worker that owns the channel writes: INCR of         *)
(* buffer:index, then SETEX of the chunk. Viewers on every worker read the   *)
(* same chunks, each worker through a buffer object of its own, whose index  *)
(* is what that worker believes the last chunk to be. Chunks expire.         *)
(*                                                                           *)
(* One action is one Redis command (a pipeline counts as one) and the local  *)
(* code up to the next. A chunk is its number: its bytes, and the alignment  *)
(* of TS packets to it, are left out.                                        *)
EXTENDS Integers, FiniteSets

CONSTANTS
  Viewer,
  Worker,
  Owner,          \* the worker that pulls the stream
  WorkerOf,       \* [Viewer -> Worker]
  MaxChunks,      \* MAX_CHUNKS of one read
  InitialBehind,  \* INITIAL_BEHIND_CHUNKS
  MaxHead,        \* bound on the chunks written
  MaxErrors       \* bound on the writes that fail

ASSUME BufferAssumption ==
  /\ Owner \in Worker
  /\ WorkerOf \in [Viewer -> Worker]
  /\ MaxChunks \in Nat \ {0}
  /\ InitialBehind \in Nat
  /\ MaxHead \in Nat
  /\ MaxErrors \in Nat

VARIABLES
  head,         \* buffer:index in Redis
  stored,       \* the chunks in Redis
  times,        \* the members of chunk_timestamps
  writing,      \* where the writer is in add_chunk (put_fragment)
  errors,       \* writes that failed so far
  open,         \* the workers that have a buffer object for the channel
  index,        \* [Worker -> Nat]: self.index of that object
  pc,           \* where each viewer's loop is
  local_index,  \* the last chunk it consumed
  upto,         \* the chunk it will stand at if this read finds any
  limit         \* the last chunk this read asks for

redis == <<head, stored, times>>
writer == <<writing, errors>>
buffers == <<open, index>>
viewer == <<pc, local_index, upto, limit>>
vars == <<head, stored, times, writing, errors, open, index, pc, local_index, upto, limit>>

PC == {"away", "read", "index", "fetch", "send", "empty", "wait"}

LeastOf(S) == CHOOSE x \in S : \A y \in S : x <= y
Larger(n, m) == IF n >= m THEN n ELSE m
Smaller(n, m) == IF n <= m THEN n ELSE m
Goto(v, l) == pc' = [pc EXCEPT ![v] = l]
Local(v) == index[WorkerOf[v]]

Init ==
  /\ head = 0
  /\ stored = {} /\ times = {}
  /\ writing = "idle" /\ errors = 0
  /\ open = {Owner}
  /\ index = [w \in Worker |-> 0]
  /\ pc = [v \in Viewer |-> "away"]
  /\ local_index = [v \in Viewer |-> 0]
  /\ upto = [v \in Viewer |-> 0]
  /\ limit = [v \in Viewer |-> 0]

(***************************************************************************)
(* The writer: add_chunk                                                    *)
(***************************************************************************)
Incr ==
  /\ writing = "idle"
  /\ head < MaxHead
  /\ head' = head + 1
  /\ writing' = "store"
  /\ UNCHANGED <<stored, times, errors, buffers, viewer>>

\* The pipeline: SETEX; ZADD, and ZREMRANGEBYSCORE of what is as old as a chunk
\* that has expired.
Store ==
  /\ writing = "store"
  /\ stored' = stored \cup {head}
  /\ times' = (times \cap stored) \cup {head}
  /\ writing' = "note"
  /\ UNCHANGED <<head, errors, buffers, viewer>>

\* The pipeline raises: the number is used up, and the chunk lost.
StoreFails ==
  /\ writing = "store"
  /\ errors < MaxErrors
  /\ errors' = errors + 1
  /\ writing' = "idle"
  /\ UNCHANGED <<redis, buffers, viewer>>

NoteIndex ==
  /\ writing = "note"
  /\ index' = [index EXCEPT ![Owner] = head]
  /\ writing' = "idle"
  /\ UNCHANGED <<redis, errors, open, viewer>>

\* The TTL of the oldest chunk; that of the timestamps is renewed by every write.
Expire ==
  /\ stored # {}
  /\ stored' = stored \ {LeastOf(stored)}
  /\ times' = IF stored' = {} THEN {} ELSE times
  /\ UNCHANGED <<head, writer, buffers, viewer>>

(***************************************************************************)
(* Viewers                                                                  *)
(***************************************************************************)
\* A worker's buffer object for the channel starts from buffer:index.
OpenBuffer(w) ==
  /\ w \notin open
  /\ open' = open \cup {w}
  /\ index' = [index EXCEPT ![w] = head]
  /\ UNCHANGED <<redis, writer, viewer>>

\* _setup_streaming: at the head, or before a chunk of some age, which is the
\* oldest one where none is old enough.
StartPositions(v) == {Larger(0, t - 1) : t \in times} \cup {Local(v)}

Join(v, n) ==
  /\ pc[v] = "away"
  /\ WorkerOf[v] \in open
  /\ n \in StartPositions(v)
  /\ local_index' = [local_index EXCEPT ![v] = n]
  /\ Goto(v, "read")
  /\ UNCHANGED <<redis, writer, buffers, upto, limit>>

Leave(v) ==
  /\ pc[v] \in {"read", "send", "wait"}
  /\ Goto(v, "away")
  /\ local_index' = [local_index EXCEPT ![v] = 0]
  /\ upto' = [upto EXCEPT ![v] = 0]
  /\ limit' = [limit EXCEPT ![v] = 0]
  /\ UNCHANGED <<redis, writer, buffers>>

\* Mutant of ChunkCount: one chunk more than this worker knows of.
ChunkCountTooMany(v) == Smaller(MaxChunks, Larger(1, Local(v) + 1 - local_index[v]))

\* get_optimized_client_data: as many as this worker believes the viewer is behind.
ChunkCount(v) == Smaller(MaxChunks, Larger(1, Local(v) - local_index[v]))

CountChunks(v) ==
  /\ pc[v] = "read"
  /\ upto' = [upto EXCEPT ![v] = local_index[v] + ChunkCount(v)]
  /\ Goto(v, "index")
  /\ UNCHANGED <<redis, writer, buffers, local_index, limit>>

\* Mutant of ReadIndex: the read does not end at buffer:index.
ReadIndexUnclipped(v) ==
  /\ pc[v] = "index"
  /\ limit' = [limit EXCEPT ![v] = upto[v]]
  /\ Goto(v, IF local_index[v] < head THEN "fetch" ELSE "empty")
  /\ UNCHANGED <<redis, writer, buffers, local_index, upto>>

\* GET of buffer:index, which ends the read.
ReadIndex(v) ==
  /\ pc[v] = "index"
  /\ limit' = [limit EXCEPT ![v] = Smaller(upto[v], head)]
  /\ Goto(v, IF local_index[v] < head THEN "fetch" ELSE "empty")
  /\ UNCHANGED <<redis, writer, buffers, local_index, upto>>

Asked(v) == (local_index[v] + 1)..limit[v]
Found(v) == Asked(v) \cap stored

\* GET of the chunks. The index of this worker's buffer follows what its viewers found.
Fetch(v) ==
  /\ pc[v] = "fetch"
  /\ IF Found(v) = {} THEN Goto(v, "empty") /\ UNCHANGED index
     ELSE /\ Goto(v, "send")
          /\ index' = [index EXCEPT ![WorkerOf[v]] =
                         Larger(@, local_index[v] + Cardinality(Found(v)))]
  /\ UNCHANGED <<redis, writer, open, local_index, upto, limit>>

\* The player has taken the chunks; it may have been paused for long.
Sent(v) ==
  /\ pc[v] = "send"
  /\ local_index' = [local_index EXCEPT ![v] = upto[v]]
  /\ Goto(v, "read")
  /\ UNCHANGED <<redis, writer, buffers, upto, limit>>

\* Mutant of Oldest: the first chunk is taken for available.
OldestUnchecked(low, high) == IF high \notin stored THEN {} ELSE {low}

\* find_oldest_available_chunk: the binary search stops at a chunk whose
\* predecessor is gone; it gives up when the last one is gone.
Oldest(low, high) ==
  IF high \notin stored THEN {}
  ELSE {k \in (low..high) \cap stored : k = low \/ k - 1 \notin stored}

\* Mutant of NearHead: it may lie behind the viewer.
NearHeadBack(v) == Local(v) - InitialBehind

NearHead(v) == Larger(local_index[v], Local(v) - InitialBehind)

\* Nothing found, though this worker knows of later chunks: skip to one, and read
\* again at once.
Jump(v) ==
  /\ pc[v] = "empty"
  /\ Local(v) > local_index[v]
  /\ LET oldest == Oldest(local_index[v] + 1, Local(v)) IN
       \E n \in IF oldest = {} THEN {NearHead(v)} ELSE {k - 1 : k \in oldest} :
         local_index' = [local_index EXCEPT ![v] = n]
  /\ Goto(v, "read")
  /\ UNCHANGED <<redis, writer, buffers, upto, limit>>

\* Nothing found, nothing known to come: keepalive or sleep, and the checks for a
\* timeout.
Wait(v) ==
  /\ pc[v] = "empty"
  /\ Local(v) <= local_index[v]
  /\ Goto(v, "wait")
  /\ UNCHANGED <<redis, writer, buffers, local_index, upto, limit>>

Wake(v) ==
  /\ pc[v] = "wait"
  /\ Goto(v, "read")
  /\ UNCHANGED <<redis, writer, buffers, local_index, upto, limit>>

Write == Incr \/ Store \/ StoreFails \/ NoteIndex

Watch(v) ==
  \/ CountChunks(v)
  \/ ReadIndex(v)
  \/ Fetch(v)
  \/ Sent(v)
  \/ Jump(v)
  \/ Wait(v)
  \/ Wake(v)

Next ==
  \/ Write
  \/ Expire
  \/ \E w \in Worker : OpenBuffer(w)
  \/ \E v \in Viewer : Watch(v) \/ Leave(v) \/ \E n \in StartPositions(v) : Join(v, n)

Spec == Init /\ [][Next]_vars

\* A write that began goes on, and so does the loop of a viewer: a pause ends.
Fairness == WF_vars(Store \/ NoteIndex) /\ \A v \in Viewer : WF_vars(Watch(v))

FairSpec == Spec /\ Fairness
-----------------------------------------------------------------------------
\* The last chunk whose write is over.
Last == IF writing = "store" THEN head - 1 ELSE head

\* What the writer leaves: a number is taken before its chunk is stored, and the worker
\* that writes counts a chunk only afterwards; what has expired comes first, so until a
\* write fails the chunks in Redis are all those from some number on.
ChunksOK ==
  /\ stored \subseteq 1..Last /\ times \subseteq 1..Last
  /\ index[Owner] <= Last
  /\ errors = 0 => \A n \in stored : n..Last \subseteq stored

\* What a read knows: it moves its viewer on, to a chunk whose number is taken, and by
\* more than one only to chunks that the writer has counted.
ReadsOK ==
  \A v \in Viewer :
    /\ pc[v] \in {"index", "fetch", "send"} => local_index[v] < upto[v]
    /\ pc[v] = "index" => upto[v] <= head \/ upto[v] = local_index[v] + 1
    /\ pc[v] \in {"fetch", "send"} => limit[v] = upto[v]
    /\ pc[v] \in {"index", "fetch"} /\ WorkerOf[v] = Owner =>
         upto[v] = local_index[v] + 1 \/ upto[v] <= index[Owner]

\* The shape of the state: no buffer object and no viewer is ahead of buffer:index, but
\* for the one chunk that a viewer at the head asks for. And what writes and reads know.
TypeOK ==
  /\ head \in 0..MaxHead
  /\ writing \in {"idle", "store", "note"}
  /\ writing # "idle" => head > 0
  /\ errors \in 0..MaxErrors
  /\ open \subseteq Worker /\ Owner \in open
  /\ index \in [Worker -> 0..head]
  /\ pc \in [Viewer -> PC]
  /\ local_index \in [Viewer -> 0..head]
  /\ limit \in [Viewer -> 0..head]
  /\ upto \in [Viewer -> 0..(MaxHead + 1)]
  /\ ChunksOK
  /\ ReadsOK

\* In Redis, or about to be: its number is taken, its SETEX is still to come.
Live(n) == n \in stored \/ (writing = "store" /\ n = head)

\* "The read itself is the authoritative signal": until a write fails, a viewer on the
\* worker that pulls the stream passes a chunk only when it is sent it or the chunk has
\* expired.
OwnerViewersMissNothing ==
  [][\A v \in Viewer : WorkerOf[v] = Owner /\ errors = 0 =>
       /\ pc[v] = "fetch" /\ pc'[v] = "send" =>
            \A n \in (local_index[v] + 1)..upto[v] : Live(n) => n \in Found(v)
       /\ pc[v] = "empty" =>
            \A n \in (local_index[v] + 1)..local_index'[v] : ~Live(n)]_vars

\* Chunks are sent in order, each once, to every viewer of every worker, also
\* across writes that fail: no position goes back while a viewer watches.
NeverBack ==
  [][\A v \in Viewer : pc[v] # "away" /\ pc'[v] # "away" =>
       local_index'[v] >= local_index[v]]_vars

Behind(v, n) == pc[v] # "away" /\ local_index[v] < n /\ n \in stored

\* "jumping to oldest available": a viewer on the worker that pulls the stream does not
\* stay behind a chunk that stays in Redis, also when writes fail.
OwnerNotLeftBehind ==
  \A v \in Viewer, n \in 1..MaxHead :
    WorkerOf[v] = Owner => (Behind(v, n) ~> ~Behind(v, n))
=============================================================================
