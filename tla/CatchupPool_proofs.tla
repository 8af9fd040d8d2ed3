-------------------------- MODULE CatchupPool_proofs --------------------------
(* Proofs about CatchupPool, for any requests, positions, limits and bounds.   *)
(* Until a stream is asked to stop for reuse, the pool entry belongs to one     *)
(* request at a time, from the moment it is made or taken until it is marked    *)
(* idle: so no stream is displaced, each gives back the slot it has reserved,   *)
(* and the counter of the login is exact.                                      *)
(* From then on the entry may have many requests, most of them displaced. Its   *)
(* slot is one all the same, and one of them will give it back.                 *)
(*                                                                             *)
(* The second part is about ChannelLifecycle: the shape of its state, and that  *)
(* a worker that pulls a channel has its owner lock.                           *)
EXTENDS CatchupPool, ChannelLifecycle, FiniteSetTheorems, TLAPS

USE CatchupAssumption

\* The parts of TypeOK, and that a request that is served has a position.
Numbers ==
  /\ slots \in 0 .. Limit /\ others \in 0 .. MaxOthers
  /\ served \in 0 .. MaxServed /\ stopped \in 0 .. MaxStops
Flags == preempted \in BOOLEAN /\ late \in BOOLEAN /\ grace \in BOOLEAN
PoolEntry == busy \in BOOLEAN \cup {None} /\ media \in Media \cup {None}
Keys ==
  /\ generation \in [Media -> Nat] /\ stop \in [Media -> Nat \cup {Terminal}]
  /\ stats \in Media \cup {None}
Requests ==
  /\ at \in [Request -> Place] /\ want \in [Request -> Media \cup {None}]
  /\ kind \in [Request -> Kind] /\ mine \in [Request -> Nat] /\ reuse \in [Request -> BOOLEAN]
  /\ \A r \in Request : at[r] # "away" => want[r] \in Media

Shape == Numbers /\ Flags /\ PoolEntry /\ Keys /\ Requests

\* The places of a request whose entry the pool entry is.
InEntry == {"move", "open", "start", "play", "ended", "newer", "release", "idle"}

\* Until the first takeover the entry has one request, and no stream is displaced.
OneInEntry ==
  ~preempted =>
    /\ \A r \in Request : at[r] \notin {"handoff", "abandon"}
    /\ \A r \in Request : at[r] \in InEntry => busy = TRUE
    /\ \A r, q \in Request : at[r] \in InEntry /\ at[q] \in InEntry => r = q
NotDisplaced ==
  ~preempted =>
    /\ \A m \in Media : stop[m] \in {0, Terminal}
    /\ \A r \in Request : reuse[r] = FALSE
    /\ \A r \in Request : at[r] \in {"play", "ended", "newer"} => mine[r] >= generation[want[r]]


LEMMA ShapeIsTyped == Shape => TypeOK
BY DEF Shape, Numbers, Flags, PoolEntry, Keys, Requests, TypeOK

(***************************************************************************)
(* The requests that own a slot                                             *)
(***************************************************************************)
Held == {r \in Request : Holds(r)}
Exact == ~preempted => slots = others + Cardinality(Held)
Holding == {"create", "move", "open", "start", "play", "ended", "newer", "release"}

\* A request that goes to a place is one more, or one less, or neither.
LEMMA HeldMoves ==
  ASSUME at \in [Request -> Place], NEW r \in Request, NEW l \in Place, Goto(r, l)
  PROVE  /\ Cardinality(Held) \in Nat
         /\ at[r] \in Holding => Cardinality(Held) > 0
         /\ Cardinality(Held') = Cardinality(Held) + (IF l \in Holding THEN 1 ELSE 0)
                                                   - (IF at[r] \in Holding THEN 1 ELSE 0)
<1>1. IsFiniteSet(Held) /\ Cardinality(Held) \in Nat
  BY FS_Subset, FS_CardinalityType DEF Held
<1>2. r \in Held <=> at[r] \in Holding
  BY DEF Held, Holds, Holding
<1>3. r \in Held => Cardinality(Held) # 0
  BY <1>1, FS_EmptySet
<1>4. CASE l \in Holding
  <2>1. Held' = Held \cup {r}
    BY <1>4 DEF Held, Holds, Holding, Goto, Set
  <2>2. Cardinality(Held') = IF r \in Held THEN Cardinality(Held) ELSE Cardinality(Held) + 1
    BY <1>1, <2>1, FS_AddElement
  <2>3. QED  BY <1>1, <1>2, <1>3, <1>4, <2>2
<1>5. CASE l \notin Holding
  <2>1. Held' = Held \ {r}
    BY <1>5 DEF Held, Holds, Holding, Goto, Set
  <2>2. Cardinality(Held') = IF r \in Held THEN Cardinality(Held) - 1 ELSE Cardinality(Held)
    BY <1>1, <2>1, FS_RemoveElement
  <2>3. QED  BY <1>1, <1>2, <1>3, <1>5, <2>2
<1>6. QED  BY <1>4, <1>5

(***************************************************************************)
(* The shape of the state                                                   *)
(***************************************************************************)
\* A request that goes on, or leaves, has what its place asks for.
LEMMA RequestGoes ==
  ASSUME Requests, NEW r \in Request,
         \/ Leave(r)
         \/ (\E l \in Place : Goto(r, l)) /\ want[r] \in Media /\ UNCHANGED request
  PROVE  Requests'
<1>1. CASE Leave(r)
  BY <1>1 DEF Requests, Leave, Goto, Set, Place, Kind
<1>2. CASE (\E l \in Place : Goto(r, l)) /\ want[r] \in Media /\ UNCHANGED request
  BY <1>2 DEF Requests, Goto, Set, request
<1>3. QED  BY <1>1, <1>2

\* A step of a request.
LEMMA ServedShape ==
  ASSUME Shape, NEW r \in Request, Serves(r) \/ Streams(r)
  PROVE  Shape'
<1> USE DEF Shape, Numbers, Flags, PoolEntry, Keys, Requests, Set, Goto, Terminal, Place, pool,
       keys, viewer, request, counts, ghosts
<1>1. ASSUME NEW m \in Media, NEW k \in Kind, Serve(r, m, k) PROVE Shape'
  <2>1. Flags'  BY <1>1 DEF Serve, Kind
  <2>2. Numbers' /\ PoolEntry' /\ Keys'  BY <1>1 DEF Serve, Kind
  <2>3. Requests'  BY <1>1 DEF Serve, Kind
  <2>4. QED  BY <2>1, <2>2, <2>3
<1>2. ASSUME Acquire(r) PROVE Shape'
  <2>1. Flags'  BY <1>2 DEF Acquire
  <2>2. PoolEntry'  BY <1>2 DEF Acquire
  <2>3. Numbers' /\ Keys'  BY <1>2 DEF Acquire
  <2>4. Requests'  BY <1>2 DEF Acquire
  <2>5. QED  BY <2>1, <2>2, <2>3, <2>4
<1>3. ASSUME Preempt(r) PROVE Shape'
  BY <1>3 DEF Preempt
<1>4. ASSUME Handoff(r) PROVE Shape'
  <2>1. Flags'  BY <1>4 DEF Handoff, Leave, Kind, Entry
  <2>2. Numbers' /\ PoolEntry' /\ Keys'  BY <1>4 DEF Handoff, Leave, Kind, Entry
  <2>3. Requests'  BY <1>4, RequestGoes DEF Handoff
  <2>4. QED  BY <2>1, <2>2, <2>3
<1>5. ASSUME Abandon(r) PROVE Shape'
  BY <1>5 DEF Abandon, Discard, GiveBack
<1>6. ASSUME Reserve(r) PROVE Shape'
  <2>1. Flags'  BY <1>6 DEF Reserve, Leave, Kind
  <2>2. Numbers' /\ PoolEntry' /\ Keys'  BY <1>6 DEF Reserve, Leave, Kind
  <2>3. Requests'  BY <1>6, RequestGoes DEF Reserve
  <2>4. QED  BY <2>1, <2>2, <2>3
<1>7. ASSUME Create(r) PROVE Shape'
  <2>1. Flags'  BY <1>7 DEF Create, GiveBack, Leave, Kind, Entry
  <2>2. PoolEntry'  BY <1>7 DEF Create, GiveBack, Leave, Kind, Entry
  <2>3. Numbers' /\ Keys'  BY <1>7 DEF Create, GiveBack, Leave, Kind, Entry
  <2>4. Requests'  BY <1>7, RequestGoes DEF Create
  <2>5. QED  BY <2>1, <2>2, <2>3, <2>4
<1>8. ASSUME Move(r) PROVE Shape'
  BY <1>8 DEF Move, Entry
<1>9. ASSUME Open(r) PROVE Shape'
  BY <1>9 DEF Open
<1>10. ASSUME OpenFails(r) PROVE Shape'
  <2>1. Flags'  BY <1>10 DEF OpenFails, Discard, GiveBack, Leave, Kind
  <2>2. Numbers' /\ PoolEntry' /\ Keys'  BY <1>10 DEF OpenFails, Discard, GiveBack, Leave, Kind
  <2>3. Requests'  BY <1>10, RequestGoes DEF OpenFails, Discard
  <2>4. QED  BY <2>1, <2>2, <2>3
<1>11. ASSUME OutOfRange(r) PROVE Shape'
  BY <1>11 DEF OutOfRange
<1>12. ASSUME Start(r) PROVE Shape'
  BY <1>12 DEF Start
<1>13. ASSUME End(r) PROVE Shape'
  BY <1>13 DEF End
<1>14. ASSUME CheckStop(r) PROVE Shape'
  BY <1>14 DEF CheckStop, StopsIt
<1>15. ASSUME CheckNewer(r) PROVE Shape'
  <2>1. Flags'  BY <1>15 DEF CheckNewer, Leave, Kind
  <2>2. Numbers' /\ PoolEntry' /\ Keys'  BY <1>15 DEF CheckNewer, Leave, Kind
  <2>3. Requests'  BY <1>15, RequestGoes DEF CheckNewer
  <2>4. QED  BY <2>1, <2>2, <2>3
<1>16. ASSUME Release(r) PROVE Shape'
  BY <1>16 DEF Release, GiveBack
<1>17. ASSUME MarkIdle(r) PROVE Shape'
  BY <1>17 DEF MarkIdle, Leave, Kind, Entry
<1>18. QED  BY <1>1, <1>2, <1>3, <1>4, <1>5, <1>6, <1>7, <1>8, <1>9, <1>10, <1>11, <1>12,
       <1>13, <1>14, <1>15, <1>16, <1>17 DEF Serves, Streams

\* A step of the rest of the world.
LEMMA WorldShape ==
  ASSUME Shape, World
  PROVE  Shape'
<1> USE DEF Shape, Numbers, Flags, PoolEntry, Keys, Requests, Set, Goto, Terminal, Place, pool,
       keys, viewer, request, counts, ghosts
<1>1. ASSUME GraceEnds PROVE Shape'
  <2>1. Flags'  BY <1>1 DEF GraceEnds
  <2>2. Numbers' /\ PoolEntry' /\ Keys'  BY <1>1 DEF GraceEnds
  <2>3. Requests'  BY <1>1 DEF GraceEnds
  <2>4. QED  BY <2>1, <2>2, <2>3
<1>2. ASSUME StopClient PROVE Shape'
  BY <1>2 DEF StopClient
<1>3. ASSUME EntryExpires PROVE Shape'
  BY <1>3 DEF EntryExpires
<1>4. ASSUME OtherStarts PROVE Shape'
  BY <1>4 DEF OtherStarts
<1>5. ASSUME OtherEnds PROVE Shape'
  BY <1>5 DEF OtherEnds, GiveBack
<1>6. ASSUME NEW m \in Media, StopExpires(m) PROVE Shape'
  BY <1>6 DEF StopExpires
<1>7. QED  BY <1>1, <1>2, <1>3, <1>4, <1>5, <1>6 DEF World

(***************************************************************************)
(* One request in the entry                                                 *)
(***************************************************************************)
\* A request makes the entry when there is none, and takes it when it is idle: nobody is
\* in it then. Who goes on without it asks a stream to stop first.
LEMMA ServedAlone ==
  ASSUME Shape, OneInEntry, NEW r \in Request, Serves(r) \/ Streams(r)
  PROVE  OneInEntry'
<1> USE DEF OneInEntry, InEntry, Shape, PoolEntry, Requests, Set, Goto, Terminal, Place, pool,
       keys, viewer, request, counts, ghosts
<1>1. ASSUME NEW m \in Media, NEW k \in Kind, Serve(r, m, k) PROVE OneInEntry'
  BY <1>1 DEF Serve
<1>2. ASSUME Acquire(r) PROVE OneInEntry'
  BY <1>2 DEF Acquire
<1>3. ASSUME Preempt(r) PROVE OneInEntry'
  BY <1>3 DEF Preempt
<1>4. ASSUME Handoff(r) PROVE OneInEntry'
  BY <1>4 DEF Handoff, Leave, Entry
<1>5. ASSUME Abandon(r) PROVE OneInEntry'
  BY <1>5 DEF Abandon, Discard
<1>6. ASSUME Reserve(r) PROVE OneInEntry'
  BY <1>6 DEF Reserve, Leave
<1>7. ASSUME Create(r) PROVE OneInEntry'
  <2>1. CASE Entry
    BY <1>7, <2>1 DEF Create, Leave
  <2>2. CASE ~Entry
    <3>1. ~preempted => \A q \in Request : at[q] \notin InEntry
      BY <2>2 DEF Entry
    <3>2. QED  BY <1>7, <2>2, <3>1 DEF Create
  <2>3. QED  BY <2>1, <2>2
<1>8. ASSUME Move(r) PROVE OneInEntry'
  BY <1>8 DEF Move, Entry
<1>9. ASSUME Open(r) PROVE OneInEntry'
  BY <1>9 DEF Open
<1>10. ASSUME OpenFails(r) PROVE OneInEntry'
  BY <1>10 DEF OpenFails, Discard, Leave
<1>11. ASSUME OutOfRange(r) PROVE OneInEntry'
  BY <1>11 DEF OutOfRange
<1>12. ASSUME Start(r) PROVE OneInEntry'
  BY <1>12 DEF Start
<1>13. ASSUME End(r) PROVE OneInEntry'
  BY <1>13 DEF End
<1>14. ASSUME CheckStop(r) PROVE OneInEntry'
  BY <1>14 DEF CheckStop, StopsIt
<1>15. ASSUME CheckNewer(r) PROVE OneInEntry'
  BY <1>15 DEF CheckNewer, Leave
<1>16. ASSUME Release(r) PROVE OneInEntry'
  BY <1>16 DEF Release
<1>17. ASSUME MarkIdle(r) PROVE OneInEntry'
  BY <1>17 DEF MarkIdle, Leave, Entry
<1>18. QED  BY <1>1, <1>2, <1>3, <1>4, <1>5, <1>6, <1>7, <1>8, <1>9, <1>10, <1>11, <1>12,
       <1>13, <1>14, <1>15, <1>16, <1>17 DEF Serves, Streams

\* A busy entry does not expire.
LEMMA WorldAlone ==
  ASSUME Shape, OneInEntry, World
  PROVE  OneInEntry'
<1> USE DEF OneInEntry, InEntry, Shape, PoolEntry, Requests, Set, Goto, Terminal, Place, pool,
       keys, viewer, request, counts, ghosts
<1>1. ASSUME GraceEnds PROVE OneInEntry'
  BY <1>1 DEF GraceEnds
<1>2. ASSUME StopClient PROVE OneInEntry'
  BY <1>2 DEF StopClient
<1>3. ASSUME EntryExpires PROVE OneInEntry'
  BY <1>3 DEF EntryExpires
<1>4. ASSUME OtherStarts PROVE OneInEntry'
  BY <1>4 DEF OtherStarts
<1>5. ASSUME OtherEnds PROVE OneInEntry'
  BY <1>5 DEF OtherEnds
<1>6. ASSUME NEW m \in Media, StopExpires(m) PROVE OneInEntry'
  BY <1>6 DEF StopExpires
<1>7. QED  BY <1>1, <1>2, <1>3, <1>4, <1>5, <1>6 DEF World

\* Who starts a stream is alone, so no newer generation than its own comes before it ends.
LEMMA ServedKeeps ==
  ASSUME Shape, OneInEntry, NotDisplaced, NEW r \in Request, Serves(r) \/ Streams(r)
  PROVE  NotDisplaced'
<1> USE DEF NotDisplaced, OneInEntry, InEntry, Shape, Keys, Requests, Set, Goto, Terminal,
       Place, pool, keys, viewer, request, counts, ghosts
<1>1. ASSUME NEW m \in Media, NEW k \in Kind, Serve(r, m, k) PROVE NotDisplaced'
  BY <1>1 DEF Serve
<1>2. ASSUME Acquire(r) PROVE NotDisplaced'
  BY <1>2 DEF Acquire
<1>3. ASSUME Preempt(r) PROVE NotDisplaced'
  BY <1>3 DEF Preempt
<1>4. ASSUME Handoff(r) PROVE NotDisplaced'
  BY <1>4 DEF Handoff, Leave
<1>5. ASSUME Abandon(r) PROVE NotDisplaced'
  BY <1>5 DEF Abandon, Discard
<1>6. ASSUME Reserve(r) PROVE NotDisplaced'
  BY <1>6 DEF Reserve, Leave
<1>7. ASSUME Create(r) PROVE NotDisplaced'
  BY <1>7 DEF Create, Leave
<1>8. ASSUME Move(r) PROVE NotDisplaced'
  BY <1>8 DEF Move
<1>9. ASSUME Open(r) PROVE NotDisplaced'
  BY <1>9 DEF Open
<1>10. ASSUME OpenFails(r) PROVE NotDisplaced'
  BY <1>10 DEF OpenFails, Discard, Leave
<1>11. ASSUME OutOfRange(r) PROVE NotDisplaced'
  BY <1>11 DEF OutOfRange
<1>12. ASSUME Start(r) PROVE NotDisplaced'
  BY <1>12 DEF Start
<1>13. ASSUME End(r) PROVE NotDisplaced'
  BY <1>13 DEF End
<1>14. ASSUME CheckStop(r) PROVE NotDisplaced'
  BY <1>14 DEF CheckStop, StopsIt
<1>15. ASSUME CheckNewer(r) PROVE NotDisplaced'
  BY <1>15 DEF CheckNewer, Leave
<1>16. ASSUME Release(r) PROVE NotDisplaced'
  BY <1>16 DEF Release
<1>17. ASSUME MarkIdle(r) PROVE NotDisplaced'
  BY <1>17 DEF MarkIdle, Leave
<1>18. QED  BY <1>1, <1>2, <1>3, <1>4, <1>5, <1>6, <1>7, <1>8, <1>9, <1>10, <1>11, <1>12,
       <1>13, <1>14, <1>15, <1>16, <1>17 DEF Serves, Streams

\* Stops that are not for reuse displace no stream.
LEMMA WorldKeeps ==
  ASSUME Shape, OneInEntry, NotDisplaced, World
  PROVE  NotDisplaced'
<1> USE DEF NotDisplaced, OneInEntry, InEntry, Shape, Keys, Requests, Set, Goto, Terminal,
       Place, pool, keys, viewer, request, counts, ghosts
<1>1. ASSUME GraceEnds PROVE NotDisplaced'
  BY <1>1 DEF GraceEnds
<1>2. ASSUME StopClient PROVE NotDisplaced'
  BY <1>2 DEF StopClient
<1>3. ASSUME EntryExpires PROVE NotDisplaced'
  BY <1>3 DEF EntryExpires
<1>4. ASSUME OtherStarts PROVE NotDisplaced'
  BY <1>4 DEF OtherStarts
<1>5. ASSUME OtherEnds PROVE NotDisplaced'
  BY <1>5 DEF OtherEnds
<1>6. ASSUME NEW m \in Media, StopExpires(m) PROVE NotDisplaced'
  BY <1>6 DEF StopExpires
<1>7. QED  BY <1>1, <1>2, <1>3, <1>4, <1>5, <1>6 DEF World

(***************************************************************************)
(* The counter                                                              *)
(***************************************************************************)
\* Each step counts the slot with the request that owns it, or neither.
LEMMA ServedExact ==
  ASSUME Shape, OneInEntry, NotDisplaced, Exact, NEW r \in Request, Serves(r) \/ Streams(r)
  PROVE  Exact'
<1> USE DEF Exact, Holding, Shape, Numbers, Requests, Terminal, Place, pool, keys, viewer,
       request, counts, ghosts
<1>1. ASSUME NEW m \in Media, NEW k \in Kind, Serve(r, m, k) PROVE Exact'
  BY <1>1, HeldMoves DEF Serve
<1>2. ASSUME Acquire(r) PROVE Exact'
  BY <1>2, HeldMoves DEF Acquire
<1>3. ASSUME Preempt(r) PROVE Exact'
  BY <1>3 DEF Preempt
<1>4. ASSUME Handoff(r) PROVE Exact'
  BY <1>4 DEF OneInEntry, Handoff, Leave
<1>5. ASSUME Abandon(r) PROVE Exact'
  BY <1>5 DEF OneInEntry, Abandon, Discard, GiveBack
<1>6. ASSUME Reserve(r) PROVE Exact'
  <2>1. CASE slots < Limit
    <3>1. Goto(r, "create")  BY <1>6, <2>1 DEF Reserve
    <3>2. QED  BY <1>6, <2>1, <3>1, HeldMoves DEF Reserve
  <2>2. CASE ~(slots < Limit)
    <3>1. Goto(r, "away")  BY <1>6, <2>2 DEF Reserve, Leave
    <3>2. QED  BY <1>6, <2>2, <3>1, HeldMoves DEF Reserve
  <2>3. QED  BY <2>1, <2>2
<1>7. ASSUME Create(r) PROVE Exact'
  <2>1. CASE Entry
    <3>1. Goto(r, "away")  BY <1>7, <2>1 DEF Create, Leave
    <3>2. QED  BY <1>7, <2>1, <3>1, HeldMoves DEF Create, GiveBack
  <2>2. CASE ~Entry
    <3>1. Goto(r, "open")  BY <1>7, <2>2 DEF Create
    <3>2. QED  BY <1>7, <2>2, <3>1, HeldMoves DEF Create, GiveBack
  <2>3. QED  BY <2>1, <2>2
<1>8. ASSUME Move(r) PROVE Exact'
  BY <1>8, HeldMoves DEF Move
<1>9. ASSUME Open(r) PROVE Exact'
  BY <1>9, HeldMoves DEF Open
<1>10. ASSUME OpenFails(r) PROVE Exact'
  <2>1. CASE Leave(r)
    <3>1. Goto(r, "away")  BY <2>1 DEF Leave
    <3>2. QED  BY <1>10, <3>1, HeldMoves DEF OpenFails, Discard, GiveBack
  <2>2. CASE Goto(r, "reserve")
    BY <1>10, <2>2, HeldMoves DEF OpenFails, Discard, GiveBack
  <2>3. QED  BY <1>10, <2>1, <2>2 DEF OpenFails
<1>11. ASSUME OutOfRange(r) PROVE Exact'
  BY <1>11, HeldMoves DEF OutOfRange
<1>12. ASSUME Start(r) PROVE Exact'
  BY <1>12, HeldMoves DEF Start
<1>13. ASSUME End(r) PROVE Exact'
  BY <1>13, HeldMoves DEF End
<1>14. ASSUME CheckStop(r) PROVE Exact'
  BY <1>14, HeldMoves DEF CheckStop, StopsIt
<1>15. ASSUME CheckNewer(r) PROVE Exact'
  <2>1. preempted' = preempted  BY <1>15 DEF CheckNewer
  <2>2. ~preempted => Goto(r, "release")  BY <1>15 DEF CheckNewer, NotDisplaced, Keys
  <2>3. ~preempted => UNCHANGED <<slots, others>>  BY <1>15 DEF CheckNewer
  <2>4. ~preempted => Cardinality(Held') = Cardinality(Held)
    BY <1>15, <2>2, HeldMoves DEF CheckNewer
  <2>5. QED  BY <2>1, <2>3, <2>4
<1>16. ASSUME Release(r) PROVE Exact'
  BY <1>16, HeldMoves DEF Release, GiveBack
<1>17. ASSUME MarkIdle(r) PROVE Exact'
  BY <1>17, HeldMoves DEF MarkIdle, Leave
<1>18. QED  BY <1>1, <1>2, <1>3, <1>4, <1>5, <1>6, <1>7, <1>8, <1>9, <1>10, <1>11, <1>12,
       <1>13, <1>14, <1>15, <1>16, <1>17 DEF Serves, Streams

\* Other viewers give back what they have.
LEMMA WorldExact ==
  ASSUME Shape, Exact, World
  PROVE  Exact'
<1> USE DEF Exact, Holding, Shape, Numbers, Requests, Terminal, Place, pool, keys, viewer,
       request, counts, ghosts
<1>1. ASSUME GraceEnds PROVE Exact'
  BY <1>1 DEF Held, Holds, GraceEnds
<1>2. ASSUME StopClient PROVE Exact'
  BY <1>2 DEF Held, Holds, StopClient
<1>3. ASSUME EntryExpires PROVE Exact'
  BY <1>3 DEF Held, Holds, EntryExpires
<1>4. ASSUME OtherStarts PROVE Exact'
  <2>1. Held' = Held /\ Cardinality(Held) \in Nat
    BY <1>4, FS_Subset, FS_CardinalityType DEF Held, Holds, OtherStarts
  <2>2. QED  BY <1>4, <2>1 DEF OtherStarts
<1>5. ASSUME OtherEnds PROVE Exact'
  <2>1. Held' = Held /\ Cardinality(Held) \in Nat
    BY <1>5, FS_Subset, FS_CardinalityType DEF Held, Holds, OtherEnds
  <2>2. QED  BY <1>5, <2>1 DEF OtherEnds, GiveBack
<1>6. ASSUME NEW m \in Media, StopExpires(m) PROVE Exact'
  BY <1>6 DEF Held, Holds, StopExpires
<1>7. QED  BY <1>1, <1>2, <1>3, <1>4, <1>5, <1>6 DEF World

(***************************************************************************)
(* What is left in the end                                                  *)
(***************************************************************************)
\* The requests that have reserved a slot for an entry they have yet to make.
Creating == {r \in Request : at[r] = "create"}
Busy == busy = TRUE
Unowned == slots - others - Cardinality(Creating)

\* A stream that ends without giving a slot back.
Displaced(r) ==
  \/ at[r] = "newer" /\ reuse[r]
  \/ at[r] \in {"play", "ended"} /\ StopsIt(r) /\ stop[want[r]] # Terminal
  \/ mine[r] < generation[want[r]]

\* A request that gives a slot back as things are.
Keeper(r) ==
  \/ at[r] \in {"handoff", "move", "open", "start", "release"}
  \/ at[r] \in {"play", "ended", "newer"} /\ ~Displaced(r)
SomeKeeper == \E r \in Request : Keeper(r)
SomeInside == \E r \in Request : Keeper(r) \/ at[r] = "idle"

\* Besides those of entries to come the session has at most one slot, that of a busy
\* entry, and somebody to give it back; who has done so has yet to mark the entry idle.
Kept ==
  ~late =>
    /\ Unowned <= IF Busy THEN 1 ELSE 0
    /\ Unowned > 0 => SomeKeeper
    /\ Busy => SomeInside

\* No stream is displaced that was not.
Same(r) == at'[r] = at[r] /\ want'[r] = want[r] /\ mine'[r] = mine[r] /\ reuse'[r] = reuse[r]
Quieter ==
  \A m \in Media : generation'[m] <= generation[m] /\ stop'[m] \in {stop[m], 0, Terminal}

LEMMA CreatingCounted == Cardinality(Creating) \in Nat
BY FS_Subset, FS_CardinalityType DEF Creating

LEMMA UnownedCounted == ASSUME Numbers PROVE Unowned \in Int
BY CreatingCounted DEF Unowned, Numbers

\* A request that goes to "create" is one more of them.
LEMMA CreatingMoves ==
  ASSUME at \in [Request -> Place], NEW r \in Request, NEW l \in Place, Goto(r, l)
  PROVE  Cardinality(Creating') = Cardinality(Creating) + (IF l = "create" THEN 1 ELSE 0)
                                    - (IF at[r] = "create" THEN 1 ELSE 0)
<1>1. IsFiniteSet(Creating)
  BY FS_Subset DEF Creating
<1>2. CASE l = "create"
  <2>1. Creating' = Creating \cup {r}
    BY <1>2 DEF Creating, Goto, Set
  <2>2. Cardinality(Creating') =
          IF r \in Creating THEN Cardinality(Creating) ELSE Cardinality(Creating) + 1
    BY <1>1, <2>1, FS_AddElement
  <2>3. QED  BY <1>2, <2>2, CreatingCounted DEF Creating
<1>3. CASE l # "create"
  <2>1. Creating' = Creating \ {r}
    BY <1>3 DEF Creating, Goto, Set
  <2>2. Cardinality(Creating') =
          IF r \in Creating THEN Cardinality(Creating) - 1 ELSE Cardinality(Creating)
    BY <1>1, <2>1, FS_RemoveElement
  <2>3. QED  BY <1>3, <2>2, CreatingCounted DEF Creating
<1>4. QED  BY <1>2, <1>3

LEMMA CreatingStays ==
  ASSUME UNCHANGED at
  PROVE  Cardinality(Creating') = Cardinality(Creating)
<1>1. Creating' = Creating
  BY DEF Creating
<1>2. QED  BY <1>1

\* Who is not displaced by a step of another goes on to give a slot back.
LEMMA KeeperStays ==
  ASSUME Keys, Keys', Requests, NEW r \in Request, Same(r), Quieter, Keeper(r)
  PROVE  Keeper(r)'
<1>1. CASE at[r] \in {"handoff", "move", "open", "start", "release"}
  BY <1>1 DEF Keeper, Same
<1>2. CASE at[r] \in {"play", "ended", "newer"} /\ ~Displaced(r)
  <2>1. want[r] \in Media /\ mine[r] \in Nat
    BY <1>2 DEF Requests
  <2>2. ~(mine'[r] < generation'[want'[r]])
    BY <1>2, <2>1 DEF Same, Quieter, Displaced, Keys
  <2>3. at[r] \in {"play", "ended"} => ~(StopsIt(r)' /\ stop'[want'[r]] # Terminal)
    BY <1>2, <2>1 DEF Same, Quieter, Displaced, Keys, StopsIt, Terminal
  <2>4. ~(at'[r] = "newer" /\ reuse'[r])
    BY <1>2 DEF Same, Displaced
  <2>5. QED  BY <1>2, <2>2, <2>3, <2>4 DEF Keeper, Displaced, Same
<1>3. QED  BY <1>1, <1>2 DEF Keeper

LEMMA KeepersStay ==
  ASSUME Keys, Keys', Requests, NEW r \in Request, \A q \in Request \ {r} : Same(q), Quieter,
         Keeper(r) => Keeper(r)'
  PROVE  /\ SomeKeeper => SomeKeeper'
         /\ SomeInside /\ at[r] # "idle" => SomeInside'
<1>1. \A q \in Request : Keeper(q) => Keeper(q)'
  BY KeeperStays
<1>2. QED  BY <1>1 DEF SomeKeeper, SomeInside, Same

\* A step that moves no slot, and after which somebody gives back what is reserved.
LEMMA KeptGoes ==
  ASSUME Kept, UNCHANGED <<slots, others, busy, late>>,
         Cardinality(Creating') = Cardinality(Creating),
         SomeKeeper => SomeKeeper', SomeInside => SomeInside'
  PROVE  Kept'
<1>1. Unowned' = Unowned /\ Busy' = Busy
  BY DEF Unowned, Busy
<1>2. QED  BY <1>1 DEF Kept

\* A step that gives a slot back and removes the entry.
LEMMA KeptDiscarded ==
  ASSUME Numbers, PoolEntry, Kept, Discard, UNCHANGED <<others, late>>,
         Cardinality(Creating') = Cardinality(Creating)
  PROVE  Kept'
<1>1. Unowned <= 1 => Unowned' <= 0
  BY CreatingCounted DEF Unowned, Discard, GiveBack, Numbers
<1>2. ~Busy'
  BY DEF Discard, Busy
<1>3. ~late => Unowned <= 1
  BY UnownedCounted DEF Kept
<1>4. Unowned' \in Int
  BY CreatingCounted DEF Unowned, Discard, GiveBack, Numbers
<1>5. QED  BY <1>1, <1>2, <1>3, <1>4 DEF Kept

\* A step of a request.
LEMMA ServedKept ==
  ASSUME Shape, Shape', Kept, NEW r \in Request, Serves(r) \/ Streams(r)
  PROVE  Kept'
<1> USE DEF Shape, Place
<1> DEFINE Others == \A q \in Request \ {r} : Same(q)
<1>a. at \in [Request -> Place] /\ Cardinality(Creating) \in Nat /\ slots \in Nat /\ others \in Nat
  BY CreatingCounted DEF Requests, Numbers, Goto, Set
<1>b. UNCHANGED keys => Quieter
  BY DEF keys, Quieter, Keys
<1>1. ASSUME NEW m \in Media, NEW k \in Kind, Serve(r, m, k) PROVE Kept'
  <2>1. Others
    BY <1>1 DEF Serve, Same, Requests, Goto, Set
  <2>2. Quieter
    BY <1>1, <1>b DEF Serve
  <2>3. ~Keeper(r) /\ at[r] # "idle"
    BY <1>1 DEF Serve, Keeper, Goto, Set
  <2>4. Cardinality(Creating') = Cardinality(Creating)
    BY <1>1, <1>a, CreatingMoves DEF Serve
  <2>5. QED  BY <1>1, <2>1, <2>2, <2>3, <2>4, KeepersStay, KeptGoes DEF Serve, pool, ghosts
<1>2. ASSUME Acquire(r) PROVE Kept'
  <2>1. Cardinality(Creating') = Cardinality(Creating)
    BY <1>2, <1>a, CreatingMoves DEF Acquire
  <2>2. CASE busy = FALSE /\ slots < Limit
    <3>1. Keeper(r)'
      BY <1>2, <2>2 DEF Acquire, Keeper, Requests, Goto, Set
    <3>2. Unowned' = Unowned + 1 /\ Unowned \in Int
      BY <1>2, <1>a, <2>1, <2>2 DEF Acquire, Unowned
    <3>3. ~Busy /\ Busy'
      BY <1>2, <2>2 DEF Acquire, Busy
    <3>4. QED  BY <1>2, <3>1, <3>2, <3>3 DEF Acquire, Kept, ghosts, SomeKeeper, SomeInside
  <2>3. CASE ~(busy = FALSE /\ slots < Limit)
    <3>1. Others /\ Quieter /\ ~Keeper(r) /\ at[r] # "idle"
      BY <1>2, <1>b, <2>3 DEF Acquire, Same, Keeper, Requests, request, Goto, Set
    <3>2. QED  BY <1>2, <2>1, <2>3, <3>1, KeepersStay, KeptGoes DEF Acquire, ghosts
  <2>4. QED  BY <2>2, <2>3
<1>3. ASSUME Preempt(r) PROVE Kept'
  <2>1. Keeper(r)'
    BY <1>3 DEF Preempt, Keeper, Requests, Goto, Set
  <2>2. Cardinality(Creating') = Cardinality(Creating)
    BY <1>3, <1>a, CreatingMoves DEF Preempt
  <2>3. QED  BY <1>3, <2>1, <2>2, KeptGoes DEF Preempt, pool, SomeKeeper, SomeInside
<1>4. ASSUME Handoff(r) PROVE Kept'
  <2>1. \A l \in {"move", "abandon", "away"} : Goto(r, l) =>
          Cardinality(Creating') = Cardinality(Creating)
    BY <1>4, <1>a, CreatingMoves DEF Handoff
  <2>2. CASE Entry
    <3>1. Goto(r, "move") /\ Busy'
      BY <1>4, <2>2 DEF Handoff, Busy
    <3>2. Keeper(r)'
      BY <3>1 DEF Keeper, Requests, Goto, Set
    <3>3. Cardinality(Creating') = Cardinality(Creating)
      BY <2>1, <3>1
    <3>4. ~late => Unowned <= 1
      BY UnownedCounted DEF Kept
    <3>5. Unowned' = Unowned
      BY <1>4, <3>3 DEF Handoff, Unowned
    <3>6. QED  BY <1>4, <3>1, <3>2, <3>4, <3>5 DEF Handoff, Kept, ghosts, SomeKeeper, SomeInside
  <2>3. CASE ~Entry
    <3>1. Goto(r, "abandon") \/ Goto(r, "away")
      BY <1>4, <2>3 DEF Handoff, Leave
    <3>2. Cardinality(Creating') = Cardinality(Creating)
      BY <2>1, <3>1
    <3>3. ~Busy' /\ ~Busy
      BY <1>4, <2>3 DEF Handoff, Entry, Busy
    <3>4. Unowned' = Unowned /\ Unowned \in Int
      BY <1>4, <3>2, UnownedCounted DEF Handoff, Unowned
    <3>5. QED  BY <1>4, <3>3, <3>4 DEF Handoff, Kept, ghosts
  <2>4. QED  BY <2>2, <2>3
<1>5. ASSUME Abandon(r) PROVE Kept'
  <2>1. Cardinality(Creating') = Cardinality(Creating)
    BY <1>5, <1>a, CreatingMoves DEF Abandon
  <2>2. QED  BY <1>5, <2>1, KeptDiscarded DEF Abandon, ghosts
<1>6. ASSUME Reserve(r) PROVE Kept'
  <2>1. Others /\ Quieter /\ ~Keeper(r) /\ at[r] # "idle"
    BY <1>6, <1>b DEF Reserve, Leave, Same, Keeper, Requests, request, Goto, Set
  <2>2. (SomeKeeper => SomeKeeper') /\ (SomeInside => SomeInside')
    BY <2>1, KeepersStay
  <2>3. Unowned' = Unowned
    <3>1. CASE slots < Limit
      <4>1. slots' = slots + 1 /\ others' = others /\ Goto(r, "create") /\ at[r] = "reserve"
        BY <1>6, <3>1 DEF Reserve, Numbers
      <4>2. Cardinality(Creating') = Cardinality(Creating) + 1
        BY <1>a, <4>1, CreatingMoves
      <4>3. QED  BY <1>a, <4>1, <4>2 DEF Unowned
    <3>2. CASE ~(slots < Limit)
      <4>1. slots' = slots /\ others' = others /\ Goto(r, "away") /\ at[r] = "reserve"
        BY <1>6, <3>2 DEF Reserve, Leave, Numbers
      <4>2. Cardinality(Creating') = Cardinality(Creating)
        BY <1>a, <4>1, CreatingMoves
      <4>3. QED  BY <4>1, <4>2 DEF Unowned
    <3>3. QED  BY <3>1, <3>2
  <2>4. QED  BY <1>6, <2>2, <2>3 DEF Reserve, Kept, Busy, pool, ghosts
<1>7. ASSUME Create(r) PROVE Kept'
  <2>1. CASE Entry
    <3>1. Others /\ Quieter /\ ~Keeper(r) /\ at[r] # "idle"
      BY <1>7, <1>b, <2>1 DEF Create, Leave, Same, Keeper, Requests, Goto, Set
    <3>2. (SomeKeeper => SomeKeeper') /\ (SomeInside => SomeInside')
      BY <3>1, KeepersStay
    <3>3. GiveBack /\ others' = others /\ Goto(r, "away") /\ at[r] = "create"
      BY <1>7, <2>1 DEF Create, Leave
    <3>4. Cardinality(Creating') = Cardinality(Creating) - 1 /\ Cardinality(Creating') \in Nat
      BY <1>a, <3>3, CreatingMoves, CreatingCounted, FS_Subset, FS_CardinalityType DEF Creating
    <3>5. Unowned' = Unowned \/ Unowned' <= 0
      BY <1>a, <3>3, <3>4 DEF Unowned, GiveBack
    <3>6. Unowned' \in Int /\ Unowned \in Int
      BY <1>a, <3>3, <3>4 DEF Unowned, GiveBack
    <3>7. QED  BY <1>7, <2>1, <3>2, <3>5, <3>6 DEF Create, Kept, Busy, pool, ghosts
  <2>2. CASE ~Entry
    <3>1. slots' = slots /\ others' = others /\ Goto(r, "open") /\ at[r] = "create" /\ late' = late
      BY <1>7, <2>2 DEF Create, ghosts
    <3>2. Cardinality(Creating') = Cardinality(Creating) - 1
      BY <1>a, <3>1, CreatingMoves
    <3>3. ~Busy /\ Busy'
      BY <1>7, <2>2 DEF Create, Entry, Busy
    <3>4. Keeper(r)'
      BY <3>1, <1>a DEF Keeper, Goto, Set
    <3>5. Unowned' = Unowned + 1 /\ Unowned \in Int
      BY <1>a, <3>1, <3>2 DEF Unowned
    <3>6. QED  BY <3>1, <3>3, <3>4, <3>5 DEF Kept, SomeKeeper, SomeInside
  <2>3. QED  BY <2>1, <2>2
<1>8. ASSUME Move(r) PROVE Kept'
  <2>1. Keeper(r)'
    BY <1>8 DEF Move, Keeper, Requests, Goto, Set
  <2>2. Cardinality(Creating') = Cardinality(Creating)
    BY <1>8, <1>a, CreatingMoves DEF Move
  <2>3. QED  BY <1>8, <2>1, <2>2, KeptGoes DEF Move, ghosts, SomeKeeper, SomeInside
<1>9. ASSUME Open(r) PROVE Kept'
  <2>1. Keeper(r)'
    BY <1>9 DEF Open, Keeper, Requests, Goto, Set
  <2>2. Cardinality(Creating') = Cardinality(Creating)
    BY <1>9, <1>a, CreatingMoves DEF Open
  <2>3. QED  BY <1>9, <2>1, <2>2, KeptGoes DEF Open, pool, ghosts, SomeKeeper, SomeInside
<1>10. ASSUME OpenFails(r) PROVE Kept'
  <2>1. Goto(r, "reserve") \/ Goto(r, "away")
    BY <1>10 DEF OpenFails, Leave
  <2>2. Cardinality(Creating') = Cardinality(Creating)
    BY <1>10, <1>a, <2>1, CreatingMoves DEF OpenFails
  <2>3. QED  BY <1>10, <2>2, KeptDiscarded DEF OpenFails, ghosts
<1>11. ASSUME OutOfRange(r) PROVE Kept'
  <2>1. Keeper(r)'
    BY <1>11 DEF OutOfRange, Keeper, Requests, Goto, Set
  <2>2. Cardinality(Creating') = Cardinality(Creating)
    BY <1>11, <1>a, CreatingMoves DEF OutOfRange
  <2>3. QED  BY <1>11, <2>1, <2>2, KeptGoes DEF OutOfRange, pool, ghosts, SomeKeeper, SomeInside
<1>12. ASSUME Start(r) PROVE Kept'
  <2>1. want[r] \in Media /\ mine'[r] = generation'[want'[r]] /\ stop'[want'[r]] = 0
    BY <1>12 DEF Start, Requests, Keys, Goto, Set
  <2>2. mine'[r] \in Nat /\ at'[r] = "play"
    BY <1>12 DEF Start, Requests, Goto, Set
  <2>3. Keeper(r)'
    BY <2>1, <2>2 DEF Keeper, Displaced, StopsIt, Terminal, Goto, Set
  <2>4. Cardinality(Creating') = Cardinality(Creating)
    BY <1>12, <1>a, CreatingMoves DEF Start
  <2>5. QED  BY <1>12, <2>3, <2>4, KeptGoes DEF Start, pool, ghosts, SomeKeeper, SomeInside
<1>13. ASSUME End(r) PROVE Kept'
  <2>1. Others /\ Quieter /\ at[r] # "idle"
    BY <1>13, <1>b DEF End, Same, Requests, request, Goto, Set
  <2>2. Keeper(r) => Keeper(r)'
    BY <1>13 DEF End, Keeper, Displaced, StopsIt, Requests, keys, request, Goto, Set
  <2>3. Cardinality(Creating') = Cardinality(Creating)
    BY <1>13, <1>a, CreatingMoves DEF End
  <2>4. QED  BY <1>13, <2>1, <2>2, <2>3, KeepersStay, KeptGoes DEF End, pool, ghosts
<1>14. ASSUME CheckStop(r) PROVE Kept'
  <2>1. Others /\ Quieter /\ at[r] # "idle"
    BY <1>14 DEF CheckStop, Same, Quieter, Requests, Keys, Goto, Set
  <2>2. Keeper(r) => Keeper(r)'
    <3>1. SUFFICES ASSUME Keeper(r) PROVE Keeper(r)'
      OBVIOUS
    <3>2. ~Displaced(r) /\ at[r] = "ended" /\ at'[r] = "newer"
      BY <1>14, <3>1 DEF CheckStop, Keeper, Requests, Goto, Set
    <3>3. ~(StopsIt(r) /\ stop[want[r]] # Terminal) /\ ~(mine[r] < generation[want[r]])
      BY <3>2 DEF Displaced
    <3>4. reuse'[r] = FALSE
      BY <1>14, <3>3 DEF CheckStop, Requests, Goto, Set
    <3>5. ~(mine'[r] < generation'[want'[r]])
      BY <1>14, <3>3 DEF CheckStop
    <3>6. QED  BY <3>2, <3>4, <3>5 DEF Keeper, Displaced
  <2>3. Cardinality(Creating') = Cardinality(Creating)
    BY <1>14, <1>a, CreatingMoves DEF CheckStop
  <2>4. QED  BY <1>14, <2>1, <2>2, <2>3, KeepersStay, KeptGoes DEF CheckStop, pool, ghosts
<1>15. ASSUME CheckNewer(r) PROVE Kept'
  <2>1. Others /\ Quieter /\ at[r] = "newer"
    BY <1>15 DEF CheckNewer, Leave, Same, Quieter, Requests, Keys, request, Goto, Set
  <2>2. Keeper(r) => Keeper(r)'
    <3>1. SUFFICES ASSUME Keeper(r) PROVE Keeper(r)'
      OBVIOUS
    <3>2. ~reuse[r] /\ ~(mine[r] < generation[want[r]])
      BY <2>1, <3>1 DEF Keeper, Displaced, Goto, Set
    <3>3. Goto(r, "release")
      BY <1>15, <3>2 DEF CheckNewer
    <3>4. QED  BY <1>a, <3>3 DEF Keeper, Goto, Set
  <2>3. Goto(r, "release") \/ Goto(r, "away")
    BY <1>15 DEF CheckNewer, Leave
  <2>4. Cardinality(Creating') = Cardinality(Creating)
    BY <1>a, <2>1, <2>3, CreatingMoves
  <2>5. QED  BY <1>15, <2>1, <2>2, <2>4, KeepersStay, KeptGoes DEF CheckNewer, pool, ghosts
<1>16. ASSUME Release(r) PROVE Kept'
  <2>1. Cardinality(Creating') = Cardinality(Creating)
    BY <1>16, <1>a, CreatingMoves DEF Release
  <2>2. Unowned <= 1 => Unowned' <= 0
    BY <1>16, <1>a, <2>1 DEF Release, GiveBack, Unowned
  <2>3. ~late => Unowned <= 1
    BY UnownedCounted DEF Kept
  <2>4. Unowned' \in Int
    BY <1>16, <1>a, <2>1 DEF Release, GiveBack, Unowned
  <2>5. SomeInside'
    BY <1>16 DEF Release, SomeInside, Requests, Goto, Set
  <2>6. QED  BY <1>16, <2>2, <2>3, <2>4, <2>5 DEF Release, Kept, Busy, pool, ghosts
<1>17. ASSUME MarkIdle(r) PROVE Kept'
  <2>1. Cardinality(Creating') = Cardinality(Creating)
    BY <1>17, <1>a, CreatingMoves DEF MarkIdle, Leave
  <2>2. Unowned' = Unowned /\ Unowned \in Int
    BY <1>17, <1>a, <2>1 DEF MarkIdle, Unowned
  <2>3. ~Busy'
    BY <1>17 DEF MarkIdle, Entry, Busy
  <2>4. ~late' => Unowned <= 0
    <3>1. SUFFICES ASSUME ~late', Unowned > 0 PROVE FALSE
      BY <2>2
    <3>2. ~late /\ ~(Busy /\ \E q \in Request \ {r} : Takes(q))
      BY <1>17, <3>1 DEF MarkIdle, Busy
    <3>3. Busy /\ SomeKeeper
      BY <2>2, <3>1, <3>2 DEF Kept
    <3>4. PICK q \in Request : Keeper(q)
      BY <3>3 DEF SomeKeeper
    <3>5. q # r /\ Takes(q)
      BY <1>17, <3>4 DEF MarkIdle, Keeper, Takes, Holds, Goto, Set
    <3>6. QED  BY <3>2, <3>3, <3>5
  <2>5. QED  BY <2>2, <2>3, <2>4 DEF Kept
<1>18. QED  BY <1>1, <1>2, <1>3, <1>4, <1>5, <1>6, <1>7, <1>8, <1>9, <1>10, <1>11, <1>12,
       <1>13, <1>14, <1>15, <1>16, <1>17 DEF Serves, Streams

\* Only an entry that nobody is in expires or is removed with the viewer.
LEMMA WorldKept ==
  ASSUME Shape, Shape', Kept, World
  PROVE  Kept'
<1> USE DEF Shape
<1>a. /\ Cardinality(Creating) \in Nat /\ slots \in Nat /\ others \in Nat
      /\ Cardinality(Creating') = Cardinality(Creating)
  BY CreatingCounted, CreatingStays DEF Numbers, World, GraceEnds, StopClient, EntryExpires,
     OtherStarts, OtherEnds, StopExpires
<1>b. ASSUME Quieter, UNCHANGED <<at, request>>
      PROVE  (SomeKeeper => SomeKeeper') /\ (SomeInside => SomeInside')
  <2>1. \A q \in Request : Same(q)
    BY <1>b DEF Same, request
  <2>2. \A q \in Request : Keeper(q) => Keeper(q)'
    BY <1>b, <2>1, KeeperStays
  <2>3. QED  BY <1>b, <2>2 DEF SomeKeeper, SomeInside
<1>c. UNCHANGED keys => Quieter
  BY DEF keys, Quieter, Keys
<1>1. ASSUME GraceEnds PROVE Kept'
  <2>1. CASE busy = TRUE
    <3>1. Quieter
      BY <1>1, <2>1 DEF GraceEnds, Quieter, Keys
    <3>2. QED  BY <1>1, <1>a, <1>b, <2>1, <3>1, KeptGoes DEF GraceEnds, pool, ghosts
  <2>2. CASE busy # TRUE
    <3>1. ~Busy' /\ ~Busy
      BY <1>1, <2>2 DEF GraceEnds, Busy, pool
    <3>2. Unowned' = Unowned /\ Unowned \in Int
      BY <1>1, <1>a DEF GraceEnds, Unowned
    <3>3. QED  BY <1>1, <3>1, <3>2 DEF GraceEnds, Kept, ghosts
  <2>3. QED  BY <2>1, <2>2
<1>2. ASSUME StopClient PROVE Kept'
  <2>1. Quieter
    BY <1>2 DEF StopClient, Quieter, Keys, Set
  <2>2. QED  BY <1>2, <1>a, <1>b, <2>1, KeptGoes DEF StopClient, pool, ghosts
<1>3. ASSUME EntryExpires PROVE Kept'
  <2>1. ~Busy' /\ ~Busy
    BY <1>3 DEF EntryExpires, Busy
  <2>2. Unowned' = Unowned /\ Unowned \in Int
    BY <1>3, <1>a DEF EntryExpires, Unowned
  <2>3. QED  BY <1>3, <2>1, <2>2 DEF EntryExpires, Kept, ghosts
<1>4. ASSUME OtherStarts PROVE Kept'
  <2>1. (SomeKeeper => SomeKeeper') /\ (SomeInside => SomeInside')
    BY <1>4, <1>b, <1>c DEF OtherStarts
  <2>2. Unowned' = Unowned
    BY <1>4, <1>a DEF OtherStarts, Unowned
  <2>3. QED  BY <1>4, <2>1, <2>2 DEF OtherStarts, Kept, Busy, pool, ghosts
<1>5. ASSUME OtherEnds PROVE Kept'
  <2>1. (SomeKeeper => SomeKeeper') /\ (SomeInside => SomeInside')
    BY <1>5, <1>b, <1>c DEF OtherEnds
  <2>2. Unowned' = Unowned \/ Unowned' <= 0
    BY <1>5, <1>a DEF OtherEnds, GiveBack, Unowned, Numbers
  <2>3. Unowned' \in Int /\ Unowned \in Int
    BY <1>5, <1>a DEF OtherEnds, GiveBack, Unowned
  <2>4. QED  BY <1>5, <2>1, <2>2, <2>3 DEF OtherEnds, Kept, Busy, pool, ghosts
<1>6. ASSUME NEW m \in Media, StopExpires(m) PROVE Kept'
  <2>1. Quieter
    BY <1>6 DEF StopExpires, Quieter, Keys, Set
  <2>2. QED  BY <1>6, <1>a, <1>b, <2>1, KeptGoes DEF StopExpires, pool, ghosts
<1>7. QED  BY <1>1, <1>2, <1>3, <1>4, <1>5, <1>6 DEF World

(***************************************************************************)
(* Results                                                                  *)
(***************************************************************************)
CatchupInv == Shape /\ OneInEntry /\ NotDisplaced /\ SlotsExact /\ Kept

\* Nobody has asked for anything yet.
LEMMA InitInv == Init => CatchupInv
<1>1. Init => Flags
  BY DEF Init, Flags
<1>2. Init => Numbers /\ PoolEntry /\ Keys /\ Requests
  BY DEF Init, Numbers, PoolEntry, Keys, Requests, Place, Kind, Terminal
<1>3. Init => OneInEntry /\ NotDisplaced
  BY DEF Init, OneInEntry, NotDisplaced, InEntry
<1>4. Init => SlotsExact
  <2>1. Init => {r \in Request : Holds(r)} = {}
    BY DEF Init, Holds
  <2>2. QED  BY <2>1, FS_EmptySet DEF Init, SlotsExact
<1>5. Init => Kept
  <2>1. Init => Creating = {}
    BY DEF Init, Creating
  <2>2. Init => ~Busy
    BY DEF Init, Busy
  <2>3. Init => Cardinality(Creating) = 0
    BY <2>1, FS_EmptySet
  <2>4. Init => Unowned = 0
    BY <2>3 DEF Init, Unowned
  <2>5. QED  BY <2>2, <2>4 DEF Kept
<1>6. QED  BY <1>1, <1>2, <1>3, <1>4, <1>5 DEF CatchupInv, Shape

LEMMA NextInv == CatchupInv /\ [Next]_vars => CatchupInv'
<1> SUFFICES ASSUME Shape, OneInEntry, NotDisplaced, Exact, Kept, [Next]_vars
             PROVE  Shape' /\ OneInEntry' /\ NotDisplaced' /\ Exact' /\ Kept'
  BY DEF CatchupInv, SlotsExact, Exact, Held
<1>1. ASSUME NEW r \in Request, Serves(r) \/ Streams(r)
      PROVE  Shape' /\ OneInEntry' /\ NotDisplaced' /\ Exact' /\ Kept'
  BY <1>1, ServedShape, ServedAlone, ServedKeeps, ServedExact, ServedKept
<1>2. CASE World
  BY <1>2, WorldShape, WorldAlone, WorldKeeps, WorldExact, WorldKept
<1>3. CASE UNCHANGED vars
  <2>1. Held' = Held
    BY <1>3 DEF vars, Held, Holds
  <2>2. Cardinality(Creating') = Cardinality(Creating)
    BY <1>3, CreatingStays DEF vars
  <2>3. (SomeKeeper => SomeKeeper') /\ (SomeInside => SomeInside')
    BY <1>3 DEF vars, SomeKeeper, SomeInside, Keeper, Displaced, StopsIt
  <2>4. Kept'
    BY <1>3, <2>2, <2>3, KeptGoes DEF vars
  <2>5. QED  BY <1>3, <2>1, <2>4 DEF vars, Shape, Numbers, Flags, PoolEntry, Keys, Requests,
                                   OneInEntry, NotDisplaced, Exact
<1>4. QED  BY <1>1, <1>2, <1>3 DEF Next

\* CatchupInv holds in every state.
THEOREM CatchupSafe == Spec => []CatchupInv
BY InitInv, NextInv, PTL DEF Spec

\* The counter of the login stays within its limit, and the keys keep their shape, also
\* when streams are displaced (timeshift/views.py).
THEOREM TypeCorrect == Spec => []TypeOK
<1>1. CatchupInv => TypeOK
  BY ShapeIsTyped DEF CatchupInv
<1>2. QED  BY <1>1, CatchupSafe, PTL

\* Until a slot is first taken over from a stream, the login counts the other viewers and
\* the requests that own a slot, each once (_release_pool_session, _discard_pool_session).
THEOREM SlotsAreExact == Spec => []SlotsExact
<1>1. CatchupInv => SlotsExact
  BY DEF CatchupInv
<1>2. QED  BY <1>1, CatchupSafe, PTL

\* When every request has ended, none of them has left a slot reserved or the entry busy,
\* unless an entry was marked idle that was another's by then (_release_pool_session).
THEOREM NothingIsLeft == Spec => []NothingLeft
<1>1. CatchupInv => NothingLeft
  <2>1. SUFFICES ASSUME Shape, Kept, Quiet, ~late PROVE slots <= others /\ ~Busy
    BY DEF CatchupInv, NothingLeft, Busy
  <2>2. Creating = {} /\ ~SomeKeeper /\ ~SomeInside
    BY <2>1 DEF Quiet, Creating, SomeKeeper, SomeInside, Keeper
  <2>3. Unowned = slots - others /\ slots \in Nat /\ others \in Nat
    BY <2>1, <2>2, FS_EmptySet DEF Unowned, Shape, Numbers
  <2>4. QED  BY <2>1, <2>2, <2>3 DEF Kept
<1>2. QED  BY <1>1, CatchupSafe, PTL

(***************************************************************************)
(* Channels (ChannelLifecycle): the shape of the state                      *)
(***************************************************************************)
HIDE CatchupAssumption

RedisTyped ==
  /\ owner \in Worker \cup {NoWorker} /\ meta \in Metadata \cup {NoMeta}
  /\ stopping \in BOOLEAN /\ disconnect \in {"no", "recent", "old"}
  /\ clients \subseteq Client /\ beat \subseteq Worker
WorkersTyped ==
  /\ alive \subseteq beat
  /\ {open, extend, promotes, waiting} \subseteq SUBSET alive
LocalTyped ==
  /\ up \in [Worker -> {"none", "pulling", "halted", "ended"}]
  /\ local \in [Worker -> SUBSET Client]
  /\ teardown \in [Worker -> {"idle", "clean", "local"}]
  /\ stuck \in [Worker -> {"idle", "clean", "local"}]
  /\ events \in [Worker -> SUBSET {"stop", "disconnected"}]
ViewersTyped ==
  /\ host \in [Client -> alive \cup {NoWorker}]
  /\ cpc \in [Client -> {"away", "attach", "register", "watching"} \cup SettingUp]
  /\ \A c \in Client : host[c] = NoWorker <=> cpc[c] = "away"
BoundsTyped == requests \in 0..MaxRequests /\ trouble \in 0..MaxTrouble

\* A worker that is dead has nothing of the channel, and none of its greenlets goes on.
DeadRest ==
  \A w \in Worker \ alive :
    /\ up[w] = "none" /\ local[w] = {} /\ events[w] = {}
    /\ teardown[w] = "idle" /\ stuck[w] = "idle"

LifeShape ==
  RedisTyped /\ WorkersTyped /\ LocalTyped /\ ViewersTyped /\ BoundsTyped /\ DeadRest

\* The parts together are the whole.
LEMMA LifeIsTyped == LifeShape => LifecycleTypeOK
BY DEF LifeShape, RedisTyped, WorkersTyped, LocalTyped, ViewersTyped, BoundsTyped,
       LifecycleTypeOK

\* Nothing is there of the channel at first.
LEMMA InitLife == LifecycleInit => LifeShape
<1> SUFFICES ASSUME LifecycleInit PROVE LifeShape
  OBVIOUS
<1> USE DEF LifecycleInit
<1>1. RedisTyped
  BY DEF RedisTyped
<1>2. WorkersTyped /\ DeadRest
  BY DEF WorkersTyped, DeadRest
<1>3. LocalTyped
  BY DEF LocalTyped
<1>4. ViewersTyped
  BY DEF ViewersTyped
<1>5. BoundsTyped
  BY LifecycleAssumption DEF BoundsTyped
<1>6. QED  BY <1>1, <1>2, <1>3, <1>4, <1>5 DEF LifeShape

\* Whatever is written to the hash, its record stays one, and only a hash that is gone
\* has no state.
LEMMA HashWritten ==
  ASSUME meta \in Metadata \cup {NoMeta}
  PROVE  /\ \A by \in Worker \cup {NoWorker}, s \in {"starting", "active", "stopping", "error"} :
              /\ [owner |-> by, state |-> s, ttl |-> meta.ttl] \in Metadata
              /\ meta # NoMeta => [meta EXCEPT !.state = s] \in Metadata
         /\ meta.owner \in Worker \cup {NoWorker}
         /\ NoMeta \notin Metadata
         /\ meta = NoMeta <=> meta.state = "gone"
<1>1. NoMeta.state = "gone" /\ NoMeta.ttl = FALSE /\ NoMeta.owner = NoWorker
  BY DEF NoMeta
<1>2. \A m \in Metadata :
        m.state # "gone" /\ m.ttl \in BOOLEAN /\ m.owner \in Worker \cup {NoWorker}
  BY DEF Metadata
<1>3. CASE meta = NoMeta
  BY <1>1, <1>2, <1>3 DEF Metadata
<1>4. CASE meta \in Metadata
  BY <1>1, <1>2, <1>4 DEF Metadata
<1>5. QED  BY <1>3, <1>4

USE DEF redis, process, held, tasks, viewers, bounds, Put, Goes

\* What a worker drops is what it has itself.
LEMMA DropsTyped ==
  ASSUME LifeShape, NEW w \in Worker, DropLocal(w)
  PROVE  /\ meta' \in Metadata \cup {NoMeta} /\ stopping' \in BOOLEAN
         /\ meta # NoMeta => meta' # NoMeta
         /\ up' = Put(up, w, "none") /\ open' = open \ {w} /\ local' = Put(local, w, {})
<1>1. meta \in Metadata \cup {NoMeta} /\ stopping \in BOOLEAN
  BY DEF LifeShape, RedisTyped
<1>2. QED  BY <1>1, HashWritten DEF DropLocal, RunEnds, WriteMeta

\* A local teardown, with the stop that it ends.
LEMMA DropsShape ==
  ASSUME LifeShape, NEW w \in Worker, DropLocal(w),
         teardown' \in {teardown, Put(teardown, w, "idle")},
         stuck' \in {stuck, Put(stuck, w, "idle")},
         UNCHANGED <<owner, disconnect, clients, beat, alive, held, waiting, events, viewers,
                     bounds>>
  PROVE  LifeShape'
BY DropsTyped
   DEF LifeShape, RedisTyped, WorkersTyped, LocalTyped, ViewersTyped, BoundsTyped, DeadRest

\* A halt is of the upstream of a worker that runs.
LEMMA HaltTyped ==
  ASSUME LifeShape, NEW w \in alive, Halt(w)
  PROVE  /\ up' \in [Worker -> {"none", "pulling", "halted", "ended"}]
         /\ teardown' \in [Worker -> {"idle", "clean", "local"}]
         /\ \A v \in Worker \ alive : up'[v] = up[v] /\ teardown'[v] = teardown[v]
BY DEF Halt, StopRuns, LifeShape, LocalTyped, RedisTyped, WorkersTyped

\* An event goes to the workers that run.
LEMMA PublishTyped ==
  ASSUME LifeShape, NEW w \in Worker, NEW e \in {"stop", "disconnected"}, Publish(w, e)
  PROVE  /\ events' \in [Worker -> SUBSET {"stop", "disconnected"}]
         /\ \A v \in Worker \ alive : events'[v] = events[v]
BY DEF Publish, LifeShape, LocalTyped

\* ChannelService.stop_channel, whoever calls it.
LEMMA StopShape ==
  ASSUME LifeShape, NEW w \in alive, CoordinatedStop(w),
         disconnect' = disconnect, waiting' \subseteq waiting,
         requests' \in 0..MaxRequests, trouble' \in 0..MaxTrouble
  PROVE  LifeShape'
<1>1. w \in Worker /\ Halt(w) /\ Publish(w, "stop")
  BY DEF CoordinatedStop, LifeShape, WorkersTyped, RedisTyped
<1>2. LocalTyped' /\ DeadRest'
  BY <1>1, HaltTyped, PublishTyped
     DEF CoordinatedStop, LifeShape, LocalTyped, DeadRest
<1>3. meta' \in Metadata \cup {NoMeta}
  BY HashWritten DEF CoordinatedStop, LifeShape, RedisTyped
<1>4. RedisTyped' /\ WorkersTyped' /\ ViewersTyped' /\ BoundsTyped'
  BY <1>3 DEF CoordinatedStop, LifeShape, RedisTyped, WorkersTyped, ViewersTyped, BoundsTyped
<1>5. QED  BY <1>2, <1>4 DEF LifeShape

\* Who has something of the channel, or waits, or stops it, is alive.
LEMMA BusyAlive ==
  ASSUME LifeShape, NEW w \in Worker,
         \/ HasLocal(w) \/ StopRuns(w) \/ stuck[w] # "idle" \/ events[w] # {} \/ w \in waiting
  PROVE  w \in alive
BY DEF LifeShape, WorkersTyped, DeadRest, HasLocal, Registered, StopRuns

\* A request is counted while the bound allows it.
LEMMA RequestCounted ==
  ASSUME BoundsTyped, NEW c \in Client, NEW w \in Worker, Arrives(c, w)
  PROVE  BoundsTyped'
<1>1. requests < MaxRequests /\ requests' = requests + 1 /\ trouble' = trouble
  BY DEF Arrives
<1>2. QED  BY <1>1, LifecycleAssumption DEF BoundsTyped

\* A request that arrives, is set up, or ends.
LEMMA RequestShape ==
  ASSUME LifeShape, NEW c \in Client,
         \/ \E w \in Worker : Follow(c, w) \/ Claim(c, w)
         \/ Setup(c) \/ Kicked(c) \/ Leaves(c)
  PROVE  LifeShape'
<1> USE DEF LifeShape, RedisTyped, WorkersTyped, LocalTyped, ViewersTyped, BoundsTyped, DeadRest
<1>1. ASSUME NEW w \in Worker, Follow(c, w) PROVE LifeShape'
  <2>1. ViewersTyped'
    BY <1>1, LifecycleAssumption DEF Follow, Arrives
  <2>2. BoundsTyped'
    BY <1>1, RequestCounted DEF Follow
  <2>3. RedisTyped' /\ WorkersTyped' /\ LocalTyped' /\ DeadRest'
    BY <1>1 DEF Follow, Arrives
  <2>4. QED  BY <2>1, <2>2, <2>3
<1>2. ASSUME NEW w \in Worker, Claim(c, w) PROVE LifeShape'
  <2>1. ViewersTyped'
    BY <1>2, LifecycleAssumption DEF Claim, Arrives, SettingUp
  <2>2. RedisTyped'
    BY <1>2 DEF Claim, Arrives, OwnerSeen
  <2>3. BoundsTyped'
    BY <1>2, RequestCounted DEF Claim
  <2>4. WorkersTyped' /\ LocalTyped' /\ DeadRest'
    BY <1>2 DEF Claim, Arrives
  <2>5. QED  BY <2>1, <2>2, <2>3, <2>4
<1>3. CASE GivesUp(c)
  <2>1. ViewersTyped'
    BY <1>3 DEF GivesUp, SettingUp
  <2>2. RedisTyped' /\ WorkersTyped' /\ LocalTyped' /\ BoundsTyped' /\ DeadRest'
    BY <1>3 DEF GivesUp
  <2>3. QED  BY <2>1, <2>2
<1>4. CASE ReleaseLock(c)
  <2>1. ViewersTyped'
    BY <1>4 DEF ReleaseLock
  <2>2. RedisTyped' /\ WorkersTyped' /\ LocalTyped' /\ BoundsTyped' /\ DeadRest'
    BY <1>4 DEF ReleaseLock
  <2>3. QED  BY <2>1, <2>2
<1>5. CASE InitFollows(c)
  <2>1. host[c] \in alive /\ host[c] \in Worker
    BY <1>5 DEF InitFollows, Initializes
  <2>2. ViewersTyped'
    BY <1>5 DEF InitFollows, Initializes
  <2>3. RedisTyped' /\ WorkersTyped' /\ LocalTyped' /\ BoundsTyped' /\ DeadRest'
    BY <1>5, <2>1 DEF InitFollows, Initializes
  <2>4. QED  BY <2>2, <2>3
<1>6. CASE InitOwns(c)
  <2>1. host[c] \in alive /\ host[c] \in Worker
    BY <1>6 DEF InitOwns, Initializes, SettingUp
  <2>2. meta' \in Metadata
    BY <1>6, <2>1 DEF InitOwns, Metadata
  <2>3. RedisTyped' /\ WorkersTyped' /\ BoundsTyped'
    BY <1>6, <2>1, <2>2 DEF InitOwns, Initializes
  <2>4. LocalTyped' /\ ViewersTyped' /\ DeadRest'
    BY <1>6, <2>1 DEF InitOwns, Initializes, SettingUp
  <2>5. QED  BY <2>3, <2>4
<1>7. CASE InitNoUrl(c)
  <2>1. host[c] \in alive /\ host[c] \in Worker
    BY <1>7 DEF InitNoUrl
  <2>2. ViewersTyped'
    BY <1>7 DEF InitNoUrl
  <2>3. RedisTyped' /\ WorkersTyped' /\ BoundsTyped'
    BY <1>7 DEF InitNoUrl, DeleteKeys
  <2>4. LocalTyped' /\ DeadRest'
    BY <1>7, <2>1 DEF InitNoUrl
  <2>5. QED  BY <2>2, <2>3, <2>4
<1>8. CASE Connect(c)
  <2>1. ViewersTyped'
    BY <1>8 DEF Connect
  <2>2. meta' \in Metadata
    BY <1>8, HashWritten DEF Connect, WriteMeta, SettingUp
  <2>3. RedisTyped' /\ WorkersTyped' /\ LocalTyped' /\ BoundsTyped' /\ DeadRest'
    BY <1>8, <2>2 DEF Connect
  <2>4. QED  BY <2>1, <2>3
<1>9. CASE TurnedAway(c) \/ NoClientManager(c)
  <2>1. ViewersTyped'
    BY <1>9 DEF TurnedAway, NoClientManager
  <2>2. RedisTyped' /\ WorkersTyped' /\ LocalTyped' /\ BoundsTyped' /\ DeadRest'
    BY <1>9 DEF TurnedAway, NoClientManager
  <2>3. QED  BY <2>1, <2>2
<1>10. CASE Register(c)
  <2>1. host[c] \in alive /\ host[c] \in Worker
    BY <1>10 DEF Register
  <2>2. RedisTyped'
    BY <1>10, HashWritten DEF Register
  <2>3. WorkersTyped' /\ LocalTyped' /\ ViewersTyped' /\ BoundsTyped' /\ DeadRest'
    BY <1>10, <2>1 DEF Register
  <2>4. QED  BY <2>2, <2>3
<1>11. CASE Leaves(c)
  <2>1. host[c] \in alive /\ host[c] \in Worker /\ ViewersTyped' /\ BoundsTyped'
    BY <1>11 DEF Leaves
  <2>2. CASE ~(host[c] \in open /\ c \in local[host[c]])
    BY <1>11, <2>1, <2>2 DEF Leaves, Departs
  <2>3. CASE RemoveClient(c)
    <3>1. RedisTyped' /\ WorkersTyped'
      BY <1>11, <2>1, <2>3 DEF Leaves, RemoveClient
    <3>2. LocalTyped' /\ DeadRest'
      BY <1>11, <2>1, <2>3, PublishTyped DEF Leaves, RemoveClient
    <3>3. QED  BY <2>1, <3>1, <3>2
  <2>4. QED  BY <1>11, <2>2, <2>3 DEF Leaves, Departs
<1>12. Kicked(c) => Leaves(c)
  BY DEF Kicked
<1>13. QED  BY <1>1, <1>2, <1>3, <1>4, <1>5, <1>6, <1>7, <1>8, <1>9, <1>10, <1>11, <1>12
            DEF Setup

\* The timers, the events, and the stop in all its stages.
LEMMA TeardownShape ==
  ASSUME LifeShape, NEW w \in Worker, Waits(w) \/ Hears(w) \/ Stops(w) \/ GoesOn(w)
  PROVE  LifeShape'
<1> USE DEF LifeShape, RedisTyped, WorkersTyped, LocalTyped, ViewersTyped, BoundsTyped, DeadRest
<1>1. CASE WaitAborted(w)
  BY <1>1 DEF WaitAborted
<1>2. CASE WaitEnds(w)
  BY <1>2, StopShape DEF WaitEnds
<1>3. CASE HearDisconnected(w)
  BY <1>3 DEF HearDisconnected
<1>4. CASE HearStop(w)
  <2>1. w \in alive
    BY <1>4, BusyAlive DEF HearStop
  <2>2. CASE Halt(w) /\ stopping' = TRUE /\ UNCHANGED <<meta, open, local>>
    BY <1>4, <2>1, <2>2, HaltTyped DEF HearStop
  <2>3. CASE DropLocal(w) /\ UNCHANGED teardown
    BY <1>4, <2>1, <2>3, DropsTyped DEF HearStop
  <2>4. CASE UNCHANGED <<teardown, meta, stopping, up, open, local>>
    BY <1>4, <2>4 DEF HearStop
  <2>5. QED  BY <1>4, <2>2, <2>3, <2>4 DEF HearStop
<1>5. CASE StopClean(w)
  BY <1>5 DEF StopClean, DeleteKeys
<1>6. CASE LateClean(w)
  BY <1>6 DEF LateClean, DeleteKeys
<1>7. CASE StopLocal(w)
  BY <1>7, DropsShape DEF StopLocal
<1>8. CASE LateLocal(w)
  BY <1>8, DropsShape DEF LateLocal
<1>9. QED  BY <1>1, <1>2, <1>3, <1>4, <1>5, <1>6, <1>7, <1>8 DEF Waits, Hears, Stops, GoesOn

\* The stream manager, the cleanup thread and its scan.
LEMMA LoopShape ==
  ASSUME LifeShape, NEW w \in Worker,
         \/ Pulls(w) \/ Loops(w) \/ Scans(w)
         \/ TakeLockBack(w) \/ PromoteLate(w) \/ HeartbeatExpires(w)
  PROVE  LifeShape'
<1> USE DEF LifeShape, RedisTyped, WorkersTyped, LocalTyped, ViewersTyped, BoundsTyped, DeadRest
<1>1. CASE Audit(w)
  BY <1>1 DEF Audit
<1>2. CASE ThreadEnds(w)
  <2>1. meta' \in Metadata \cup {NoMeta} /\ stopping' \in BOOLEAN
    BY <1>2, HashWritten DEF ThreadEnds, RunEnds, WriteMeta
  <2>2. QED  BY <1>2, <2>1 DEF ThreadEnds
<1>3. CASE StopUnclaimed(w) \/ StopUnwatched(w)
  BY <1>3, StopShape, BusyAlive DEF StopUnclaimed, StopUnwatched, OwnerLoops
<1>4. CASE StartTimer(w) \/ ClearTimer(w)
  BY <1>4 DEF StartTimer, ClearTimer
<1>5. CASE JoinStop(w)
  BY <1>5, BusyAlive, HaltTyped DEF JoinStop, HasLocal
<1>6. CASE TakeLock(w) \/ TakeLockBack(w)
  BY <1>6 DEF TakeLock, TakeLockBack
<1>7. CASE CleanLocal(w)
  BY <1>7, DropsShape DEF CleanLocal
<1>8. CASE PromoteLate(w)
  <2>1. meta' \in Metadata
    BY <1>8, HashWritten DEF PromoteLate, WriteMeta
  <2>2. QED  BY <1>8, <2>1 DEF PromoteLate
<1>9. CASE RemoveGhosts(w) \/ HeartbeatExpires(w)
  BY <1>9 DEF RemoveGhosts, HeartbeatExpires
<1>10. CASE CleanOrphan(w)
  <2>1. RedisTyped' /\ ViewersTyped' /\ BoundsTyped'
    BY <1>10 DEF CleanOrphan, DeleteKeys
  <2>2. CASE Registered(w)
    <3>1. LocalTyped' /\ WorkersTyped' /\ DeadRest'
      BY <1>10, <2>2 DEF CleanOrphan
    <3>2. QED  BY <2>1, <3>1
  <2>3. CASE ~Registered(w)
    <3>1. LocalTyped' /\ WorkersTyped' /\ DeadRest'
      BY <1>10, <2>3, PublishTyped DEF CleanOrphan
    <3>2. QED  BY <2>1, <3>1
  <2>4. QED  BY <2>2, <2>3
<1>11. QED  BY <1>1, <1>2, <1>3, <1>4, <1>5, <1>6, <1>7, <1>8, <1>9, <1>10
            DEF Pulls, Loops, Scans

\* Stops that are asked from outside, and faults.
LEMMA FaultShape ==
  ASSUME LifeShape, NEW w \in Worker, Asked(w) \/ Faults(w)
  PROVE  LifeShape'
<1> USE LifecycleAssumption
    DEF LifeShape, RedisTyped, WorkersTyped, LocalTyped, ViewersTyped, BoundsTyped, DeadRest
<1>1. CASE ForceStop(w)
  BY <1>1, StopShape DEF ForceStop
<1>2. CASE AskStop(w)
  BY <1>2, StopShape DEF AskStop
<1>3. CASE CleanZombie(w)
  <2>1. trouble' \in 0..MaxTrouble
    BY <1>3 DEF CleanZombie
  <2>2. QED  BY <1>3, <2>1 DEF CleanZombie, DeleteKeys
<1>4. CASE LoseEvents(w)
  BY <1>4 DEF LoseEvents
<1>5. CASE SeeLockGone(w)
  BY <1>5, BusyAlive DEF SeeLockGone, LockGone, HasLocal
<1>6. CASE SeeReady(w)
  BY <1>6 DEF SeeReady
<1>7. CASE StopStuck(w)
  <2>1. trouble' \in 0..MaxTrouble /\ w \in alive
    BY <1>7, BusyAlive DEF StopStuck
  <2>2. RedisTyped'
    BY <1>7 DEF StopStuck, DeleteKeys
  <2>3. WorkersTyped' /\ ViewersTyped' /\ BoundsTyped'
    BY <1>7, <2>1, <2>2 DEF StopStuck
  <2>4. LocalTyped' /\ DeadRest'
    BY <1>7, <2>1 DEF StopStuck
  <2>5. QED  BY <2>2, <2>3, <2>4
<1>8. CASE SourceFails(w)
  BY <1>8 DEF SourceFails
<1>9. CASE Crash(w)
  BY <1>9 DEF Crash, SettingUp
<1>10. QED  BY <1>1, <1>2, <1>3, <1>4, <1>5, <1>6, <1>7, <1>8, <1>9 DEF Asked, Faults

\* Keys that expire, and the promotion.
ExpiresOrReady ==
  \/ Promote \/ TimerExpires \/ MetaExpires \/ ClientsExpire \/ StoppingExpires
  \/ LockExpires \/ LockLapses
LEMMA ExpiryShape == LifeShape /\ ExpiresOrReady => LifeShape'
<1> SUFFICES ASSUME LifeShape, ExpiresOrReady PROVE LifeShape'
  OBVIOUS
<1> USE DEF LifeShape, RedisTyped, WorkersTyped, LocalTyped, ViewersTyped, BoundsTyped, DeadRest
<1>1. CASE Promote
  BY <1>1, HashWritten DEF Promote, Ready
<1>2. CASE TimerExpires \/ MetaExpires \/ ClientsExpire \/ StoppingExpires
  <2>1. CASE TimerExpires \/ MetaExpires
    BY <2>1 DEF TimerExpires, MetaExpires
  <2>2. CASE ClientsExpire
    BY <2>2 DEF ClientsExpire
  <2>3. CASE StoppingExpires
    BY <2>3 DEF StoppingExpires
  <2>4. QED  BY <1>2, <2>1, <2>2, <2>3
<1>3. CASE LockExpires \/ LockLapses
  BY <1>3, LifecycleAssumption DEF LockExpires, LockLapses
<1>4. QED  BY <1>1, <1>2, <1>3 DEF ExpiresOrReady

\* Who acts: a request, a worker, or time.
ClientActs(c) ==
  (\E w \in Worker : Follow(c, w) \/ Claim(c, w)) \/ Setup(c) \/ Kicked(c) \/ Leaves(c)
WorkerActs(w) ==
  \/ Waits(w) \/ Hears(w) \/ Stops(w) \/ GoesOn(w)
  \/ Pulls(w) \/ Loops(w) \/ Scans(w)
  \/ TakeLockBack(w) \/ PromoteLate(w) \/ HeartbeatExpires(w)
  \/ Asked(w) \/ Faults(w)
LEMMA LifecycleActors ==
  LifecycleNext <=> \/ \E c \in Client : ClientActs(c)
                    \/ \E w \in Worker : WorkerActs(w)
                    \/ ExpiresOrReady
BY DEF LifecycleNext, ClientActs, WorkerActs, ExpiresOrReady

\* Every step keeps the shape.
LEMMA LifeStep == LifeShape /\ [LifecycleNext]_lifecycleVars => LifeShape'
<1> SUFFICES ASSUME LifeShape, [LifecycleNext]_lifecycleVars PROVE LifeShape'
  OBVIOUS
<1>1. ASSUME NEW c \in Client, ClientActs(c) PROVE LifeShape'
  BY <1>1, RequestShape DEF ClientActs
<1>2. ASSUME NEW w \in Worker, WorkerActs(w) PROVE LifeShape'
  BY <1>2, TeardownShape, LoopShape, FaultShape DEF WorkerActs
<1>3. CASE UNCHANGED lifecycleVars
  BY <1>3 DEF lifecycleVars, LifeShape, RedisTyped, WorkersTyped, LocalTyped, ViewersTyped,
              BoundsTyped, DeadRest
<1>4. QED  BY <1>1, <1>2, <1>3, ExpiryShape, LifecycleActors

\* For any workers, viewers, requests and faults, the state of a channel keeps its shape.
\* With it: a worker that has died has no upstream, no viewer, no stop and no event of the
\* channel, and a request is on a worker that runs (server.py, views.py, client_manager.py).
THEOREM LifecycleTypeCorrect == LifecycleSpec => []LifecycleTypeOK
BY InitLife, LifeStep, LifeIsTyped, PTL DEF LifecycleSpec

(***************************************************************************)
(* Channels: an upstream has the lock, while nobody takes it away           *)
(***************************************************************************)
\* What takes the lock from a worker that pulls: it lapses while its worker is held up; a
\* setup that gives up deletes it after the look that found it to be its own; another
\* worker's teardown, or its cleanup of a session whose worker is taken for dead, deletes
\* the keys; so does a stop that was given up as stuck, whenever it goes on.
Robs(v) ==
  \/ LockLapses
  \/ \E c \in Client : ReleaseLock(c)
  \/ \E w \in Worker \ {v} : StopClean(w) \/ StopStuck(w) \/ CleanOrphan(w) \/ CleanZombie(w)
  \/ \E w \in Worker : LateClean(w)
Robbed == \E v \in Worker : up[v] = "pulling" /\ Robs(v)

\* A stream manager comes with a buffer; one that pulls has the lock, its session has
\* metadata, and no stop has begun on its worker.
Puller(v) ==
  /\ Registered(v) => v \in open
  /\ up[v] = "pulling" => owner = v /\ meta # NoMeta /\ ~StopRuns(v)
Pullers == \A v \in Worker : Puller(v)

\* A step that starts no upstream and stops none, and leaves the lock and the hash.
LEMMA PullersStay ==
  ASSUME Pullers, owner' = owner, meta # NoMeta => meta' # NoMeta,
         UNCHANGED <<up, open, teardown>>
  PROVE  Pullers'
BY DEF Pullers, Puller, Registered, StopRuns

\* A local teardown, on any worker.
LEMMA PullersDrop ==
  ASSUME LifeShape, Pullers, NEW w \in Worker, DropLocal(w), owner' = owner,
         teardown' \in {teardown, Put(teardown, w, "idle")}
  PROVE  Pullers'
BY DropsTyped DEF Pullers, Puller, Registered, StopRuns, LifeShape, LocalTyped

\* A worker halts its own upstream when it begins a stop.
LEMMA PullersHalt ==
  ASSUME LifeShape, Pullers, NEW w \in Worker, Halt(w), owner' = owner, open' = open,
         meta # NoMeta => meta' # NoMeta
  PROVE  Pullers'
BY DEF Halt, Pullers, Puller, Registered, StopRuns, LifeShape, LocalTyped

\* No upstream runs: none does after a step that starts none.
LEMMA PullersNone ==
  ASSUME Pullers, \A v \in Worker : up[v] # "pulling", up' = up, open \subseteq open'
  PROVE  Pullers'
BY DEF Pullers, Puller, Registered

LEMMA StopPulls ==
  ASSUME LifeShape, Pullers, NEW w \in Worker, CoordinatedStop(w)
  PROVE  Pullers'
<1>1. meta # NoMeta => meta' # NoMeta
  BY HashWritten DEF CoordinatedStop, LifeShape, RedisTyped
<1>2. QED  BY <1>1, PullersHalt DEF CoordinatedStop

\* A request: the setup takes a lock that is free or its worker's own, so no other worker
\* pulls; what it drops has no upstream that pulls.
LEMMA RequestPulls ==
  ASSUME LifeShape, Pullers, ~Robbed, NEW c \in Client, ClientActs(c)
  PROVE  Pullers'
<1>1. meta \in Metadata \cup {NoMeta}
  BY DEF LifeShape, RedisTyped
<1>2. ASSUME NEW w \in Worker, Follow(c, w) PROVE Pullers'
  BY <1>2, PullersStay DEF Follow, Arrives
<1>3. ASSUME NEW w \in Worker, Claim(c, w) PROVE Pullers'
  BY <1>3, LifecycleAssumption
     DEF Claim, Arrives, OwnerSeen, Pullers, Puller, Registered, HasLocal, StopRuns, LifeShape,
         RedisTyped
<1>4. CASE GivesUp(c) \/ TurnedAway(c) \/ NoClientManager(c)
  BY <1>4, PullersStay DEF GivesUp, TurnedAway, NoClientManager
<1>5. CASE ReleaseLock(c)
  <2>1. \A v \in Worker : up[v] # "pulling"
    BY <1>5 DEF Robbed, Robs
  <2>2. QED  BY <1>5, <2>1, PullersNone DEF ReleaseLock
<1>6. CASE InitFollows(c)
  BY <1>6 DEF InitFollows, Initializes, HasResources, Pullers, Puller, Registered, StopRuns,
              LifeShape, LocalTyped
<1>7. CASE InitOwns(c)
  <2>1. host[c] \in Worker /\ meta' # NoMeta /\ ~StopRuns(host[c])
    BY <1>7 DEF InitOwns, Initializes, Unavailable, NoMeta, LifeShape, RedisTyped, WorkersTyped,
                ViewersTyped, SettingUp
  <2>2. QED  BY <1>7, <2>1, LifecycleAssumption
        DEF InitOwns, Initializes, Pullers, Puller, Registered, StopRuns, LifeShape, LocalTyped
<1>8. CASE InitNoUrl(c)
  BY <1>8 DEF InitNoUrl, DeleteKeys, Pullers, Puller, Registered, StopRuns, LifeShape, LocalTyped
<1>9. CASE Connect(c)
  <2>1. meta' # NoMeta
    BY <1>9 DEF Connect, WriteMeta, NoMeta
  <2>2. QED  BY <1>9, <2>1, PullersStay DEF Connect
<1>10. CASE Register(c)
  <2>1. meta # NoMeta => meta' # NoMeta
    BY <1>10, <1>1, HashWritten DEF Register
  <2>2. QED  BY <1>10, <2>1, PullersStay DEF Register
<1>11. CASE Leaves(c)
  <2>1. host[c] \in Worker
    BY <1>11 DEF Leaves, LifeShape, RedisTyped, WorkersTyped, ViewersTyped
  <2>2. CASE owner' = owner
    BY <1>11, <2>2, PullersStay DEF Leaves
  <2>3. CASE owner = NoWorker
    BY <1>11, <2>3, LifecycleAssumption, PullersNone DEF Leaves, Pullers, Puller
  <2>4. QED  BY <1>11, <2>2, <2>3 DEF Leaves, Departs, RemoveClient
<1>12. Kicked(c) => Leaves(c)
  BY DEF Kicked
<1>13. QED  BY <1>2, <1>3, <1>4, <1>5, <1>6, <1>7, <1>8, <1>9, <1>10, <1>11, <1>12
            DEF ClientActs, Setup

\* Timers, events and the stop: a worker deletes the keys after it has halted its upstream.
LEMMA TeardownPulls ==
  ASSUME LifeShape, Pullers, ~Robbed, NEW w \in Worker,
         Waits(w) \/ Hears(w) \/ Stops(w) \/ GoesOn(w)
  PROVE  Pullers'
<1>1. CASE WaitAborted(w) \/ HearDisconnected(w)
  BY <1>1, PullersStay DEF WaitAborted, HearDisconnected
<1>2. CASE WaitEnds(w)
  BY <1>2, StopPulls DEF WaitEnds
<1>3. CASE HearStop(w)
  <2>1. CASE Halt(w) /\ UNCHANGED <<meta, open, local>>
    BY <1>3, <2>1, PullersHalt DEF HearStop
  <2>2. CASE DropLocal(w) /\ UNCHANGED teardown
    BY <1>3, <2>2, PullersDrop DEF HearStop
  <2>3. CASE UNCHANGED <<teardown, meta, up, open>>
    BY <1>3, <2>3, PullersStay DEF HearStop
  <2>4. QED  BY <1>3, <2>1, <2>2, <2>3 DEF HearStop
<1>4. CASE StopClean(w)
  <2>1. \A v \in Worker : up[v] # "pulling"
    BY <1>4 DEF StopClean, Robbed, Robs, Pullers, Puller, StopRuns
  <2>2. QED  BY <1>4, <2>1, PullersNone DEF StopClean
<1>5. CASE LateClean(w)
  <2>1. \A v \in Worker : up[v] # "pulling"
    BY <1>5 DEF Robbed, Robs
  <2>2. QED  BY <1>5, <2>1, PullersNone DEF LateClean
<1>6. CASE StopLocal(w) \/ LateLocal(w)
  BY <1>6, PullersDrop DEF StopLocal, LateLocal
<1>7. QED  BY <1>1, <1>2, <1>3, <1>4, <1>5, <1>6 DEF Waits, Hears, Stops, GoesOn

\* The stream manager and the cleanup thread: a worker takes a lock only that nobody has.
LEMMA LoopPulls ==
  ASSUME LifeShape, Pullers, ~Robbed, NEW w \in Worker,
         \/ Pulls(w) \/ Loops(w) \/ Scans(w)
         \/ TakeLockBack(w) \/ PromoteLate(w) \/ HeartbeatExpires(w)
  PROVE  Pullers'
<1>1. CASE Audit(w)
  BY <1>1 DEF Audit, Pullers, Puller, Registered, StopRuns, LifeShape, LocalTyped
<1>2. CASE ThreadEnds(w)
  <2>1. meta # NoMeta => meta' # NoMeta
    BY <1>2 DEF ThreadEnds, RunEnds, WriteMeta, NoMeta
  <2>2. QED  BY <1>2, <2>1 DEF ThreadEnds, Pullers, Puller, Registered, StopRuns, LifeShape,
                               LocalTyped
<1>3. CASE StopUnclaimed(w) \/ StopUnwatched(w)
  BY <1>3, StopPulls DEF StopUnclaimed, StopUnwatched
<1>4. CASE StartTimer(w) \/ ClearTimer(w) \/ RemoveGhosts(w) \/ HeartbeatExpires(w)
  BY <1>4, PullersStay DEF StartTimer, ClearTimer, RemoveGhosts, HeartbeatExpires
<1>5. CASE JoinStop(w)
  BY <1>5, PullersHalt DEF JoinStop
<1>6. CASE TakeLock(w) \/ TakeLockBack(w)
  <2>1. CASE owner' = owner
    BY <1>6, <2>1, PullersStay DEF TakeLock, TakeLockBack
  <2>2. CASE owner = NoWorker
    BY <1>6, <2>2, LifecycleAssumption, PullersNone DEF TakeLock, TakeLockBack, Pullers, Puller
  <2>3. QED  BY <1>6, <2>1, <2>2 DEF TakeLock, LockGone, TakeLockBack
<1>7. CASE CleanLocal(w)
  BY <1>7, PullersDrop DEF CleanLocal
<1>8. CASE PromoteLate(w)
  <2>1. meta' # NoMeta
    BY <1>8 DEF PromoteLate, WriteMeta, NoMeta
  <2>2. QED  BY <1>8, <2>1, PullersStay DEF PromoteLate
<1>9. CASE CleanOrphan(w)
  <2>1. \A v \in Worker \ {w} : up[v] # "pulling"
    BY <1>9 DEF Robbed, Robs
  <2>2. CASE Registered(w)
    BY <1>9, <2>1, <2>2 DEF CleanOrphan, Pullers, Puller, Registered, LifeShape, LocalTyped
  <2>3. CASE ~Registered(w)
    BY <1>9, <2>1, <2>3, PullersNone DEF CleanOrphan, Registered
  <2>4. QED  BY <2>2, <2>3
<1>10. QED  BY <1>1, <1>2, <1>3, <1>4, <1>5, <1>6, <1>7, <1>8, <1>9 DEF Pulls, Loops, Scans

\* Stops that are asked from outside, and faults.
LEMMA FaultPulls ==
  ASSUME LifeShape, Pullers, ~Robbed, NEW w \in Worker, Asked(w) \/ Faults(w)
  PROVE  Pullers'
<1>1. CASE ForceStop(w) \/ AskStop(w)
  BY <1>1, StopPulls DEF ForceStop, AskStop
<1>2. CASE CleanZombie(w)
  <2>1. \A v \in Worker : up[v] # "pulling"
    BY <1>2 DEF CleanZombie, Zombie, HasLocal, Registered, Robbed, Robs
  <2>2. QED  BY <1>2, <2>1, PullersNone DEF CleanZombie
<1>3. CASE LoseEvents(w) \/ SeeLockGone(w) \/ SeeReady(w)
  BY <1>3, PullersStay DEF LoseEvents, SeeLockGone, SeeReady
<1>4. CASE StopStuck(w)
  <2>1. \A v \in Worker \ {w} : up[v] # "pulling"
    BY <1>4 DEF Robbed, Robs
  <2>2. QED  BY <1>4, <2>1 DEF StopStuck, Pullers, Puller, Registered, LifeShape, LocalTyped
<1>5. CASE SourceFails(w)
  BY <1>5 DEF SourceFails, Pullers, Puller, Registered, StopRuns, LifeShape, LocalTyped
<1>6. CASE Crash(w)
  BY <1>6 DEF Crash, Pullers, Puller, Registered, StopRuns, LifeShape, LocalTyped
<1>7. QED  BY <1>1, <1>2, <1>3, <1>4, <1>5, <1>6 DEF Asked, Faults

\* Keys that expire: a worker that pulls keeps the hash and the lock from it.
LEMMA ExpiryPulls == LifeShape /\ Pullers /\ ~Robbed /\ ExpiresOrReady => Pullers'
<1> SUFFICES ASSUME LifeShape, Pullers, ~Robbed, ExpiresOrReady PROVE Pullers'
  OBVIOUS
<1>1. CASE Promote
  <2>1. meta # NoMeta => meta' # NoMeta
    BY <1>1, HashWritten DEF Promote, LifeShape, RedisTyped
  <2>2. QED  BY <1>1, <2>1, PullersStay DEF Promote
<1>2. CASE TimerExpires \/ ClientsExpire \/ StoppingExpires
  BY <1>2, PullersStay DEF TimerExpires, ClientsExpire, StoppingExpires
<1>3. CASE MetaExpires
  <2>1. \A v \in Worker : up[v] # "pulling"
    BY <1>3 DEF MetaExpires, Refreshes, Pullers, Puller, Registered, LifeShape, WorkersTyped
  <2>2. QED  BY <1>3, <2>1, PullersNone DEF MetaExpires
<1>4. CASE LockExpires
  <2>1. \A v \in Worker : up[v] # "pulling"
    BY <1>4 DEF LockExpires, HasLocal, Pullers, Puller, Registered, LifeShape, WorkersTyped
  <2>2. QED  BY <1>4, <2>1, PullersNone DEF LockExpires
<1>5. CASE LockLapses
  <2>1. \A v \in Worker : up[v] # "pulling"
    BY <1>5 DEF Robbed, Robs
  <2>2. QED  BY <1>5, <2>1, PullersNone DEF LockLapses
<1>6. QED  BY <1>1, <1>2, <1>3, <1>4, <1>5 DEF ExpiresOrReady

\* Every step that robs nobody keeps the lock with who pulls.
LEMMA PullersStep ==
  LifeShape /\ Pullers /\ [LifecycleNext]_lifecycleVars /\ [~Robbed]_lifecycleVars => Pullers'
<1> SUFFICES ASSUME LifeShape, Pullers, [LifecycleNext]_lifecycleVars, [~Robbed]_lifecycleVars
             PROVE  Pullers'
  OBVIOUS
<1>1. CASE UNCHANGED lifecycleVars
  BY <1>1, PullersStay DEF lifecycleVars
<1>2. CASE LifecycleNext /\ ~Robbed
  <2>1. ASSUME NEW c \in Client, ClientActs(c) PROVE Pullers'
    BY <1>2, <2>1, RequestPulls
  <2>2. ASSUME NEW w \in Worker, WorkerActs(w) PROVE Pullers'
    BY <1>2, <2>2, TeardownPulls, LoopPulls, FaultPulls DEF WorkerActs
  <2>3. QED  BY <1>2, <2>1, <2>2, ExpiryPulls, LifecycleActors
<1>3. QED  BY <1>1, <1>2

\* Who pulls has the lock, so at most one worker does.
LockWithPuller == \A v \in Worker : up[v] = "pulling" => owner = v

\* The channel is pulled from its provider by the worker of the owner lock alone, so never
\* twice, however requests, stops, lost events, crashes, late promotions, expiries and slow
\* extensions of the lock are interleaved (initialize_channel, extend_ownership, the cleanup
\* thread): but for the seven ways in which the lock of a worker that pulls is taken away
\* under it, which Robs names.
THEOREM PullerHasLock ==
  LifecycleSpec /\ [][~Robbed]_lifecycleVars => []LockWithPuller
<1>1. LifecycleInit => Pullers
  BY DEF LifecycleInit, Pullers, Puller, Registered
<1>2. Pullers => LockWithPuller
  BY DEF Pullers, Puller, LockWithPuller
<1>3. QED  BY InitLife, LifeStep, PullersStep, <1>1, <1>2, PTL DEF LifecycleSpec
=============================================================================
