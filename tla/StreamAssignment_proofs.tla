---------------------- MODULE StreamAssignment_proofs ----------------------
(* Proofs about StreamAssignment, for any workers, channels, streams,        *)
(* previews, profiles and limits.                                            *)
(*                                                                           *)
(* Only the shape of the state holds of every instance. Two sessions that    *)
(* use one key can break the others (README, section 5), so these are proved *)
(* under a hypothesis on the rows, PreviewsApart or StreamsApart. Of a       *)
(* session that at most one worker at a time was busy with, the invariant    *)
(* SlotInv says at each place of that worker what its keys name and which    *)
(* slot is counted for it.                                                   *)
EXTENDS StreamAssignment, TLAPS

\* No stream is previewed whose id is also the id of a channel.
PreviewsApart == Preview \cap Channel = {}

\* No other session may play a stream of s.
Unshared(s) == \A r \in Session : r # s => StreamsFor(s) \cap StreamsFor(r) = {}
StreamsApart == PreviewsApart /\ \A s \in Session : Unshared(s)

\* What a worker has in hand where it uses it.
Places ==
  \A w \in Worker :
    /\ pc[w] \in {"drop_stale", "set_profile", "forget_stream", "get_profile", "forget_profile"}
         => stream[w] # None
    /\ pc[w] = "forget_copy" /\ profile[w] # None => stream[w] # None
    /\ pc[w] \in {"forget_profile", "release"} => profile[w] # None
    /\ pc[w] = "idle" => then[w] = "clean"

Shape ==
  /\ TypeOK
  /\ slots \in [Profile -> Int]
  /\ reserved \in [Worker -> BOOLEAN]
  /\ then \in [Worker -> {"clean", "abort"}]
  /\ Places

\* Keys, copies and workers name only streams of their own session.
KeysOwn == \A s \in Session : channel_stream[Id(s)] \in StreamsFor(s) \cup {None}
CopiesOwn == \A s \in Session : Field(s, "stream_id") \in StreamsFor(s) \cup {None}
WorkersOwn ==
  \A w \in Worker : /\ stream[w] \in StreamsFor(ses[w]) \cup {None}
                    /\ pc[w] = "idle" => stream[w] = None
KeepsOwn == KeysOwn /\ CopiesOwn /\ WorkersOwn

\* The only slot counted for s is one of q.
Counted(s, q) == granted[s] = [p \in Profile |-> IF p = q THEN 1 ELSE 0]

\* Of the streams of s, at most t has a profile in its key.
OthersUnset(s, t) == \A u \in StreamsFor(s) \ {t} : stream_profile[u] = None

Unset(s) ==
  /\ \A u \in StreamsFor(s) : stream_profile[u] = None
  /\ IsChannel(s) => channel_stream[Id(s)] = None
HasNothing(s) == Unset(s) /\ granted[s] = [p \in Profile |-> 0]

\* The keys of s say that it plays t with a slot of q, and that slot is counted.
Holds(s, t, q) ==
  /\ t \in StreamsFor(s) /\ q \in Profile
  /\ channel_stream[Id(s)] = t
  /\ stream_profile[t] = q
  /\ OthersUnset(s, t)
  /\ Counted(s, q)

\* Between two requests.
Rested(s) ==
  \/ metadata[s] = None /\ owner[s] = None /\ HasNothing(s)
  \/ metadata[s] # None /\ \E t \in Stream, q \in Profile : Holds(s, t, q)

Starting(w, s) == metadata[s] = None /\ owner[s] = w
Ending(w, s) == then[w] = "clean" \/ Starting(w, s)

\* What holds of s at each place of the worker that is busy with it.
Busied(w, s) ==
  /\ pc[w] \in {"get_stream", "choose"} => Starting(w, s) /\ HasNothing(s)
  /\ pc[w] = "set_profile" =>
       /\ Starting(w, s) /\ reserved[w]
       /\ stream[w] \in StreamsFor(s) /\ profile[w] \in Profile
       /\ channel_stream[Id(s)] = stream[w]
       /\ \A u \in StreamsFor(s) : stream_profile[u] = None
       /\ Counted(s, profile[w])
  /\ pc[w] \in {"read_back", "initialize"} =>
       Starting(w, s) /\ reserved[w] /\ Holds(s, stream[w], profile[w])
  /\ pc[w] = "copy" => metadata[s] # None /\ Holds(s, stream[w], profile[w])
  /\ pc[w] = "find" => Ending(w, s) /\ \E t \in Stream, q \in Profile : Holds(s, t, q)
  /\ pc[w] = "forget_stream" => Ending(w, s) /\ \E q \in Profile : Holds(s, stream[w], q)
  /\ pc[w] \in {"get_profile", "forget_profile"} =>
       /\ Ending(w, s)
       /\ stream[w] \in StreamsFor(s) /\ OthersUnset(s, stream[w])
       /\ IsChannel(s) => channel_stream[Id(s)] = None
       /\ stream_profile[stream[w]] \in Profile /\ Counted(s, stream_profile[stream[w]])
       /\ pc[w] = "forget_profile" => profile[w] = stream_profile[stream[w]]
  /\ pc[w] = "release" => Ending(w, s) /\ Unset(s) /\ Counted(s, profile[w])
  /\ pc[w] = "forget_copy" => Ending(w, s) /\ profile[w] = None /\ HasNothing(s)
  /\ pc[w] = "clean" => Ending(w, s) /\ HasNothing(s)
  /\ pc[w] \notin {"drop_stale", "find_copy", "get_copy", "orphan"}

Safe(s) ==
  /\ \A w, v \in Worker : Busy(w, s) /\ Busy(v, s) => w = v
  /\ \A w \in Worker : Busy(w, s) => Busied(w, s)
  /\ (\A w \in Worker : ~Busy(w, s)) => Rested(s)

SlotInv == \A s \in Session \ crossed : Unshared(s) => Safe(s)

(***************************************************************************)
(* The shape of the state                                                   *)
(***************************************************************************)
LEMMA Sessions ==
  ASSUME NEW s \in Session
  PROVE  /\ Id(s) \in Channel \cup Stream
         /\ StreamsFor(s) \in SUBSET Stream
         /\ IsChannel(s) => s = <<"channel", Id(s)>> /\ Id(s) \in Channel
         /\ ~IsChannel(s) => /\ s = <<"preview", Id(s)>>
                             /\ Id(s) \in Preview /\ Id(s) \in Stream
                             /\ StreamsFor(s) = {Id(s)}
BY AssignmentAssumption DEF Session, IsChannel, Id, StreamsFor

LEMMA SomeSession == (CHOOSE s \in Session : TRUE) \in Session
<1>1. \E s : s \in Session
  <2>1. PICK i \in Channel \cup Preview : TRUE
    BY AssignmentAssumption
  <2>2. <<"channel", i>> \in Session \/ <<"preview", i>> \in Session
    BY <2>1 DEF Session
  <2>3. QED  BY <2>2
<1>2. QED  BY <1>1

\* What HSET and HDEL make of the metadata.
LEMMA Fields ==
  ASSUME metadata \in [Session -> Metadata \cup {None}], NEW s \in Session
  PROVE  /\ Field(s, "stream_id") \in Stream \cup {None}
         /\ Field(s, "m3u_profile") \in Profile \cup {None}
         /\ Live(s) \in BOOLEAN
         /\ metadata[s] # None => Field(s, "stream_id") = metadata[s].stream_id
BY DEF Field, Metadata, Live

LEMMA Stores ==
  ASSUME metadata \in [Session -> Metadata \cup {None}], NEW s \in Session,
         NEW t \in Stream \cup {None}, NEW q \in Profile \cup {None}, NEW b \in BOOLEAN
  PROVE  /\ Stored(s, t, q, b) \in [Session -> Metadata \cup {None}]
         /\ Stored(s, t, q, b)[s] # None
         /\ Stored(s, t, q, b)[s].stream_id = IF t # None THEN t ELSE Field(s, "stream_id")
         /\ \A r \in Session : r # s => Stored(s, t, q, b)[r] = metadata[r]
<1> DEFINE h == [stream_id |-> IF t # None THEN t ELSE Field(s, "stream_id"),
                 m3u_profile |-> IF q # None THEN q ELSE Field(s, "m3u_profile"), live |-> b]
<1>1. Stored(s, t, q, b) = [metadata EXCEPT ![s] = h]
  BY DEF Stored, Set
<1>2. h \in Metadata
  BY Fields DEF Metadata
<1>3. h # None /\ h.stream_id = IF t # None THEN t ELSE Field(s, "stream_id")
  BY <1>2, AssignmentAssumption
<1> HIDE DEF h
<1>4. QED  BY <1>1, <1>2, <1>3

LEMMA Erases ==
  ASSUME metadata \in [Session -> Metadata \cup {None}], NEW s \in Session
  PROVE  /\ Erased(s) \in [Session -> Metadata \cup {None}]
         /\ Erased(s)[s] # None => Erased(s)[s].stream_id = None
         /\ \A r \in Session : r # s => Erased(s)[r] = metadata[r]
BY DEF Erased, Metadata

LEMMA Pool ==
  ASSUME Shape, NEW s \in Session, NEW q \in Profile,
         \/ Grant(s, q) /\ slots[q] < MaxStreams[q]
         \/ GiveBack(s, q)
  PROVE  /\ slots' \in [Profile -> Int]
         /\ \A p \in Profile : slots'[p] \in 0..MaxStreams[p]
         /\ granted' \in [Session -> [Profile -> -MaxGranted..MaxGranted]]
         /\ \A r \in Session : r # s => granted'[r] = granted[r]
<1>1. /\ slots \in [Profile -> Int] /\ slots[q] \in 0..MaxStreams[q] /\ MaxStreams[q] \in Nat
      /\ granted \in [Session -> [Profile -> -MaxGranted..MaxGranted]] /\ MaxGranted \in Nat
      /\ \A p \in Profile : slots[p] \in 0..MaxStreams[p]
  BY AssignmentAssumption DEF Shape, TypeOK
<1>2. /\ slots' \in [Profile -> Int]
      /\ \A p \in Profile : slots'[p] \in 0..MaxStreams[p]
  BY <1>1 DEF Grant, GiveBack, Set
<1>3. CASE Grant(s, q)
  <2> DEFINE n == IF granted[s][q] < MaxGranted THEN granted[s][q] + 1 ELSE granted[s][q]
  <2>1. n \in -MaxGranted..MaxGranted
    BY <1>1
  <2>2. granted' = [granted EXCEPT ![s] = [granted[s] EXCEPT ![q] = n]]
    BY <1>3 DEF Grant
  <2> HIDE DEF n
  <2>3. QED  BY <1>1, <1>2, <2>1, <2>2
<1>4. CASE GiveBack(s, q)
  <2> DEFINE n == IF granted[s][q] > -MaxGranted THEN granted[s][q] - 1 ELSE granted[s][q]
  <2>1. n \in -MaxGranted..MaxGranted
    BY <1>1
  <2>2. granted' = [granted EXCEPT ![s] = [granted[s] EXCEPT ![q] = n]]
    BY <1>4 DEF GiveBack
  <2> HIDE DEF n
  <2>3. QED  BY <1>1, <1>2, <2>1, <2>2
<1>5. QED  BY <1>3, <1>4

\* Every step of a start keeps the shape.
LEMMA ShapeStart ==
  ASSUME Shape, NEW w \in Worker, Start(w)
  PROVE  Shape'
<1>1. ASSUME NEW s \in Session, Claim(w, s) PROVE Shape'
  BY <1>1, Sessions DEF Claim, Shape, TypeOK, Places, Set, Goto, PC, keys, live, pool
<1>2. ASSUME NEW s \in Session, CleanOrphanedKeys(w, s) PROVE Shape'
  BY <1>2, Sessions DEF CleanOrphanedKeys, Shape, TypeOK, Places, Set, Goto, PC, keys, live, pool
<1>3. ASSUME Reuse(w) PROVE Shape'
  BY <1>3, Sessions DEF Reuse, HasProfile, Assigned, Shape, TypeOK, Places, Set, Goto, PC,
      keys, live, pool
<1>4. ASSUME FindStale(w) PROVE Shape'
  BY <1>4, Sessions, Fields DEF FindStale, HasProfile, Assigned, Shape, TypeOK, Places,
      Set, Goto, PC, keys, live, pool
<1>5. ASSUME DropStale(w) PROVE Shape'
  BY <1>5, Sessions, Pool DEF DropStale, Shape, TypeOK, Places, Set, Goto, PC, keys, live, pool
<1>6. ASSUME StartFresh(w) PROVE Shape'
  BY <1>6, Sessions DEF StartFresh, Shape, TypeOK, Places, Set, Goto, PC, keys, live, pool
<1>7. ASSUME NEW t \in Stream, NEW p \in Profile, Assign(w, t, p) PROVE Shape'
  BY <1>7, Sessions, Pool, AssignmentAssumption DEF Assign, Shape, TypeOK, Places, Set,
      Goto, PC, keys, live, pool
<1>8. ASSUME NoSlot(w) PROVE Shape'
  BY <1>8, Sessions, SomeSession DEF NoSlot, Rest, Shape, TypeOK, Places, Set, Goto, PC,
      keys, live, pool
<1>9. ASSUME SetProfile(w) PROVE Shape'
  BY <1>9, Sessions DEF SetProfile, Shape, TypeOK, Places, Set, Goto, PC, keys, live, pool
<1>10. ASSUME ReadBack(w) PROVE Shape'
  BY <1>10, Sessions DEF ReadBack, Shape, TypeOK, Places, Set, Goto, PC, keys, live, pool
<1>11. ASSUME Initialize(w) PROVE Shape'
  BY <1>11, Sessions, Stores, Fields DEF Initialize, Shape, TypeOK, Places, Set, Goto, PC,
      keys, live, pool
<1>12. ASSUME Copy(w) PROVE Shape'
  BY <1>12, Sessions, Stores, Fields, SomeSession DEF Copy, Rest, Shape, TypeOK, Places,
      Set, Goto, PC, keys, live, pool
<1>13. ASSUME GiveUp(w) PROVE Shape'
  BY <1>13, Sessions DEF GiveUp, Shape, TypeOK, Places, Set, Goto, PC, keys, live, pool
<1>14. QED  BY <1>1, <1>2, <1>3, <1>4, <1>5, <1>6, <1>7, <1>8, <1>9, <1>10, <1>11, <1>12,
    <1>13 DEF Start

\* So does every step of an end.
LEMMA ShapeEnd ==
  ASSUME Shape, NEW w \in Worker, End(w)
  PROVE  Shape'
<1>1. ASSUME NEW s \in Session, Stop(w, s) PROVE Shape'
  <2>1. metadata' \in [Session -> Metadata \cup {None}]
    BY <1>1 DEF Stop, Metadata, Shape, TypeOK
  <2>2. QED  BY <1>1, <2>1 DEF Stop, Shape, TypeOK, Places, Set, Goto, PC, keys, live, pool
<1>2. ASSUME Find(w) PROVE Shape'
  BY <1>2, Sessions, AssignmentAssumption DEF Find, Assigned, Shape, TypeOK, Places, Set,
      Goto, PC, keys, live, pool
<1>3. ASSUME FindCopy(w) PROVE Shape'
  BY <1>3, Sessions, Fields DEF FindCopy, Copied, Failed, Shape, TypeOK, Places, Set, Goto,
      PC, keys, live, pool
<1>4. ASSUME ForgetStream(w) PROVE Shape'
  BY <1>4, Sessions DEF ForgetStream, Shape, TypeOK, Places, Set, Goto, PC, keys, live, pool
<1>5. ASSUME GetProfile(w) PROVE Shape'
  BY <1>5, Sessions DEF GetProfile, Failed, Shape, TypeOK, Places, Set, Goto, PC, keys, live, pool
<1>6. ASSUME ForgetProfile(w) PROVE Shape'
  BY <1>6, Sessions DEF ForgetProfile, Shape, TypeOK, Places, Set, Goto, PC, keys, live, pool
<1>7. ASSUME GetCopy(w) PROVE Shape'
  BY <1>7, Sessions, Fields DEF GetCopy, Copied, Failed, Shape, TypeOK, Places, Set, Goto,
      PC, keys, live, pool
<1>8. ASSUME Release(w) PROVE Shape'
  BY <1>8, Sessions, Pool DEF Release, Shape, TypeOK, Places, Set, Goto, PC, keys, live, pool
<1>9. ASSUME ForgetCopy(w) PROVE Shape'
  BY <1>9, Sessions, Erases DEF ForgetCopy, Shape, TypeOK, Places, Set, Goto, PC, keys, live, pool
<1>10. ASSUME ReleaseOrphan(w) PROVE Shape'
  BY <1>10, Sessions, Pool, Erases, Fields DEF ReleaseOrphan, Copied, Shape, TypeOK,
      Places, Set, Goto, PC, keys, live, pool
<1>11. ASSUME Clean(w) PROVE Shape'
  BY <1>11, Sessions, SomeSession DEF Clean, Rest, Shape, TypeOK, Places, Set, Goto, PC,
      keys, live, pool
<1>12. QED  BY <1>1, <1>2, <1>3, <1>4, <1>5, <1>6, <1>7, <1>8, <1>9, <1>10, <1>11 DEF End

LEMMA ShapeStep == Shape /\ [Next]_vars => Shape'
<1>1. ASSUME Shape, UNCHANGED vars PROVE Shape'
  BY <1>1 DEF Shape, TypeOK, Places, vars
<1>2. QED  BY <1>1, ShapeStart, ShapeEnd DEF Next

LEMMA ShapeInit == Init => Shape
BY AssignmentAssumption, SomeSession DEF Init, Shape, TypeOK, Places, PC

\* For any workers, rows and limits the state keeps its shape, so no profile counts
\* more slots than it has.
THEOREM TypeCorrect == Spec => []TypeOK
<1>1. Shape => TypeOK
  BY DEF Shape
<1>2. QED  BY <1>1, ShapeInit, ShapeStep, PTL DEF Spec

(***************************************************************************)
(* Sessions play their own streams                                          *)
(***************************************************************************)
LEMMA Ids ==
  ASSUME PreviewsApart, NEW s \in Session, NEW r \in Session, s # r
  PROVE  Id(s) # Id(r)
BY DEF PreviewsApart, Session, Id

LEMMA Assigns ==
  ASSUME KeepsOwn, Shape, NEW s \in Session
  PROVE  Assigned(s) \in StreamsFor(s) \cup {None}
BY DEF KeepsOwn, KeysOwn, Assigned, StreamsFor, Shape, TypeOK

\* A key that is set to a stream of its session, or deleted, leaves the other keys.
LEMMA KeysOwnSet ==
  ASSUME PreviewsApart, Shape, KeysOwn, NEW s \in Session, NEW t \in StreamsFor(s) \cup {None},
         channel_stream' = Set(channel_stream, Id(s), t)
  PROVE  KeysOwn'
<1>1. ASSUME NEW r \in Session PROVE channel_stream'[Id(r)] \in StreamsFor(r) \cup {None}
  <2>1. CASE r = s
    BY <2>1, Sessions DEF Shape, TypeOK, Set
  <2>2. CASE r # s
    BY <2>2, Ids, Sessions DEF Shape, TypeOK, Set, KeysOwn
  <2>3. QED  BY <2>1, <2>2
<1>2. QED  BY <1>1 DEF KeysOwn

LEMMA CopiesOwnKept ==
  ASSUME CopiesOwn, NEW s \in Session, \A r \in Session : r # s => metadata'[r] = metadata[r],
         metadata'[s] # None => metadata'[s].stream_id \in StreamsFor(s) \cup {None}
  PROVE  CopiesOwn'
<1>1. ASSUME NEW r \in Session PROVE Field(r, "stream_id")' \in StreamsFor(r) \cup {None}
  <2>1. CASE r = s
    BY <2>1 DEF Field
  <2>2. CASE r # s
    BY <2>2 DEF Field, CopiesOwn
  <2>3. QED  BY <2>1, <2>2
<1>2. QED  BY <1>1 DEF CopiesOwn

LEMMA CopiesOwnStored ==
  ASSUME CopiesOwn, metadata \in [Session -> Metadata \cup {None}], NEW s \in Session,
         NEW t \in StreamsFor(s) \cup {None}, NEW q \in Profile \cup {None},
         \E b \in BOOLEAN : metadata' = Stored(s, t, q, b)
  PROVE  CopiesOwn'
<1>1. PICK b \in BOOLEAN : metadata' = Stored(s, t, q, b)
  OBVIOUS
<1>2. t \in Stream \cup {None} /\ Field(s, "stream_id") \in StreamsFor(s) \cup {None}
  BY Sessions DEF CopiesOwn
<1>3. metadata'[s].stream_id = IF t # None THEN t ELSE Field(s, "stream_id")
  <2>1. Stored(s, t, q, b)[s].stream_id = IF t # None THEN t ELSE Field(s, "stream_id")
    BY <1>2, Stores
  <2>2. QED  BY <1>1, <2>1
<1>4. \A r \in Session : r # s => metadata'[r] = metadata[r]
  <2>1. \A r \in Session : r # s => Stored(s, t, q, b)[r] = metadata[r]
    BY DEF Stored, Set
  <2>2. QED  BY <1>1, <2>1
<1>5. QED  BY <1>2, <1>3, <1>4, CopiesOwnKept

\* Every step of a start keeps to the streams of its session.
LEMMA OwnStart ==
  ASSUME PreviewsApart, Shape, KeepsOwn, NEW w \in Worker, Start(w)
  PROVE  KeepsOwn'
<1> DEFINE own == ses[w]
<1>0. own \in Session /\ KeysOwn /\ CopiesOwn /\ WorkersOwn
  BY DEF KeepsOwn, Shape, TypeOK
<1>1. ASSUME NEW s \in Session, Claim(w, s) PROVE KeysOwn' /\ CopiesOwn' /\ WorkersOwn'
  <2>1. KeysOwn'
    BY <1>0, <1>1 DEF Claim, keys, KeysOwn
  <2>2. CopiesOwn'
    BY <1>0, <1>1 DEF Claim, live, CopiesOwn, Field
  <2>3. WorkersOwn'
    BY <1>0, <1>1 DEF Claim, WorkersOwn, Shape, TypeOK, Set, Goto
  <2>4. QED  BY <2>1, <2>2, <2>3
<1>2. ASSUME NEW s \in Session, CleanOrphanedKeys(w, s) PROVE KeysOwn' /\ CopiesOwn' /\ WorkersOwn'
  <2>1. KeysOwn'
    BY <1>0, <1>2 DEF CleanOrphanedKeys, keys, KeysOwn
  <2>2. CopiesOwn'
    BY <1>0, <1>2 DEF CleanOrphanedKeys, live, CopiesOwn, Field
  <2>3. WorkersOwn'
    BY <1>0, <1>2 DEF CleanOrphanedKeys, WorkersOwn, Shape, TypeOK, Set, Goto
  <2>4. QED  BY <2>1, <2>2, <2>3
<1>3. ASSUME Reuse(w) PROVE KeysOwn' /\ CopiesOwn' /\ WorkersOwn'
  <2>1. KeysOwn'
    BY <1>0, <1>3 DEF Reuse, keys, KeysOwn
  <2>2. CopiesOwn'
    BY <1>0, <1>3 DEF Reuse, live, CopiesOwn, Field
  <2>3. WorkersOwn'
    BY <1>0, <1>3, Assigns DEF Reuse, WorkersOwn, Shape, TypeOK, Set, Goto
  <2>4. QED  BY <2>1, <2>2, <2>3
<1>4. ASSUME FindStale(w) PROVE KeysOwn' /\ CopiesOwn' /\ WorkersOwn'
  <2>1. KeysOwn'
    BY <1>0, <1>4 DEF FindStale, keys, KeysOwn
  <2>2. CopiesOwn'
    BY <1>0, <1>4 DEF FindStale, live, CopiesOwn, Field
  <2>3. WorkersOwn'
    BY <1>0, <1>4, Assigns DEF FindStale, WorkersOwn, Shape, TypeOK, Set, Goto
  <2>4. QED  BY <2>1, <2>2, <2>3
<1>5. ASSUME DropStale(w) PROVE KeysOwn' /\ CopiesOwn' /\ WorkersOwn'
  <2>1. KeysOwn'
    BY <1>0, <1>5, KeysOwnSet DEF DropStale, keys
  <2>2. CopiesOwn'
    BY <1>0, <1>5 DEF DropStale, live, CopiesOwn, Field
  <2>3. WorkersOwn'
    BY <1>0, <1>5 DEF DropStale, WorkersOwn, Shape, TypeOK, Set, Goto
  <2>4. QED  BY <2>1, <2>2, <2>3
<1>6. ASSUME StartFresh(w) PROVE KeysOwn' /\ CopiesOwn' /\ WorkersOwn'
  <2>1. KeysOwn'
    BY <1>0, <1>6 DEF StartFresh, keys, KeysOwn
  <2>2. CopiesOwn'
    BY <1>0, <1>6 DEF StartFresh, live, CopiesOwn, Field
  <2>3. WorkersOwn'
    BY <1>0, <1>6 DEF StartFresh, WorkersOwn, Shape, TypeOK, Set, Goto
  <2>4. QED  BY <2>1, <2>2, <2>3
<1>7. ASSUME NEW t \in Stream, NEW p \in Profile, Assign(w, t, p)
    PROVE KeysOwn' /\ CopiesOwn' /\ WorkersOwn'
  <2>1. KeysOwn'
    BY <1>0, <1>7, KeysOwnSet DEF Assign, keys, Candidates
  <2>2. CopiesOwn'
    BY <1>0, <1>7 DEF Assign, live, CopiesOwn, Field
  <2>3. WorkersOwn'
    BY <1>0, <1>7 DEF Assign, WorkersOwn, Shape, TypeOK, Set, Goto, Candidates
  <2>4. QED  BY <2>1, <2>2, <2>3
<1>8. ASSUME NoSlot(w) PROVE KeysOwn' /\ CopiesOwn' /\ WorkersOwn'
  <2>1. KeysOwn'
    BY <1>0, <1>8 DEF NoSlot, keys, KeysOwn
  <2>2. CopiesOwn'
    BY <1>0, <1>8 DEF NoSlot, live, CopiesOwn, Field
  <2>3. WorkersOwn'
    BY <1>0, <1>8, SomeSession DEF NoSlot, WorkersOwn, Shape, TypeOK, Set, Goto, Rest
  <2>4. QED  BY <2>1, <2>2, <2>3
<1>9. ASSUME SetProfile(w) PROVE KeysOwn' /\ CopiesOwn' /\ WorkersOwn'
  <2>1. KeysOwn'
    BY <1>0, <1>9 DEF SetProfile, keys, KeysOwn
  <2>2. CopiesOwn'
    BY <1>0, <1>9 DEF SetProfile, live, CopiesOwn, Field
  <2>3. WorkersOwn'
    BY <1>0, <1>9 DEF SetProfile, WorkersOwn, Shape, TypeOK, Set, Goto
  <2>4. QED  BY <2>1, <2>2, <2>3
<1>10. ASSUME ReadBack(w) PROVE KeysOwn' /\ CopiesOwn' /\ WorkersOwn'
  <2>1. KeysOwn'
    BY <1>0, <1>10 DEF ReadBack, keys, KeysOwn
  <2>2. CopiesOwn'
    BY <1>0, <1>10 DEF ReadBack, live, CopiesOwn, Field
  <2>3. WorkersOwn'
    BY <1>0, <1>10 DEF ReadBack, WorkersOwn, Shape, TypeOK, Set, Goto, KeysOwn
  <2>4. QED  BY <2>1, <2>2, <2>3
<1>11. ASSUME Initialize(w) PROVE KeysOwn' /\ CopiesOwn' /\ WorkersOwn'
  <2>1. KeysOwn'
    BY <1>0, <1>11 DEF Initialize, keys, KeysOwn
  <2>2. CopiesOwn'
    <3>1. stream[w] \in StreamsFor(own) \cup {None}
      BY <1>0 DEF WorkersOwn
    <3>2. metadata \in [Session -> Metadata \cup {None}]
      BY DEF Shape, TypeOK
    <3>3. CASE metadata' = metadata
      BY <1>0, <3>3 DEF CopiesOwn, Field
    <3>4. CASE \E b \in BOOLEAN : metadata' = Stored(own, stream[w], None, b)
      BY <1>0, <3>1, <3>2, <3>4, CopiesOwnStored
    <3>5. QED  BY <1>0, <1>11, <3>2, <3>3, <3>4, Fields DEF Initialize
  <2>3. WorkersOwn'
    BY <1>0, <1>11 DEF Initialize, WorkersOwn, Shape, TypeOK, Set, Goto
  <2>4. QED  BY <2>1, <2>2, <2>3
<1>12. ASSUME Copy(w) PROVE KeysOwn' /\ CopiesOwn' /\ WorkersOwn'
  <2>1. KeysOwn'
    BY <1>0, <1>12 DEF Copy, keys, KeysOwn
  <2>2. CopiesOwn'
    <3>1. stream[w] \in StreamsFor(own) \cup {None}
      BY <1>0 DEF WorkersOwn
    <3>2. metadata \in [Session -> Metadata \cup {None}] /\ profile[w] \in Profile \cup {None}
      BY DEF Shape, TypeOK
    <3>3. \E b \in BOOLEAN : metadata' = Stored(own, stream[w], profile[w], b)
      BY <1>0, <1>12, <3>2, Fields DEF Copy
    <3>4. QED  BY <1>0, <3>1, <3>2, <3>3, CopiesOwnStored
  <2>3. WorkersOwn'
    BY <1>0, <1>12, SomeSession DEF Copy, WorkersOwn, Shape, TypeOK, Set, Goto, Rest
  <2>4. QED  BY <2>1, <2>2, <2>3
<1>13. ASSUME GiveUp(w) PROVE KeysOwn' /\ CopiesOwn' /\ WorkersOwn'
  <2>1. KeysOwn'
    BY <1>0, <1>13 DEF GiveUp, keys, KeysOwn
  <2>2. CopiesOwn'
    BY <1>0, <1>13 DEF GiveUp, live, CopiesOwn, Field
  <2>3. WorkersOwn'
    BY <1>0, <1>13 DEF GiveUp, WorkersOwn, Shape, TypeOK, Set, Goto
  <2>4. QED  BY <2>1, <2>2, <2>3
<1>14. QED  BY <1>1, <1>2, <1>3, <1>4, <1>5, <1>6, <1>7, <1>8, <1>9, <1>10, <1>11, <1>12,
    <1>13 DEF KeepsOwn, Start

\* So does every step of an end.
LEMMA OwnEnd ==
  ASSUME PreviewsApart, Shape, KeepsOwn, NEW w \in Worker, End(w)
  PROVE  KeepsOwn'
<1> DEFINE own == ses[w]
<1>0. own \in Session /\ KeysOwn /\ CopiesOwn /\ WorkersOwn
  BY DEF KeepsOwn, Shape, TypeOK
<1>1. ASSUME NEW s \in Session, Stop(w, s) PROVE KeysOwn' /\ CopiesOwn' /\ WorkersOwn'
  <2>1. KeysOwn'
    BY <1>0, <1>1 DEF Stop, keys, KeysOwn
  <2>2. CopiesOwn'
    <3>1. /\ Field(s, "stream_id") \in StreamsFor(s) \cup {None}
          /\ Field(s, "stream_id") = metadata[s].stream_id
      BY <1>0, <1>1 DEF Stop, CopiesOwn, Field
    <3>2. /\ metadata'[s].stream_id = metadata[s].stream_id
          /\ \A r \in Session : r # s => metadata'[r] = metadata[r]
      BY <1>1 DEF Stop, Shape, TypeOK, Metadata
    <3>3. QED  BY <1>0, <1>1, <3>1, <3>2, CopiesOwnKept
  <2>3. WorkersOwn'
    BY <1>0, <1>1 DEF Stop, WorkersOwn, Shape, TypeOK, Set, Goto
  <2>4. QED  BY <2>1, <2>2, <2>3
<1>2. ASSUME Find(w) PROVE KeysOwn' /\ CopiesOwn' /\ WorkersOwn'
  <2>1. KeysOwn'
    BY <1>0, <1>2 DEF Find, keys, KeysOwn
  <2>2. CopiesOwn'
    BY <1>0, <1>2 DEF Find, live, CopiesOwn, Field
  <2>3. WorkersOwn'
    BY <1>0, <1>2, Assigns DEF Find, WorkersOwn, Shape, TypeOK, Set, Goto
  <2>4. QED  BY <2>1, <2>2, <2>3
<1>3. ASSUME FindCopy(w) PROVE KeysOwn' /\ CopiesOwn' /\ WorkersOwn'
  <2>1. KeysOwn'
    BY <1>0, <1>3 DEF FindCopy, keys, KeysOwn
  <2>2. CopiesOwn'
    BY <1>0, <1>3 DEF FindCopy, live, CopiesOwn, Field
  <2>3. WorkersOwn'
    <3>1. Copied(w, "stream_id") \in StreamsFor(own) \cup {None}
      BY <1>0 DEF Copied, CopiesOwn
    <3>2. QED  BY <1>0, <1>3, <3>1 DEF FindCopy, WorkersOwn, Shape, TypeOK, Set, Goto, Failed
  <2>4. QED  BY <2>1, <2>2, <2>3
<1>4. ASSUME ForgetStream(w) PROVE KeysOwn' /\ CopiesOwn' /\ WorkersOwn'
  <2>1. KeysOwn'
    BY <1>0, <1>4, KeysOwnSet DEF ForgetStream, keys
  <2>2. CopiesOwn'
    BY <1>0, <1>4 DEF ForgetStream, live, CopiesOwn, Field
  <2>3. WorkersOwn'
    BY <1>0, <1>4 DEF ForgetStream, WorkersOwn, Shape, TypeOK, Set, Goto
  <2>4. QED  BY <2>1, <2>2, <2>3
<1>5. ASSUME GetProfile(w) PROVE KeysOwn' /\ CopiesOwn' /\ WorkersOwn'
  <2>1. KeysOwn'
    BY <1>0, <1>5 DEF GetProfile, keys, KeysOwn
  <2>2. CopiesOwn'
    BY <1>0, <1>5 DEF GetProfile, live, CopiesOwn, Field
  <2>3. WorkersOwn'
    BY <1>0, <1>5 DEF GetProfile, WorkersOwn, Shape, TypeOK, Set, Goto, Failed
  <2>4. QED  BY <2>1, <2>2, <2>3
<1>6. ASSUME ForgetProfile(w) PROVE KeysOwn' /\ CopiesOwn' /\ WorkersOwn'
  <2>1. KeysOwn'
    BY <1>0, <1>6 DEF ForgetProfile, keys, KeysOwn
  <2>2. CopiesOwn'
    BY <1>0, <1>6 DEF ForgetProfile, live, CopiesOwn, Field
  <2>3. WorkersOwn'
    BY <1>0, <1>6 DEF ForgetProfile, WorkersOwn, Shape, TypeOK, Set, Goto
  <2>4. QED  BY <2>1, <2>2, <2>3
<1>7. ASSUME GetCopy(w) PROVE KeysOwn' /\ CopiesOwn' /\ WorkersOwn'
  <2>1. KeysOwn'
    BY <1>0, <1>7 DEF GetCopy, keys, KeysOwn
  <2>2. CopiesOwn'
    BY <1>0, <1>7 DEF GetCopy, live, CopiesOwn, Field
  <2>3. WorkersOwn'
    BY <1>0, <1>7 DEF GetCopy, WorkersOwn, Shape, TypeOK, Set, Goto, Copied, Failed
  <2>4. QED  BY <2>1, <2>2, <2>3
<1>8. ASSUME Release(w) PROVE KeysOwn' /\ CopiesOwn' /\ WorkersOwn'
  <2>1. KeysOwn'
    BY <1>0, <1>8 DEF Release, keys, KeysOwn
  <2>2. CopiesOwn'
    BY <1>0, <1>8 DEF Release, live, CopiesOwn, Field
  <2>3. WorkersOwn'
    BY <1>0, <1>8 DEF Release, WorkersOwn, Shape, TypeOK, Set, Goto
  <2>4. QED  BY <2>1, <2>2, <2>3
<1>9. ASSUME ForgetCopy(w) PROVE KeysOwn' /\ CopiesOwn' /\ WorkersOwn'
  <2>1. KeysOwn'
    BY <1>0, <1>9, KeysOwnSet DEF ForgetCopy, keys, KeysOwn
  <2>2. CopiesOwn'
    BY <1>0, <1>9, CopiesOwnKept, Erases DEF ForgetCopy, live, Shape, TypeOK
  <2>3. WorkersOwn'
    BY <1>0, <1>9 DEF ForgetCopy, WorkersOwn, Shape, TypeOK, Set, Goto
  <2>4. QED  BY <2>1, <2>2, <2>3
<1>10. ASSUME ReleaseOrphan(w) PROVE KeysOwn' /\ CopiesOwn' /\ WorkersOwn'
  <2>1. KeysOwn'
    BY <1>0, <1>10 DEF ReleaseOrphan, keys, KeysOwn
  <2>2. CopiesOwn'
    BY <1>0, <1>10, CopiesOwnKept, Erases DEF ReleaseOrphan, live, Shape, TypeOK, CopiesOwn, Field
  <2>3. WorkersOwn'
    BY <1>0, <1>10 DEF ReleaseOrphan, WorkersOwn, Shape, TypeOK, Set, Goto
  <2>4. QED  BY <2>1, <2>2, <2>3
<1>11. ASSUME Clean(w) PROVE KeysOwn' /\ CopiesOwn' /\ WorkersOwn'
  <2>1. KeysOwn'
    BY <1>0, <1>11 DEF Clean, keys, KeysOwn
  <2>2. CopiesOwn'
    BY <1>0, <1>11, CopiesOwnKept DEF Clean, live, Shape, TypeOK, Set, CopiesOwn, Field
  <2>3. WorkersOwn'
    BY <1>0, <1>11, SomeSession DEF Clean, WorkersOwn, Shape, TypeOK, Set, Goto, Rest
  <2>4. QED  BY <2>1, <2>2, <2>3
<1>12. QED  BY <1>1, <1>2, <1>3, <1>4, <1>5, <1>6, <1>7, <1>8, <1>9, <1>10, <1>11 DEF KeepsOwn, End

LEMMA OwnInit == Init => KeepsOwn
BY Sessions DEF Init, KeepsOwn, KeysOwn, CopiesOwn, WorkersOwn, Field

LEMMA OwnStep ==
  ASSUME PreviewsApart
  PROVE  Shape /\ KeepsOwn /\ [Next]_vars => KeepsOwn'
<1>1. ASSUME KeepsOwn, UNCHANGED vars PROVE KeepsOwn'
  BY <1>1 DEF KeepsOwn, KeysOwn, CopiesOwn, WorkersOwn, Field, vars
<1>2. QED  BY <1>1, OwnStart, OwnEnd DEF Next

\* If no stream is previewed whose id is also the id of a channel, no channel ever
\* plays a stream that is not assigned to it, whoever starts and stops it at once.
THEOREM ChannelsPlayOwn ==
  ASSUME PreviewsApart
  PROVE  Spec => []PlaysOwnStream
<1>2. KeepsOwn => PlaysOwnStream
  <2>1. ASSUME NEW c \in Channel PROVE /\ <<"channel", c>> \in Session
                                       /\ StreamsFor(<<"channel", c>>) = StreamsOf[c]
    BY DEF Session, StreamsFor, IsChannel, Id
  <2>2. QED  BY <2>1 DEF KeepsOwn, CopiesOwn, PlaysOwnStream
<1>3. QED  BY <1>2, OwnInit, ShapeInit, ShapeStep, OwnStep, PTL DEF Spec

(***************************************************************************)
(* Slots of a session                                                       *)
(***************************************************************************)
\* Nothing that belongs to s has changed.
Same(s) ==
  /\ metadata'[s] = metadata[s] /\ owner'[s] = owner[s] /\ granted'[s] = granted[s]
  /\ channel_stream'[Id(s)] = channel_stream[Id(s)]
  /\ \A u \in StreamsFor(s) : stream_profile'[u] = stream_profile[u]

SameWorker(w) ==
  /\ pc'[w] = pc[w] /\ ses'[w] = ses[w] /\ stream'[w] = stream[w]
  /\ profile'[w] = profile[w] /\ reserved'[w] = reserved[w] /\ then'[w] = then[w]

\* The worker of a step is at work on r, or takes it up.
AtWork(w, r) == IF pc[w] = "idle" THEN ses'[w] = r /\ pc'[w] # "idle" ELSE ses[w] = r

LEMMA SetElsewhere ==
  ASSUME NEW S, NEW V, NEW f \in [S -> V], NEW x, NEW v, NEW y \in S, x # y
  PROVE  Set(f, x, v)[y] = f[y]
BY DEF Set

\* A step of a start moves one worker, on one session.
LEMMA StartIsLocal ==
  ASSUME Shape, NEW w \in Worker, Start(w)
  PROVE  /\ \A v \in Worker : v # w => SameWorker(v)
         /\ pc[w] # "idle" /\ pc'[w] # "idle" => ses'[w] = ses[w]
         /\ pc[w] = "idle" => pc'[w] # "idle"
<1>1. ASSUME NEW s \in Session, Claim(w, s)
      PROVE  /\ \A v \in Worker : v # w => SameWorker(v)
             /\ pc[w] # "idle" /\ pc'[w] # "idle" => ses'[w] = ses[w]
             /\ pc[w] = "idle" => pc'[w] # "idle"
  BY <1>1 DEF Claim, SameWorker, Shape, TypeOK, Set, Goto
<1>2. ASSUME NEW s \in Session, CleanOrphanedKeys(w, s)
      PROVE  /\ \A v \in Worker : v # w => SameWorker(v)
             /\ pc[w] # "idle" /\ pc'[w] # "idle" => ses'[w] = ses[w]
             /\ pc[w] = "idle" => pc'[w] # "idle"
  BY <1>2 DEF CleanOrphanedKeys, SameWorker, Shape, TypeOK, Set, Goto
<1>3. ASSUME Reuse(w)
      PROVE  /\ \A v \in Worker : v # w => SameWorker(v)
             /\ pc[w] # "idle" /\ pc'[w] # "idle" => ses'[w] = ses[w]
             /\ pc[w] = "idle" => pc'[w] # "idle"
  BY <1>3 DEF Reuse, SameWorker, Shape, TypeOK, Set, Goto
<1>4. ASSUME FindStale(w)
      PROVE  /\ \A v \in Worker : v # w => SameWorker(v)
             /\ pc[w] # "idle" /\ pc'[w] # "idle" => ses'[w] = ses[w]
             /\ pc[w] = "idle" => pc'[w] # "idle"
  BY <1>4 DEF FindStale, SameWorker, Shape, TypeOK, Set, Goto
<1>5. ASSUME DropStale(w)
      PROVE  /\ \A v \in Worker : v # w => SameWorker(v)
             /\ pc[w] # "idle" /\ pc'[w] # "idle" => ses'[w] = ses[w]
             /\ pc[w] = "idle" => pc'[w] # "idle"
  BY <1>5 DEF DropStale, SameWorker, Shape, TypeOK, Set, Goto
<1>6. ASSUME StartFresh(w)
      PROVE  /\ \A v \in Worker : v # w => SameWorker(v)
             /\ pc[w] # "idle" /\ pc'[w] # "idle" => ses'[w] = ses[w]
             /\ pc[w] = "idle" => pc'[w] # "idle"
  BY <1>6 DEF StartFresh, SameWorker, Shape, TypeOK, Set, Goto
<1>7. ASSUME NEW t \in Stream, NEW p \in Profile, Assign(w, t, p)
      PROVE  /\ \A v \in Worker : v # w => SameWorker(v)
             /\ pc[w] # "idle" /\ pc'[w] # "idle" => ses'[w] = ses[w]
             /\ pc[w] = "idle" => pc'[w] # "idle"
  BY <1>7 DEF Assign, SameWorker, Shape, TypeOK, Set, Goto
<1>8. ASSUME NoSlot(w)
      PROVE  /\ \A v \in Worker : v # w => SameWorker(v)
             /\ pc[w] # "idle" /\ pc'[w] # "idle" => ses'[w] = ses[w]
             /\ pc[w] = "idle" => pc'[w] # "idle"
  BY <1>8 DEF NoSlot, SameWorker, Shape, TypeOK, Set, Goto, Rest
<1>9. ASSUME SetProfile(w)
      PROVE  /\ \A v \in Worker : v # w => SameWorker(v)
             /\ pc[w] # "idle" /\ pc'[w] # "idle" => ses'[w] = ses[w]
             /\ pc[w] = "idle" => pc'[w] # "idle"
  BY <1>9 DEF SetProfile, SameWorker, Shape, TypeOK, Set, Goto
<1>10. ASSUME ReadBack(w)
      PROVE  /\ \A v \in Worker : v # w => SameWorker(v)
             /\ pc[w] # "idle" /\ pc'[w] # "idle" => ses'[w] = ses[w]
             /\ pc[w] = "idle" => pc'[w] # "idle"
  BY <1>10 DEF ReadBack, SameWorker, Shape, TypeOK, Set, Goto
<1>11. ASSUME Initialize(w)
      PROVE  /\ \A v \in Worker : v # w => SameWorker(v)
             /\ pc[w] # "idle" /\ pc'[w] # "idle" => ses'[w] = ses[w]
             /\ pc[w] = "idle" => pc'[w] # "idle"
  BY <1>11 DEF Initialize, SameWorker, Shape, TypeOK, Set, Goto
<1>12. ASSUME Copy(w)
      PROVE  /\ \A v \in Worker : v # w => SameWorker(v)
             /\ pc[w] # "idle" /\ pc'[w] # "idle" => ses'[w] = ses[w]
             /\ pc[w] = "idle" => pc'[w] # "idle"
  BY <1>12 DEF Copy, SameWorker, Shape, TypeOK, Set, Goto, Rest
<1>13. ASSUME GiveUp(w)
      PROVE  /\ \A v \in Worker : v # w => SameWorker(v)
             /\ pc[w] # "idle" /\ pc'[w] # "idle" => ses'[w] = ses[w]
             /\ pc[w] = "idle" => pc'[w] # "idle"
  BY <1>13 DEF GiveUp, SameWorker, Shape, TypeOK, Set, Goto
<1>14. QED  BY <1>1, <1>2, <1>3, <1>4, <1>5, <1>6, <1>7, <1>8, <1>9, <1>10, <1>11, <1>12,
    <1>13 DEF Start

\* So does a step of an end.
LEMMA EndIsLocal ==
  ASSUME Shape, NEW w \in Worker, End(w)
  PROVE  /\ \A v \in Worker : v # w => SameWorker(v)
         /\ pc[w] # "idle" /\ pc'[w] # "idle" => ses'[w] = ses[w]
         /\ pc[w] = "idle" => pc'[w] # "idle"
<1>1. ASSUME NEW s \in Session, Stop(w, s)
      PROVE  /\ \A v \in Worker : v # w => SameWorker(v)
             /\ pc[w] # "idle" /\ pc'[w] # "idle" => ses'[w] = ses[w]
             /\ pc[w] = "idle" => pc'[w] # "idle"
  BY <1>1 DEF Stop, SameWorker, Shape, TypeOK, Set, Goto
<1>2. ASSUME Find(w)
      PROVE  /\ \A v \in Worker : v # w => SameWorker(v)
             /\ pc[w] # "idle" /\ pc'[w] # "idle" => ses'[w] = ses[w]
             /\ pc[w] = "idle" => pc'[w] # "idle"
  BY <1>2 DEF Find, SameWorker, Shape, TypeOK, Set, Goto
<1>3. ASSUME FindCopy(w)
      PROVE  /\ \A v \in Worker : v # w => SameWorker(v)
             /\ pc[w] # "idle" /\ pc'[w] # "idle" => ses'[w] = ses[w]
             /\ pc[w] = "idle" => pc'[w] # "idle"
  BY <1>3 DEF FindCopy, SameWorker, Shape, TypeOK, Set, Goto, Failed
<1>4. ASSUME ForgetStream(w)
      PROVE  /\ \A v \in Worker : v # w => SameWorker(v)
             /\ pc[w] # "idle" /\ pc'[w] # "idle" => ses'[w] = ses[w]
             /\ pc[w] = "idle" => pc'[w] # "idle"
  BY <1>4 DEF ForgetStream, SameWorker, Shape, TypeOK, Set, Goto
<1>5. ASSUME GetProfile(w)
      PROVE  /\ \A v \in Worker : v # w => SameWorker(v)
             /\ pc[w] # "idle" /\ pc'[w] # "idle" => ses'[w] = ses[w]
             /\ pc[w] = "idle" => pc'[w] # "idle"
  BY <1>5 DEF GetProfile, SameWorker, Shape, TypeOK, Set, Goto, Failed
<1>6. ASSUME ForgetProfile(w)
      PROVE  /\ \A v \in Worker : v # w => SameWorker(v)
             /\ pc[w] # "idle" /\ pc'[w] # "idle" => ses'[w] = ses[w]
             /\ pc[w] = "idle" => pc'[w] # "idle"
  BY <1>6 DEF ForgetProfile, SameWorker, Shape, TypeOK, Set, Goto
<1>7. ASSUME GetCopy(w)
      PROVE  /\ \A v \in Worker : v # w => SameWorker(v)
             /\ pc[w] # "idle" /\ pc'[w] # "idle" => ses'[w] = ses[w]
             /\ pc[w] = "idle" => pc'[w] # "idle"
  BY <1>7 DEF GetCopy, SameWorker, Shape, TypeOK, Set, Goto, Failed
<1>8. ASSUME Release(w)
      PROVE  /\ \A v \in Worker : v # w => SameWorker(v)
             /\ pc[w] # "idle" /\ pc'[w] # "idle" => ses'[w] = ses[w]
             /\ pc[w] = "idle" => pc'[w] # "idle"
  BY <1>8 DEF Release, SameWorker, Shape, TypeOK, Set, Goto
<1>9. ASSUME ForgetCopy(w)
      PROVE  /\ \A v \in Worker : v # w => SameWorker(v)
             /\ pc[w] # "idle" /\ pc'[w] # "idle" => ses'[w] = ses[w]
             /\ pc[w] = "idle" => pc'[w] # "idle"
  BY <1>9 DEF ForgetCopy, SameWorker, Shape, TypeOK, Set, Goto
<1>10. ASSUME ReleaseOrphan(w)
      PROVE  /\ \A v \in Worker : v # w => SameWorker(v)
             /\ pc[w] # "idle" /\ pc'[w] # "idle" => ses'[w] = ses[w]
             /\ pc[w] = "idle" => pc'[w] # "idle"
  BY <1>10 DEF ReleaseOrphan, SameWorker, Shape, TypeOK, Set, Goto
<1>11. ASSUME Clean(w)
      PROVE  /\ \A v \in Worker : v # w => SameWorker(v)
             /\ pc[w] # "idle" /\ pc'[w] # "idle" => ses'[w] = ses[w]
             /\ pc[w] = "idle" => pc'[w] # "idle"
  BY <1>11 DEF Clean, SameWorker, Shape, TypeOK, Set, Goto, Rest
<1>12. QED  BY <1>1, <1>2, <1>3, <1>4, <1>5, <1>6, <1>7, <1>8, <1>9, <1>10, <1>11 DEF End

\* It leaves what belongs to an unshared other session.
LEMMA StartElsewhere ==
  ASSUME PreviewsApart, Shape, KeepsOwn, NEW w \in Worker, Start(w), NEW r \in Session,
      AtWork(w, r),
         NEW x \in Session, x # r, Unshared(x)
  PROVE  Same(x)
<1>0. /\ Id(x) # Id(r) /\ Id(x) \in Channel \cup Stream
      /\ pc[w] # "idle" => stream[w] \notin StreamsFor(x)
      /\ pc[w] # "idle" => Field(ses[w], "stream_id") \notin StreamsFor(x)
      /\ StreamsFor(x) \subseteq Stream
  BY Ids, Sessions, AssignmentAssumption DEF KeepsOwn, WorkersOwn, CopiesOwn, AtWork, Unshared
<1> USE <1>0
<1>1. ASSUME NEW s \in Session, Claim(w, s) PROVE Same(x)
  BY <1>1 DEF Claim, AtWork, Same, Shape, TypeOK, Set, Goto, keys, live, pool
<1>2. ASSUME NEW s \in Session, CleanOrphanedKeys(w, s) PROVE Same(x)
  BY <1>2 DEF CleanOrphanedKeys, AtWork, Same, Shape, TypeOK, Set, Goto, keys, live, pool
<1>3. ASSUME Reuse(w) PROVE Same(x)
  BY <1>3 DEF Reuse, AtWork, Same, Shape, TypeOK, Set, Goto, keys, live, pool
<1>4. ASSUME FindStale(w) PROVE Same(x)
  BY <1>4 DEF FindStale, AtWork, Same, Shape, TypeOK, Set, Goto, keys, live, pool
<1>5. ASSUME DropStale(w) PROVE Same(x)
  BY <1>5 DEF DropStale, AtWork, Same, Shape, TypeOK, Set, Goto, keys, live, pool, GiveBack
<1>6. ASSUME StartFresh(w) PROVE Same(x)
  BY <1>6 DEF StartFresh, AtWork, Same, Shape, TypeOK, Set, Goto, keys, live, pool
<1>7. ASSUME NEW t \in Stream, NEW p \in Profile, Assign(w, t, p) PROVE Same(x)
  BY <1>7 DEF Assign, AtWork, Same, Shape, TypeOK, Set, Goto, keys, live, pool, Grant
<1>8. ASSUME NoSlot(w) PROVE Same(x)
  BY <1>8 DEF NoSlot, AtWork, Same, Shape, TypeOK, Set, Goto, keys, live, pool, Rest
<1>9. ASSUME SetProfile(w) PROVE Same(x)
  BY <1>9 DEF SetProfile, AtWork, Same, Shape, TypeOK, Set, Goto, keys, live, pool
<1>10. ASSUME ReadBack(w) PROVE Same(x)
  BY <1>10 DEF ReadBack, AtWork, Same, Shape, TypeOK, Set, Goto, keys, live, pool
<1>11. ASSUME Initialize(w) PROVE Same(x)
  BY <1>11 DEF Initialize, AtWork, Same, Shape, TypeOK, Set, Goto, keys, live, pool, Stored
<1>12. ASSUME Copy(w) PROVE Same(x)
  BY <1>12 DEF Copy, AtWork, Same, Shape, TypeOK, Set, Goto, keys, live, pool, Stored, Rest
<1>13. ASSUME GiveUp(w) PROVE Same(x)
  BY <1>13 DEF GiveUp, AtWork, Same, Shape, TypeOK, Set, Goto, keys, live, pool
<1>14. QED  BY <1>1, <1>2, <1>3, <1>4, <1>5, <1>6, <1>7, <1>8, <1>9, <1>10, <1>11, <1>12,
    <1>13 DEF Start

\* So does a step of an end.
LEMMA EndElsewhere ==
  ASSUME PreviewsApart, Shape, KeepsOwn, NEW w \in Worker, End(w), NEW r \in Session, AtWork(w, r),
         NEW x \in Session, x # r, Unshared(x)
  PROVE  Same(x)
<1>0. /\ Id(x) # Id(r) /\ Id(x) \in Channel \cup Stream
      /\ pc[w] # "idle" => stream[w] \notin StreamsFor(x)
      /\ pc[w] # "idle" => Field(ses[w], "stream_id") \notin StreamsFor(x)
      /\ StreamsFor(x) \subseteq Stream
  BY Ids, Sessions, AssignmentAssumption DEF KeepsOwn, WorkersOwn, CopiesOwn, AtWork, Unshared
<1> USE <1>0
<1>1. ASSUME NEW s \in Session, Stop(w, s) PROVE Same(x)
  BY <1>1 DEF Stop, AtWork, Same, Shape, TypeOK, Set, Goto, keys, live, pool
<1>2. ASSUME Find(w) PROVE Same(x)
  BY <1>2 DEF Find, AtWork, Same, Shape, TypeOK, Set, Goto, keys, live, pool
<1>3. ASSUME FindCopy(w) PROVE Same(x)
  BY <1>3 DEF FindCopy, AtWork, Same, Shape, TypeOK, Set, Goto, keys, live, pool
<1>4. ASSUME ForgetStream(w) PROVE Same(x)
  BY <1>4 DEF ForgetStream, AtWork, Same, Shape, TypeOK, Set, Goto, keys, live, pool
<1>5. ASSUME GetProfile(w) PROVE Same(x)
  BY <1>5 DEF GetProfile, AtWork, Same, Shape, TypeOK, Set, Goto, keys, live, pool
<1>6. ASSUME ForgetProfile(w) PROVE Same(x)
  BY <1>6 DEF ForgetProfile, AtWork, Same, Shape, TypeOK, Set, Goto, keys, live, pool
<1>7. ASSUME GetCopy(w) PROVE Same(x)
  BY <1>7 DEF GetCopy, AtWork, Same, Shape, TypeOK, Set, Goto, keys, live, pool
<1>8. ASSUME Release(w) PROVE Same(x)
  BY <1>8 DEF Release, AtWork, Same, Shape, TypeOK, Set, Goto, keys, live, pool, GiveBack
<1>9. ASSUME ForgetCopy(w) PROVE Same(x)
  BY <1>9 DEF ForgetCopy, AtWork, Same, Shape, TypeOK, Set, Goto, keys, live, pool, Erased
<1>10. ASSUME ReleaseOrphan(w) PROVE Same(x)
  BY <1>10 DEF ReleaseOrphan, AtWork, Same, Shape, TypeOK, Set, Goto, keys, live, pool,
      GiveBack, Erased, Copied
<1>11. ASSUME Clean(w) PROVE Same(x)
  BY <1>11 DEF Clean, AtWork, Same, Shape, TypeOK, Set, Goto, keys, live, pool, Rest
<1>12. QED  BY <1>1, <1>2, <1>3, <1>4, <1>5, <1>6, <1>7, <1>8, <1>9, <1>10, <1>11 DEF End

\* The first slot, and the last.
LEMMA FirstSlot ==
  ASSUME Shape, NEW s \in Session, NEW q \in Profile, Grant(s, q),
         granted[s] = [p \in Profile |-> 0]
  PROVE  Counted(s, q)'
<1>1. granted \in [Session -> [Profile -> Int]] /\ 0 < MaxGranted
  BY AssignmentAssumption DEF Shape, TypeOK
<1>2. granted' = [granted EXCEPT ![s] = [granted[s] EXCEPT ![q] = 1]]
  BY <1>1 DEF Grant
<1>3. granted'[s] = [p \in Profile |-> IF p = q THEN 1 ELSE 0]
  BY <1>1, <1>2
<1>4. QED  BY <1>3 DEF Counted

LEMMA LastSlot ==
  ASSUME Shape, NEW s \in Session, NEW q \in Profile, GiveBack(s, q), Counted(s, q)
  PROVE  granted'[s] = [p \in Profile |-> 0]
<1>1. granted \in [Session -> [Profile -> Int]] /\ 1 > -MaxGranted /\ granted[s][q] = 1
  BY AssignmentAssumption DEF Shape, TypeOK, Counted
<1>2. granted' = [granted EXCEPT ![s] = [granted[s] EXCEPT ![q] = 0]]
  BY <1>1 DEF GiveBack
<1>3. QED  BY <1>1, <1>2 DEF Counted

\* A worker that is alone on s finds and leaves at each place what SlotInv says of it.
LEMMA Begins ==
  ASSUME Shape, NEW w \in Worker, NEW s \in Session, pc[w] = "idle", Rested(s),
         Claim(w, s) \/ CleanOrphanedKeys(w, s) \/ Stop(w, s)
  PROVE  pc'[w] # "idle" /\ ses'[w] = s /\ Busied(w, s)'
<1>1. CASE Claim(w, s)
  BY <1>1, Sessions DEF Claim, Rested, Shape, TypeOK, Places, Set, Goto, keys, live, pool,
      Busied, Starting, Ending, Holds, HasNothing, Unset, OthersUnset, Counted, Field, Metadata
<1>2. CASE CleanOrphanedKeys(w, s)
  BY <1>2, Sessions DEF CleanOrphanedKeys, Rested, Shape, TypeOK, Places, Set, Goto, keys,
      live, pool, Busied, Starting, Ending, Holds, HasNothing, Unset, OthersUnset, Counted,
      Field, Metadata
<1>3. CASE Stop(w, s)
  BY <1>3, Sessions DEF Stop, Rested, Shape, TypeOK, Places, Set, Goto, keys, live, pool,
      Busied, Starting, Ending, Holds, HasNothing, Unset, OthersUnset, Counted, Field, Metadata
<1>4. QED  BY <1>1, <1>2, <1>3

LEMMA Starts ==
  ASSUME Shape, KeepsOwn, NEW w \in Worker, Start(w), pc[w] # "idle", NEW s \in Session, ses[w] = s,
         Busied(w, s)
  PROVE  IF pc'[w] = "idle" THEN Rested(s)' ELSE Busied(w, s)'
<1>1. ASSUME NEW r \in Session, Claim(w, r) \/ CleanOrphanedKeys(w, r)
      PROVE  IF pc'[w] = "idle" THEN Rested(s)' ELSE Busied(w, s)'
  BY <1>1, Sessions, AssignmentAssumption DEF Claim, CleanOrphanedKeys, Shape, TypeOK, Set,
      Goto, keys, live, pool, Busied, Starting, Ending, Holds, HasNothing, Unset,
      OthersUnset, Counted
<1>2. ASSUME Reuse(w) \/ FindStale(w)
      PROVE  IF pc'[w] = "idle" THEN Rested(s)' ELSE Busied(w, s)'
  BY <1>2, Sessions, AssignmentAssumption DEF Reuse, FindStale, Shape, TypeOK, Set, Goto,
      keys, live, pool, Busied, Starting, Ending, Holds, HasNothing, Unset, OthersUnset,
      Counted, HasProfile, Assigned, StreamsFor
<1>3. ASSUME DropStale(w)
      PROVE  IF pc'[w] = "idle" THEN Rested(s)' ELSE Busied(w, s)'
  BY <1>3, Sessions, AssignmentAssumption DEF DropStale, Shape, TypeOK, Set, Goto, keys,
      live, pool, Busied, Starting, Ending, Holds, HasNothing, Unset, OthersUnset, Counted
<1>4. ASSUME StartFresh(w)
      PROVE  IF pc'[w] = "idle" THEN Rested(s)' ELSE Busied(w, s)'
  BY <1>4, Sessions, AssignmentAssumption DEF StartFresh, Shape, TypeOK, Set, Goto, keys,
      live, pool, Busied, Starting, Ending, Holds, HasNothing, Unset, OthersUnset, Counted
<1>5. ASSUME NEW t \in Stream, NEW p \in Profile, Assign(w, t, p)
      PROVE  IF pc'[w] = "idle" THEN Rested(s)' ELSE Busied(w, s)'
  <2>1. Grant(s, p) /\ HasNothing(s) /\ Starting(w, s)
    BY <1>5 DEF Assign, Busied
  <2>2. Counted(s, p)'
    BY <2>1, FirstSlot DEF HasNothing
  <2>3. <<t, p>> \in Candidates(s) => t \in StreamsFor(s)
    BY DEF Candidates
  <2>4. QED  BY <1>5, <2>1, <2>2, <2>3, Sessions DEF Assign, Shape, TypeOK, Set, Goto,
      live, Busied, Starting, HasNothing, Unset, Counted
<1>6. ASSUME NoSlot(w)
      PROVE  IF pc'[w] = "idle" THEN Rested(s)' ELSE Busied(w, s)'
  BY <1>6, Sessions, AssignmentAssumption DEF NoSlot, Shape, TypeOK, Set, Goto, keys, live,
      pool, Busied, Starting, Ending, Holds, HasNothing, Unset, OthersUnset, Counted, Rest, Rested
<1>7. ASSUME SetProfile(w)
      PROVE  IF pc'[w] = "idle" THEN Rested(s)' ELSE Busied(w, s)'
  BY <1>7, Sessions, AssignmentAssumption DEF SetProfile, Shape, TypeOK, Set, Goto, keys,
      live, pool, Busied, Starting, Ending, Holds, HasNothing, Unset, OthersUnset, Counted
<1>8. ASSUME ReadBack(w)
      PROVE  IF pc'[w] = "idle" THEN Rested(s)' ELSE Busied(w, s)'
  BY <1>8, Sessions, AssignmentAssumption DEF ReadBack, Shape, TypeOK, Set, Goto, keys,
      live, pool, Busied, Starting, Ending, Holds, HasNothing, Unset, OthersUnset, Counted
<1>9. ASSUME Initialize(w)
      PROVE  IF pc'[w] = "idle" THEN Rested(s)' ELSE Busied(w, s)'
  BY <1>9, Sessions, AssignmentAssumption, Stores, Fields DEF Initialize, Shape, TypeOK,
      Set, Goto, keys, live, pool, Busied, Starting, Ending, Holds, HasNothing, Unset,
      OthersUnset, Counted, Live
<1>10. ASSUME Copy(w)
      PROVE  IF pc'[w] = "idle" THEN Rested(s)' ELSE Busied(w, s)'
  BY <1>10, Sessions, AssignmentAssumption, Stores, Fields DEF Copy, Shape, TypeOK, Set,
      Goto, keys, live, pool, Busied, Starting, Ending, Holds, HasNothing, Unset,
      OthersUnset, Counted, Rest, Rested
<1>11. ASSUME GiveUp(w)
      PROVE  IF pc'[w] = "idle" THEN Rested(s)' ELSE Busied(w, s)'
  BY <1>11, Sessions, AssignmentAssumption DEF GiveUp, Shape, TypeOK, Set, Goto, keys,
      live, pool, Busied, Starting, Ending, Holds, HasNothing, Unset, OthersUnset, Counted
<1>12. QED  BY <1>1, <1>2, <1>3, <1>4, <1>5, <1>6, <1>7, <1>8, <1>9, <1>10, <1>11 DEF Start

LEMMA Ends ==
  ASSUME Shape, KeepsOwn, NEW w \in Worker, End(w), pc[w] # "idle", NEW s \in Session, ses[w] = s,
         Busied(w, s)
  PROVE  IF pc'[w] = "idle" THEN Rested(s)' ELSE Busied(w, s)'
<1>1. ASSUME NEW r \in Session, Stop(w, r)
      PROVE  IF pc'[w] = "idle" THEN Rested(s)' ELSE Busied(w, s)'
  BY <1>1, Sessions, AssignmentAssumption DEF Stop, Shape, TypeOK, Set, Goto, keys, live,
      pool, Busied, Starting, Ending, Holds, HasNothing, Unset, OthersUnset, Counted
<1>2. ASSUME Find(w)
      PROVE  IF pc'[w] = "idle" THEN Rested(s)' ELSE Busied(w, s)'
  BY <1>2, Sessions, AssignmentAssumption DEF Find, Shape, TypeOK, Set, Goto, keys, live,
      pool, Busied, Starting, Ending, Holds, HasNothing, Unset, OthersUnset, Counted, Assigned
<1>3. ASSUME FindCopy(w) \/ GetCopy(w) \/ ReleaseOrphan(w)
      PROVE  IF pc'[w] = "idle" THEN Rested(s)' ELSE Busied(w, s)'
  BY <1>3, Sessions, AssignmentAssumption DEF FindCopy, GetCopy, ReleaseOrphan, Shape,
      TypeOK, Set, Goto, keys, live, pool, Busied, Starting, Ending, Holds, HasNothing,
      Unset, OthersUnset, Counted
<1>4. ASSUME ForgetStream(w)
      PROVE  IF pc'[w] = "idle" THEN Rested(s)' ELSE Busied(w, s)'
  BY <1>4, Sessions, AssignmentAssumption DEF ForgetStream, Shape, TypeOK, Set, Goto, keys,
      live, pool, Busied, Starting, Ending, Holds, HasNothing, Unset, OthersUnset, Counted
<1>5. ASSUME GetProfile(w)
      PROVE  IF pc'[w] = "idle" THEN Rested(s)' ELSE Busied(w, s)'
  BY <1>5, Sessions, AssignmentAssumption DEF GetProfile, Shape, TypeOK, Set, Goto, keys,
      live, pool, Busied, Starting, Ending, Holds, HasNothing, Unset, OthersUnset, Counted
<1>6. ASSUME ForgetProfile(w)
      PROVE  IF pc'[w] = "idle" THEN Rested(s)' ELSE Busied(w, s)'
  BY <1>6, Sessions, AssignmentAssumption DEF ForgetProfile, Shape, TypeOK, Set, Goto,
      keys, live, pool, Busied, Starting, Ending, Holds, HasNothing, Unset, OthersUnset, Counted
<1>7. ASSUME Release(w)
      PROVE  IF pc'[w] = "idle" THEN Rested(s)' ELSE Busied(w, s)'
  <2>1. /\ GiveBack(s, profile[w]) /\ profile[w] \in Profile
        /\ Ending(w, s) /\ Unset(s) /\ Counted(s, profile[w])
    BY <1>7 DEF Release, Busied, Shape, TypeOK, Places
  <2>2. granted'[s] = [p \in Profile |-> 0]
    BY <2>1, LastSlot
  <2>3. QED  BY <1>7, <2>1, <2>2, Sessions DEF Release, Shape, TypeOK, Set, Goto, keys,
      live, Busied, Starting, Ending, HasNothing, Unset
<1>8. ASSUME ForgetCopy(w)
      PROVE  IF pc'[w] = "idle" THEN Rested(s)' ELSE Busied(w, s)'
  BY <1>8, Sessions, AssignmentAssumption DEF ForgetCopy, Shape, TypeOK, Set, Goto, keys,
      live, pool, Busied, Starting, Ending, Holds, HasNothing, Unset, OthersUnset, Counted,
      Erased, Places
<1>9. ASSUME Clean(w)
      PROVE  IF pc'[w] = "idle" THEN Rested(s)' ELSE Busied(w, s)'
  BY <1>9, Sessions, AssignmentAssumption DEF Clean, Shape, TypeOK, Set, Goto, keys, live,
      pool, Busied, Starting, Ending, Holds, HasNothing, Unset, OthersUnset, Counted, Rest, Rested
<1>10. QED  BY <1>1, <1>2, <1>3, <1>4, <1>5, <1>6, <1>7, <1>8, <1>9 DEF End

\* What a worker takes up, it claims, stops, or cleans.
LEMMA TakesUp ==
  ASSUME Shape, NEW w \in Worker, Start(w) \/ End(w), NEW s \in Session, pc[w] = "idle", ses'[w] = s
  PROVE  Claim(w, s) \/ CleanOrphanedKeys(w, s) \/ Stop(w, s)
<1>1. PICK r \in Session : Claim(w, r) \/ CleanOrphanedKeys(w, r) \/ Stop(w, r)
  BY DEF Start, End, Reuse, FindStale, DropStale, StartFresh, Assign, NoSlot, SetProfile, ReadBack,
         Initialize, Copy, GiveUp, Find, FindCopy, ForgetStream, GetProfile, ForgetProfile, GetCopy,
         Release, ForgetCopy, ReleaseOrphan, Clean
<1>2. ses'[w] = r
  BY <1>1 DEF Claim, CleanOrphanedKeys, Stop, Set, Shape, TypeOK
<1>3. QED  BY <1>1, <1>2

\* What belongs to s does not change, nor does a worker that is busy with it.
LEMMA Stays ==
  ASSUME NEW s \in Session, Same(s)
  PROVE  /\ Rested(s) => Rested(s)'
         /\ \A v \in Worker : SameWorker(v) /\ Busied(v, s) => Busied(v, s)'
<1>1. Rested(s) => Rested(s)'
  BY DEF Same, Rested, HasNothing, Unset, Holds, OthersUnset, Counted
<1>2. ASSUME NEW v \in Worker, SameWorker(v), Busied(v, s) PROVE Busied(v, s)'
  <2>1. /\ Starting(v, s) <=> Starting(v, s)'
        /\ Ending(v, s) <=> Ending(v, s)'
        /\ Unset(s) <=> Unset(s)'
        /\ HasNothing(s) <=> HasNothing(s)'
        /\ \A t, q : Holds(s, t, q) <=> Holds(s, t, q)'
    BY <1>2 DEF Same, SameWorker, Starting, Ending, HasNothing, Unset, Holds, OthersUnset, Counted
  <2>2. /\ Holds(s, stream[v], profile[v]) <=> Holds(s, stream[v], profile[v])'
        /\ Counted(s, profile[v]) <=> Counted(s, profile[v])'
        /\ OthersUnset(s, stream[v]) <=> OthersUnset(s, stream[v])'
        /\ \A q : Holds(s, stream[v], q) <=> Holds(s, stream[v], q)'
    BY <1>2 DEF Same, SameWorker, Holds, OthersUnset, Counted
  <2>3. /\ pc'[v] = pc[v] /\ stream'[v] = stream[v] /\ profile'[v] = profile[v]
        /\ reserved'[v] = reserved[v] /\ metadata'[s] = metadata[s]
        /\ channel_stream'[Id(s)] = channel_stream[Id(s)]
        /\ \A u \in StreamsFor(s) : stream_profile'[u] = stream_profile[u]
    BY <1>2 DEF Same, SameWorker
  <2>4. pc[v] \in {"get_profile", "forget_profile"} =>
          /\ stream_profile'[stream[v]] = stream_profile[stream[v]]
          /\ Counted(s, stream_profile[stream[v]]) <=> Counted(s, stream_profile[stream[v]])'
    BY <1>2, <2>3 DEF Busied, Counted, Same
  <2>5. QED  BY <1>2, <2>1, <2>2, <2>3, <2>4 DEF Busied
<1>3. QED  BY <1>1, <1>2

\* A step keeps a session safe that it does not make busy twice.
LEMMA SafeStep ==
  ASSUME PreviewsApart, Shape, KeepsOwn, NEW w \in Worker, Start(w) \/ End(w),
         NEW s \in Session, Unshared(s), Safe(s),
         \A u, v \in Worker : Busy(u, s)' /\ Busy(v, s)' => u = v
  PROVE  Safe(s)'
<1>1. /\ \A v \in Worker : v # w => SameWorker(v)
      /\ pc[w] # "idle" /\ pc'[w] # "idle" => ses'[w] = ses[w]
      /\ pc[w] = "idle" => pc'[w] # "idle"
  BY StartIsLocal, EndIsLocal
<1>2. \A v \in Worker : v # w => (Busy(v, s)' <=> Busy(v, s))
  BY <1>1 DEF Busy, SameWorker
<1>3. CASE Busy(w, s)
  <2>1. pc[w] # "idle" /\ ses[w] = s /\ Busied(w, s)
    BY <1>3 DEF Busy, Safe
  <2>2. IF pc'[w] = "idle" THEN Rested(s)' ELSE Busied(w, s)'
    BY <2>1, Starts, Ends
  <2>3. \A v \in Worker : v # w => ~Busy(v, s)'
    BY <1>2, <1>3 DEF Safe
  <2>4. Busy(w, s)' <=> pc'[w] # "idle"
    BY <1>1, <2>1 DEF Busy
  <2>5. QED  BY <2>2, <2>3, <2>4 DEF Safe
<1>4. CASE pc[w] = "idle" /\ Busy(w, s)'
  <2>1. \A v \in Worker : ~Busy(v, s)
    BY <1>2, <1>4 DEF Busy
  <2>2. Rested(s)
    BY <2>1 DEF Safe
  <2>3. Claim(w, s) \/ CleanOrphanedKeys(w, s) \/ Stop(w, s)
    BY <1>4, TakesUp DEF Busy
  <2>4. Busied(w, s)'
    BY <1>4, <2>2, <2>3, Begins
  <2>5. \A v \in Worker : v # w => ~Busy(v, s)'
    BY <1>4
  <2>6. QED  BY <1>4, <2>4, <2>5 DEF Safe
<1>5. CASE ~Busy(w, s) /\ ~(pc[w] = "idle" /\ Busy(w, s)')
  <2>1. PICK r \in Session : AtWork(w, r)
    <3>1. ses[w] \in Session /\ ses'[w] \in Session
      BY ShapeStart, ShapeEnd DEF Shape, TypeOK
    <3>2. QED  BY <1>1, <3>1 DEF AtWork
  <2>2. r # s /\ ~Busy(w, s)'
    BY <1>1, <1>5, <2>1 DEF AtWork, Busy
  <2>3. Same(s)
    BY <2>1, <2>2, StartElsewhere, EndElsewhere
  <2>4. \A v \in Worker : Busy(v, s)' => SameWorker(v) /\ Busied(v, s)
    BY <1>1, <1>2, <2>2 DEF Safe
  <2>5. \A v \in Worker : Busy(v, s)' => Busied(v, s)'
    BY <2>3, <2>4, Stays
  <2>6. (\A v \in Worker : ~Busy(v, s)') => Rested(s)'
    <3>1. (\A v \in Worker : ~Busy(v, s)') => Rested(s)
      BY <1>2, <1>5 DEF Safe
    <3>2. QED  BY <2>3, <3>1, Stays
  <2>7. QED  BY <2>5, <2>6 DEF Safe
<1>6. QED  BY <1>3, <1>4, <1>5

LEMMA SlotStep ==
  ASSUME PreviewsApart
  PROVE  Shape /\ KeepsOwn /\ SlotInv /\ [Next]_vars => SlotInv'
<1>1. ASSUME SlotInv, UNCHANGED vars PROVE SlotInv'
  <2>1. ASSUME NEW s \in Session PROVE Rested(s) => Rested(s)'
    BY <1>1 DEF Rested, HasNothing, Unset, Holds, OthersUnset, Counted, vars
  <2>2. ASSUME NEW s \in Session, NEW w \in Worker
        PROVE  (Busy(w, s)' => Busy(w, s)) /\ (Busy(w, s) => Busy(w, s)') /\ (Busied(w,
            s) => Busied(w, s)')
    BY <1>1 DEF Busy, Busied, Starting, Ending, HasNothing, Unset, Holds, OthersUnset, Counted, vars
  <2>3. crossed' = crossed
    BY <1>1 DEF vars
  <2>4. QED  BY <1>1, <2>1, <2>2, <2>3 DEF SlotInv, Safe
<1>2. ASSUME Shape, KeepsOwn, SlotInv, Next PROVE SlotInv'
  <2>1. PICK w \in Worker : Start(w) \/ End(w)
    BY <1>2 DEF Next
  <2>2. crossed' = crossed \cup {s \in Session : \E u, v \in Worker :
                                     u # v /\ Busy(u, s)' /\ Busy(v, s)'}
    BY <1>2 DEF Next
  <2>3. ASSUME NEW s \in Session, s \notin crossed', Unshared(s) PROVE Safe(s)'
    <3>1. s \notin crossed /\ \A u, v \in Worker : Busy(u, s)' /\ Busy(v, s)' => u = v
      BY <2>2, <2>3
    <3>2. Safe(s)
      BY <1>2, <2>3, <3>1 DEF SlotInv
    <3>3. QED  BY <1>2, <2>1, <2>3, <3>1, <3>2, SafeStep
  <2>4. QED  BY <2>3 DEF SlotInv
<1>3. QED  BY <1>1, <1>2

LEMMA SlotInit == Init => SlotInv
<1>1. ASSUME Init, NEW s \in Session PROVE Safe(s)
  <2>1. \A w \in Worker : ~Busy(w, s)
    BY <1>1 DEF Init, Busy
  <2>2. Rested(s)
    BY <1>1, Sessions DEF Init, Rested, HasNothing, Unset
  <2>3. QED  BY <2>1, <2>2 DEF Safe
<1>2. QED  BY <1>1 DEF SlotInv

\* What SlotInv says of the slots of a session.
LEMMA SlotsOfSession ==
  ASSUME Shape, NEW s \in Session, Safe(s)
  PROVE  /\ \A p \in Profile : granted[s][p] >= 0
         /\ Quiet(s) => \A p \in Profile : granted[s][p] = 0
<1>0. /\ HasNothing(s) => \A p \in Profile : granted[s][p] = 0
      /\ \A q : Counted(s, q) => \A p \in Profile : granted[s][p] >= 0
  BY DEF HasNothing, Counted
<1>1. CASE \A w \in Worker : ~Busy(w, s)
  <2>1. \/ HasNothing(s)
        \/ metadata[s] # None /\ \E q : Counted(s, q)
    BY <1>1 DEF Safe, Rested, Holds
  <2>2. QED  BY <1>0, <2>1 DEF Quiet
<1>2. CASE \E w \in Worker : Busy(w, s)
  <2>1. PICK w \in Worker : Busy(w, s)
    BY <1>2
  <2>2. ~Quiet(s)
    BY <2>1 DEF Quiet, Busy
  <2>3. Busied(w, s) /\ pc[w] \in PC /\ pc[w] # "idle"
    BY <2>1 DEF Safe, Busy, Shape, TypeOK
  <2>4. HasNothing(s) \/ \E q : Counted(s, q)
    BY <2>3 DEF Busied, Holds, PC
  <2>5. \A p \in Profile : granted[s][p] >= 0
    BY <1>0, <2>4
  <2>6. QED  BY <2>2, <2>5
<1>3. QED  BY <1>1, <1>2

LEMMA SlotInvHolds ==
  ASSUME PreviewsApart
  PROVE  Spec => [](Shape /\ SlotInv)
BY OwnInit, ShapeInit, SlotInit, ShapeStep, OwnStep, SlotStep, PTL DEF Spec

\* A session that shares no stream with another gives no slot back twice, and has given
\* back all when it has ended, unless two workers were busy with it at once; whatever
\* happens to sessions that do share one.
UnsharedKeepSlots ==
  \A s \in Session \ crossed :
    Unshared(s) => /\ \A p \in Profile : granted[s][p] >= 0
                   /\ Quiet(s) => \A p \in Profile : granted[s][p] = 0

\* It holds if no stream is previewed whose id is also the id of a channel.
THEOREM UnsharedSessionsKeepSlots ==
  ASSUME PreviewsApart
  PROVE  Spec => []UnsharedKeepSlots
<1>1. Shape /\ SlotInv => UnsharedKeepSlots
  BY SlotsOfSession DEF SlotInv, UnsharedKeepSlots
<1>2. QED  BY <1>1, SlotInvHolds, PTL

\* If the streams of different sessions are apart, release_stream never gives back
\* a slot that the session does not have, unless two workers were busy with it at once.
THEOREM NothingReleasedTwice ==
  ASSUME StreamsApart
  PROVE  Spec => []NoDoubleRelease
<1>1. UnsharedKeepSlots => NoDoubleRelease
  BY DEF StreamsApart, UnsharedKeepSlots, NoDoubleRelease
<1>2. QED  BY <1>1, UnsharedSessionsKeepSlots, PTL DEF StreamsApart

\* And a session that has ended holds no slot: every way a start or a stop can take,
\* the 503, the aborted start and each order of the deletions included, gives it back.
THEOREM EndedSessionsHoldNothing ==
  ASSUME StreamsApart
  PROVE  Spec => []EndedHoldsNothing
<1>1. UnsharedKeepSlots => EndedHoldsNothing
  BY DEF StreamsApart, UnsharedKeepSlots, EndedHoldsNothing
<1>2. QED  BY <1>1, UnsharedSessionsKeepSlots, PTL DEF StreamsApart
=============================================================================
