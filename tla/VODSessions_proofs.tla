-------------------------- MODULE VODSessions_proofs --------------------------
(* Proofs about VODSessions, for any requests, sessions, profiles and limits. *)
(* The inductive invariant is TypeOK, PlacesOK (what a request knows and has  *)
(* at each place of stream_content_with_session) and StakesExact together:    *)
(* that a playing request finds a profile in its session's hash rests on the  *)
(* hash not being deleted while it counts. SInv adds what SlotsExact needs,   *)
(* and what a limit means then follows by counting.                           *)
EXTENDS VODSessions, FiniteSetTheorems, TLAPS

USE VODAssumption

\* The requests that count themselves in session s.
Stakes(s) == {r \in Request : staked[r] /\ sid[r] = s}

Unstaked == {"away", "find", "grab", "reserve", "create", "race", "lost", "join", "release"}
Counting == {"resolve", "rewrite", "drop", "claim", "undo", "open", "fetch", "play"}

\* What holds of a request at each place.
PlaceOK(r) ==
  /\ at[r] \in Unstaked => ~staked[r]
  /\ at[r] \in Counting => staked[r]
  /\ first[r] => staked[r]
  /\ at[r] # "away" => /\ own[r] \in Session /\ sid[r] \in Session
                       /\ view[r] \in Profile /\ stored[r] \in Profile /\ eff[r] \in Profile
PlacesOK == \A r \in Request : PlaceOK(r)

IInv == TypeOK /\ PlacesOK /\ StakesExact

(***************************************************************************)
(* Counting requests                                                        *)
(***************************************************************************)
\* Sets of requests are finite, and one request more or less is one more or less.
LEMMA Sizes ==
  ASSUME NEW S \in SUBSET Request
  PROVE  /\ IsFiniteSet(S)
         /\ Cardinality(S) \in Nat
         /\ Cardinality(S) = 0 <=> S = {}
         /\ \A r \in Request : r \notin S => Cardinality(S \cup {r}) = Cardinality(S) + 1
         /\ \A r \in S : Cardinality(S \ {r}) = Cardinality(S) - 1
<1>1. IsFiniteSet(S) /\ Cardinality(S) \in Nat
  BY FS_Subset, FS_CardinalityType
<1>2. Cardinality(S) = 0 <=> S = {}
  BY <1>1, FS_EmptySet
<1>3. \A r \in Request : r \notin S => Cardinality(S \cup {r}) = Cardinality(S) + 1
  BY <1>1, FS_AddElement
<1>4. \A r \in S : Cardinality(S \ {r}) = Cardinality(S) - 1
  BY <1>1, FS_RemoveElement
<1>5. QED  BY <1>1, <1>2, <1>3, <1>4

\* StakesExact in the words of Stakes.
LEMMA StakesMeaning ==
  StakesExact <=> \A s \in Session : /\ active[s] = Cardinality(Stakes(s))
                                     /\ active[s] > 0 => Exists(s)
BY DEF StakesExact, Stakes

LEMMA StakesMeaningNext ==
  StakesExact' <=> \A s \in Session : /\ active'[s] = Cardinality(Stakes(s)')
                                      /\ active'[s] > 0 => bound'[s] # None
BY DEF StakesExact, Stakes, Exists

\* A session that some request counts itself in has a count and a hash.
LEMMA StakeCounts ==
  ASSUME TypeOK, StakesExact, NEW r \in Request, staked[r], sid[r] \in Session
  PROVE  active[sid[r]] > 0 /\ bound[sid[r]] \in Profile
<1>1. r \in Stakes(sid[r]) /\ Stakes(sid[r]) \in SUBSET Request
  BY DEF Stakes
<1>2. Cardinality(Stakes(sid[r])) # 0 /\ Cardinality(Stakes(sid[r])) \in Nat
  BY <1>1, Sizes
<1>3. active[sid[r]] = Cardinality(Stakes(sid[r])) /\ (active[sid[r]] > 0 => bound[sid[r]] # None)
  BY StakesMeaning DEF Exists
<1>4. QED  BY <1>2, <1>3 DEF TypeOK

\* A request that counts itself, in the session it knows.
LEMMA StakeAdded ==
  ASSUME TypeOK, StakesExact, NEW r \in Request, ~staked[r], sid[r] \in Session,
         staked' = [staked EXCEPT ![r] = TRUE], sid' = sid,
         active' = [active EXCEPT ![sid[r]] = active[sid[r]] + 1],
         bound'[sid[r]] # None, \A u \in Session \ {sid[r]} : bound'[u] = bound[u]
  PROVE  StakesExact'
<1>1. /\ Stakes(sid[r])' = Stakes(sid[r]) \cup {r}
      /\ r \notin Stakes(sid[r])
      /\ \A u \in Session \ {sid[r]} : Stakes(u)' = Stakes(u)
      /\ \A u \in Session : Stakes(u) \in SUBSET Request
  BY DEF TypeOK, Stakes
<1>2. Cardinality(Stakes(sid[r]) \cup {r}) = Cardinality(Stakes(sid[r])) + 1
  BY <1>1, Sizes
<1>3. QED  BY <1>1, <1>2, StakesMeaning, StakesMeaningNext DEF TypeOK, Exists

\* A request that no longer does, whatever else of it is forgotten.
LEMMA StakeDropped ==
  ASSUME TypeOK, StakesExact, NEW r \in Request, NEW s \in Session, staked[r], sid[r] = s,
         staked' = [staked EXCEPT ![r] = FALSE],
         \A q \in Request \ {r} : sid'[q] = sid[q],
         active' = [active EXCEPT ![s] = active[s] - 1], bound' = bound
  PROVE  StakesExact'
<1>1. /\ Stakes(s)' = Stakes(s) \ {r}
      /\ r \in Stakes(s)
      /\ \A u \in Session \ {s} : Stakes(u)' = Stakes(u)
      /\ \A u \in Session : Stakes(u) \in SUBSET Request
  BY DEF TypeOK, Stakes
<1>2. Cardinality(Stakes(s) \ {r}) = Cardinality(Stakes(s)) - 1
  BY <1>1, Sizes
<1>3. active[s] = Cardinality(Stakes(s)) /\ (active[s] > 0 => bound[s] # None)
  BY StakesMeaning DEF Exists
<1>4. active'[s] = Cardinality(Stakes(s)') /\ (active'[s] > 0 => bound'[s] # None)
  BY <1>1, <1>2, <1>3 DEF TypeOK
<1>5. ASSUME NEW u \in Session \ {s}
      PROVE  active'[u] = Cardinality(Stakes(u)') /\ (active'[u] > 0 => bound'[u] # None)
  BY <1>1, StakesMeaning DEF TypeOK, Exists
<1>6. QED  BY <1>4, <1>5, StakesMeaningNext

\* A step after which the same requests count themselves, in the same sessions.
LEMMA StakesKept ==
  ASSUME TypeOK, StakesExact,
         \A q \in Request : \/ ~staked[q] /\ ~staked'[q]
                            \/ staked'[q] = staked[q] /\ sid'[q] = sid[q],
         active' = active, \A s \in Session : active[s] > 0 => bound'[s] # None
  PROVE  StakesExact'
<1>1. \A u \in Session : Stakes(u)' = Stakes(u)
  BY DEF Stakes
<1>2. QED  BY <1>1, StakesMeaning, StakesMeaningNext

(***************************************************************************)
(* Type invariant, and what holds at each place                             *)
(***************************************************************************)
\* At first nobody is served.
LEMMA InitInv == Init => IInv
<1> SUFFICES ASSUME Init PROVE IInv
  OBVIOUS
<1>1. TypeOK
  <2> USE DEF Init
  <2>1. slots \in [Profile -> Nat] /\ \A p \in Profile : slots[p] <= Limit[p]
    OBVIOUS
  <2>2. active \in [Session -> Nat] /\ bound \in [Session -> Profile \cup {None}]
    OBVIOUS
  <2>3. at \in [Request -> Place]
    BY DEF Place
  <2>4. own \in [Request -> Session \cup {None}] /\ sid \in [Request -> Session \cup {None}]
    OBVIOUS
  <2>5. view \in [Request -> Profile \cup {None}] /\ stored \in [Request -> Profile \cup {None}]
    OBVIOUS
  <2>6. QED  BY <2>1, <2>2, <2>3, <2>4, <2>5 DEF TypeOK
<1>5. PlacesOK
  BY DEF Init, PlacesOK, PlaceOK, Unstaked, Counting
<1>2. \A s \in Session : Stakes(s) = {}
  BY DEF Init, Stakes
<1>3. StakesExact
  BY <1>2, StakesMeaning, FS_EmptySet DEF Init
<1>4. QED  BY <1>1, <1>3, <1>5 DEF IInv

\* The part of TypeOK that is about the requests' locals.
Locals ==
  /\ at \in [Request -> Place]
  /\ own \in [Request -> Session \cup {None}] /\ sid \in [Request -> Session \cup {None}]
  /\ view \in [Request -> Profile \cup {None}] /\ stored \in [Request -> Profile \cup {None}]
  /\ eff \in [Request -> Profile \cup {None}]
  /\ staked \in [Request -> BOOLEAN] /\ first \in [Request -> BOOLEAN]
  /\ private \in [Request -> BOOLEAN]

\* A request that leaves has no locals.
LEMMA LeaveType ==
  ASSUME TypeOK, PlacesOK, NEW r \in Request, Leave(r)
  PROVE  Locals' /\ PlacesOK'
<1>1. Locals'
  BY DEF TypeOK, Locals, Leave, Goto, Set, Place
<1>2. PlaceOK(r)'
  BY DEF TypeOK, PlaceOK, Leave, Goto, Set, Unstaked, Counting
<1>3. ASSUME NEW q \in Request \ {r}  PROVE PlaceOK(q)'
  BY DEF TypeOK, PlacesOK, PlaceOK, Leave, Goto, Set
<1>4. QED  BY <1>1, <1>2, <1>3 DEF PlacesOK

\* What a request learns from its increment is a Boolean.
LEMMA IncrementType ==
  ASSUME TypeOK, NEW r \in Request, NEW s \in Session, Increment(r, s)
  PROVE  /\ active' \in [Session -> Nat]
         /\ staked' = [staked EXCEPT ![r] = TRUE]
         /\ \E b \in BOOLEAN : first' = [first EXCEPT ![r] = b]
<1>1. active' \in [Session -> Nat] /\ staked' = [staked EXCEPT ![r] = TRUE]
  BY DEF TypeOK, Increment, Set
<1>2. first' = [first EXCEPT ![r] = (active[s] = 0)] /\ (active[s] = 0) \in BOOLEAN
  BY DEF Increment, Set
<1>3. QED  BY <1>1, <1>2

\* The steps of a request until it plays.
LEMMA SetsType ==
  ASSUME IInv, NEW r \in Request, Sets(r), crossed' \in BOOLEAN
  PROVE  TypeOK' /\ PlacesOK'
<1>a. at[r] # "away" => sid[r] \in Session
  BY DEF IInv, PlacesOK, PlaceOK
<1>b. CASE Leave(r) /\ slots' \in [Profile -> Nat] /\ (\A p \in Profile : slots'[p] <= Limit[p])
           /\ active' \in [Session -> Nat] /\ UNCHANGED <<bound, cleaning, valid>>
  BY <1>b, LeaveType DEF IInv, TypeOK, Locals
<1>c. staked[r] /\ sid[r] \in Session => bound[sid[r]] \in Profile
  BY StakeCounts DEF IInv
<1> USE DEF IInv, TypeOK, PlacesOK, PlaceOK, Unstaked, Counting, Place, Set, Goto, hash, request
<1>1. ASSUME NEW s \in Session, FindIdle(r, s)
      PROVE  TypeOK' /\ PlacesOK'
  BY <1>1 DEF FindIdle
<1>2. ASSUME NEW s \in Session, NEW p \in Profile, Arrive(r, s, p)
      PROVE  TypeOK' /\ PlacesOK'
  BY <1>2 DEF Arrive
<1>3. CASE FindNone(r)
  BY <1>3 DEF FindNone
<1>4. CASE Grab(r)
  <2>1. CASE bound[sid[r]] # None
    <3>1. PICK b \in BOOLEAN : first' = [first EXCEPT ![r] = b]
      BY <1>4, <1>a, <2>1, IncrementType DEF Grab, Exists
    <3>2. active' \in [Session -> Nat] /\ staked' = [staked EXCEPT ![r] = TRUE]
      BY <1>4, <1>a, <2>1, IncrementType DEF Grab, Exists
    <3>3. QED  BY <1>4, <2>1, <3>1, <3>2 DEF Grab, Exists
  <2>2. CASE bound[sid[r]] = None
    BY <1>4, <2>2 DEF Grab, Exists
  <2>3. QED  BY <1>4, <2>1, <2>2 DEF Grab
<1>5. CASE Look(r)
  <2>1. CASE bound[sid[r]] # None /\ staked[r]
    BY <1>5, <2>1 DEF Look, Exists
  <2>2. CASE bound[sid[r]] # None /\ ~staked[r]
    BY <1>5, <2>2 DEF Look, Exists
  <2>3. CASE bound[sid[r]] = None
    BY <1>5, <1>c, <2>3 DEF Look, Exists
  <2>4. QED  BY <1>5, <2>1, <2>2, <2>3 DEF Look
<1>6. CASE ReserveView(r)
  <2>1. CASE /\ slots[view[r]] < Limit[view[r]] /\ slots' = [slots EXCEPT ![view[r]] = slots[view[r]] + 1]
             /\ at' = [at EXCEPT ![r] = "create"] /\ private' = [private EXCEPT ![r] = TRUE]
             /\ UNCHANGED <<own, sid, view, stored, eff, staked, first>>
    BY <1>6, <2>1 DEF ReserveView
  <2>2. CASE Full(view[r]) /\ Leave(r)
    BY <1>6, <1>b, <2>2 DEF ReserveView, Full
  <2>3. QED  BY <1>6, <2>1, <2>2 DEF ReserveView, Reserve
<1>7. CASE Create(r)
  BY <1>7 DEF Create
<1>8. CASE LoseRace(r)
  BY <1>8 DEF LoseRace
<1>9. CASE MissLock(r)
  BY <1>9 DEF MissLock
<1>10. CASE RaceIncrement(r)
  <2>1. CASE bound[sid[r]] # None
    <3>1. PICK b \in BOOLEAN : first' = [first EXCEPT ![r] = b]
      BY <1>10, <1>a, <2>1, IncrementType DEF RaceIncrement, Exists
    <3>2. active' \in [Session -> Nat] /\ staked' = [staked EXCEPT ![r] = TRUE]
      BY <1>10, <1>a, <2>1, IncrementType DEF RaceIncrement, Exists
    <3>3. QED  BY <1>10, <2>1, <3>1, <3>2 DEF RaceIncrement, Exists
  <2>2. CASE bound[sid[r]] = None
    BY <1>10, <2>2 DEF RaceIncrement, Exists
  <2>3. QED  BY <1>10, <2>1, <2>2 DEF RaceIncrement
<1>11. CASE Lost(r)
  BY <1>11, <1>b DEF Lost, GiveBack
<1>12. CASE Join(r)
  <2>1. CASE bound[sid[r]] # None
    <3>1. PICK b \in BOOLEAN : first' = [first EXCEPT ![r] = b]
      BY <1>12, <1>a, <2>1, IncrementType DEF Join, Exists
    <3>2. active' \in [Session -> Nat] /\ staked' = [staked EXCEPT ![r] = TRUE]
      BY <1>12, <1>a, <2>1, IncrementType DEF Join, Exists
    <3>3. QED  BY <1>12, <2>1, <3>1, <3>2 DEF Join, Exists
  <2>2. CASE bound[sid[r]] = None
    BY <1>12, <1>b, <2>2 DEF Join, Exists
  <2>3. QED  BY <1>12, <2>1, <2>2 DEF Join
<1>13. CASE Resolve(r)
  <2>1. CASE Resolved(r, stored[r])
    BY <1>13, <2>1 DEF Resolve, Resolved
  <2>2. CASE UNCHANGED <<eff, private>>
    BY <1>13, <2>2 DEF Resolve, Resolved
  <2>3. QED  BY <1>13, <2>1, <2>2 DEF Resolve
<1>14. CASE Rewrite(r)
  BY <1>14 DEF Rewrite, Resolved
<1>15. CASE Drop(r)
  BY <1>15 DEF Drop, GiveBack
<1>16. CASE Claim(r)
  BY <1>16 DEF Claim, Reserve, Full
<1>17. CASE Undo(r)
  BY <1>17, <1>a, <1>b DEF Undo, Decrement
<1>18. QED  BY <1>1, <1>2, <1>3, <1>4, <1>5, <1>6, <1>7, <1>8, <1>9, <1>10, <1>11,
       <1>12, <1>13, <1>14, <1>15, <1>16, <1>17 DEF Sets

\* The steps of a request that plays, or ends.
LEMMA PlaysType ==
  ASSUME IInv, NEW r \in Request, Plays(r), crossed' \in BOOLEAN
  PROVE  TypeOK' /\ PlacesOK'
<1>1. at[r] \in Counting => active[sid[r]] > 0 /\ bound[sid[r]] \in Profile
  BY StakeCounts DEF IInv, PlacesOK, PlaceOK, Counting
<1> USE DEF IInv, TypeOK, PlacesOK, PlaceOK, Unstaked, Counting, Place, Set, Goto, hash, request
<1>2. CASE Open(r)
  BY <1>1, <1>2 DEF Open
<1>3. CASE Fetched(r)
  BY <1>3 DEF Fetched
<1>4. CASE End(r)
  <2>1. active' \in [Session -> Nat]
    BY <1>1, <1>4 DEF End, Decrement
  <2>2. CASE Leave(r)
    BY <1>4, <2>1, <2>2, LeaveType DEF End, Locals
  <2>3. CASE ~Leave(r)
    <3>1. /\ at' = [at EXCEPT ![r] = "release"]
          /\ staked' = [staked EXCEPT ![r] = FALSE] /\ first' = [first EXCEPT ![r] = FALSE]
          /\ UNCHANGED <<slots, bound, cleaning, valid, own, sid, view, stored, eff, private>>
      BY <1>4, <2>3 DEF End
    <3>2. QED  BY <1>1, <1>4, <2>1, <3>1 DEF End
  <2>4. QED  BY <2>2, <2>3
<1>5. CASE Release(r)
  BY <1>5, LeaveType DEF Release, GiveBack, Locals
<1>6. QED  BY <1>2, <1>3, <1>4, <1>5 DEF Plays

\* No step but a request's own touches its locals.
LEMMA TypeStep ==
  ASSUME IInv, [Next]_vars
  PROVE  TypeOK' /\ PlacesOK'
<1>1. CASE UNCHANGED vars
  BY <1>1 DEF IInv, vars, TypeOK, PlacesOK, PlaceOK
<1>2. CASE Next
  <2>1. crossed' \in BOOLEAN
    BY <1>2, Zenon DEF Next
  <2>2. ASSUME NEW r \in Request, Sets(r) \/ Plays(r)
        PROVE  TypeOK' /\ PlacesOK'
    BY <2>1, <2>2, SetsType, PlaysType
  <2> USE DEF IInv, TypeOK, PlacesOK, PlaceOK, Unstaked, Counting, Place, Set, Goto, hash, request
  <2>3. ASSUME NEW s \in Session, Cleanup(s) \/ Expire(s)
        PROVE  TypeOK' /\ PlacesOK'
    BY <2>1, <2>3 DEF Cleanup, Expire
  <2>4. ASSUME NEW p \in Profile, Retire(p) \/ Restore(p)
        PROVE  TypeOK' /\ PlacesOK'
    BY <2>1, <2>4 DEF Retire, Restore
  <2>5. QED  BY <1>2, <2>2, <2>3, <2>4 DEF Next
<1>3. QED  BY <1>1, <1>2

(***************************************************************************)
(* Stakes                                                                   *)
(***************************************************************************)
\* The counter follows the requests until they play.
LEMMA SetsStakes ==
  ASSUME IInv, NEW r \in Request, Sets(r)
  PROVE  StakesExact'
<1>1. TypeOK /\ StakesExact /\ PlaceOK(r)
  BY DEF IInv, PlacesOK
<1>2. \A s \in Session : active[s] \in Nat /\ (active[s] > 0 => bound[s] # None)
  BY <1>1, StakesMeaning DEF TypeOK, Exists
<1>3. ASSUME ~staked[r], Leave(r), UNCHANGED hash  PROVE StakesExact'
  BY <1>1, <1>2, <1>3, StakesKept DEF TypeOK, Leave, Set, hash
<1>4. ASSUME UNCHANGED <<staked, sid, hash>>  PROVE StakesExact'
  BY <1>1, <1>2, <1>4, StakesKept DEF hash
<1>5. ASSUME ~staked[r], sid[r] \in Session, bound[sid[r]] # None, Increment(r, sid[r]), UNCHANGED <<bound, sid>>
      PROVE  StakesExact'
  BY <1>1, <1>2, <1>5, StakeAdded DEF Increment, Set
<1>6. ASSUME ~staked[r], UNCHANGED <<staked, hash>>, \E s : sid' = [sid EXCEPT ![r] = s]
      PROVE  StakesExact'
  BY <1>1, <1>2, <1>6, StakesKept DEF hash, TypeOK
<1> USE DEF Set, Unstaked, Counting
<1>7. ASSUME NEW s \in Session, FindIdle(r, s) \/ \E p \in Profile : Arrive(r, s, p)
      PROVE  StakesExact'
  BY <1>1, <1>6, <1>7 DEF FindIdle, Arrive, PlaceOK
<1>8. CASE FindNone(r) \/ Look(r) \/ LoseRace(r) \/ MissLock(r) \/ Resolve(r) \/ Drop(r) \/ Claim(r)
  BY <1>4, <1>8 DEF FindNone, Look, LoseRace, MissLock, Resolve, Drop, Claim, request
<1>9. CASE Grab(r)
  BY <1>1, <1>5, <1>6, <1>9 DEF Grab, PlaceOK, Exists, hash
<1>10. CASE ReserveView(r)
  BY <1>1, <1>3, <1>4, <1>10 DEF ReserveView, PlaceOK
<1>11. CASE Create(r)
  <2>1. ~staked[r] /\ sid[r] \in Session /\ view[r] \in Profile /\ bound[sid[r]] = None
    BY <1>1, <1>11 DEF Create, PlaceOK, Exists
  <2>2. active[sid[r]] = 0
    BY <1>2, <2>1
  <2>3. /\ active' = [active EXCEPT ![sid[r]] = active[sid[r]] + 1]
        /\ staked' = [staked EXCEPT ![r] = TRUE] /\ sid' = sid
    BY <1>11, <2>2 DEF Create
  <2>4. bound'[sid[r]] # None /\ \A u \in Session \ {sid[r]} : bound'[u] = bound[u]
    BY <1>1, <1>11, <2>1 DEF Create, TypeOK
  <2>5. QED  BY <1>1, <2>1, <2>3, <2>4, StakeAdded
<1>12. CASE RaceIncrement(r)
  BY <1>1, <1>4, <1>5, <1>12 DEF RaceIncrement, PlaceOK, Exists, hash
<1>13. CASE Lost(r)
  BY <1>1, <1>3, <1>13 DEF Lost, PlaceOK
<1>14. CASE Join(r)
  BY <1>1, <1>3, <1>5, <1>14 DEF Join, PlaceOK, Exists, hash
<1>15. CASE Rewrite(r)
  <2>1. \A s \in Session : active[s] > 0 => bound'[s] # None
    BY <1>1, <1>2, <1>15 DEF Rewrite, PlaceOK, TypeOK
  <2>2. QED  BY <1>1, <1>15, <2>1, StakesKept DEF Rewrite
<1>16. CASE Undo(r)
  <2>1. staked[r] /\ sid[r] \in Session
    BY <1>1, <1>16 DEF Undo, PlaceOK
  <2>2. active' = [active EXCEPT ![sid[r]] = active[sid[r]] - 1]
    BY <1>1, <1>16, <2>1, StakeCounts DEF Undo, Decrement
  <2>3. QED  BY <1>1, <1>16, <2>1, <2>2, StakeDropped DEF Undo, Leave, TypeOK
<1>17. QED  BY <1>7, <1>8, <1>9, <1>10, <1>11, <1>12, <1>13, <1>14, <1>15, <1>16 DEF Sets

\* And those that play: the end of one is counted before its slot is given back.
LEMMA PlaysStakes ==
  ASSUME IInv, NEW r \in Request, Plays(r)
  PROVE  StakesExact'
<1>1. TypeOK /\ StakesExact /\ PlaceOK(r)
  BY DEF IInv, PlacesOK
<1>2. \A s \in Session : active[s] > 0 => bound[s] # None
  BY <1>1, StakesMeaning DEF Exists
<1> USE DEF Set, Unstaked, Counting
<1>3. CASE Open(r)
  BY <1>1, <1>2, <1>3, StakesKept DEF Open, hash
<1>4. CASE Fetched(r)
  <2>1. \A s \in Session : active[s] > 0 => bound'[s] # None
    BY <1>1, <1>2, <1>4 DEF Fetched, PlaceOK, TypeOK
  <2>2. QED  BY <1>1, <1>4, <2>1, StakesKept DEF Fetched, request
<1>5. CASE End(r)
  <2>1. staked[r] /\ sid[r] \in Session
    BY <1>1, <1>5 DEF End, PlaceOK
  <2>2. active' = [active EXCEPT ![sid[r]] = active[sid[r]] - 1]
    BY <1>1, <1>5, <2>1, StakeCounts DEF End, Decrement
  <2>3. staked' = [staked EXCEPT ![r] = FALSE] /\ \A q \in Request \ {r} : sid'[q] = sid[q]
    BY <1>1, <1>5 DEF End, Leave, TypeOK
  <2>4. QED  BY <1>1, <1>5, <2>1, <2>2, <2>3, StakeDropped DEF End
<1>6. CASE Release(r)
  BY <1>1, <1>2, <1>6, StakesKept DEF Release, PlaceOK, Leave, hash, TypeOK
<1>7. QED  BY <1>3, <1>4, <1>5, <1>6 DEF Plays

\* No session with requests loses its hash.
LEMMA StakesStep ==
  ASSUME IInv, [Next]_vars
  PROVE  StakesExact'
<1>1. TypeOK /\ StakesExact
  BY DEF IInv
<1>2. \A s \in Session : active[s] \in Nat /\ (active[s] > 0 => bound[s] # None)
  BY <1>1, StakesMeaning DEF TypeOK, Exists
<1>3. CASE UNCHANGED vars
  BY <1>1, <1>2, <1>3, StakesKept DEF vars
<1>4. ASSUME NEW r \in Request, Sets(r) \/ Plays(r)  PROVE StakesExact'
  BY <1>4, SetsStakes, PlaysStakes
<1>5. ASSUME NEW s \in Session, Cleanup(s) \/ Expire(s)  PROVE StakesExact'
  BY <1>1, <1>2, <1>5, StakesKept DEF Cleanup, Expire, Set, request, TypeOK
<1>6. ASSUME NEW p \in Profile, Retire(p) \/ Restore(p)  PROVE StakesExact'
  BY <1>1, <1>2, <1>6, StakesKept DEF Retire, Restore, hash, request
<1>7. QED  BY <1>3, <1>4, <1>5, <1>6 DEF Next

\* The invariant is inductive.
THEOREM Inductive == Spec => []IInv
<1>1. IInv /\ [Next]_vars => IInv'
  BY TypeStep, StakesStep DEF IInv
<1>2. QED  BY InitInv, <1>1, PTL DEF Spec

\* Every value has its type; a profile's counter never passes its limit, nor
\* goes below 0, however many requests race on however many workers.
THEOREM TypeCorrect == Spec => []TypeOK
<1>1. IInv => TypeOK
  BY DEF IInv
<1>2. QED  BY <1>1, Inductive, PTL

\* active_streams is the number of the requests that count themselves, and a
\* session that is counted has its hash: vod_cleanup_idle and the TTL delete
\* none that plays, and vod_meta_save_if_exists brings none back.
THEOREM StakesAreExact == Spec => []StakesExact
<1>1. IInv => StakesExact
  BY DEF IInv
<1>2. QED  BY <1>1, Inductive, PTL

(***************************************************************************)
(* Slots                                                                    *)
(***************************************************************************)
\* A request holds a slot for no session only from the reservation to the end of the
\* create race, and the first of a session alone goes on to a claim.
SlotPlaceOK(r) ==
  /\ at[r] \in {"create", "race", "lost", "drop"} => private[r]
  /\ private[r] => at[r] \in {"create", "race", "lost", "look", "resolve", "rewrite", "drop"}
  /\ private[r] /\ at[r] = "look" => staked[r]
  /\ at[r] \in {"rewrite", "claim", "undo"} => first[r]
SlotPlacesOK == \A r \in Request : SlotPlaceOK(r)

\* A session has one first request.
FirstAlone == \A r, q \in Request : first[r] /\ first[q] /\ sid[r] = sid[q] => r = q

\* What holds a slot of p.
Pri(p) == {r \in Request : private[r] /\ view[r] = p}
Rel(p) == {r \in Request : at[r] = "release" /\ eff[r] = p}
Claimed(s) == \E r \in Request : sid[r] = s /\ Claiming(r)
Ply(p) == {s \in Session : active[s] > 0 /\ bound[s] = p /\ ~Claimed(s)}
Exact ==
  \A p \in Profile : slots[p] = Cardinality(Pri(p)) + Cardinality(Rel(p)) + Cardinality(Ply(p))

SInv == IInv /\ SlotPlacesOK /\ FirstAlone /\ (Crossed => crossed) /\ (~crossed => Exact)

\* SlotsExact in these words.
LEMMA ExactMeaning == SlotsExact <=> (~crossed => Exact)
BY DEF SlotsExact, Exact, Pri, Rel, Ply, Claimed

\* One element of a finite set comes or goes, or neither.
LEMMA OneMoves ==
  ASSUME NEW X, IsFiniteSet(X), NEW A \in SUBSET X, NEW B \in SUBSET X, NEW x \in X,
         \A y \in X \ {x} : y \in B <=> y \in A
  PROVE  /\ Cardinality(A) \in Nat /\ Cardinality(B) \in Nat
         /\ x \in A => Cardinality(A) > 0
         /\ Cardinality(B) = Cardinality(A) + (IF x \in B THEN 1 ELSE 0) - (IF x \in A THEN 1 ELSE 0)
<1>1. IsFiniteSet(A) /\ Cardinality(A) \in Nat /\ IsFiniteSet(B) /\ Cardinality(B) \in Nat
  BY FS_Subset, FS_CardinalityType
<1>2. CASE x \in A /\ x \notin B
  <2>1. B = A \ {x}  BY <1>2
  <2>2. Cardinality(B) = Cardinality(A) - 1  BY <1>1, <1>2, <2>1, FS_RemoveElement
  <2>3. QED  BY <1>1, <1>2, <2>2
<1>3. CASE x \notin A /\ x \in B
  <2>1. B = A \cup {x}  BY <1>3
  <2>2. Cardinality(B) = Cardinality(A) + 1  BY <1>1, <1>3, <2>1, FS_AddElement
  <2>3. QED  BY <1>1, <1>3, <2>2
<1>4. CASE x \in A <=> x \in B
  <2>1. A = B  BY <1>4
  <2>2. x \in A => Cardinality(A) # 0  BY <1>1, FS_EmptySet
  <2>3. QED  BY <1>1, <1>4, <2>1, <2>2
<1>5. QED  BY <1>2, <1>3, <1>4

\* What request r and session s hold of p.
PriOf(r, p) == IF r \in Pri(p) THEN 1 ELSE 0
RelOf(r, p) == IF r \in Rel(p) THEN 1 ELSE 0
PlyOf(s, p) == IF s \in Ply(p) THEN 1 ELSE 0

\* A step of r touches no other request.
OthersKept(r) ==
  \A q \in Request \ {r} :
    /\ at'[q] = at[q] /\ sid'[q] = sid[q] /\ view'[q] = view[q] /\ eff'[q] = eff[q]
    /\ staked'[q] = staked[q] /\ first'[q] = first[q] /\ private'[q] = private[q]
SessionsKept(s) == \A u \in Session \ {s} : active'[u] = active[u] /\ bound'[u] = bound[u]

\* Exactness is kept if the counter follows what r and its session hold.
LEMMA ExactFollows ==
  ASSUME Exact, NEW r \in Request, NEW s \in Session, OthersKept(r), SessionsKept(s),
         Claiming(r) => sid[r] = s, Claiming(r)' => sid'[r] = s,
         \A p \in Profile : slots[p] \in Nat,
         \A p \in Profile :
           slots'[p] = slots[p] + PriOf(r, p)' - PriOf(r, p) + RelOf(r, p)' - RelOf(r, p)
                                + PlyOf(s, p)' - PlyOf(s, p)
  PROVE  Exact'
<1> SUFFICES ASSUME NEW p \in Profile
             PROVE  slots'[p] = Cardinality(Pri(p)') + Cardinality(Rel(p)') + Cardinality(Ply(p)')
  BY DEF Exact
<1>1. /\ Cardinality(Pri(p)) \in Nat /\ Cardinality(Pri(p)') \in Nat
      /\ Cardinality(Pri(p)') = Cardinality(Pri(p)) + PriOf(r, p)' - PriOf(r, p)
  <2>1. Pri(p) \in SUBSET Request /\ Pri(p)' \in SUBSET Request
    BY DEF Pri
  <2>2. \A y \in Request \ {r} : y \in Pri(p)' <=> y \in Pri(p)
    BY DEF Pri, OthersKept
  <2>3. QED  BY <2>1, <2>2, OneMoves DEF PriOf
<1>2. /\ Cardinality(Rel(p)) \in Nat /\ Cardinality(Rel(p)') \in Nat
      /\ Cardinality(Rel(p)') = Cardinality(Rel(p)) + RelOf(r, p)' - RelOf(r, p)
  <2>1. Rel(p) \in SUBSET Request /\ Rel(p)' \in SUBSET Request
    BY DEF Rel
  <2>2. \A y \in Request \ {r} : y \in Rel(p)' <=> y \in Rel(p)
    BY DEF Rel, OthersKept
  <2>3. QED  BY <2>1, <2>2, OneMoves DEF RelOf
<1>3. /\ Cardinality(Ply(p)) \in Nat /\ Cardinality(Ply(p)') \in Nat
      /\ Cardinality(Ply(p)') = Cardinality(Ply(p)) + PlyOf(s, p)' - PlyOf(s, p)
  <2>1. Ply(p) \in SUBSET Session /\ Ply(p)' \in SUBSET Session
    BY DEF Ply
  <2>2. ASSUME NEW u \in Session \ {s}  PROVE Claimed(u)' <=> Claimed(u)
    BY <2>2 DEF Claimed, Claiming, OthersKept
  <2>3. \A u \in Session \ {s} : u \in Ply(p)' <=> u \in Ply(p)
    BY <2>2 DEF Ply, SessionsKept
  <2>4. QED  BY <2>1, <2>3, OneMoves DEF PlyOf
<1>4. slots[p] = Cardinality(Pri(p)) + Cardinality(Rel(p)) + Cardinality(Ply(p))
  BY DEF Exact
<1>5. /\ PriOf(r, p) \in Int /\ PriOf(r, p)' \in Int
      /\ RelOf(r, p) \in Int /\ RelOf(r, p)' \in Int
      /\ PlyOf(s, p) \in Int /\ PlyOf(s, p)' \in Int
  BY DEF PriOf, RelOf, PlyOf
<1>6. QED  BY <1>1, <1>2, <1>3, <1>4, <1>5

\* A request that holds a slot is counted, so its release finds the counter above 0.
LEMMA HeldCounts ==
  ASSUME Exact, NEW r \in Request, NEW p \in Profile, r \in Pri(p) \/ r \in Rel(p)
  PROVE  slots[p] > 0
<1>1. Pri(p) \in SUBSET Request /\ Rel(p) \in SUBSET Request /\ Ply(p) \in SUBSET Session
  BY DEF Pri, Rel, Ply
<1>2. /\ Cardinality(Pri(p)) \in Nat /\ Cardinality(Rel(p)) \in Nat
      /\ r \in Pri(p) => Cardinality(Pri(p)) > 0
      /\ r \in Rel(p) => Cardinality(Rel(p)) > 0
  BY <1>1, OneMoves
<1>3. Cardinality(Ply(p)) \in Nat
  BY <1>1, FS_Subset, FS_CardinalityType
<1>4. QED  BY <1>2, <1>3 DEF Exact

\* The first of a session is the one that may be claiming.
LEMMA ClaimedByFirst ==
  ASSUME FirstAlone, NEW r \in Request, first[r]
  PROVE  Claimed(sid[r]) <=> Claiming(r)
BY DEF FirstAlone, Claimed, Claiming

\* Nobody counts itself in a session at 0.
LEMMA NobodyAtZero ==
  ASSUME TypeOK, StakesExact, NEW s \in Session, active[s] = 0, NEW q \in Request, sid[q] = s
  PROVE  ~staked[q]
<1>1. Stakes(s) \in SUBSET Request /\ Cardinality(Stakes(s)) = 0
  BY StakesMeaning DEF Stakes
<1>2. Stakes(s) = {}
  BY <1>1, Sizes
<1>3. QED  BY <1>2 DEF Stakes

\* A session at 1 has one request that counts itself.
LEMMA AloneAtOne ==
  ASSUME TypeOK, StakesExact, NEW s \in Session, active[s] = 1,
         NEW q \in Request, NEW r \in Request, sid[q] = s, sid[r] = s, staked[q], staked[r]
  PROVE  q = r
<1>1. Stakes(s) \in SUBSET Request /\ Cardinality(Stakes(s)) = 1
  BY StakesMeaning DEF Stakes
<1>2. r \in Stakes(s) /\ q \in Stakes(s)
  BY DEF Stakes
<1>3. Stakes(s) \ {r} \in SUBSET Request /\ Cardinality(Stakes(s) \ {r}) = 0
  BY <1>1, <1>2, Sizes
<1>4. Stakes(s) \ {r} = {}
  BY <1>3, Sizes
<1>5. QED  BY <1>2, <1>4

\* A request that counts itself learns that it is the first only if nobody else does.
LEMMA FirstIncrement ==
  ASSUME IInv, FirstAlone, NEW r \in Request, sid[r] \in Session, Increment(r, sid[r]), sid' = sid
  PROVE  FirstAlone' /\ \A q \in Request \ {r} : first'[q] = first[q] /\ staked'[q] = staked[q]
<1>1. staked' = [staked EXCEPT ![r] = TRUE] /\ first' = [first EXCEPT ![r] = (active[sid[r]] = 0)]
  BY DEF Increment, Set
<1>2. \A q \in Request \ {r} : first'[q] = first[q] /\ staked'[q] = staked[q]
  BY <1>1 DEF IInv, TypeOK
<1>3. ASSUME NEW q \in Request \ {r}, first[q], sid[q] = sid[r]
      PROVE  first'[r] = FALSE
  <2>1. staked[q]
    BY <1>3 DEF IInv, PlacesOK, PlaceOK
  <2>2. active[sid[r]] # 0
    BY <1>3, <2>1, NobodyAtZero DEF IInv
  <2>3. QED  BY <1>1, <2>2 DEF IInv, TypeOK
<1>4. QED  BY <1>2, <1>3 DEF FirstAlone

\* A request that leaves holds nothing and is no first.
LEMMA LeaveSlots ==
  ASSUME IInv, SlotPlacesOK, FirstAlone, NEW r \in Request, Leave(r)
  PROVE  SlotPlacesOK' /\ FirstAlone' /\ OthersKept(r)
<1>1. SlotPlaceOK(r)' /\ ~first'[r]
  BY DEF IInv, TypeOK, SlotPlaceOK, Leave, Goto, Set
<1>2. OthersKept(r)
  BY DEF IInv, TypeOK, OthersKept, Leave, Goto, Set
<1>3. QED  BY <1>1, <1>2 DEF SlotPlacesOK, SlotPlaceOK, FirstAlone, OthersKept

\* A step that neither makes a request first nor moves one that is.
LEMMA FirstKept ==
  ASSUME FirstAlone, NEW r \in Request, OthersKept(r),
         first'[r] => first[r] /\ sid'[r] = sid[r]
  PROVE  FirstAlone'
BY DEF FirstAlone, OthersKept

\* The steps of a request, and what they leave to the others.
LEMMA PlacesStep ==
  ASSUME IInv, SlotPlacesOK, FirstAlone, NEW r \in Request, Sets(r) \/ Plays(r)
  PROVE  SlotPlacesOK' /\ FirstAlone' /\ OthersKept(r)
<1>1. ASSUME OthersKept(r), SlotPlaceOK(r)'  PROVE SlotPlacesOK'
  BY <1>1 DEF SlotPlacesOK, SlotPlaceOK, OthersKept
<1>2. PlaceOK(r) /\ SlotPlaceOK(r) /\ TypeOK
  BY DEF IInv, PlacesOK, SlotPlacesOK
<1>3. ASSUME first'[r] => first[r] /\ sid'[r] = sid[r], OthersKept(r), SlotPlaceOK(r)'
      PROVE  SlotPlacesOK' /\ FirstAlone' /\ OthersKept(r)
  BY <1>1, <1>3, FirstKept
<1>4. ASSUME Increment(r, sid[r]), sid[r] \in Session, UNCHANGED <<sid, view, eff, private>>,
             NEW l \in Place, Goto(r, l), SlotPlaceOK(r)'
      PROVE  SlotPlacesOK' /\ FirstAlone' /\ OthersKept(r)
  <2>1. OthersKept(r)
    BY <1>2, <1>4, FirstIncrement DEF OthersKept, Goto, Set, TypeOK
  <2>2. FirstAlone'
    BY <1>4, FirstIncrement
  <2>3. QED  BY <1>1, <1>4, <2>1, <2>2
<1> USE <1>2 DEF TypeOK, PlaceOK, SlotPlaceOK, Unstaked, Counting, Set, Goto, hash, request
<1>5. ASSUME NEW s \in Session, FindIdle(r, s)  PROVE SlotPlacesOK' /\ FirstAlone' /\ OthersKept(r)
  BY <1>3, <1>5 DEF FindIdle, OthersKept
<1>6. ASSUME NEW s \in Session, NEW p \in Profile, Arrive(r, s, p)
      PROVE  SlotPlacesOK' /\ FirstAlone' /\ OthersKept(r)
  BY <1>3, <1>6 DEF Arrive, OthersKept
<1>7. CASE FindNone(r)
  BY <1>3, <1>7 DEF FindNone, OthersKept
<1>8. CASE Grab(r)
  <2>1. CASE bound[sid[r]] # None
    <3>1. SlotPlaceOK(r)'
      BY <1>8, <2>1 DEF Grab, Exists, Increment
    <3>2. QED  BY <1>4, <1>8, <2>1, <3>1 DEF Grab, Exists, Place
  <2>2. CASE bound[sid[r]] = None
    BY <1>3, <1>8, <2>2 DEF Grab, Exists, OthersKept
  <2>3. QED  BY <2>1, <2>2
<1>9. CASE Look(r)
  <2>1. OthersKept(r)
    BY <1>9 DEF Look, OthersKept
  <2>2. SlotPlaceOK(r)'
    <3>1. staked[r] => bound[sid[r]] # None
      BY <1>9, StakeCounts DEF IInv, Look
    <3>2. QED  BY <1>9, <3>1 DEF Look, Exists
  <2>3. QED  BY <1>3, <1>9, <2>1, <2>2 DEF Look
<1>10. CASE ReserveView(r)
  <2>1. CASE Leave(r)
    BY <2>1, LeaveSlots
  <2>2. CASE ~Leave(r)
    BY <1>3, <1>10, <2>2 DEF ReserveView, OthersKept
  <2>3. QED  BY <2>1, <2>2
<1>11. CASE Create(r)
  <2>1. ~staked[r] /\ active[sid[r]] = 0
    BY <1>11, StakesMeaning DEF Create, IInv
  <2>2. OthersKept(r) /\ SlotPlaceOK(r)'
    BY <1>11 DEF Create, OthersKept
  <2>3. ASSUME NEW q \in Request \ {r}, first[q]  PROVE sid[q] # sid[r]
    BY <1>11, <2>1, <2>3, NobodyAtZero DEF Create, IInv, PlacesOK
  <2>4. FirstAlone'
    BY <1>11, <2>2, <2>3 DEF Create, FirstAlone, OthersKept
  <2>5. QED  BY <1>1, <2>2, <2>4
<1>12. CASE LoseRace(r)
  BY <1>3, <1>12 DEF LoseRace, OthersKept
<1>13. CASE MissLock(r)
  BY <1>3, <1>13 DEF MissLock, OthersKept
<1>14. CASE RaceIncrement(r)
  <2>1. CASE bound[sid[r]] # None
    <3>1. SlotPlaceOK(r)'
      BY <1>14, <2>1 DEF RaceIncrement, Exists, Increment
    <3>2. QED  BY <1>4, <1>14, <2>1, <3>1 DEF RaceIncrement, Exists, Place
  <2>2. CASE bound[sid[r]] = None
    BY <1>3, <1>14, <2>2 DEF RaceIncrement, Exists, OthersKept
  <2>3. QED  BY <2>1, <2>2
<1>15. CASE Lost(r)
  BY <1>15, LeaveSlots DEF Lost
<1>16. CASE Join(r)
  <2>1. CASE bound[sid[r]] # None
    <3>1. SlotPlaceOK(r)'
      BY <1>16, <2>1 DEF Join, Exists, Increment
    <3>2. QED  BY <1>4, <1>16, <2>1, <3>1 DEF Join, Exists, Place
  <2>2. CASE bound[sid[r]] = None
    BY <1>16, <2>2, LeaveSlots DEF Join, Exists
  <2>3. QED  BY <2>1, <2>2
<1>17. CASE Resolve(r)
  <2>1. CASE Resolved(r, stored[r])
    BY <1>3, <1>17, <2>1 DEF Resolve, Resolved, OthersKept
  <2>2. CASE ~Resolved(r, stored[r])
    BY <1>3, <1>17, <2>2 DEF Resolve, OthersKept
  <2>3. QED  BY <2>1, <2>2
<1>18. CASE Rewrite(r)
  BY <1>3, <1>18 DEF Rewrite, Resolved, OthersKept
<1>19. CASE Drop(r)
  BY <1>3, <1>19 DEF Drop, OthersKept
<1>20. CASE Claim(r)
  BY <1>3, <1>20 DEF Claim, OthersKept
<1>21. CASE Undo(r)
  BY <1>21, LeaveSlots DEF Undo
<1>22. CASE Open(r)
  BY <1>3, <1>22 DEF Open, OthersKept
<1>23. CASE Fetched(r)
  BY <1>3, <1>23 DEF Fetched, OthersKept
<1>24. CASE End(r)
  <2>1. CASE Leave(r)
    BY <2>1, LeaveSlots
  <2>2. CASE ~Leave(r)
    BY <1>3, <1>24, <2>2 DEF End, OthersKept
  <2>3. QED  BY <2>1, <2>2
<1>25. CASE Release(r)
  BY <1>25, LeaveSlots DEF Release
<1>26. QED
  BY <1>5, <1>6, <1>7, <1>8, <1>9, <1>10, <1>11, <1>12, <1>13, <1>14, <1>15, <1>16, <1>17,
     <1>18, <1>19, <1>20, <1>21, <1>22, <1>23, <1>24, <1>25 DEF Sets, Plays

\* What plays in a session stays the same if its count stays positive or 0, its profile
\* the same, and if r claims in it neither more nor less than before.
LEMMA PlyKept ==
  ASSUME NEW r \in Request, NEW s \in Session, OthersKept(r),
         (Claiming(r) /\ sid[r] = s) <=> (Claiming(r)' /\ sid'[r] = s),
         active'[s] > 0 <=> active[s] > 0, active[s] > 0 => bound'[s] = bound[s]
  PROVE  \A p \in Profile : PlyOf(s, p)' = PlyOf(s, p)
<1>1. Claimed(s)' <=> Claimed(s)
  BY DEF Claimed, Claiming, OthersKept
<1>2. QED  BY <1>1 DEF PlyOf, Ply

\* A request that comes to a session as its first is still claiming, so nothing plays.
LEMMA IncrementPly ==
  ASSUME IInv, NEW r \in Request, sid[r] \in Session, ~staked[r], OthersKept(r),
         Increment(r, sid[r]), bound' = bound, sid' = sid, at'[r] \in {"look", "resolve"}
  PROVE  \A p \in Profile : PlyOf(sid[r], p)' = PlyOf(sid[r], p)
<1>1. /\ active' = [active EXCEPT ![sid[r]] = active[sid[r]] + 1] /\ active[sid[r]] \in Nat
      /\ staked'[r] /\ (first'[r] <=> active[sid[r]] = 0)
  BY DEF IInv, TypeOK, Increment, Set
<1>2. ~Claiming(r) /\ (Claiming(r)' <=> first'[r])
  BY <1>1 DEF Claiming
<1>3. CASE active[sid[r]] = 0
  <2>1. Claimed(sid[r])'
    BY <1>1, <1>2, <1>3 DEF Claimed
  <2>2. QED  BY <1>3, <2>1 DEF PlyOf, Ply
<1>4. CASE active[sid[r]] > 0
  <2>1. active'[sid[r]] > 0 /\ ~Claiming(r)'
    BY <1>1, <1>2, <1>4 DEF IInv, TypeOK
  <2>2. QED  BY <1>2, <1>4, <2>1, PlyKept
<1>5. QED  BY <1>1, <1>3, <1>4

\* The first of a session plays on what the hash names, once it has claimed.
LEMMA FirstPlays ==
  ASSUME FirstAlone, NEW r \in Request, first[r], sid[r] \in Session, active[sid[r]] > 0,
         NEW p \in Profile
  PROVE  PlyOf(sid[r], p) = IF ~Claiming(r) /\ bound[sid[r]] = p THEN 1 ELSE 0
BY ClaimedByFirst DEF PlyOf, Ply

\* The same of the next state.
LEMMA FirstPlaysNext ==
  ASSUME FirstAlone', NEW r \in Request, NEW s \in Session, first'[r], sid'[r] = s, active'[s] > 0,
         NEW p \in Profile
  PROVE  PlyOf(s, p)' = IF ~Claiming(r)' /\ bound'[s] = p THEN 1 ELSE 0
<1>1. Claimed(s)' <=> Claiming(r)'
  BY DEF FirstAlone, Claimed, Claiming
<1>2. QED  BY <1>1 DEF PlyOf, Ply

\* A step that takes, gives back and passes on no slot.
LEMMA NeutralStep ==
  ASSUME Exact, TypeOK, NEW r \in Request, NEW s \in Session, OthersKept(r), SessionsKept(s),
         slots' = slots, at[r] # "release", at'[r] # "release",
         \/ ~private[r] /\ ~private'[r]
         \/ private'[r] = private[r] /\ view'[r] = view[r],
         Claiming(r) => sid[r] = s, Claiming(r)' => sid'[r] = s,
         \A p \in Profile : PlyOf(s, p)' = PlyOf(s, p)
  PROVE  Exact'
<1>1. \A p \in Profile : /\ PriOf(r, p)' = PriOf(r, p) /\ RelOf(r, p)' = RelOf(r, p)
                         /\ slots[p] \in Nat
                         /\ PriOf(r, p) \in Int /\ RelOf(r, p) \in Int /\ PlyOf(s, p) \in Int
  BY DEF PriOf, Pri, RelOf, Rel, PlyOf, TypeOK
<1>2. \A p \in Profile : slots'[p] = slots[p] + PriOf(r, p)' - PriOf(r, p) + RelOf(r, p)' - RelOf(r, p)
                                              + PlyOf(s, p)' - PlyOf(s, p)
  BY <1>1
<1>3. QED  BY <1>1, <1>2, ExactFollows

\* Whoever counts itself and knows its profile has that of the hash, and a refused
\* request is alone in its session, unless requests have crossed.
LEMMA Agrees ==
  ASSUME ~Crossed, NEW r \in Request, staked[r]
  PROVE  /\ at[r] \in {"drop", "claim", "open", "fetch", "play"} => eff[r] = bound[sid[r]]
         /\ at[r] = "undo" => ~(active[sid[r]] > 1)
BY DEF Crossed

\* The same of the next state.
LEMMA AgreesNext ==
  ASSUME ~Crossed', NEW r \in Request, staked'[r]
  PROVE  at'[r] \in {"drop", "claim", "open", "fetch", "play"} => eff'[r] = bound'[sid'[r]]
BY DEF Crossed

\* A request that leaves with no slot and no claim.
LEMMA LeaveExact ==
  ASSUME IInv, Exact, NEW r \in Request, OthersKept(r), Leave(r), UNCHANGED <<slots, hash>>,
         ~private[r], ~staked[r], at[r] \notin {"away", "release"}
  PROVE  Exact'
<1>1. PICK s \in Session : sid[r] = s
  BY DEF IInv, PlacesOK, PlaceOK
<1>2. TypeOK /\ at'[r] = "away" /\ ~private'[r] /\ ~staked'[r]
  BY DEF IInv, TypeOK, Leave, Goto, Set
<1>3. ~Claiming(r) /\ ~Claiming(r)' /\ SessionsKept(s)
  BY <1>2 DEF Claiming, SessionsKept, hash
<1>4. \A p \in Profile : PlyOf(s, p)' = PlyOf(s, p)
  BY <1>3, PlyKept DEF hash
<1>5. QED  BY <1>2, <1>3, <1>4, NeutralStep

\* A request on its way moves its slot with what it knows, and claims as it did.
LEMMA WayExact ==
  ASSUME IInv, Exact, NEW r \in Request, NEW s \in Session, OthersKept(r),
         UNCHANGED <<slots, hash>>,
         at[r] # "release", at'[r] # "release",
         \/ ~private[r] /\ ~private'[r]
         \/ private'[r] = private[r] /\ view'[r] = view[r],
         Claiming(r) <=> Claiming(r)', Claiming(r) => sid[r] = s /\ sid'[r] = s
  PROVE  Exact'
<1>1. TypeOK /\ SessionsKept(s)
  BY DEF IInv, SessionsKept, hash
<1>2. \A p \in Profile : PlyOf(s, p)' = PlyOf(s, p)
  BY PlyKept DEF hash
<1>3. QED  BY <1>1, <1>2, NeutralStep

\* The first request of a session has a slot of the session's profile: the one it holds
\* already, or one it claims.
LEMMA FirstBegins ==
  ASSUME IInv, FirstAlone', Exact, NEW r \in Request, OthersKept(r), sid[r] \in Session,
         first'[r], staked'[r], at'[r] = "open", sid' = sid, ~private'[r],
         at[r] # "release", view' = view,
         \A p \in Profile : PlyOf(sid[r], p) = 0,
         Claiming(r) \/ ~staked[r],
         active'[sid[r]] > 0, SessionsKept(sid[r]), bound'[sid[r]] \in Profile,
         \/ /\ private[r] /\ bound'[sid[r]] = view[r] /\ slots' = slots
         \/ /\ ~private[r]
            /\ slots' = [slots EXCEPT ![bound'[sid[r]]] = slots[bound'[sid[r]]] + 1]
  PROVE  Exact'
<1>1. \A p \in Profile : slots[p] \in Nat
  BY DEF IInv, TypeOK
<1>2. ~Claiming(r)'
  BY DEF Claiming
<1>3. \A p \in Profile : PlyOf(sid[r], p)' = IF bound'[sid[r]] = p THEN 1 ELSE 0
  <2>1. PICK s \in Session : s = sid[r]  OBVIOUS
  <2>2. \A p \in Profile : PlyOf(s, p)' = IF bound'[s] = p THEN 1 ELSE 0
    BY <1>2, <2>1, FirstPlaysNext
  <2>3. QED  BY <2>1, <2>2 DEF PlyOf, Ply, Claimed
<1>4. \A p \in Profile : RelOf(r, p)' = 0 /\ RelOf(r, p) = 0 /\ PriOf(r, p)' = 0
  BY DEF RelOf, Rel, PriOf, Pri
<1>5. \A p \in Profile : PriOf(r, p) = IF private[r] /\ view[r] = p THEN 1 ELSE 0
  BY DEF PriOf, Pri
<1>6. \A p \in Profile : slots'[p] = slots[p] + PriOf(r, p)' - PriOf(r, p) + RelOf(r, p)' - RelOf(r, p)
                                              + PlyOf(sid[r], p)' - PlyOf(sid[r], p)
  BY <1>1, <1>3, <1>4, <1>5 DEF IInv, TypeOK
<1>7. QED  BY <1>1, <1>2, <1>6, ExactFollows DEF Claiming

\* The steps of a request until it plays.
LEMMA SetsExact ==
  ASSUME IInv, SlotPlacesOK, FirstAlone, Exact, ~Crossed, ~Crossed', NEW r \in Request, Sets(r)
  PROVE  Exact'
<1>1. SlotPlacesOK' /\ FirstAlone' /\ OthersKept(r)
  BY PlacesStep
<1>2. PlaceOK(r) /\ SlotPlaceOK(r) /\ TypeOK
  BY DEF IInv, PlacesOK, SlotPlacesOK
<1>3. staked[r] /\ sid[r] \in Session => active[sid[r]] > 0 /\ bound[sid[r]] \in Profile
  BY <1>2, StakeCounts DEF IInv
<1> USE <1>2 DEF TypeOK, PlaceOK, SlotPlaceOK, Unstaked, Counting, Set, Goto, hash, request, Claiming
<1>4. ASSUME ~staked[r], ~staked'[r], UNCHANGED <<slots, hash>>, at[r] # "release", at'[r] # "release",
             \/ ~private[r] /\ ~private'[r]
             \/ private'[r] = private[r] /\ view'[r] = view[r],
             Session # {}
      PROVE  Exact'
  BY <1>1, <1>4, WayExact
<1>5. ASSUME NEW s \in Session, FindIdle(r, s)  PROVE Exact'
  BY <1>4, <1>5 DEF FindIdle
<1>6. ASSUME NEW s \in Session, NEW p \in Profile, Arrive(r, s, p)  PROVE Exact'
  BY <1>4, <1>6 DEF Arrive
<1>7. CASE FindNone(r)
  BY <1>4, <1>7 DEF FindNone
<1>8. ASSUME ~staked[r], sid[r] \in Session, Increment(r, sid[r]),
             UNCHANGED <<slots, bound, sid, view, private>>,
             at[r] # "release", at'[r] \in {"look", "resolve"}
      PROVE  Exact'
  <2>1. \A p \in Profile : PlyOf(sid[r], p)' = PlyOf(sid[r], p)
    BY <1>1, <1>8, IncrementPly
  <2>2. SessionsKept(sid[r])
    BY <1>8 DEF SessionsKept, Increment
  <2>3. QED  BY <1>1, <1>8, <2>1, <2>2, NeutralStep
<1>9. CASE Grab(r)
  BY <1>4, <1>8, <1>9 DEF Grab
<1>10. CASE Look(r)
  BY <1>1, <1>3, <1>10, WayExact DEF Look, Exists
<1>11. CASE LoseRace(r) \/ MissLock(r)
  BY <1>4, <1>11 DEF LoseRace, MissLock
<1>12. CASE RaceIncrement(r)
  BY <1>4, <1>8, <1>12 DEF RaceIncrement
<1>13. CASE Join(r)
  BY <1>1, <1>8, <1>13, LeaveExact DEF Join
<1>14. CASE ReserveView(r)
  <2>1. CASE Leave(r) /\ UNCHANGED slots
    BY <1>1, <1>14, <2>1, LeaveExact DEF ReserveView
  <2>2. CASE ~(Leave(r) /\ UNCHANGED slots)
    <3>1. /\ slots' = [slots EXCEPT ![view[r]] = slots[view[r]] + 1]
          /\ private' = [private EXCEPT ![r] = TRUE] /\ at' = [at EXCEPT ![r] = "create"]
          /\ UNCHANGED <<sid, view, eff, staked, first, active, bound>>
          /\ sid[r] \in Session /\ view[r] \in Profile /\ ~private[r] /\ ~staked[r]
      BY <1>14, <2>2 DEF ReserveView, Reserve, Full
    <3>2. \A p \in Profile : PlyOf(sid[r], p)' = PlyOf(sid[r], p) /\ PlyOf(sid[r], p) \in Int
      BY <1>1, <3>1, PlyKept DEF PlyOf
    <3>3. \A p \in Profile : /\ PriOf(r, p)' = (IF view[r] = p THEN 1 ELSE 0) /\ PriOf(r, p) = 0
                             /\ RelOf(r, p)' = 0 /\ RelOf(r, p) = 0
      BY <1>14, <3>1 DEF PriOf, Pri, RelOf, Rel, ReserveView
    <3>4. \A p \in Profile :
             slots'[p] = slots[p] + PriOf(r, p)' - PriOf(r, p) + RelOf(r, p)' - RelOf(r, p)
                                  + PlyOf(sid[r], p)' - PlyOf(sid[r], p)
      BY <3>1, <3>2, <3>3
    <3>5. QED  BY <1>1, <3>1, <3>4, ExactFollows DEF SessionsKept
  <2>3. QED  BY <2>1, <2>2
<1>15. CASE Create(r)
  <2>1. active[sid[r]] = 0 /\ sid[r] \in Session /\ view[r] \in Profile
    BY <1>15, StakesMeaning DEF Create, IInv
  <2>2. \A p \in Profile : PlyOf(sid[r], p) = 0
    BY <2>1 DEF PlyOf, Ply
  <2>3. QED  BY <1>1, <1>15, <2>1, <2>2, FirstBegins DEF Create, SessionsKept
<1>16. CASE Lost(r)
  <2>1. PICK s \in Session : sid[r] = s
    BY <1>16 DEF Lost
  <2>2. /\ private[r] /\ view[r] \in Profile /\ r \in Pri(view[r]) /\ ~staked[r]
        /\ ~private'[r] /\ at'[r] = "away" /\ ~staked'[r]
    BY <1>16 DEF Lost, Pri, Leave
  <2>3. slots' = [slots EXCEPT ![view[r]] = slots[view[r]] - 1]
    BY <1>16, <2>2, HeldCounts DEF Lost, GiveBack
  <2>4. \A p \in Profile : PlyOf(s, p)' = PlyOf(s, p) /\ PlyOf(s, p) \in Int
    BY <1>1, <1>16, <2>2, PlyKept DEF PlyOf, Lost
  <2>5. \A p \in Profile : /\ PriOf(r, p)' = 0 /\ PriOf(r, p) = (IF view[r] = p THEN 1 ELSE 0)
                           /\ RelOf(r, p)' = 0 /\ RelOf(r, p) = 0
    BY <1>16, <2>2 DEF PriOf, Pri, RelOf, Rel, Lost
  <2>6. \A p \in Profile :
           slots'[p] = slots[p] + PriOf(r, p)' - PriOf(r, p) + RelOf(r, p)' - RelOf(r, p)
                                + PlyOf(s, p)' - PlyOf(s, p)
    BY <2>2, <2>3, <2>4, <2>5
  <2>7. QED  BY <1>1, <1>16, <2>2, <2>6, ExactFollows DEF SessionsKept, Lost
<1>17. ASSUME NEW p \in Profile, staked[r], sid[r] \in Session,
              UNCHANGED <<slots, active, sid, view, staked, first>>,
              at[r] \in {"resolve", "rewrite"}, Resolved(r, p), bound'[sid[r]] \in Profile,
              SessionsKept(sid[r]), first[r] \/ bound' = bound
       PROVE  Exact'
  <2>1. CASE private[r] /\ first[r] /\ p = view[r]
    <3>1. \A q \in Profile : PlyOf(sid[r], q) = 0
      BY <1>3, <1>17, <2>1, FirstPlays
    <3>2. at'[r] = "open" /\ ~private'[r] /\ eff'[r] = p
      BY <1>17, <2>1 DEF Resolved
    <3>3. bound'[sid[r]] = view[r]
      BY <1>17, <2>1, <3>2, AgreesNext
    <3>4. QED  BY <1>1, <1>3, <1>17, <2>1, <3>1, <3>2, <3>3, FirstBegins
  <2>2. CASE ~(private[r] /\ first[r] /\ p = view[r])
    <3>1. private' = private
          /\ at'[r] = IF private[r] THEN "drop" ELSE IF first[r] THEN "claim" ELSE "open"
      BY <1>17, <2>2 DEF Resolved
    <3>2. CASE first[r]
      <4>1. \A q \in Profile : PlyOf(sid[r], q)' = PlyOf(sid[r], q)
        <5>1. Claimed(sid[r]) /\ Claimed(sid[r])'
          BY <1>17, <3>1, <3>2 DEF Claimed
        <5>2. QED  BY <5>1 DEF PlyOf, Ply
      <4>2. QED  BY <1>1, <1>17, <3>1, <4>1, NeutralStep
    <3>3. CASE ~first[r]
      BY <1>1, <1>17, <3>1, <3>3, WayExact
    <3>4. QED  BY <3>2, <3>3
  <2>3. QED  BY <2>1, <2>2
<1>18. CASE Resolve(r)
  <2>1. CASE Resolved(r, stored[r])
    BY <1>3, <1>17, <1>18, <2>1 DEF Resolve, SessionsKept
  <2>2. CASE ~Resolved(r, stored[r])
    BY <1>1, <1>18, <2>2, WayExact DEF Resolve
  <2>3. QED  BY <2>1, <2>2
<1>19. CASE Rewrite(r)
  BY <1>3, <1>17, <1>19 DEF Rewrite, SessionsKept
<1>20. CASE Drop(r)
  <2>1. PICK s \in Session : sid[r] = s
    BY <1>20 DEF Drop
  <2>2. /\ private[r] /\ view[r] \in Profile /\ r \in Pri(view[r]) /\ staked[r]
        /\ ~private'[r] /\ at'[r] # "release" /\ (Claiming(r) <=> Claiming(r)')
    BY <1>20 DEF Drop, Pri
  <2>3. slots' = [slots EXCEPT ![view[r]] = slots[view[r]] - 1]
    BY <1>20, <2>2, HeldCounts DEF Drop, GiveBack
  <2>4. \A p \in Profile : PlyOf(s, p)' = PlyOf(s, p) /\ PlyOf(s, p) \in Int
    BY <1>1, <1>20, <2>1, <2>2, PlyKept DEF PlyOf, Drop
  <2>5. \A p \in Profile : /\ PriOf(r, p)' = 0 /\ PriOf(r, p) = (IF view[r] = p THEN 1 ELSE 0)
                           /\ RelOf(r, p)' = 0 /\ RelOf(r, p) = 0
    BY <1>20, <2>2 DEF PriOf, Pri, RelOf, Rel, Drop
  <2>6. \A p \in Profile :
           slots'[p] = slots[p] + PriOf(r, p)' - PriOf(r, p) + RelOf(r, p)' - RelOf(r, p)
                                + PlyOf(s, p)' - PlyOf(s, p)
    BY <2>2, <2>3, <2>4, <2>5
  <2>7. QED  BY <1>1, <1>20, <2>1, <2>2, <2>6, ExactFollows DEF SessionsKept, Drop
<1>21. CASE Claim(r)
  <2>1. CASE Full(eff[r]) /\ Goto(r, "undo")
    BY <1>1, <1>21, <2>1, WayExact DEF Claim, Full
  <2>2. CASE Reserve(eff[r]) /\ Goto(r, "open")
    <3>1. eff[r] = bound[sid[r]]
      BY <1>21, Agrees DEF Claim
    <3>2. \A p \in Profile : PlyOf(sid[r], p) = 0
      BY <1>3, <1>21, FirstPlays DEF Claim
    <3>3. QED  BY <1>1, <1>3, <1>21, <2>2, <3>1, <3>2, FirstBegins DEF Claim, Reserve, SessionsKept
  <2>3. QED  BY <1>21, <2>1, <2>2 DEF Claim
<1>22. CASE Undo(r)
  <2>1. PICK s \in Session : sid[r] = s
    BY <1>22 DEF Undo
  <2>2. active[s] = 1 /\ Claiming(r) /\ ~Claiming(r)'
    BY <1>3, <1>22, <2>1, Agrees DEF Undo, Leave
  <2>3. active'[s] = 0 /\ SessionsKept(s)
    BY <1>22, <2>1, <2>2 DEF Undo, Decrement, SessionsKept
  <2>4. \A p \in Profile : PlyOf(s, p)' = 0 /\ PlyOf(s, p) = 0
    BY <2>1, <2>2, <2>3 DEF PlyOf, Ply, Claimed
  <2>5. at'[r] = "away" /\ ~private'[r] /\ ~private[r]
    BY <1>22 DEF Undo, Leave
  <2>6. QED  BY <1>1, <1>22, <2>1, <2>2, <2>3, <2>4, <2>5, NeutralStep DEF Undo
<1>23. QED
  BY <1>5, <1>6, <1>7, <1>9, <1>10, <1>11, <1>12, <1>13, <1>14, <1>15, <1>16, <1>18, <1>19,
     <1>20, <1>21, <1>22 DEF Sets

\* The steps of a request that plays, or ends.
LEMMA PlaysExact ==
  ASSUME IInv, SlotPlacesOK, FirstAlone, Exact, ~Crossed, ~Crossed', NEW r \in Request, Plays(r)
  PROVE  Exact'
<1>1. SlotPlacesOK' /\ FirstAlone' /\ OthersKept(r)
  BY PlacesStep
<1>2. PlaceOK(r) /\ SlotPlaceOK(r) /\ TypeOK
  BY DEF IInv, PlacesOK, SlotPlacesOK
<1>3. staked[r] /\ sid[r] \in Session => active[sid[r]] > 0 /\ bound[sid[r]] \in Profile
  BY <1>2, StakeCounts DEF IInv
<1> USE <1>2 DEF TypeOK, PlaceOK, SlotPlaceOK, Unstaked, Counting, Set, Goto, hash, request, Claiming
<1>4. CASE Open(r)
  BY <1>1, <1>4, WayExact DEF Open
<1>5. CASE Fetched(r)
  <2>1. bound' = bound
    <3>1. eff[r] = bound[sid[r]]
      BY <1>5, Agrees DEF Fetched
    <3>2. eff'[r] = bound'[sid[r]]
      BY <1>5, AgreesNext DEF Fetched
    <3>3. QED  BY <1>5, <3>1, <3>2 DEF Fetched
  <2>2. QED  BY <1>1, <1>5, <2>1, WayExact DEF Fetched
<1>6. CASE End(r)
  <2>1. PICK s \in Session : sid[r] = s
    BY <1>6 DEF End
  <2>2. /\ staked[r] /\ active[s] > 0 /\ eff[r] = bound[s] /\ bound[s] \in Profile
        /\ active' = [active EXCEPT ![s] = active[s] - 1] /\ bound' = bound
        /\ ~Claiming(r) /\ ~private[r]
    BY <1>3, <1>6, <2>1, Agrees DEF End, Decrement
  <2>3. SessionsKept(s) /\ slots' = slots
    BY <1>6, <2>2 DEF SessionsKept, End
  <2>4. CASE active[s] # 1
    <3>1. at'[r] = "away" /\ ~staked'[r] /\ ~private'[r]
      BY <1>6, <2>1, <2>4 DEF End, HitsZero, Leave
    <3>2. active'[s] > 0 /\ bound'[s] = bound[s] /\ ~Claiming(r)'
      BY <2>2, <2>4, <3>1
    <3>3. \A p \in Profile : PlyOf(s, p)' = PlyOf(s, p)
      BY <1>1, <2>2, <3>2, PlyKept
    <3>4. QED  BY <1>1, <1>6, <2>2, <2>3, <3>1, <3>3, NeutralStep DEF End
  <2>5. CASE active[s] = 1
    <3>1. /\ at' = [at EXCEPT ![r] = "release"] /\ staked' = [staked EXCEPT ![r] = FALSE]
          /\ UNCHANGED <<sid, eff, view, private>>
      BY <1>6, <2>1, <2>5 DEF End, HitsZero
    <3>2. ~Claimed(s)
      BY <2>1, <2>2, <2>5, AloneAtOne DEF Claimed, IInv
    <3>3. \A p \in Profile : PlyOf(s, p) = (IF bound[s] = p THEN 1 ELSE 0) /\ PlyOf(s, p)' = 0
      BY <2>2, <2>5, <3>2 DEF PlyOf, Ply
    <3>4. \A p \in Profile : /\ RelOf(r, p)' = (IF bound[s] = p THEN 1 ELSE 0) /\ RelOf(r, p) = 0
                             /\ PriOf(r, p)' = 0 /\ PriOf(r, p) = 0
      BY <1>6, <2>2, <3>1 DEF RelOf, Rel, PriOf, Pri, End
    <3>5. \A p \in Profile :
             slots'[p] = slots[p] + PriOf(r, p)' - PriOf(r, p) + RelOf(r, p)' - RelOf(r, p)
                                  + PlyOf(s, p)' - PlyOf(s, p)
      BY <2>3, <3>3, <3>4
    <3>6. QED  BY <1>1, <2>2, <2>3, <3>1, <3>5, ExactFollows
  <2>6. QED  BY <2>4, <2>5
<1>7. CASE Release(r)
  <2>1. PICK s \in Session : sid[r] = s
    BY <1>7 DEF Release
  <2>2. /\ eff[r] \in Profile /\ r \in Rel(eff[r]) /\ ~staked[r] /\ ~private[r]
        /\ ~private'[r] /\ at'[r] = "away" /\ ~staked'[r]
    BY <1>7 DEF Release, Rel, Leave
  <2>3. slots' = [slots EXCEPT ![eff[r]] = slots[eff[r]] - 1]
    BY <1>7, <2>2, HeldCounts DEF Release, GiveBack
  <2>4. \A p \in Profile : PlyOf(s, p)' = PlyOf(s, p) /\ PlyOf(s, p) \in Int
    BY <1>1, <1>7, <2>2, PlyKept DEF PlyOf, Release
  <2>5. \A p \in Profile : /\ PriOf(r, p)' = 0 /\ PriOf(r, p) = 0
                           /\ RelOf(r, p)' = 0 /\ RelOf(r, p) = (IF eff[r] = p THEN 1 ELSE 0)
    BY <1>7, <2>2 DEF PriOf, Pri, RelOf, Rel, Release
  <2>6. \A p \in Profile :
           slots'[p] = slots[p] + PriOf(r, p)' - PriOf(r, p) + RelOf(r, p)' - RelOf(r, p)
                                + PlyOf(s, p)' - PlyOf(s, p)
    BY <2>2, <2>3, <2>4, <2>5
  <2>7. QED  BY <1>1, <1>7, <2>2, <2>6, ExactFollows DEF SessionsKept, Release
<1>8. QED  BY <1>4, <1>5, <1>6, <1>7 DEF Plays

\* A session that ends or a profile that goes holds nothing.
LEMMA IdleExact ==
  ASSUME Exact, UNCHANGED <<slots, active, at, request>>,
         \A s \in Session : active[s] > 0 => bound'[s] = bound[s]
  PROVE  Exact'
<1>1. \A p \in Profile : Pri(p)' = Pri(p) /\ Rel(p)' = Rel(p)
  BY DEF Pri, Rel, request
<1>2. \A s \in Session : Claimed(s)' <=> Claimed(s)
  BY DEF Claimed, Claiming, request
<1>3. \A p \in Profile : Ply(p)' = Ply(p)
  BY <1>2 DEF Ply
<1>4. QED  BY <1>1, <1>3 DEF Exact

\* At first no slot is taken.
LEMMA InitSlots == Init => SInv
<1> SUFFICES ASSUME Init PROVE SInv
  OBVIOUS
<1>1. SlotPlacesOK /\ FirstAlone /\ ~Crossed
  BY DEF Init, SlotPlacesOK, SlotPlaceOK, FirstAlone, Crossed
<1>2. \A p \in Profile : Pri(p) = {} /\ Rel(p) = {} /\ Ply(p) = {}
  BY DEF Init, Pri, Rel, Ply
<1>3. Exact
  BY <1>2, FS_EmptySet DEF Init, Exact
<1>4. QED  BY <1>1, <1>3, InitInv DEF SInv

\* Every step keeps the counters exact, unless requests have crossed.
LEMMA SlotsStep == SInv /\ [Next]_vars => SInv'
<1> SUFFICES ASSUME SInv, [Next]_vars PROVE SInv'
  OBVIOUS
<1>1. IInv /\ SlotPlacesOK /\ FirstAlone /\ TypeOK
  BY DEF SInv, IInv
<1>2. IInv'
  BY <1>1, TypeStep, StakesStep DEF IInv
<1>3. CASE UNCHANGED vars
  <2>1. SlotPlacesOK' /\ FirstAlone'
    BY <1>1, <1>3 DEF vars, SlotPlacesOK, SlotPlaceOK, FirstAlone
  <2>2. (Crossed' <=> Crossed) /\ crossed' = crossed
    BY <1>3 DEF vars, Crossed
  <2>3. Exact => Exact'
    BY <1>3, IdleExact DEF vars, request
  <2>4. QED  BY <1>2, <2>1, <2>2, <2>3 DEF SInv
<1>4. CASE Next
  <2>1. crossed' = (crossed \/ Crossed')
    BY <1>4 DEF Next
  <2>2. (Crossed' => crossed') /\ (~crossed' => ~crossed /\ ~Crossed')
    BY <2>1, Zenon
  <2>3. ~crossed' => ~Crossed /\ Exact
    BY <2>2 DEF SInv
  <2>4. ASSUME NEW r \in Request, Sets(r) \/ Plays(r)  PROVE SInv'
    <3>1. SlotPlacesOK' /\ FirstAlone'
      BY <1>1, <2>4, PlacesStep
    <3>2. ~crossed' => Exact'
      BY <1>1, <2>2, <2>3, <2>4, SetsExact, PlaysExact
    <3>3. QED  BY <1>2, <2>2, <3>1, <3>2 DEF SInv
  <2>5. ASSUME UNCHANGED <<slots, active, at, request>>,
               \A s \in Session : active[s] > 0 => bound'[s] = bound[s]
        PROVE  SInv'
    <3>1. SlotPlacesOK' /\ FirstAlone'
      BY <1>1, <2>5 DEF request, SlotPlacesOK, SlotPlaceOK, FirstAlone
    <3>2. QED  BY <1>2, <2>2, <2>3, <2>5, <3>1, IdleExact DEF SInv
  <2>6. ASSUME NEW s \in Session, Cleanup(s) \/ Expire(s)  PROVE SInv'
    BY <1>1, <2>5, <2>6 DEF Cleanup, Expire, Set, TypeOK
  <2>7. ASSUME NEW p \in Profile, Retire(p) \/ Restore(p)  PROVE SInv'
    BY <2>5, <2>7 DEF Retire, Restore, hash
  <2>8. QED  BY <1>4, <2>4, <2>6, <2>7 DEF Next
<1>5. QED  BY <1>3, <1>4

\* While requests have not crossed, a profile counts the sessions that play on it, and
\* the requests that are about to create one or to give a slot back, each once
\* (stream_content_with_session, _decrement_profile_connections).
THEOREM SlotsAreExact == Spec => []SlotsExact
<1>1. SInv => SlotsExact
  BY ExactMeaning DEF SInv
<1>2. QED  BY <1>1, InitSlots, SlotsStep, PTL DEF Spec

\* The sessions that play on p, and those of them whose slot nobody has yet to claim.
Playing(p) == {sid[r] : r \in {q \in Request : at[q] = "play" /\ eff[q] = p}}
Settled(p) == {s \in Playing(p) : ~\E r \in Request : sid[r] = s /\ Claiming(r)}

\* These are never more than the limit, as long as requests have not crossed.
SettledWithinLimit == ~crossed => \A p \in Profile : Cardinality(Settled(p)) <= Limit[p]

\* What SessionsWithinLimit leaves out of sight: while requests have not crossed, a profile
\* plays no more sessions than its limit beside those whose slot is being claimed. So a
\* request that joins a session before its first has claimed a slot is the only way over
\* the limit (views.py: "Sibling already holds the profile slot.").
THEOREM SettledSessionsWithinLimit == Spec => []SettledWithinLimit
<1>1. SInv => SettledWithinLimit
  <2> SUFFICES ASSUME SInv, ~crossed, NEW p \in Profile
               PROVE  Cardinality(Settled(p)) <= Limit[p]
    BY DEF SettledWithinLimit
  <2> DEFINE A == {r \in Request : private[r] /\ view[r] = p}
             B == {r \in Request : at[r] = "release" /\ eff[r] = p}
             C == {s \in Session : /\ active[s] > 0 /\ bound[s] = p
                                   /\ ~\E r \in Request : sid[r] = s /\ Claiming(r)}
  <2>1. IInv /\ ~Crossed /\ SlotsExact
    BY ExactMeaning DEF SInv
  <2>2. slots[p] = Cardinality(A) + Cardinality(B) + Cardinality(C)
    BY <2>1 DEF SlotsExact
  <2>3. /\ Cardinality(A) \in Nat /\ Cardinality(B) \in Nat
        /\ IsFiniteSet(C) /\ Cardinality(C) \in Nat
    <3>1. A \in SUBSET Request /\ B \in SUBSET Request /\ C \in SUBSET Session
      OBVIOUS
    <3>2. IsFiniteSet(C) /\ Cardinality(C) \in Nat
      BY <3>1, FS_Subset, FS_CardinalityType
    <3>3. QED  BY <3>1, <3>2, Sizes
  <2>4. Settled(p) \subseteq C
    <3> SUFFICES ASSUME NEW r \in Request, at[r] = "play", eff[r] = p,
                        ~\E q \in Request : sid[q] = sid[r] /\ Claiming(q)
                 PROVE  sid[r] \in C
      BY DEF Settled, Playing
    <3>1. staked[r] /\ sid[r] \in Session
      BY <2>1 DEF IInv, PlacesOK, PlaceOK, Counting
    <3>2. active[sid[r]] > 0
      BY <2>1, <3>1, StakeCounts DEF IInv
    <3>3. bound[sid[r]] = p
      BY <2>1, <3>1, Agrees
    <3>4. QED  BY <3>1, <3>2, <3>3
  <2>5. Cardinality(Settled(p)) \in Nat /\ Cardinality(Settled(p)) <= Cardinality(C)
    BY <2>3, <2>4, FS_Subset, FS_CardinalityType
  <2>6. slots[p] \in Nat /\ slots[p] <= Limit[p] /\ Limit[p] \in Nat
    BY <2>1 DEF IInv, TypeOK
  <2>7. QED  BY <2>2, <2>3, <2>5, <2>6
<1>2. QED  BY <1>1, InitSlots, SlotsStep, PTL DEF Spec
=============================================================================
