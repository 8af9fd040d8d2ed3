------------------------- MODULE SwitchOverlap_proofs -------------------------
(* Proofs about SwitchOverlap, for any channels, viewers, workers, profiles,   *)
(* limits and attempts, and any number of crashes and errors. Monitors, stops,  *)
(* the sweep and new starts release and move the same assignment at any time;   *)
(* the counters follow because each takes what is assigned when it acts, and    *)
(* nothing that it has read before. The later parts say what goes past a limit: *)
(* only what is on record, and no further than the extra slots.                *)
EXTENDS SwitchOverlap, FiniteSetTheorems, TLAPS

USE OverlapAssumption

\* What the counters depend on.
Shape ==
  /\ slots \in [Profile -> Int]
  /\ assigned \in [Channel -> Profile \cup {None}]
  /\ record \in [Channel -> Profile \cup {None}]

\* A monitor that moves a channel has chosen where to.
Chosen ==
  /\ monitor \in [Worker -> [Channel -> PC]]
  /\ target \in [Worker -> [Channel -> Profile \cup {None}]]
  /\ \A w \in Worker, c \in Channel : monitor[w][c] = "move" => target[w][c] \in Profile

OverlapInv == Shape /\ Chosen /\ SlotsExact

(***************************************************************************)
(* Counting                                                                 *)
(***************************************************************************)
On(p) == {c \in Channel : assigned[c] = p}

\* The counts follow channel c to x.
Follows(c, x) ==
  /\ assigned' = [assigned EXCEPT ![c] = x]
  /\ \A p \in Profile : slots'[p] = slots[p] + (IF p = x THEN 1 ELSE 0)
                                           - (IF p = assigned[c] THEN 1 ELSE 0)

\* One channel goes to x, and its count with it; x is None when it is released.
LEMMA MovesOne ==
  ASSUME Shape, SlotsExact, NEW c \in Channel, NEW x \in Profile \cup {None}, Follows(c, x)
  PROVE  SlotsExact'
<1> SUFFICES ASSUME NEW p \in Profile
             PROVE  slots'[p] = Cardinality(On(p)')
  BY DEF SlotsExact, On
<1>1. /\ IsFiniteSet(On(p)) /\ Cardinality(On(p)) \in Nat
      /\ slots[p] = Cardinality(On(p))
  BY FS_Subset, FS_CardinalityType DEF SlotsExact, On
<1>2. c \in On(p) <=> p = assigned[c]
  BY DEF On
<1>3. CASE p = x
  <2>1. On(p)' = On(p) \cup {c}
    BY <1>3 DEF On, Shape, Follows
  <2>2. Cardinality(On(p)') = IF c \in On(p) THEN Cardinality(On(p)) ELSE Cardinality(On(p)) + 1
    BY <1>1, <2>1, FS_AddElement
  <2>3. QED  BY <1>1, <1>2, <1>3, <2>2 DEF Follows
<1>4. CASE p # x
  <2>1. On(p)' = On(p) \ {c}
    BY <1>4 DEF On, Shape, Follows
  <2>2. Cardinality(On(p)') = IF c \in On(p) THEN Cardinality(On(p)) - 1 ELSE Cardinality(On(p))
    BY <1>1, <2>1, FS_RemoveElement
  <2>3. QED  BY <1>1, <1>2, <1>4, <2>2 DEF Follows
<1>5. QED  BY <1>3, <1>4

\* release_stream of any channels, assigned or not.
LEMMA Releases ==
  ASSUME Shape, SlotsExact, NEW C \in SUBSET Channel, Release(C)
  PROVE  /\ slots' \in [Profile -> Int] /\ assigned' \in [Channel -> Profile \cup {None}]
         /\ SlotsExact'
<1>1. ASSUME NEW p \in Profile
      PROVE  /\ Cardinality({c \in C : assigned[c] = p}) \in Nat
             /\ slots[p] - Cardinality({c \in C : assigned[c] = p}) = Cardinality(On(p)')
  <2>1. IsFiniteSet(On(p)) /\ IsFiniteSet({c \in C : assigned[c] = p})
    BY FS_Subset DEF On
  <2>2. On(p)' = On(p) \ {c \in C : assigned[c] = p}
    BY <1>1 DEF On, Release
  <2>3. On(p) \cap {c \in C : assigned[c] = p} = {c \in C : assigned[c] = p}
    BY DEF On
  <2>4. Cardinality(On(p) \ {c \in C : assigned[c] = p})
          = Cardinality(On(p)) - Cardinality({c \in C : assigned[c] = p})
    BY <2>1, <2>3, FS_Difference
  <2>5. Cardinality({c \in C : assigned[c] = p}) \in Nat
    BY <2>1, FS_CardinalityType
  <2>6. slots[p] = Cardinality(On(p))
    BY DEF On, SlotsExact
  <2>7. QED  BY <2>2, <2>4, <2>5, <2>6
<1>2. slots' \in [Profile -> Int] /\ assigned' \in [Channel -> Profile \cup {None}]
  BY <1>1 DEF Release, Shape
<1>3. SlotsExact'
  BY <1>1 DEF Release, SlotsExact, On
<1>4. QED  BY <1>2, <1>3

\* Nothing is assigned.
LEMMA InitInv == Init => OverlapInv
<1>1. ASSUME Init, NEW p \in Profile PROVE On(p) = {}
  BY <1>1 DEF Init, On
<1>2. ASSUME Init PROVE SlotsExact
  BY <1>1, <1>2, FS_EmptySet DEF Init, SlotsExact, On
<1>3. Init => Shape /\ Chosen
  BY DEF Init, Shape, Chosen, PC
<1>4. QED  BY <1>2, <1>3 DEF OverlapInv

\* No channel and no count has moved.
LEMMA SlotsKept ==
  ASSUME Shape, SlotsExact, UNCHANGED counted
  PROVE  /\ slots' \in [Profile -> Int] /\ assigned' \in [Channel -> Profile \cup {None}]
         /\ SlotsExact'
BY DEF Shape, SlotsExact, counted

\* A channel goes to p, and is counted there.
LEMMA CountsIn ==
  ASSUME Shape, SlotsExact, NEW c \in Channel, NEW p \in Profile, assigned[c] = None, Counts(c, p)
  PROVE  /\ slots' \in [Profile -> Int] /\ assigned' \in [Channel -> Profile \cup {None}]
         /\ SlotsExact'
<1>1. slots' \in [Profile -> Int] /\ assigned' \in [Channel -> Profile \cup {None}]
  BY DEF Shape, Counts, Set
<1>2. Follows(c, p)
  BY DEF Follows, Shape, Counts, Set
<1>3. SlotsExact'
  BY <1>2, MovesOne
<1>4. QED  BY <1>1, <1>3

\* A monitor that goes to a place where nothing is being moved.
LEMMA GoesOn ==
  ASSUME Chosen, NEW w, NEW c \in Channel, NEW l \in PC \ {"move"}, Goto(w, c, l),
         \/ target' = target
         \/ w \in Worker /\ \E p \in Profile \cup {None} : Aim(w, c, p)
  PROVE  Chosen'
<1>1. monitor' \in [Worker -> [Channel -> PC]]
  BY DEF Chosen, Goto
<1>2. target' \in [Worker -> [Channel -> Profile \cup {None}]]
  <2>1. CASE target' = target
    BY <2>1 DEF Chosen
  <2>2. ASSUME w \in Worker, NEW p \in Profile \cup {None}, Aim(w, c, p)
        PROVE  target' \in [Worker -> [Channel -> Profile \cup {None}]]
    BY <2>2 DEF Chosen, Aim
  <2>3. QED  BY <2>1, <2>2
<1>3. ASSUME NEW v \in Worker, NEW d \in Channel, monitor'[v][d] = "move"
      PROVE  target'[v][d] \in Profile
  <2>1. ~(v = w /\ d = c) /\ monitor[v][d] = "move"
    BY <1>3 DEF Chosen, Goto
  <2>2. target'[v][d] = target[v][d]
    BY <2>1 DEF Chosen, Aim
  <2>3. QED  BY <2>1, <2>2 DEF Chosen
<1>4. QED  BY <1>1, <1>2, <1>3 DEF Chosen

(***************************************************************************)
(* The steps                                                                *)
(***************************************************************************)
\* What is left of the invariant when the counters are right.
Rest == record' \in [Channel -> Profile \cup {None}] /\ Chosen'
LEMMA Suffices ==
  ASSUME slots' \in [Profile -> Int], assigned' \in [Channel -> Profile \cup {None}], SlotsExact', Rest
  PROVE  OverlapInv'
BY DEF OverlapInv, Shape, Rest

\* A request books one slot for one channel that has none, or reuses what it has.
LEMMA RequestStep ==
  ASSUME Shape, Chosen, SlotsExact, Request
  PROVE  OverlapInv'
<1> USE DEF Set, PC, counted, sessions, probation, monitors, bounds
<1>1. ASSUME NEW w \in Worker, NEW v \in Viewer, NEW c \in Channel, NEW p \in Profile,
             Book(w, v, c, p)
      PROVE  OverlapInv'
  <2>1. Rest  BY <1>1 DEF Rest, Shape, Chosen, Book, Asks, Goto, Aim
  <2>2. QED  BY <1>1, <2>1, CountsIn, Suffices DEF Book
<1>2. ASSUME NEW w \in Worker, NEW v \in Viewer, NEW c \in Channel, NEW p \in Profile,
             BookOverlap(w, v, c, p)
      PROVE  OverlapInv'
  <2>1. Rest  BY <1>2 DEF Rest, Shape, Chosen, BookOverlap, Asks, Marks, Goto, Aim
  <2>2. QED  BY <1>2, <2>1, CountsIn, Suffices DEF BookOverlap
<1>3. ASSUME NEW w \in Worker, NEW v \in Viewer, NEW c \in Channel, Rebook(w, v, c)
      PROVE  OverlapInv'
  <2>1. Rest  BY <1>3 DEF Rest, Shape, Chosen, Rebook, Asks, Goto, Aim
  <2>2. QED  BY <1>3, <2>1, SlotsKept, Suffices DEF Rebook
<1>4. ASSUME NEW v \in Viewer, NEW c \in Channel, Join(v, c) PROVE OverlapInv'
  <2>1. Rest  BY <1>4 DEF Rest, Shape, Chosen, Join, Goto, Aim
  <2>2. QED  BY <1>4, <2>1, SlotsKept, Suffices DEF Join
<1>5. ASSUME NEW v \in Viewer, NEW c \in Channel, Leave(v, c) PROVE OverlapInv'
  <2>1. Rest  BY <1>5 DEF Rest, Shape, Chosen, Leave, Goto, Aim
  <2>2. QED  BY <1>5, <2>1, SlotsKept, Suffices DEF Leave
<1>6. QED  BY <1>1, <1>2, <1>3, <1>4, <1>5 DEF Request

\* A start goes on or gives up, a channel stops.
LEMMA SessionStep ==
  ASSUME Shape, Chosen, SlotsExact, NEW c \in Channel, Session(c)
  PROVE  OverlapInv'
<1> USE DEF Set, PC, counted, sessions, probation, monitors, bounds
<1>1. ASSUME Initialize(c) PROVE OverlapInv'
  <2>1. CASE record[c] # None
    <3>1. Rest
      <4>1. Chosen'  BY <1>1, <2>1, GoesOn DEF Initialize
      <4>2. QED  BY <1>1, <2>1, <4>1 DEF Rest, Shape, Initialize
    <3>2. QED  BY <1>1, <3>1, SlotsKept, Suffices DEF Initialize
  <2>2. CASE record[c] = None
    <3>1. Rest
      <4>1. Chosen'  BY <1>1, <2>2 DEF Chosen, Initialize
      <4>2. QED  BY <1>1, <2>2, <4>1 DEF Rest, Shape, Initialize
    <3>2. QED  BY <1>1, <3>1, SlotsKept, Suffices DEF Initialize
  <2>3. QED  BY <2>1, <2>2
<1>2. ASSUME GivesUp(c) PROVE OverlapInv'
  <2>1. Rest  BY <1>2 DEF Rest, Shape, Chosen, GivesUp, Ended, Goto, Aim
  <2>2. QED  BY <1>2, <2>1, Releases, Suffices DEF GivesUp
<1>3. ASSUME Stop(c) PROVE OverlapInv'
  <2>1. Rest  BY <1>3 DEF Rest, Shape, Chosen, Stop, Ended, Goto, Aim
  <2>2. QED  BY <1>3, <2>1, Releases, Suffices DEF Stop
<1>4. QED  BY <1>1, <1>2, <1>3 DEF Session

\* A step of a monitor. It stops idle channels, and moves what is assigned when it moves.
LEMMA MonitorStep ==
  ASSUME Shape, Chosen, SlotsExact, NEW w \in Worker, NEW c \in Channel,
         Resolves(w, c) \/ Fails(w, c) \/ Recover(w, c)
  PROVE  OverlapInv'
<1> USE DEF Set, PC, counted, sessions, probation, monitors, bounds
<1>1. ASSUME LosesLease(w, c) PROVE OverlapInv'
  <2>1. Rest  BY <1>1 DEF Rest, Shape, Chosen, LosesLease, Goto, Aim
  <2>2. QED  BY <1>1, <2>1, SlotsKept, Suffices DEF LosesLease
<1>2. ASSUME Gone(w, c) PROVE OverlapInv'
  <2>1. Rest  BY <1>2 DEF Rest, Shape, Chosen, Gone, Goto, Aim
  <2>2. QED  BY <1>2, <2>1, SlotsKept, Suffices DEF Gone
<1>3. ASSUME EndedOrMoved(w, c) PROVE OverlapInv'
  <2>1. Rest  BY <1>3 DEF Rest, Shape, Chosen, EndedOrMoved, Clear, Goto, Aim
  <2>2. QED  BY <1>3, <2>1, SlotsKept, Suffices DEF EndedOrMoved
<1>4. ASSUME Confirm(w, c) PROVE OverlapInv'
  <2>1. Rest  BY <1>4 DEF Rest, Shape, Chosen, Confirm, Clear, Goto, Aim
  <2>2. PICK C \in SUBSET Channel : Release(C)
    BY <1>4 DEF Confirm, Idle
  <2>3. QED  BY <2>1, <2>2, Releases, Suffices
<1>5. ASSUME Waits(w, c) PROVE OverlapInv'
  <2>1. Rest  BY <1>5 DEF Rest, Shape, Chosen, Waits, StillOver, Goto, Aim
  <2>2. PICK C \in SUBSET Channel : Release(C)
    BY <1>5 DEF Waits, Idle, StillOver
  <2>3. QED  BY <2>1, <2>2, Releases, Suffices
<1>6. ASSUME Acts(w, c) PROVE OverlapInv'
  <2>1. CASE attempts[c] < MaxAttempts
    <3>1. Rest
      <4>1. Chosen'  BY <1>6, <2>1, GoesOn DEF Shape, Acts
      <4>2. QED  BY <1>6, <2>1, <4>1 DEF Rest, Shape, Acts, StillOver, Clear
    <3>2. PICK C \in SUBSET Channel : Release(C)
      BY <1>6 DEF Acts, StillOver, Idle
    <3>3. QED  BY <3>1, <3>2, Releases, Suffices
  <2>2. CASE ~(attempts[c] < MaxAttempts)
    <3>1. Rest
      <4>1. Chosen'  BY <1>6, <2>2, GoesOn DEF Acts
      <4>2. QED  BY <1>6, <2>2, <4>1 DEF Rest, Shape, Acts, StillOver, Clear
    <3>2. PICK C \in SUBSET Channel : Release(C)
      BY <1>6 DEF Acts, StillOver, Idle
    <3>3. QED  BY <3>1, <3>2, Releases, Suffices
  <2>3. QED  BY <2>1, <2>2
<1>7. ASSUME NEW p \in Profile, Choose(w, c, p) PROVE OverlapInv'
  <2>1. Rest  BY <1>7 DEF Rest, Shape, Chosen, Choose, Goto, Aim
  <2>2. QED  BY <1>7, <2>1, SlotsKept, Suffices DEF Choose
<1>8. ASSUME NoneFree(w, c) PROVE OverlapInv'
  <2>1. Rest  BY <1>8 DEF Rest, Shape, Chosen, NoneFree, Goto, Aim
  <2>2. QED  BY <1>8, <2>1, SlotsKept, Suffices DEF NoneFree
<1>9. ASSUME Move(w, c) PROVE OverlapInv'
  <2>1. Rest  BY <1>9 DEF Rest, Shape, Chosen, Move, Clear, Goto, Aim
  <2>2. slots' \in [Profile -> Int] /\ assigned' \in [Channel -> Profile \cup {None}]
    BY <1>9 DEF Move, Shape, Chosen
  <2>3. target[w][c] \in Profile /\ Follows(c, target[w][c])
    BY <1>9 DEF Move, Chosen, Shape, Follows
  <2>4. SlotsExact'
    BY <2>3, MovesOne
  <2>5. QED  BY <2>1, <2>2, <2>4, Suffices
<1>10. ASSUME MoveFails(w, c) PROVE OverlapInv'
  <2>1. Rest  BY <1>10 DEF Rest, Shape, Chosen, MoveFails, Goto, Aim
  <2>2. QED  BY <1>10, <2>1, SlotsKept, Suffices DEF MoveFails
<1>11. ASSUME StopsIt(w, c) PROVE OverlapInv'
  <2>1. Rest  BY <1>11 DEF Rest, Shape, Chosen, StopsIt, Clear, Ended, Goto, Aim
  <2>2. QED  BY <1>11, <2>1, SlotsKept, Releases, Suffices DEF StopsIt
<1>12. ASSUME Fails(w, c) PROVE OverlapInv'
  <2>1. Rest  BY <1>12 DEF Rest, Shape, Chosen, Fails, Goto, Aim
  <2>2. QED  BY <1>12, <2>1, SlotsKept, Suffices DEF Fails
<1>13. ASSUME Recover(w, c) PROVE OverlapInv'
  <2>1. CASE record[c] = None
    <3>1. Rest
      <4>1. Chosen'  BY <1>13, <2>1 DEF Chosen, Recover
      <4>2. QED  BY <1>13, <2>1, <4>1 DEF Rest, Shape, Recover
    <3>2. QED  BY <1>13, <3>1, SlotsKept, Suffices DEF Recover
  <2>2. CASE record[c] # None
    <3>1. Rest
      <4>1. Chosen'  BY <1>13, <2>2, GoesOn DEF Recover
      <4>2. QED  BY <1>13, <2>2, <4>1 DEF Rest, Shape, Recover
    <3>2. QED  BY <1>13, <3>1, SlotsKept, Suffices DEF Recover
  <2>3. QED  BY <2>1, <2>2
<1>14. QED  BY <1>1, <1>2, <1>3, <1>4, <1>5, <1>6, <1>7, <1>8, <1>9, <1>10, <1>11, <1>12,
       <1>13 DEF Resolves

\* Time, crashes and the sweep.
Others ==
  \/ \E c \in Channel : DeadlinePasses(c) \/ LeaseExpires(c) \/ KeysExpire(c) \/ Sweep(c)
  \/ \E w \in Worker : Crash(w)

\* A lease, a key or a deadline that passes moves no count; the sweep releases one that is held.
LEMMA OtherStep ==
  ASSUME Shape, Chosen, SlotsExact, Others
  PROVE  OverlapInv'
<1> USE DEF Set, PC, counted, sessions, probation, monitors, bounds
<1>1. ASSUME NEW c \in Channel, DeadlinePasses(c) PROVE OverlapInv'
  <2>1. Rest  BY <1>1 DEF Rest, Shape, Chosen, DeadlinePasses, Goto, Aim
  <2>2. QED  BY <1>1, <2>1, SlotsKept, Suffices DEF DeadlinePasses
<1>2. ASSUME NEW c \in Channel, LeaseExpires(c) PROVE OverlapInv'
  <2>1. Rest  BY <1>2 DEF Rest, Shape, Chosen, LeaseExpires, Goto, Aim
  <2>2. QED  BY <1>2, <2>1, SlotsKept, Suffices DEF LeaseExpires
<1>3. ASSUME NEW c \in Channel, KeysExpire(c) PROVE OverlapInv'
  <2>1. Rest  BY <1>3 DEF Rest, Shape, Chosen, KeysExpire, Ended, Goto, Aim
  <2>2. QED  BY <1>3, <2>1, SlotsKept, Suffices DEF KeysExpire
<1>4. ASSUME NEW c \in Channel, Sweep(c) PROVE OverlapInv'
  <2>1. Rest  BY <1>4 DEF Rest, Shape, Chosen, Sweep, Goto, Aim
  <2>2. QED  BY <1>4, <2>1, Releases, Suffices DEF Sweep
<1>5. ASSUME NEW w \in Worker, Crash(w) PROVE OverlapInv'
  <2>1. Rest  BY <1>5 DEF Rest, Shape, Chosen, Crash, Goto, Aim
  <2>2. QED  BY <1>5, <2>1, SlotsKept, Suffices DEF Crash
<1>6. QED  BY <1>1, <1>2, <1>3, <1>4, <1>5 DEF Others

(***************************************************************************)
(* Results                                                                  *)
(***************************************************************************)
LEMMA NextInv == OverlapInv /\ [Next]_vars => OverlapInv'
<1> SUFFICES ASSUME Shape, Chosen, SlotsExact, [Next]_vars PROVE OverlapInv'
  BY DEF OverlapInv
<1>1. CASE Request
  BY <1>1, RequestStep
<1>2. ASSUME NEW c \in Channel, Session(c) PROVE OverlapInv'
  BY <1>2, SessionStep
<1>3. ASSUME NEW w \in Worker, NEW c \in Channel, Resolves(w, c) \/ Fails(w, c) \/ Recover(w, c)
      PROVE  OverlapInv'
  BY <1>3, MonitorStep
<1>4. CASE Others
  BY <1>4, OtherStep
<1>5. CASE UNCHANGED vars
  BY <1>5, SlotsKept DEF vars, counted, OverlapInv, Shape, Chosen
<1>6. QED  BY <1>1, <1>2, <1>3, <1>4, <1>5 DEF Next, Others

\* Whatever monitors, stops, starts, crashes and the sweep do at once, and however many
\* checks fail, a profile counts the channels assigned to it, each once (probation.py,
\* models.py: release_stream, update_stream_profile).
THEOREM SlotsAreExact == Spec => []SlotsExact
<1>1. OverlapInv => SlotsExact
  BY DEF OverlapInv
<1>2. QED  BY <1>1, InitInv, NextInv, PTL DEF Spec

(***************************************************************************)
(* What is past a limit                                                     *)
(***************************************************************************)
\* The channels on p that no record of an overlap there is about.
Unrecorded(p) == {c \in Channel : assigned[c] = p /\ record[c] # p}

\* However many channels are on a profile, those without a record fit in its limit, and
\* each record is on the list that the cleanup loop of every worker recovers from.
OnRecord ==
  /\ \A p \in Profile : Cardinality(Unrecorded(p)) <= MaxStreams[p]
  /\ \A c \in Channel : record[c] # None => c \in pending

\* The steps that leave a channel past the limit and forget it: the attempts are used up;
\* a move goes to a profile that was filled since it was chosen; a stop finds no key of a
\* channel whose window has outlasted them.
Spills ==
  \E w \in Worker, c \in Channel :
    \/ Acts(w, c) /\ ~(attempts[c] < MaxAttempts)
    \/ Move(w, c) /\ ~Free(target[w][c])
    \/ LongWindow /\ StopsIt(w, c) /\ phase[c] = "off" /\ assigned[c] = record[c]

\* A record that is not about a live channel is not about an assignment either.
Attached ==
  /\ phase \in [Channel -> Phase]
  /\ ~LongWindow => \A c \in Channel : phase[c] = "off" /\ record[c] # None => assigned[c] = None

RecordInv == OverlapInv /\ OnRecord /\ Attached

\* The step keeps what is past the limits on record.
Accounts ==
  /\ \A p \in Profile : Unrecorded(p)' \subseteq Unrecorded(p) \/ slots'[p] <= MaxStreams[p]
  /\ \A c \in Channel : record'[c] # None => c \in pending'
  /\ Attached'

\* What a step must keep, in terms of what changes.
LEMMA AccountsKeeps ==
  ASSUME OverlapInv', OnRecord, Accounts
  PROVE  RecordInv'
<1> SUFFICES ASSUME NEW p \in Profile PROVE Cardinality(Unrecorded(p)') <= MaxStreams[p]
  BY DEF RecordInv, OnRecord, Accounts
<1>1. /\ IsFiniteSet(Unrecorded(p)) /\ Cardinality(Unrecorded(p)) \in Nat
      /\ IsFiniteSet(On(p)') /\ Cardinality(On(p)') \in Nat
  BY FS_Subset, FS_CardinalityType DEF Unrecorded, On
<1>2. slots'[p] = Cardinality(On(p)') /\ MaxStreams[p] \in Nat
  BY DEF OverlapInv, SlotsExact, On
<1>3. CASE Unrecorded(p)' \subseteq Unrecorded(p)
  <2>1. Cardinality(Unrecorded(p)') \in Nat
        /\ Cardinality(Unrecorded(p)') <= Cardinality(Unrecorded(p))
    BY <1>1, <1>3, FS_Subset, FS_CardinalityType
  <2>2. QED  BY <1>1, <1>2, <2>1 DEF OnRecord
<1>4. CASE slots'[p] <= MaxStreams[p]
  <2>1. Unrecorded(p)' \subseteq On(p)'
    BY DEF Unrecorded, On
  <2>2. Cardinality(Unrecorded(p)') \in Nat
        /\ Cardinality(Unrecorded(p)') <= Cardinality(On(p)')
    BY <1>1, <2>1, FS_Subset, FS_CardinalityType
  <2>3. QED  BY <1>1, <1>2, <1>4, <2>2
<1>5. QED  BY <1>3, <1>4 DEF Accounts

\* Channels are released, and the records stay.
LEMMA ReleaseAccounts ==
  ASSUME Shape, NEW C \in SUBSET Channel, Release(C)
  PROVE  /\ \A c \in Channel :
              assigned'[c] \in {None, assigned[c]} /\ (c \in C => assigned'[c] = None)
         /\ \A p \in Profile : slots'[p] <= slots[p] /\ slots'[p] \in Int
<1>1. \A c \in Channel : assigned'[c] = IF c \in C THEN None ELSE assigned[c]
  BY DEF Release
<1>2. ASSUME NEW p \in Profile PROVE slots'[p] <= slots[p] /\ slots'[p] \in Int
  <2>1. Cardinality({c \in C : assigned[c] = p}) \in Nat
    BY FS_Subset, FS_CardinalityType
  <2>2. QED  BY <2>1 DEF Release, Shape
<1>3. QED  BY <1>1, <1>2

\* A step on other things.
LEMMA SameAccounts ==
  ASSUME OnRecord, Attached, UNCHANGED <<assigned, record>>, pending \subseteq pending',
         phase' \in [Channel -> Phase], \A c \in Channel : phase'[c] = "off" => phase[c] = "off"
  PROVE  Accounts
BY DEF OnRecord, Attached, Accounts, Unrecorded

\* A booking finds room, or is put on record.
LEMMA RequestAccounts ==
  ASSUME RecordInv, Request
  PROVE  Accounts
<1> USE DEF Set, Phase, counted, sessions, probation, monitors, bounds
<1>0. Shape /\ OnRecord /\ Attached
  BY DEF RecordInv, OverlapInv
<1>1. ASSUME NEW w \in Worker, NEW v \in Viewer, NEW c \in Channel, NEW p \in Profile,
             Book(w, v, c, p)
      PROVE  Accounts
  <2>1. slots'[p] <= MaxStreams[p]
    BY <1>0, <1>1 DEF Book, Counts, Free, Shape
  <2>2. ASSUME NEW q \in Profile, q # p PROVE Unrecorded(q)' \subseteq Unrecorded(q)
    BY <1>0, <1>1, <2>2 DEF Book, Counts, Shape, Unrecorded
  <2>3. Attached'
    BY <1>0, <1>1 DEF Book, Asks, Counts, Attached, Shape
  <2>4. QED  BY <1>0, <1>1, <2>1, <2>2, <2>3 DEF Book, Accounts, OnRecord
<1>2. ASSUME NEW w \in Worker, NEW v \in Viewer, NEW c \in Channel, NEW p \in Profile,
             BookOverlap(w, v, c, p)
      PROVE  Accounts
  <2>1. ASSUME NEW q \in Profile PROVE Unrecorded(q)' \subseteq Unrecorded(q)
    BY <1>0, <1>2 DEF BookOverlap, Counts, Marks, Shape, Unrecorded
  <2>2. Attached'
    BY <1>0, <1>2 DEF BookOverlap, Asks, Counts, Marks, Attached, Shape
  <2>3. \A d \in Channel : record'[d] # None => d \in pending'
    BY <1>0, <1>2 DEF BookOverlap, Marks, OnRecord, Shape
  <2>4. QED  BY <2>1, <2>2, <2>3 DEF Accounts
<1>3. ASSUME NEW w \in Worker, NEW v \in Viewer, NEW c \in Channel, Rebook(w, v, c)
      PROVE  Accounts
  BY <1>0, <1>3, SameAccounts DEF Rebook, Asks, Attached
<1>4. ASSUME NEW v \in Viewer, NEW c \in Channel, Join(v, c) \/ Leave(v, c) PROVE Accounts
  BY <1>0, <1>4, SameAccounts DEF Join, Leave, Attached
<1>5. QED  BY <1>1, <1>2, <1>3, <1>4 DEF Request

\* A session that ends gives back what it holds before its record is looked for.
LEMMA SessionAccounts ==
  ASSUME RecordInv, NEW c \in Channel, Session(c)
  PROVE  Accounts
<1> USE DEF Set, Phase, counted, sessions, probation, monitors, bounds
<1>0. Shape /\ OnRecord /\ Attached
  BY DEF RecordInv, OverlapInv
<1>1. ASSUME Initialize(c) PROVE Accounts
  BY <1>0, <1>1, SameAccounts DEF Initialize, Attached
<1>2. ASSUME GivesUp(c) \/ Stop(c) PROVE Accounts
  <2>1. Release({c}) /\ Ended(c) /\ UNCHANGED <<record, pending>>
    BY <1>2 DEF GivesUp, Stop
  <2>2. \A d \in Channel : assigned'[d] \in {None, assigned[d]} /\ assigned'[c] = None
    BY <1>0, <2>1, ReleaseAccounts
  <2>3. Attached'
    BY <1>0, <2>1, <2>2 DEF Ended, Attached
  <2>4. QED  BY <1>0, <2>1, <2>2, <2>3 DEF Accounts, Unrecorded, OnRecord
<1>3. QED  BY <1>1, <1>2 DEF Session

\* The record of c goes; what c is assigned to then is past no limit.
LEMMA ClearAccounts ==
  ASSUME Shape, OnRecord, NEW c \in Channel, Clear(c),
         \A d \in Channel \ {c} : assigned'[d] \in {None, assigned[d]},
         \/ assigned'[c] = None
         \/ assigned'[c] = assigned[c] /\ assigned[c] # record[c]
         \/ assigned'[c] \in Profile /\ slots'[assigned'[c]] <= MaxStreams[assigned'[c]],
         Attached'
  PROVE  Accounts
<1>1. ASSUME NEW q \in Profile
      PROVE  Unrecorded(q)' \subseteq Unrecorded(q) \/ slots'[q] <= MaxStreams[q]
  <2>1. \A d \in Channel \ {c} : record'[d] = record[d]
    BY DEF Clear, Set, Shape
  <2>2. CASE assigned'[c] # q
    BY <2>1, <2>2 DEF Unrecorded
  <2>3. CASE assigned'[c] = assigned[c] /\ assigned[c] # record[c]
    BY <2>1, <2>3 DEF Unrecorded
  <2>4. QED  BY <2>2, <2>3
<1>2. \A d \in Channel : record'[d] # None => d \in pending'
  BY DEF Clear, Set, Shape, OnRecord
<1>3. QED  BY <1>1, <1>2 DEF Accounts

\* A monitor clears a record when the channel is within the limit, or gone.
LEMMA MonitorAccounts ==
  ASSUME RecordInv, NEW w \in Worker, NEW c \in Channel, ~Spills,
         Resolves(w, c) \/ Fails(w, c) \/ Recover(w, c)
  PROVE  Accounts
<1> USE DEF Set, Phase, counted, sessions, probation, monitors, bounds
<1>0. Shape /\ OnRecord /\ Attached /\ Chosen
  BY DEF RecordInv, OverlapInv
<1>1. ASSUME LosesLease(w, c) PROVE Accounts
  BY <1>0, <1>1, SameAccounts DEF LosesLease, Attached
<1>2. ASSUME Gone(w, c) PROVE Accounts
  <2>1. UNCHANGED <<assigned, record, phase>> /\ pending' = pending \ {c} /\ record[c] = None
    BY <1>2 DEF Gone
  <2>2. QED  BY <1>0, <2>1 DEF Accounts, Unrecorded, OnRecord, Attached
<1>3. ASSUME EndedOrMoved(w, c) PROVE Accounts
  <2>1. Clear(c) /\ UNCHANGED <<assigned, phase>> /\ assigned[c] # record[c]
    BY <1>3 DEF EndedOrMoved
  <2>2. Attached'
    BY <1>0, <2>1 DEF Clear, Attached, Shape
  <2>3. QED  BY <1>0, <2>1, <2>2, ClearAccounts
<1>4. ASSUME Confirm(w, c) PROVE Accounts
  <2>1. PICK C \in SUBSET (Channel \ {c}) :
          /\ Release(C) /\ slots[record[c]] - Cardinality(C) <= MaxStreams[record[c]]
          /\ \A d \in C : assigned[d] = record[c]
    BY <1>4 DEF Confirm, Idle
  <2>2. Clear(c) /\ UNCHANGED phase /\ record[c] # None /\ assigned[c] = record[c]
    BY <1>4 DEF Confirm, Current
  <2>3. /\ \A d \in Channel : assigned'[d] \in {None, assigned[d]}
        /\ assigned'[c] = assigned[c]
    BY <1>0, <2>1 DEF Release
  <2>4. slots'[record[c]] <= MaxStreams[record[c]]
    <3>1. {d \in C : assigned[d] = record[c]} = C
      BY <2>1
    <3>2. record[c] \in Profile
      BY <1>0, <2>2 DEF Shape
    <3>3. slots'[record[c]] = slots[record[c]] - Cardinality(C)
      BY <2>1, <3>1, <3>2 DEF Release
    <3>4. QED  BY <2>1, <3>3
  <2>5. Attached'
    BY <1>0, <2>2, <2>3 DEF Clear, Attached, Shape
  <2>6. QED  BY <1>0, <2>2, <2>3, <2>4, <2>5, ClearAccounts DEF Shape
<1>5. ASSUME Waits(w, c) \/ Acts(w, c) PROVE Accounts
  <2>1. PICK C \in SUBSET Channel : Release(C)
    BY <1>5 DEF Waits, Acts, StillOver, Idle
  <2>2. UNCHANGED <<record, pending, phase>>
    BY <1>5 DEF Waits, Acts, StillOver, Spills
  <2>3. \A d \in Channel : assigned'[d] \in {None, assigned[d]}
    BY <1>0, <2>1, ReleaseAccounts
  <2>4. QED  BY <1>0, <2>2, <2>3 DEF Accounts, Unrecorded, OnRecord, Attached
<1>6. ASSUME \/ \E p \in Profile : Choose(w, c, p)
             \/ NoneFree(w, c) \/ MoveFails(w, c) \/ Fails(w, c)
      PROVE  Accounts
  BY <1>0, <1>6, SameAccounts DEF Choose, NoneFree, MoveFails, Fails, Attached
<1>7. ASSUME Move(w, c) PROVE Accounts
  <2>1. Free(target[w][c]) /\ target[w][c] \in Profile
    BY <1>0, <1>7 DEF Spills, Move, Chosen
  <2>2. assigned[c] \in Profile
    BY <1>0, <1>7 DEF Move, Shape
  <2>3. slots'[target[w][c]] <= MaxStreams[target[w][c]]
    <3>1. slots[target[w][c]] \in Int /\ MaxStreams[target[w][c]] \in Int
      BY <1>0, <2>1 DEF Shape
    <3>2. slots'[target[w][c]] \in {slots[target[w][c]] + 1, slots[target[w][c]]}
      BY <1>0, <1>7, <2>1, <2>2, <3>1 DEF Move, Shape
    <3>3. QED  BY <2>1, <3>1, <3>2 DEF Free
  <2>4. assigned' = [assigned EXCEPT ![c] = target[w][c]] /\ Clear(c) /\ UNCHANGED phase
        /\ phase[c] = "on"
    BY <1>7 DEF Move
  <2>5. Attached'
    BY <1>0, <2>4 DEF Clear, Attached, Shape
  <2>6. QED  BY <1>0, <2>1, <2>3, <2>4, <2>5, ClearAccounts DEF Shape
<1>8. ASSUME StopsIt(w, c) PROVE Accounts
  <2>1. Clear(c)
    BY <1>8 DEF StopsIt
  <2>2. CASE phase[c] = "off"
    <3>1. UNCHANGED <<assigned, phase>>
      BY <1>8, <2>2 DEF StopsIt
    <3>2. assigned[c] = None \/ assigned[c] # record[c]
      BY <1>0, <1>8, <2>2 DEF Spills, Attached, Shape
    <3>3. Attached'
      BY <1>0, <2>1, <3>1 DEF Clear, Attached, Shape
    <3>4. QED  BY <1>0, <2>1, <3>1, <3>2, <3>3, ClearAccounts
  <2>3. CASE phase[c] # "off"
    <3>1. Release({c}) /\ (UNCHANGED phase \/ phase' = [phase EXCEPT ![c] = "off"])
      BY <1>8, <2>3 DEF StopsIt, Ended
    <3>2. /\ \A d \in Channel : assigned'[d] \in {None, assigned[d]}
          /\ assigned'[c] = None
      BY <1>0, <3>1, ReleaseAccounts
    <3>3. Attached'
      BY <1>0, <2>1, <3>1, <3>2 DEF Clear, Attached, Shape
    <3>4. QED  BY <1>0, <2>1, <3>2, <3>3, ClearAccounts
  <2>4. QED  BY <2>2, <2>3
<1>9. ASSUME Recover(w, c) PROVE Accounts
  <2>1. /\ UNCHANGED <<assigned, record, phase>>
        /\ pending' = pending \/ (pending' = pending \ {c} /\ record[c] = None)
    BY <1>9 DEF Recover
  <2>2. QED  BY <1>0, <2>1 DEF Accounts, Unrecorded, OnRecord, Attached
<1>10. QED  BY <1>1, <1>2, <1>3, <1>4, <1>5, <1>6, <1>7, <1>8, <1>9 DEF Resolves

\* A worker that dies, a sweep and a window that closes leave the records to others.
LEMMA OtherAccounts ==
  ASSUME RecordInv, Others
  PROVE  Accounts
<1> USE DEF Set, Phase, counted, sessions, probation, monitors, bounds
<1>0. Shape /\ OnRecord /\ Attached
  BY DEF RecordInv, OverlapInv
<1>1. ASSUME NEW c \in Channel, DeadlinePasses(c) \/ LeaseExpires(c) PROVE Accounts
  BY <1>0, <1>1, SameAccounts DEF DeadlinePasses, LeaseExpires, Attached
<1>2. ASSUME NEW c \in Channel, KeysExpire(c) PROVE Accounts
  <2>1. /\ UNCHANGED <<assigned, record, pending>> /\ phase' = [phase EXCEPT ![c] = "off"]
        /\ record[c] # None => LongWindow
    BY <1>2 DEF KeysExpire, Ended
  <2>2. QED  BY <1>0, <2>1 DEF Accounts, Unrecorded, OnRecord, Attached
<1>3. ASSUME NEW c \in Channel, Sweep(c) PROVE Accounts
  <2>1. Release({c}) /\ UNCHANGED <<record, pending, phase>>
    BY <1>3 DEF Sweep
  <2>2. \A d \in Channel : assigned'[d] \in {None, assigned[d]}
    BY <1>0, <2>1, ReleaseAccounts
  <2>3. QED  BY <1>0, <2>1, <2>2 DEF Accounts, Unrecorded, OnRecord, Attached
<1>4. ASSUME NEW w \in Worker, Crash(w) PROVE Accounts
  BY <1>0, <1>4, SameAccounts DEF Crash, Attached
<1>5. QED  BY <1>1, <1>2, <1>3, <1>4 DEF Others

\* Nothing is assigned yet.
LEMMA InitRecord == Init => RecordInv
<1> SUFFICES ASSUME Init PROVE RecordInv
  OBVIOUS
<1>1. OverlapInv
  BY InitInv
<1>2. ASSUME NEW p \in Profile PROVE Cardinality(Unrecorded(p)) <= MaxStreams[p]
  <2>1. Unrecorded(p) = {}
    BY DEF Init, Unrecorded
  <2>2. QED  BY <2>1, FS_EmptySet
<1>3. (\A c \in Channel : record[c] = None) /\ Attached
  BY DEF Init, Attached, Phase
<1>4. QED  BY <1>1, <1>2, <1>3 DEF RecordInv, OnRecord

\* Every step but those that spill keeps the record complete.
LEMMA NextRecord == RecordInv /\ [Next]_vars /\ [~Spills]_vars => RecordInv'
<1> SUFFICES ASSUME RecordInv, [Next]_vars, [~Spills]_vars PROVE RecordInv'
  OBVIOUS
<1>1. OverlapInv' /\ OnRecord
  BY NextInv DEF RecordInv
<1>2. CASE UNCHANGED vars
  BY <1>1, <1>2, SameAccounts, AccountsKeeps DEF vars, RecordInv, Attached
<1>3. CASE Next /\ ~Spills
  <2>1. Accounts
    BY <1>3, RequestAccounts, SessionAccounts, MonitorAccounts, OtherAccounts DEF Next, Others
  <2>2. QED  BY <1>1, <2>1, AccountsKeeps
<1>4. QED  BY <1>2, <1>3

\* The state part of OverlapEnds: as long as no attempt is the last one in vain, no move goes
\* to a profile that was filled meanwhile and no window outlasts the keys, whatever
\* monitors, starts, stops, crashes and the sweep do, what is past a limit is on record,
\* and every record can be recovered (probation.py: "Without this the extra connection
\* would stay open until some stream on that profile ends").
THEOREM OverlapsOnRecord == Spec /\ [][~Spills]_vars => []OnRecord
<1>1. RecordInv => OnRecord
  BY DEF RecordInv
<1>2. QED  BY <1>1, InitRecord, NextRecord, PTL DEF Spec

\* However many viewers ask for an overlap at once.
Within == \A p \in Profile : slots[p] <= MaxStreams[p] + ExtraCapacity

\* A move goes to a profile that was filled since it was chosen.
Overfills == \E w \in Worker, c \in Channel : Move(w, c) /\ ~Free(target[w][c])

\* Only a booking goes past a limit, and it stops at the extra slots.
LEMMA NextWithin == OverlapInv /\ Within /\ [Next]_vars /\ [~Overfills]_vars => Within'
<1> SUFFICES ASSUME Shape, Chosen, Within, [Next]_vars, [~Overfills]_vars, NEW q \in Profile
             PROVE  slots'[q] <= MaxStreams[q] + ExtraCapacity
  BY DEF OverlapInv, Within
<1>0. /\ slots[q] \in Int /\ MaxStreams[q] \in Int /\ ExtraCapacity \in Nat
      /\ slots[q] <= MaxStreams[q] + ExtraCapacity
  BY DEF Shape, Within
<1>1. ASSUME NEW C \in SUBSET Channel, Release(C) PROVE slots'[q] <= MaxStreams[q] + ExtraCapacity
  BY <1>0, <1>1, ReleaseAccounts
<1>2. ASSUME UNCHANGED slots PROVE slots'[q] <= MaxStreams[q] + ExtraCapacity
  BY <1>0, <1>2
<1>3. ASSUME NEW c \in Channel, NEW p \in Profile, Counts(c, p),
             Free(p) \/ slots[p] < MaxStreams[p] + ExtraCapacity
      PROVE  slots'[q] <= MaxStreams[q] + ExtraCapacity
  BY <1>0, <1>3 DEF Counts, Set, Free, Shape
<1>4. CASE Request
  BY <1>2, <1>3, <1>4 DEF Request, Book, BookOverlap, Rebook, Join, Leave, counted
<1>5. ASSUME NEW c \in Channel, Session(c) PROVE slots'[q] <= MaxStreams[q] + ExtraCapacity
  BY <1>1, <1>2, <1>5 DEF Session, Initialize, GivesUp, Stop, counted
<1>6. ASSUME NEW w \in Worker, NEW c \in Channel, Move(w, c), ~Overfills
      PROVE  slots'[q] <= MaxStreams[q] + ExtraCapacity
  <2>1. Free(target[w][c]) /\ target[w][c] \in Profile /\ assigned[c] \in Profile
    BY <1>6 DEF Overfills, Move, Chosen, Shape
  <2>2. slots' = [slots EXCEPT ![assigned[c]] = @ - 1, ![target[w][c]] = @ + 1]
    BY <1>6 DEF Move
  <2>3. CASE q = target[w][c]
    <3>1. slots'[q] \in {slots[q] + 1, slots[q]}
      BY <1>0, <2>1, <2>2, <2>3 DEF Shape
    <3>2. QED  BY <1>0, <2>1, <2>3, <3>1 DEF Free
  <2>4. CASE q # target[w][c]
    <3>1. slots'[q] \in {slots[q] - 1, slots[q]}
      BY <1>0, <2>1, <2>2, <2>4 DEF Shape
    <3>2. QED  BY <1>0, <3>1
  <2>5. QED  BY <2>3, <2>4
<1>7. ASSUME NEW w \in Worker, NEW c \in Channel, ~Move(w, c),
             Resolves(w, c) \/ Fails(w, c) \/ Recover(w, c)
      PROVE  slots'[q] <= MaxStreams[q] + ExtraCapacity
  <2>1. Idle(c) \in SUBSET Channel /\ {} \in SUBSET Channel /\ {c} \in SUBSET Channel
    BY DEF Idle
  <2>2. UNCHANGED slots \/ \E C \in {Idle(c), {}, {c}} : Release(C)
    BY <1>7 DEF Resolves, LosesLease, Gone, EndedOrMoved, Confirm, Waits, Acts, StillOver,
        Choose, NoneFree, MoveFails, StopsIt, Fails, Recover, counted
  <2>3. QED  BY <1>1, <1>2, <2>1, <2>2
<1>8. CASE Others
  BY <1>1, <1>2, <1>8 DEF Others, DeadlinePasses, LeaseExpires, KeysExpire, Sweep, Crash, counted
<1>9. CASE UNCHANGED vars
  BY <1>2, <1>9 DEF vars
<1>10. QED  BY <1>4, <1>5, <1>6, <1>7, <1>8, <1>9 DEF Next, Others

\* A profile has at most PROBATION_EXTRA_CAPACITY channels past its limit, whatever asks for
\* an overlap, moves, crashes and is recovered at once, as long as no move goes to a
\* profile that was filled since it was chosen (probation.py: reserve_overlap_slot,
\* _migrate_to_free_profile).
THEOREM OverlapsWithinExtra == Spec /\ [][~Overfills]_vars => []Within
<1>1. Init => Within
  BY DEF Init, Within
<1>2. QED  BY <1>1, InitInv, NextInv, NextWithin, PTL DEF Spec
=============================================================================
