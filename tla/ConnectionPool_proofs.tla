------------------------ MODULE ConnectionPool_proofs ------------------------
(* Proofs about ConnectionPool, for any requests, profiles, logins, limits   *)
(* and overlap, and about ProfileSwitch, which adds switches to it.          *)
(*                                                                           *)
(* The pool: the inductive invariant is TypeOK (with PlacesOK, what a        *)
(* request knows at each place) together with ProfileCounterExact: a request *)
(* can reach the DECR of a profile only because the counter it read counted  *)
(* it. The limits of profiles and of logins follow from exact, respectively  *)
(* covering, counters.                                                       *)
(*                                                                           *)
(* Switches: one reads the count of the profile it leaves and decrements it  *)
(* later, in the MULTI that increments the other. That the counts stay exact *)
(* needs that a channel on a limited profile always reads a positive count,  *)
(* which needs that the counts are exact: both are in SwitchInv.             *)
(*                                                                           *)
(* Guides (EpgRefresh), whose proofs share this module and none of its       *)
(* state: what each task knows at its place (TaskShape), whose DEL of the    *)
(* counter of parses is due, whose each task lock is, and who still has to   *)
(* look at a guide a channel was mapped to.                                  *)
EXTENDS ProfileSwitch, EpgRefresh, FiniteSetTheorems, TLAPS

USE PoolAssumption

\* A request asks for the overlap or does not.
LEMMA TrialSet == \A t \in Trials : t \in BOOLEAN
BY DEF Trials

(***************************************************************************)
(* Finite sets of requests                                                  *)
(***************************************************************************)
\* Every set of requests is finite, and counting one more or one less request
\* moves its size by one.
LEMMA RequestSets ==
  ASSUME NEW S \in SUBSET Conn
  PROVE  /\ IsFiniteSet(S)
         /\ Cardinality(S) \in Nat
         /\ \A T \in SUBSET S : Cardinality(T) <= Cardinality(S)
         /\ \A c \in Conn : c \notin S => Cardinality(S \cup {c}) = Cardinality(S) + 1
         /\ \A c \in S : Cardinality(S \ {c}) = Cardinality(S) - 1
<1>1. IsFiniteSet(S) /\ Cardinality(S) \in Nat
  BY FS_Subset, FS_CardinalityType
<1>2. \A T \in SUBSET S : Cardinality(T) <= Cardinality(S)
  BY <1>1, FS_Subset
<1>3. \A c \in Conn : c \notin S => Cardinality(S \cup {c}) = Cardinality(S) + 1
  BY <1>1, FS_AddElement
<1>4. \A c \in S : Cardinality(S \ {c}) = Cardinality(S) - 1
  BY <1>1, FS_RemoveElement
<1>5. QED  BY <1>1, <1>2, <1>3, <1>4

(***************************************************************************)
(* Type invariant                                                           *)
(***************************************************************************)
\* Nobody holds or waits for anything at first.
LEMMA InitType == Init => TypeOK
BY DEF Init, TypeOK, PlacesOK, PC, CountsProfile, KnowsLogin, UsesKey

\* A request that read a positive count of its profile is on a limited one: an
\* unlimited profile counts nobody.
LEMMA PositiveIsLimited ==
  ASSUME TypeOK, ProfileCounterExact, NEW p \in Profile, profile_connections[p] > 0
  PROVE  Limited(p)
<1>1. SUFFICES ASSUME ~Limited(p) PROVE FALSE
  OBVIOUS
<1>2. Counted(p) = {}
  BY <1>1 DEF Counted
<1>3. QED  BY <1>2, FS_EmptySet DEF ProfileCounterExact

\* Each Redis command of a request keeps the type invariant. The count that a
\* release reads needs the exact counters: only a limited profile counts anybody.
LEMMA TypeStep ==
  ASSUME TypeOK, ProfileCounterExact, [Next]_vars
  PROVE  TypeOK'
<1> USE DEF TypeOK, PlacesOK, PC, CountsProfile, KnowsLogin, UsesKey, Goto, Bump,
            Pooled, counters, local
<1>1. CASE UNCHANGED vars
  BY <1>1 DEF vars, Limited
<1>2. ASSUME NEW c \in Conn, Reserve(c)
      PROVE  TypeOK'
  <2>1. ASSUME NEW p \in Profile, NEW t \in BOOLEAN, ReserveUnlimited(c, p, t)
        PROVE  TypeOK'
    BY <2>1 DEF ReserveUnlimited, Begin, Limited
  <2>2. ASSUME NEW p \in Profile, NEW t \in BOOLEAN, NEW held \in 0..MaxHeld,
               IncrProfile(c, p, t, held)
        PROVE  TypeOK'
    BY <2>2 DEF IncrProfile, Begin, Limited
  <2>3. CASE UndoProfile(c)
    BY <2>3 DEF UndoProfile, Finish, Limited
  <2>4. CASE SkipLogin(c)
    BY <2>4 DEF SkipLogin, Limited
  <2>5. CASE RefuseUnknownLogin(c)
    BY <2>5 DEF RefuseUnknownLogin, Limited
  <2>6. ASSUME NEW held \in 0..MaxHeld, IncrLogin(c, held)
        PROVE  TypeOK'
    BY <2>6 DEF IncrLogin, Limited
  <2>7. CASE UndoLogin(c)
    BY <2>7 DEF UndoLogin, Limited
  <2>8. CASE Remember(c)
    BY <2>8 DEF Remember, Limited
  <2>9. QED  BY <1>2, <2>1, <2>2, <2>3, <2>4, <2>5, <2>6, <2>7, <2>8, TrialSet DEF Reserve
<1>3. ASSUME NEW c \in Conn, Release(c)
      PROVE  TypeOK'
  <2>1. CASE BeginRelease(c)
    BY <2>1 DEF BeginRelease, Limited
  <2>2. CASE ReadReleaseKey(c, "read_count")
    BY <2>2 DEF ReadReleaseKey, Limited
  <2>3. CASE ReadLoginCount(c)
    BY <2>3 DEF ReadLoginCount, Limited
  <2>4. CASE DecrLogin(c)
    BY <2>4 DEF DecrLogin, Limited
  <2>5. CASE ForgetKey(c, "read_count")
    BY <2>5 DEF ForgetKey, Limited
  <2>6. CASE ReadProfileCount(c)
    <3>1. prof[c] \in Profile
      BY <2>6 DEF ReadProfileCount
    <3>2. profile_connections[prof[c]] > 0 => Limited(prof[c])
      BY <3>1, PositiveIsLimited
    <3>3. CASE profile_connections[prof[c]] > 0
      BY <2>6, <3>1, <3>2, <3>3 DEF ReadProfileCount, Limited
    <3>4. CASE ~(profile_connections[prof[c]] > 0)
      <4>1. /\ pc' = [pc EXCEPT ![c] = "idle"]
            /\ prof' = [prof EXCEPT ![c] = NoProfile]
            /\ trial' = [trial EXCEPT ![c] = FALSE]
            /\ UNCHANGED <<counters, key>>
        BY <2>6, <3>4 DEF ReadProfileCount, Finish
      <4>2. QED  BY <4>1 DEF Limited
    <3>5. QED  BY <3>3, <3>4
  <2>7. CASE DecrProfile(c)
    BY <2>7 DEF DecrProfile, Finish, Limited
  <2>8. QED  BY <1>3, <2>1, <2>2, <2>3, <2>4, <2>5, <2>6, <2>7
              DEF Release, DecrementLogin
<1>4. QED  BY <1>1, <1>2, <1>3 DEF Next

(***************************************************************************)
(* Exact counters of the profiles                                           *)
(***************************************************************************)
\* All counters start at zero, with no request counted.
LEMMA InitExact == Init => ProfileCounterExact
<1>1. ASSUME Init, NEW p \in Profile PROVE Counted(p) = {}
  BY <1>1 DEF Init, Counted
<1>2. QED  BY <1>1, FS_EmptySet DEF Init, ProfileCounterExact

\* A step that neither counts a request nor lets one go.
LEMMA ExactKept ==
  ASSUME ProfileCounterExact, UNCHANGED <<profile_connections, prof>>
  PROVE  ProfileCounterExact'
BY DEF ProfileCounterExact, Counted, Limited

\* The INCR of a request that was not counted.
LEMMA ExactIncr ==
  ASSUME TypeOK, ProfileCounterExact, NEW c \in Conn, NEW p \in Profile, Limited(p),
         pc[c] = "idle",
         prof' = [prof EXCEPT ![c] = p],
         profile_connections' = [profile_connections EXCEPT ![p] = @ + 1]
  PROVE  ProfileCounterExact'
<1> SUFFICES ASSUME NEW q \in Profile
             PROVE  profile_connections'[q] = Cardinality(Counted(q)')
  BY DEF ProfileCounterExact
<1>1. prof[c] = NoProfile /\ c \notin Counted(q) /\ Counted(q) \in SUBSET Conn
  BY DEF TypeOK, PlacesOK, Counted
<1>2. CASE q = p
  <2>1. Counted(q)' = Counted(q) \cup {c}
    BY <1>2 DEF TypeOK, Counted, Limited
  <2>2. QED  BY <1>1, <1>2, <2>1, RequestSets DEF TypeOK, ProfileCounterExact
<1>3. CASE q # p
  <2>1. Counted(q)' = Counted(q)
    BY <1>1, <1>3 DEF TypeOK, Counted, Limited
  <2>2. QED  BY <1>3, <2>1 DEF TypeOK, ProfileCounterExact
<1>4. QED  BY <1>2, <1>3

\* The DECR of a request that was counted, on the profile it leaves.
LEMMA ExactDecr ==
  ASSUME TypeOK, ProfileCounterExact, NEW c \in Conn, prof[c] \in Profile, Limited(prof[c]),
         prof' = [prof EXCEPT ![c] = NoProfile],
         profile_connections' = [profile_connections EXCEPT ![prof[c]] = @ - 1]
  PROVE  ProfileCounterExact'
<1> SUFFICES ASSUME NEW q \in Profile
             PROVE  profile_connections'[q] = Cardinality(Counted(q)')
  BY DEF ProfileCounterExact
<1>1. Counted(q) \in SUBSET Conn
  BY DEF Counted
<1>2. CASE q = prof[c]
  <2>1. c \in Counted(q) /\ Counted(q)' = Counted(q) \ {c}
    BY <1>2 DEF TypeOK, Counted, Limited
  <2>2. QED  BY <1>1, <1>2, <2>1, RequestSets DEF TypeOK, ProfileCounterExact
<1>3. CASE q # prof[c]
  <2>1. Counted(q)' = Counted(q)
    BY <1>3 DEF TypeOK, Counted, Limited
  <2>2. QED  BY <1>3, <2>1 DEF TypeOK, ProfileCounterExact
<1>4. QED  BY <1>2, <1>3

\* The end of a request on an unlimited profile.
LEMMA ExactUnlimited ==
  ASSUME TypeOK, ProfileCounterExact, NEW c \in Conn, NEW p \in Profile, ~Limited(p),
         \/ pc[c] = "idle" /\ prof' = [prof EXCEPT ![c] = p]
         \/ prof[c] = p /\ prof' = [prof EXCEPT ![c] = NoProfile],
         UNCHANGED profile_connections
  PROVE  ProfileCounterExact'
<1> SUFFICES ASSUME NEW q \in Profile
             PROVE  Counted(q)' = Counted(q)
  BY DEF ProfileCounterExact
<1>1. pc[c] = "idle" => prof[c] = NoProfile
  BY DEF TypeOK, PlacesOK
<1>2. QED  BY <1>1 DEF TypeOK, Counted, Limited

\* Each command keeps the counter of every profile exact.
LEMMA ExactStep ==
  ASSUME TypeOK, ProfileCounterExact, [Next]_vars
  PROVE  ProfileCounterExact'
<1> USE DEF Goto, Bump, counters, local
<1>1. CASE UNCHANGED vars
  BY <1>1, ExactKept DEF vars
<1>2. ASSUME NEW c \in Conn, Reserve(c)
      PROVE  ProfileCounterExact'
  <2>1. ASSUME NEW p \in Profile, NEW t \in BOOLEAN, ReserveUnlimited(c, p, t)
        PROVE  ProfileCounterExact'
    BY <2>1, ExactUnlimited DEF ReserveUnlimited, Begin
  <2>2. ASSUME NEW p \in Profile, NEW t \in BOOLEAN, NEW held \in 0..MaxHeld,
               IncrProfile(c, p, t, held)
        PROVE  ProfileCounterExact'
    BY <2>2, ExactIncr DEF IncrProfile, Begin
  <2>3. CASE UndoProfile(c)
    <3>1. prof[c] \in Profile /\ Limited(prof[c])
      BY <2>3 DEF UndoProfile, TypeOK, PlacesOK, CountsProfile
    <3>2. profile_connections' = [profile_connections EXCEPT ![prof[c]] = @ - 1]
      BY <2>3, <3>1 DEF UndoProfile, TypeOK
    <3>3. QED  BY <2>3, <3>1, <3>2, ExactDecr DEF UndoProfile, Finish
  <2>4. CASE SkipLogin(c)
    BY <2>4, ExactKept DEF SkipLogin
  <2>5. CASE RefuseUnknownLogin(c)
    BY <2>5, ExactKept DEF RefuseUnknownLogin
  <2>6. ASSUME NEW held \in 0..MaxHeld, IncrLogin(c, held)
        PROVE  ProfileCounterExact'
    BY <2>6, ExactKept DEF IncrLogin
  <2>7. CASE UndoLogin(c)
    BY <2>7, ExactKept DEF UndoLogin
  <2>8. CASE Remember(c)
    BY <2>8, ExactKept DEF Remember
  <2>9. QED  BY <1>2, <2>1, <2>2, <2>3, <2>4, <2>5, <2>6, <2>7, <2>8, TrialSet DEF Reserve
<1>3. ASSUME NEW c \in Conn, Release(c)
      PROVE  ProfileCounterExact'
  <2>1. CASE BeginRelease(c)
    BY <2>1, ExactKept DEF BeginRelease
  <2>2. CASE ReadReleaseKey(c, "read_count")
    BY <2>2, ExactKept DEF ReadReleaseKey
  <2>3. CASE DecrementLogin(c)
    BY <2>3, ExactKept DEF DecrementLogin, ReadLoginCount, DecrLogin
  <2>4. CASE ForgetKey(c, "read_count")
    BY <2>4, ExactKept DEF ForgetKey
  <2>5. CASE ReadProfileCount(c)
    <3>1. prof[c] \in Profile
      BY <2>5 DEF ReadProfileCount, TypeOK, PlacesOK
    <3>2. CASE profile_connections[prof[c]] > 0
      BY <2>5, <3>2, ExactKept DEF ReadProfileCount
    <3>3. CASE ~(profile_connections[prof[c]] > 0)
      <4>1. ~Limited(prof[c])
        <5>1. Counted(prof[c]) \in SUBSET Conn /\ Cardinality(Counted(prof[c])) <= 0
          BY <3>1, <3>3 DEF TypeOK, ProfileCounterExact, Counted
        <5>2. IsFiniteSet(Counted(prof[c])) /\ Cardinality(Counted(prof[c])) = 0
          BY <5>1, RequestSets
        <5>3. QED  BY <3>1, <5>2, FS_EmptySet DEF Counted
      <4>2. QED  BY <2>5, <3>1, <3>3, <4>1, ExactUnlimited DEF ReadProfileCount, Finish
    <3>4. QED  BY <3>2, <3>3
  <2>6. CASE DecrProfile(c)
    <3>1. prof[c] \in Profile /\ Limited(prof[c])
      BY <2>6 DEF DecrProfile, TypeOK, PlacesOK, CountsProfile
    <3>2. profile_connections' = [profile_connections EXCEPT ![prof[c]] = @ - 1]
      BY <2>6, <3>1 DEF DecrProfile, TypeOK
    <3>3. QED  BY <2>6, <3>1, <3>2, ExactDecr DEF DecrProfile, Finish
  <2>7. QED  BY <1>3, <2>1, <2>2, <2>3, <2>4, <2>5, <2>6 DEF Release
<1>4. QED  BY <1>1, <1>2, <1>3 DEF Next

\* The shape of the state and what every place in the code knows, for any number
\* of requests and profiles: no request undoes a slot it did not count, and no
\* request reads a release key of another login.
THEOREM TypeCorrect == Spec => []TypeOK
<1>1. Init => TypeOK /\ ProfileCounterExact
  BY InitType, InitExact
<1>2. TypeOK /\ ProfileCounterExact /\ [Next]_vars => (TypeOK /\ ProfileCounterExact)'
  BY TypeStep, ExactStep
<1>3. QED  BY <1>1, <1>2, PTL DEF Spec

\* reserve_profile_slot and release_profile_slot never lose a slot of a profile
\* and never release one twice, however many of them interleave.
THEOREM CountersExact == Spec => []ProfileCounterExact
<1>1. Init => TypeOK /\ ProfileCounterExact
  BY InitType, InitExact
<1>2. TypeOK /\ ProfileCounterExact /\ [Next]_vars => (TypeOK /\ ProfileCounterExact)'
  BY TypeStep, ExactStep
<1>3. QED  BY <1>1, <1>2, PTL DEF Spec

(***************************************************************************)
(* The limit of a profile                                                   *)
(***************************************************************************)
\* No request is admitted to a limited profile by the step, and the requests that
\* stay admitted keep their limit.
NoneAdmitted ==
  \A d \in Conn :
    (prof'[d] \in Profile /\ Limited(prof'[d]) /\ pc'[d] # "undo_profile")
      => prof[d] = prof'[d] /\ trial[d] = trial'[d] /\ pc[d] # "undo_profile"

\* A step that admits nobody under a profile keeps its limit.
LEMMA ProfileLimitKept ==
  ASSUME TypeOK, ProfileLimit, NoneAdmitted
  PROVE  ProfileLimit'
<1> SUFFICES ASSUME NEW p \in Profile, NEW c \in Admitted(p)'
             PROVE  AtMost(Admitted(p), Limit(c))'
  BY DEF ProfileLimit
<1> DEFINE A == {d \in Admitted(p) : Limit(d) <= Limit(c)}
           B == {d \in Admitted(p)' : Limit(d)' <= Limit(c)'}
<1>1. \A d \in Admitted(p)' : d \in Admitted(p) /\ Limit(d)' = Limit(d)
  BY DEF NoneAdmitted, Admitted, Counted, Limit, Limited, Extra
<1>2. A \in SUBSET Conn /\ B \in SUBSET A
  BY <1>1 DEF Admitted, Counted
<1>3. Cardinality(A) <= Limit(c)
  BY <1>1 DEF ProfileLimit, AtMost
<1>4. Limit(c) \in Int
  BY <1>1 DEF Admitted, Counted, Limit, Extra
<1>5. Cardinality(B) <= Limit(c)'
  <2> HIDE DEF A, B
  <2>1. Cardinality(B) <= Cardinality(A) /\ Cardinality(A) \in Nat /\ Cardinality(B) \in Nat
    BY <1>2, RequestSets
  <2>2. QED  BY <2>1, <1>1, <1>3, <1>4
<1>6. QED  BY <1>5 DEF AtMost

\* The INCR that admits a request read a count that covers all those admitted.
LEMMA ProfileLimitIncr ==
  ASSUME TypeOK, TypeOK', ProfileCounterExact, ProfileCounterExact', ProfileLimit,
         NEW c \in Conn, NEW p \in Profile, NEW t \in BOOLEAN, NEW held \in 0..MaxHeld,
         IncrProfile(c, p, t, held)
  PROVE  ProfileLimit'
<1> USE DEF Goto, Bump
<1>1. CASE pc'[c] = "undo_profile"
  <2>1. NoneAdmitted
    BY <1>1 DEF NoneAdmitted, IncrProfile, Begin, TypeOK
  <2>2. QED  BY <2>1, ProfileLimitKept
<1>2. CASE pc'[c] # "undo_profile"
  <2>1. /\ profile_connections'[p] <= Limit(c)'
        /\ Limit(c)' \in Int
        /\ prof'[c] = p
    BY <1>2 DEF IncrProfile, Begin, TypeOK, Limit, Extra
  <2>2. \A d \in Conn : d # c =>
          pc'[d] = pc[d] /\ prof'[d] = prof[d] /\ trial'[d] = trial[d]
    BY DEF IncrProfile, Begin, TypeOK
  <2> SUFFICES ASSUME NEW q \in Profile, NEW e \in Admitted(q)'
               PROVE  AtMost(Admitted(q), Limit(e))'
    BY DEF ProfileLimit
  <2> DEFINE A == {d \in Admitted(q) : Limit(d) <= Limit(e)}
             B == {d \in Admitted(q)' : Limit(d)' <= Limit(e)'}
  <2>3. Limit(e)' \in Int
    BY DEF Admitted, Counted, Limit, Extra
  <2>4. CASE q = p /\ Limit(c)' <= Limit(e)'
    <3>1. B \in SUBSET Counted(p)' /\ Counted(p)' \in SUBSET Conn
      BY <2>4 DEF Admitted, Counted
    <3>2. Cardinality(Counted(p)') <= Limit(c)'
      BY <2>1 DEF ProfileCounterExact
    <3>3. Cardinality(B) <= Limit(e)'
      <4> HIDE DEF B
      <4>1. /\ Cardinality(B) <= Cardinality(Counted(p)')
            /\ Cardinality(B) \in Nat /\ Cardinality(Counted(p)') \in Nat
        BY <3>1, RequestSets
      <4>2. QED  BY <4>1, <3>2, <2>1, <2>3, <2>4
    <3>4. QED  BY <3>3 DEF AtMost
  <2>5. CASE ~(q = p /\ Limit(c)' <= Limit(e)')
    <3>1. e # c
      BY <2>1, <2>5 DEF Admitted, Counted
    <3>2. \A d \in Conn : d # c => Limit(d)' = Limit(d)
      BY <2>2 DEF Limit, Extra
    <3>3. e \in Admitted(q) /\ Limit(e)' = Limit(e)
      BY <3>1, <3>2, <2>2 DEF Admitted, Counted, Limited
    <3>4. A \in SUBSET Conn /\ B \in SUBSET A
      BY <2>1, <2>2, <2>5, <3>2, <3>3 DEF Admitted, Counted, Limited
    <3>5. Cardinality(A) <= Limit(e)
      BY <3>3 DEF ProfileLimit, AtMost
    <3>6. Cardinality(B) <= Limit(e)'
      <4> HIDE DEF A, B
      <4>1. Cardinality(B) <= Cardinality(A) /\ Cardinality(A) \in Nat /\ Cardinality(B) \in Nat
        BY <3>4, RequestSets
      <4>2. QED  BY <4>1, <3>3, <3>5, <2>3
    <3>7. QED  BY <3>6 DEF AtMost
  <2>6. QED  BY <2>4, <2>5
<1>3. QED  BY <1>1, <1>2

\* Every other step admits nobody.
LEMMA OthersAdmitNone ==
  ASSUME TypeOK, [Next]_vars,
         ~ \E c \in Conn, p \in Profile, t \in BOOLEAN, held \in 0..MaxHeld :
             IncrProfile(c, p, t, held)
  PROVE  NoneAdmitted
<1> USE DEF NoneAdmitted, TypeOK, Goto, Finish, counters, local
<1>1. CASE UNCHANGED vars
  BY <1>1 DEF vars
<1>2. ASSUME NEW c \in Conn, Reserve(c)
      PROVE  NoneAdmitted
  <2>1. ASSUME NEW p \in Profile, NEW t \in BOOLEAN, ReserveUnlimited(c, p, t)
        PROVE  NoneAdmitted
    BY <2>1 DEF ReserveUnlimited, Begin
  <2>2. CASE UndoProfile(c)
    BY <2>2 DEF UndoProfile
  <2>3. CASE SkipLogin(c) \/ RefuseUnknownLogin(c)
    BY <2>3 DEF SkipLogin, RefuseUnknownLogin
  <2>4. ASSUME NEW held \in 0..MaxHeld, IncrLogin(c, held)
        PROVE  NoneAdmitted
    BY <2>4 DEF IncrLogin
  <2>5. CASE UndoLogin(c)
    BY <2>5 DEF UndoLogin
  <2>6. CASE Remember(c)
    BY <2>6 DEF Remember
  <2>7. ~ \E p \in Profile, t \in Trials, held \in 0..MaxHeld : IncrProfile(c, p, t, held)
    BY TrialSet
  <2>8. QED  BY <1>2, <2>1, <2>2, <2>3, <2>4, <2>5, <2>6, <2>7, TrialSet DEF Reserve
<1>3. ASSUME NEW c \in Conn, Release(c)
      PROVE  NoneAdmitted
  <2>1. CASE BeginRelease(c) \/ ReadReleaseKey(c, "read_count")
    BY <2>1 DEF BeginRelease, ReadReleaseKey
  <2>2. CASE ReadLoginCount(c)
    BY <2>2 DEF ReadLoginCount
  <2>3. CASE DecrLogin(c)
    BY <2>3 DEF DecrLogin
  <2>4. CASE ForgetKey(c, "read_count")
    BY <2>4 DEF ForgetKey
  <2>5. CASE ReadProfileCount(c)
    <3>1. CASE profile_connections[prof[c]] > 0
      BY <2>5, <3>1 DEF ReadProfileCount
    <3>2. CASE ~(profile_connections[prof[c]] > 0)
      BY <2>5, <3>2 DEF ReadProfileCount
    <3>3. QED  BY <3>1, <3>2
  <2>6. CASE DecrProfile(c)
    BY <2>6 DEF DecrProfile
  <2>7. QED  BY <1>3, <2>1, <2>2, <2>3, <2>4, <2>5, <2>6 DEF Release, DecrementLogin
<1>4. QED  BY <1>1, <1>2, <1>3 DEF Next

\* No profile ever carries more streams than the limit each of them was admitted
\* under ("Maximum number of concurrent streams", one more with the overlap).
THEOREM ProfileLimitHolds == Spec => []ProfileLimit
<1>1. Init => ProfileLimit
  BY DEF Init, ProfileLimit, Admitted, Counted
<1>2. TypeOK /\ TypeOK' /\ ProfileCounterExact /\ ProfileCounterExact' /\ ProfileLimit /\ [Next]_vars
        => ProfileLimit'
  BY ProfileLimitIncr, ProfileLimitKept, OthersAdmitNone
<1>3. QED  BY <1>1, <1>2, TypeCorrect, CountersExact, PTL DEF Spec

(***************************************************************************)
(* The counter and the limit of a login                                     *)
(***************************************************************************)
TakingPC == {"undo_login", "remember", "open", "read_key", "read_login", "decr_login"}

\* The requests that take a slot of a login, and how a step can change them.
LEMMA LoginSets ==
  ASSUME NEW l \in Login
  PROVE  /\ LoginCounted(l) \in SUBSET Conn
         /\ LoginAdmitted(l) \in SUBSET LoginCounted(l)
BY DEF LoginCounted, LoginAdmitted

\* The step takes no slot of a login, and touches no counter of one.
NoLoginTaken ==
  /\ UNCHANGED server_group_connections
  /\ \A d \in Conn : pc'[d] # "zero_login"
  /\ \A d \in Conn :
       (prof'[d] \in Profile /\ LoginOf[prof'[d]] \in Login /\ Limited(prof'[d]) /\ pc'[d] \in TakingPC)
         => /\ prof[d] = prof'[d] /\ trial[d] = trial'[d] /\ pc[d] \in TakingPC
            /\ pc[d] = "undo_login" => pc'[d] = "undo_login"

\* A step that takes no slot of a login, and leaves its counter, keeps it covered.
LEMMA CoversKept ==
  ASSUME TypeOK, LoginCounterCovers, NoLoginTaken
  PROVE  LoginCounterCovers'
<1>1. ASSUME NEW l \in Login
      PROVE  server_group_connections'[l] >= Cardinality(LoginCounted(l)')
  <2>1. LoginCounted(l)' \in SUBSET LoginCounted(l)
    BY DEF NoLoginTaken, LoginCounted, TakingPC, Limited
  <2>2. /\ Cardinality(LoginCounted(l)') <= Cardinality(LoginCounted(l))
        /\ Cardinality(LoginCounted(l)') \in Nat /\ Cardinality(LoginCounted(l)) \in Nat
    BY <2>1, LoginSets, RequestSets
  <2>3. QED  BY <2>2 DEF LoginCounterCovers, NoLoginTaken, TypeOK
<1>2. QED  BY <1>1 DEF LoginCounterCovers, NoLoginTaken

\* INCR by a request that had not taken a slot of the login.
LEMMA CoversIncr ==
  ASSUME TypeOK, LoginCounterCovers, NEW c \in Conn, NEW held \in 0..MaxHeld, IncrLogin(c, held)
  PROVE  LoginCounterCovers'
<1> USE DEF Goto, Bump, local
<1>1. prof[c] \in Profile /\ LoginOf[prof[c]] \in Login /\ pc[c] = "reserve_login"
  BY DEF IncrLogin, TypeOK, PlacesOK, Pooled
<1>2. ASSUME NEW l \in Login
      PROVE  server_group_connections'[l] >= Cardinality(LoginCounted(l)')
  <2>1. c \notin LoginCounted(l)
    BY <1>1 DEF LoginCounted
  <2>2. CASE l = LoginOf[prof[c]]
    <3>1. LoginCounted(l)' \in SUBSET (LoginCounted(l) \cup {c})
      BY <1>1, <2>2 DEF IncrLogin, LoginCounted, TypeOK, Limited
    <3>2. LoginCounted(l) \cup {c} \in SUBSET Conn
      BY LoginSets
    <3>3. /\ Cardinality(LoginCounted(l)') <= Cardinality(LoginCounted(l)) + 1
          /\ Cardinality(LoginCounted(l)') \in Nat /\ Cardinality(LoginCounted(l)) \in Nat
      BY <2>1, <3>1, <3>2, LoginSets, RequestSets
    <3>4. server_group_connections'[l] = server_group_connections[l] + 1
      BY <1>1, <2>2 DEF IncrLogin, TypeOK
    <3>5. QED  BY <3>3, <3>4 DEF LoginCounterCovers, TypeOK
  <2>3. CASE l # LoginOf[prof[c]]
    <3>1. LoginCounted(l)' = LoginCounted(l)
      BY <1>1, <2>3 DEF IncrLogin, LoginCounted, TypeOK, Limited
    <3>2. QED  BY <1>1, <2>3, <3>1 DEF LoginCounterCovers, IncrLogin, TypeOK
  <2>4. QED  BY <2>2, <2>3
<1>3. \A d \in Conn : pc'[d] # "zero_login"
  BY DEF IncrLogin, LoginCounterCovers, TypeOK
<1>4. QED  BY <1>2, <1>3 DEF LoginCounterCovers

\* DECR by a request that had taken a slot of the login: the counter cannot go
\* below zero, because it covered that request.
LEMMA CoversDecr ==
  ASSUME TypeOK, LoginCounterCovers, NEW c \in Conn, UndoLogin(c) \/ DecrLogin(c)
  PROVE  LoginCounterCovers'
<1> USE DEF Goto, Bump
<1> DEFINE k == LoginOf[prof[c]]
<1>1. /\ prof[c] \in Profile /\ k \in Login /\ Limited(prof[c])
      /\ pc[c] \in {"undo_login", "decr_login"} /\ c \in LoginCounted(k)
  BY DEF UndoLogin, DecrLogin, TypeOK, PlacesOK, KnowsLogin, LoginCounted
<1>2. /\ server_group_connections' = [server_group_connections EXCEPT ![k] = @ - 1]
      /\ prof' = prof
      /\ pc' \in {[pc EXCEPT ![c] = "undo_profile"], [pc EXCEPT ![c] = "forget"],
                  [pc EXCEPT ![c] = "zero_login"]}
      /\ pc'[c] = "zero_login" => server_group_connections[k] - 1 < 0
  BY <1>1 DEF UndoLogin, DecrLogin, TypeOK, PlacesOK, UsesKey, local
<1>3. /\ Cardinality(LoginCounted(k)) \in Nat
      /\ Cardinality(LoginCounted(k) \ {c}) = Cardinality(LoginCounted(k)) - 1
      /\ Cardinality(LoginCounted(k) \ {c}) \in Nat
  <2>1. LoginCounted(k) \in SUBSET Conn /\ LoginCounted(k) \ {c} \in SUBSET Conn
    BY <1>1, LoginSets
  <2>2. QED  BY <1>1, <2>1, RequestSets
<1>4. server_group_connections[k] >= Cardinality(LoginCounted(k)) /\ server_group_connections[k] \in Int
  BY <1>1 DEF LoginCounterCovers, TypeOK
<1>5. ASSUME NEW l \in Login
      PROVE  server_group_connections'[l] >= Cardinality(LoginCounted(l)')
  <2>1. CASE l = k
    <3>1. LoginCounted(l)' = LoginCounted(l) \ {c}
      BY <1>1, <1>2, <2>1 DEF LoginCounted, TypeOK, Limited
    <3>2. server_group_connections'[l] = server_group_connections[l] - 1
      BY <1>1, <1>2, <2>1 DEF TypeOK
    <3>3. QED  BY <1>3, <1>4, <2>1, <3>1, <3>2
  <2>2. CASE l # k
    <3>1. LoginCounted(l)' = LoginCounted(l)
      BY <1>1, <1>2, <2>2 DEF LoginCounted, TypeOK, Limited
    <3>2. QED  BY <1>2, <2>2, <3>1 DEF LoginCounterCovers, TypeOK
  <2>3. QED  BY <2>1, <2>2
<1>6. \A d \in Conn : pc'[d] # "zero_login"
  <2>1. ~(server_group_connections[k] - 1 < 0)
    BY <1>3, <1>4
  <2>2. QED  BY <1>2, <2>1 DEF LoginCounterCovers, TypeOK
<1>7. QED  BY <1>5, <1>6 DEF LoginCounterCovers

TouchesLogin(c) ==
  UndoLogin(c) \/ DecrLogin(c) \/ \E held \in 0..MaxHeld : IncrLogin(c, held)

\* Every other step takes no slot of a login.
LEMMA OthersTakeNoLogin ==
  ASSUME TypeOK, ProfileCounterExact, LoginCounterCovers, [Next]_vars,
         ~ \E c \in Conn : TouchesLogin(c)
  PROVE  NoLoginTaken
<1> USE DEF NoLoginTaken, TakingPC, TypeOK, Goto, counters, local
<1>0. \A d \in Conn : pc[d] # "zero_login" /\ ~TouchesLogin(d)
  BY DEF LoginCounterCovers
<1>1. CASE UNCHANGED vars
  BY <1>0, <1>1 DEF vars
<1>2. ASSUME NEW c \in Conn, Reserve(c)
      PROVE  NoLoginTaken
  <2>1. ASSUME NEW p \in Profile, NEW t \in BOOLEAN, ReserveUnlimited(c, p, t)
        PROVE  NoLoginTaken
    BY <1>0, <2>1 DEF ReserveUnlimited, Begin
  <2>2. ASSUME NEW p \in Profile, NEW t \in BOOLEAN, NEW held \in 0..MaxHeld,
               IncrProfile(c, p, t, held)
        PROVE  NoLoginTaken
    BY <1>0, <2>2 DEF IncrProfile, Begin
  <2>3. CASE UndoProfile(c)
    BY <1>0, <2>3 DEF UndoProfile, Finish
  <2>4. CASE SkipLogin(c)
    <3>1. prof[c] \in Profile /\ ~(LoginOf[prof[c]] \in Login /\ Limited(prof[c]))
      BY <2>4 DEF SkipLogin, Pooled, PlacesOK, CountsProfile
    <3>2. QED  BY <1>0, <2>4, <3>1 DEF SkipLogin
  <2>5. CASE RefuseUnknownLogin(c)
    BY <1>0, <2>5 DEF RefuseUnknownLogin
  <2>6. CASE Remember(c)
    BY <1>0, <2>6 DEF Remember
  <2>7. QED  BY <1>0, <1>2, <2>1, <2>2, <2>3, <2>4, <2>5, <2>6, TrialSet DEF Reserve, TouchesLogin
<1>3. ASSUME NEW c \in Conn, Release(c)
      PROVE  NoLoginTaken
  <2>1. CASE BeginRelease(c)
    BY <1>0, <2>1 DEF BeginRelease
  <2>2. CASE ReadReleaseKey(c, "read_count")
    BY <1>0, <2>2 DEF ReadReleaseKey
  <2>3. CASE ReadLoginCount(c)
    BY <1>0, <2>3 DEF ReadLoginCount
  <2>4. CASE ForgetKey(c, "read_count")
    BY <1>0, <2>4 DEF ForgetKey
  <2>5. CASE ReadProfileCount(c)
    <3>1. CASE profile_connections[prof[c]] > 0
      BY <1>0, <2>5, <3>1 DEF ReadProfileCount
    <3>2. CASE ~(profile_connections[prof[c]] > 0)
      BY <1>0, <2>5, <3>2 DEF ReadProfileCount, Finish
    <3>3. QED  BY <3>1, <3>2
  <2>6. CASE DecrProfile(c)
    BY <1>0, <2>6 DEF DecrProfile, Finish
  <2>7. QED  BY <1>0, <1>3, <2>1, <2>2, <2>3, <2>4, <2>5, <2>6
              DEF Release, DecrementLogin, TouchesLogin
<1>4. QED  BY <1>1, <1>2, <1>3 DEF Next

\* Each command keeps the counter of every login at or above what is in use.
LEMMA CoversStep ==
  ASSUME TypeOK, ProfileCounterExact, LoginCounterCovers, [Next]_vars
  PROVE  LoginCounterCovers'
BY CoversKept, CoversIncr, CoversDecr, OthersTakeNoLogin DEF TouchesLogin

\* At first no slot of a login is in use.
LEMMA InitCovers == Init => LoginCounterCovers
<1>1. ASSUME Init, NEW l \in Login PROVE LoginCounted(l) = {}
  BY <1>1 DEF Init, LoginCounted
<1>2. QED  BY <1>1, FS_EmptySet DEF Init, LoginCounterCovers

\* The counter of a provider login always covers the slots in use, whatever is
\* lost with the release key the requests of a profile share.
THEOREM LoginCounterCoversHolds == Spec => []LoginCounterCovers
<1>1. TypeOK /\ ProfileCounterExact /\ LoginCounterCovers /\ [Next]_vars => LoginCounterCovers'
  BY CoversStep
<1>2. QED  BY <1>1, InitCovers, TypeCorrect, CountersExact, PTL DEF Spec

\* A step that admits nobody to a login keeps its limit.
LEMMA LoginLimitKept ==
  ASSUME TypeOK, LoginLimit,
         \A l \in Login : \A d \in LoginAdmitted(l)' :
           d \in LoginAdmitted(l) /\ prof'[d] = prof[d] /\ trial'[d] = trial[d]
  PROVE  LoginLimit'
<1> SUFFICES ASSUME NEW l \in Login, NEW c \in LoginAdmitted(l)'
             PROVE  AtMost(LoginAdmitted(l), Limit(c))'
  BY DEF LoginLimit
<1> DEFINE A == {d \in LoginAdmitted(l) : Limit(d) <= Limit(c)}
           B == {d \in LoginAdmitted(l)' : Limit(d)' <= Limit(c)'}
<1>1. \A d \in LoginAdmitted(l)' : d \in LoginAdmitted(l) /\ Limit(d)' = Limit(d)
  BY DEF Limit, Extra
<1>2. A \in SUBSET Conn /\ B \in SUBSET A
  BY <1>1, LoginSets
<1>3. Cardinality(A) <= Limit(c)
  BY <1>1 DEF LoginLimit, AtMost
<1>4. Limit(c) \in Int
  BY <1>1 DEF LoginAdmitted, LoginCounted, Limit, Extra
<1>5. Cardinality(B) <= Limit(c)'
  <2> HIDE DEF A, B
  <2>1. Cardinality(B) <= Cardinality(A) /\ Cardinality(A) \in Nat /\ Cardinality(B) \in Nat
    BY <1>2, RequestSets
  <2>2. QED  BY <2>1, <1>1, <1>3, <1>4
<1>6. QED  BY <1>5 DEF AtMost

\* What a request does to its login's counter changes no other request, and not
\* its own profile or limit.
LEMMA LoginStepsAreLocal ==
  ASSUME TypeOK, NEW c \in Conn, TouchesLogin(c)
  PROVE  /\ UNCHANGED <<prof, trial>>
         /\ \A d \in Conn : d # c => pc'[d] = pc[d]
         /\ prof[c] \in Profile /\ LoginOf[prof[c]] \in Login /\ Limited(prof[c])
BY DEF TouchesLogin, UndoLogin, DecrLogin, IncrLogin, Goto, local, TypeOK, PlacesOK, KnowsLogin,
       CountsProfile, Pooled

\* The INCR that admits a request to a login read a count that covers the others.
LEMMA LoginLimitIncr ==
  ASSUME TypeOK, TypeOK', LoginCounterCovers', LoginLimit,
         NEW c \in Conn, NEW held \in 0..MaxHeld, IncrLogin(c, held)
  PROVE  LoginLimit'
<1> USE DEF Goto, Bump
<1>0. /\ UNCHANGED <<prof, trial>> /\ \A d \in Conn : d # c => pc'[d] = pc[d]
      /\ prof[c] \in Profile /\ LoginOf[prof[c]] \in Login
  BY LoginStepsAreLocal DEF TouchesLogin
<1>1. CASE pc'[c] # "remember"
  <2>1. pc'[c] = "undo_login"
    BY <1>1 DEF IncrLogin, TypeOK
  <2>2. QED  BY <1>0, <2>1, LoginLimitKept DEF LoginAdmitted, LoginCounted, Limited
<1>2. CASE pc'[c] = "remember"
  <2> DEFINE k == LoginOf[prof[c]]
  <2>1. /\ server_group_connections'[k] <= Limit(c)'
        /\ Limit(c)' \in Int /\ server_group_connections'[k] \in Int
    BY <1>0, <1>2 DEF IncrLogin, TypeOK, Limit, Extra
  <2> SUFFICES ASSUME NEW l \in Login, NEW e \in LoginAdmitted(l)'
               PROVE  AtMost(LoginAdmitted(l), Limit(e))'
    BY DEF LoginLimit
  <2> DEFINE A == {d \in LoginAdmitted(l) : Limit(d) <= Limit(e)}
             B == {d \in LoginAdmitted(l)' : Limit(d)' <= Limit(e)'}
  <2>2. Limit(e)' \in Int
    BY DEF LoginAdmitted, LoginCounted, Limit, Extra
  <2>3. CASE l = k /\ Limit(c)' <= Limit(e)'
    <3>1. B \in SUBSET LoginCounted(l)' /\ LoginCounted(l)' \in SUBSET Conn
      BY DEF LoginAdmitted, LoginCounted
    <3>2. server_group_connections'[k] >= Cardinality(LoginCounted(l)')
      BY <2>3 DEF LoginCounterCovers
    <3>3. Cardinality(B) <= Limit(e)'
      <4> HIDE DEF B
      <4>1. /\ Cardinality(B) <= Cardinality(LoginCounted(l)')
            /\ Cardinality(B) \in Nat /\ Cardinality(LoginCounted(l)') \in Nat
        BY <3>1, RequestSets
      <4>2. QED  BY <4>1, <3>2, <2>1, <2>2, <2>3
    <3>4. QED  BY <3>3 DEF AtMost
  <2>4. CASE ~(l = k /\ Limit(c)' <= Limit(e)')
    <3>1. e # c
      BY <1>0, <2>1, <2>4 DEF LoginAdmitted, LoginCounted
    <3>2. \A d \in Conn : Limit(d)' = Limit(d)
      BY <1>0 DEF Limit, Extra
    <3>3. e \in LoginAdmitted(l) /\ Limit(e)' = Limit(e)
      BY <1>0, <3>1, <3>2 DEF LoginAdmitted, LoginCounted, Limited
    <3>4. A \in SUBSET Conn /\ B \in SUBSET A
      BY <1>0, <2>4, <3>2, <3>3, LoginSets DEF LoginAdmitted, LoginCounted, Limited
    <3>5. Cardinality(A) <= Limit(e)
      BY <3>3 DEF LoginLimit, AtMost
    <3>6. Cardinality(B) <= Limit(e)'
      <4> HIDE DEF A, B
      <4>1. Cardinality(B) <= Cardinality(A) /\ Cardinality(A) \in Nat /\ Cardinality(B) \in Nat
        BY <3>4, RequestSets
      <4>2. QED  BY <4>1, <3>3, <3>5, <2>2
    <3>7. QED  BY <3>6 DEF AtMost
  <2>5. QED  BY <2>3, <2>4
<1>3. QED  BY <1>1, <1>2

\* Each command keeps the limit of every login.
LEMMA LoginLimitStep ==
  ASSUME TypeOK, TypeOK', ProfileCounterExact, LoginCounterCovers, LoginCounterCovers',
         LoginLimit, [Next]_vars
  PROVE  LoginLimit'
<1>1. ASSUME NEW c \in Conn, NEW held \in 0..MaxHeld, IncrLogin(c, held)
      PROVE  LoginLimit'
  BY <1>1, LoginLimitIncr
<1>2. ASSUME NEW c \in Conn, UndoLogin(c) \/ DecrLogin(c)
      PROVE  LoginLimit'
  <2>1. pc'[c] \notin TakingPC
    BY <1>2 DEF UndoLogin, DecrLogin, Goto, TypeOK, TakingPC
  <2>2. UNCHANGED <<prof, trial>> /\ \A d \in Conn : d # c => pc'[d] = pc[d]
    BY <1>2, LoginStepsAreLocal DEF TouchesLogin
  <2>3. QED  BY <2>1, <2>2, LoginLimitKept DEF LoginAdmitted, LoginCounted, Limited, TakingPC
<1>3. CASE ~ \E c \in Conn : TouchesLogin(c)
  <2>1. NoLoginTaken
    BY <1>3, OthersTakeNoLogin
  <2>2. QED  BY <2>1, LoginLimitKept
               DEF NoLoginTaken, LoginAdmitted, LoginCounted, Limited, TakingPC
<1>4. QED  BY <1>1, <1>2, <1>3 DEF TouchesLogin

\* A provider login never carries more streams than the limit each of them was
\* admitted under, from whatever account of the ServerGroup they come.
THEOREM LoginLimitHolds == Spec => []LoginLimit
<1>1. Init => LoginLimit
  BY DEF Init, LoginLimit, LoginAdmitted, LoginCounted
<1>2. /\ TypeOK /\ TypeOK' /\ ProfileCounterExact
      /\ LoginCounterCovers /\ LoginCounterCovers' /\ LoginLimit /\ [Next]_vars
      => LoginLimit'
  BY LoginLimitStep
<1>3. QED  BY <1>1, <1>2, TypeCorrect, CountersExact, LoginCounterCoversHolds, PTL DEF Spec

(***************************************************************************)
(* The counters implement semaphores                                        *)
(***************************************************************************)
\* A step is taken by one request.
LEMMA OneMoves ==
  ASSUME TypeOK, [Next]_vars
  PROVE  \/ UNCHANGED <<pc, prof>>
         \/ \E c \in Conn : \A d \in Conn : d # c => pc'[d] = pc[d] /\ prof'[d] = prof[d]
<1> USE DEF TypeOK, Goto, Finish, Begin, counters, local
<1>1. ASSUME NEW c \in Conn, Reserve(c)
      PROVE  \A d \in Conn : d # c => pc'[d] = pc[d] /\ prof'[d] = prof[d]
  BY <1>1 DEF Reserve, ReserveUnlimited, IncrProfile, UndoProfile, SkipLogin, RefuseUnknownLogin,
              IncrLogin, UndoLogin, Remember
<1>2. ASSUME NEW c \in Conn, Release(c)
      PROVE  \A d \in Conn : d # c => pc'[d] = pc[d] /\ prof'[d] = prof[d]
  <2>1. CASE ReadProfileCount(c)
    BY <2>1 DEF ReadProfileCount
  <2>2. CASE ~ReadProfileCount(c)
    BY <1>2, <2>2 DEF Release, BeginRelease, ReadReleaseKey, DecrementLogin, ReadLoginCount,
                      DecrLogin, ForgetKey, DecrProfile
  <2>3. QED  BY <2>1, <2>2
<1>3. QED  BY <1>1, <1>2 DEF Next, vars

\* A step is an Acquire or a Leave of one profile's semaphore, or a stutter.
LEMMA ProfilesStep ==
  ASSUME TypeOK, ProfileCounterExact, [Next]_vars
  PROVE  [Profiles!Next]_([p \in Profile |-> Admitted(p)])
<1>1. ASSUME NEW c \in Conn, NEW p \in Profile, NEW t \in BOOLEAN, NEW held \in 0..MaxHeld,
             IncrProfile(c, p, t, held), pc'[c] # "undo_profile"
      PROVE  Profiles!Acquire(c, p)
  <2>1. /\ prof[c] = NoProfile /\ prof' = [prof EXCEPT ![c] = p] /\ Limited(p)
        /\ \A d \in Conn : d # c => pc'[d] = pc[d]
        /\ profile_connections[p] + 1 <= MaxStreams[p] + Extra(t)
    BY <1>1 DEF IncrProfile, Begin, TypeOK, PlacesOK, Goto, Extra
  <2>2. Cardinality(Admitted(p)) < MaxStreams[p] + Extra(t)
    <3>1. Admitted(p) \in SUBSET Counted(p) /\ Counted(p) \in SUBSET Conn
      BY DEF Admitted, Counted
    <3>2. /\ Cardinality(Admitted(p)) <= Cardinality(Counted(p))
          /\ Cardinality(Admitted(p)) \in Nat /\ Cardinality(Counted(p)) \in Nat
      BY <3>1, RequestSets
    <3>3. QED  BY <2>1, <3>2 DEF ProfileCounterExact, Extra, TypeOK
  <2>3. MaxStreams[p] + Extra(t) \in ProfileBounds[p]
    BY DEF ProfileBounds, Extra
  <2>4. c \notin Admitted(p)
    BY <2>1 DEF Admitted, Counted
  <2>5. \A q \in Profile : Admitted(q)' = IF q = p THEN Admitted(p) \cup {c} ELSE Admitted(q)
    BY <1>1, <2>1 DEF Admitted, Counted, Limited, TypeOK
  <2>6. [q \in Profile |-> Admitted(q)]'
          = [[q \in Profile |-> Admitted(q)] EXCEPT ![p] = @ \cup {c}]
    BY <2>5
  <2>7. \E n \in ProfileBounds[p] : Cardinality(Admitted(p)) < n
    BY <2>2, <2>3
  <2>8. QED  BY <2>4, <2>6, <2>7 DEF Profiles!Acquire, Profiles!Cardinality, Cardinality
<1>2. CASE NoneAdmitted
  <2>1. CASE UNCHANGED <<pc, prof>>
    BY <2>1 DEF Admitted, Counted, Limited
  <2>2. ASSUME NEW c \in Conn, \A d \in Conn : d # c => pc'[d] = pc[d] /\ prof'[d] = prof[d]
        PROVE  \/ UNCHANGED [p \in Profile |-> Admitted(p)]
               \/ prof[c] \in Profile /\ Profiles!Leave(c, prof[c])
    <3>1. CASE \A q \in Profile : Admitted(q)' = Admitted(q)
      BY <3>1
    <3>2. CASE \E q \in Profile : Admitted(q)' # Admitted(q)
      <4>1. PICK q \in Profile : Admitted(q)' # Admitted(q)
        BY <3>2
      <4>2. \A r \in Profile : Admitted(r)' \in {Admitted(r), Admitted(r) \ {c}}
        <5>1. ASSUME NEW r \in Profile
              PROVE  Admitted(r)' \subseteq Admitted(r) /\ Admitted(r) \ {c} \subseteq Admitted(r)'
          BY <1>2, <2>2 DEF NoneAdmitted, Admitted, Counted, Limited
        <5>2. QED  BY <5>1
      <4>3. c \in Admitted(q) /\ prof[c] = q /\ Admitted(q)' = Admitted(q) \ {c}
        BY <4>1, <4>2 DEF Admitted, Counted
      <4>4. \A r \in Profile : r # q => Admitted(r)' = Admitted(r)
        BY <4>2, <4>3 DEF Admitted, Counted
      <4>5. QED  BY <4>3, <4>4 DEF Profiles!Leave
    <3>3. QED  BY <3>1, <3>2
  <2>3. QED  BY <2>1, <2>2, OneMoves DEF Profiles!Next
<1>3. CASE ~NoneAdmitted
  <2>1. PICK c \in Conn, p \in Profile, t \in BOOLEAN, held \in 0..MaxHeld :
             IncrProfile(c, p, t, held)
    BY <1>3, OthersAdmitNone
  <2>2. pc'[c] # "undo_profile"
    BY <1>3, <2>1 DEF NoneAdmitted, IncrProfile, Begin, TypeOK, Goto
  <2>3. QED  BY <1>1, <2>1, <2>2 DEF Profiles!Next
<1>4. QED  BY <1>2, <1>3

\* The Redis counters of the profiles, incremented first and checked after,
\* implement one counting semaphore per profile.
THEOREM ProfilesImplementSemaphores == Spec => ProfilesAreSemaphores
<1>1. Init => Profiles!Init
  BY DEF Init, Profiles!Init, Admitted, Counted
<1>2. TypeOK /\ ProfileCounterExact /\ [Next]_vars
        => [Profiles!Next]_([p \in Profile |-> Admitted(p)])
  BY ProfilesStep
<1>3. QED  BY <1>1, <1>2, TypeCorrect, CountersExact, PTL
           DEF Spec, ProfilesAreSemaphores, Profiles!Spec

\* A step is an Acquire or a Leave of one login's semaphore, or a stutter.
LEMMA LoginsStep ==
  ASSUME TypeOK, ProfileCounterExact, LoginCounterCovers, [Next]_vars
  PROVE  [Logins!Next]_([l \in Login |-> LoginAdmitted(l)])
<1>1. ASSUME NEW c \in Conn, NEW held \in 0..MaxHeld, IncrLogin(c, held), pc'[c] = "remember"
      PROVE  \E k \in Login : Logins!Acquire(c, k)
  <2> DEFINE k == LoginOf[prof[c]]
  <2>1. /\ UNCHANGED <<prof, trial>> /\ \A d \in Conn : d # c => pc'[d] = pc[d]
        /\ prof[c] \in Profile /\ k \in Login /\ Limited(prof[c])
    BY <1>1, LoginStepsAreLocal DEF TouchesLogin
  <2>2. server_group_connections[k] + 1 <= Limit(c) /\ pc[c] = "reserve_login"
    BY <1>1, <2>1 DEF IncrLogin, Goto, TypeOK, Limit, Extra
  <2>3. Limit(c) \in LoginBounds[k]
    <3>1. Limit(c) \in ProfileBounds[prof[c]]
      BY <2>1 DEF ProfileBounds, Limit, Extra
    <3>2. QED  BY <2>1, <3>1 DEF LoginBounds
  <2>4. c \notin LoginAdmitted(k)
    BY <2>2 DEF LoginAdmitted, LoginCounted
  <2>5. \E n \in LoginBounds[k] : Cardinality(LoginAdmitted(k)) < n
    <3>1. /\ Cardinality(LoginAdmitted(k)) <= Cardinality(LoginCounted(k))
          /\ Cardinality(LoginAdmitted(k)) \in Nat /\ Cardinality(LoginCounted(k)) \in Nat
      BY <2>1, LoginSets, RequestSets
    <3>2. server_group_connections[k] >= Cardinality(LoginCounted(k))
      BY <2>1 DEF LoginCounterCovers
    <3>3. Cardinality(LoginAdmitted(k)) < Limit(c)
      BY <2>1, <2>2, <3>1, <3>2 DEF TypeOK, Limit, Extra
    <3>4. QED  BY <2>3, <3>3
  <2>6. \A l \in Login :
          LoginAdmitted(l)' = IF l = k THEN LoginAdmitted(k) \cup {c} ELSE LoginAdmitted(l)
    BY <1>1, <2>1 DEF LoginAdmitted, LoginCounted, Limited
  <2>7. [l \in Login |-> LoginAdmitted(l)]'
          = [[l \in Login |-> LoginAdmitted(l)] EXCEPT ![k] = @ \cup {c}]
    BY <2>6
  <2>8. Logins!Acquire(c, k)
    BY <2>1, <2>4, <2>5, <2>7 DEF Logins!Acquire, Logins!Cardinality, Cardinality
  <2>9. QED  BY <2>1, <2>8
<1>2. CASE \A l \in Login : LoginAdmitted(l)' \in SUBSET LoginAdmitted(l)
  <2>1. CASE UNCHANGED <<pc, prof>>
    BY <2>1 DEF LoginAdmitted, LoginCounted, Limited
  <2>2. ASSUME NEW c \in Conn, \A d \in Conn : d # c => pc'[d] = pc[d] /\ prof'[d] = prof[d]
        PROVE  \/ UNCHANGED [l \in Login |-> LoginAdmitted(l)]
               \/ \E k \in Login : Logins!Leave(c, k)
    <3>1. CASE \A l \in Login : LoginAdmitted(l)' = LoginAdmitted(l)
      BY <3>1
    <3>2. CASE \E l \in Login : LoginAdmitted(l)' # LoginAdmitted(l)
      <4>1. PICK k \in Login : LoginAdmitted(k)' # LoginAdmitted(k)
        BY <3>2
      <4>2. \A l \in Login : LoginAdmitted(l)' \in {LoginAdmitted(l), LoginAdmitted(l) \ {c}}
        <5>1. ASSUME NEW l \in Login
              PROVE  LoginAdmitted(l) \ {c} \subseteq LoginAdmitted(l)'
          BY <2>2 DEF LoginAdmitted, LoginCounted, Limited
        <5>2. QED  BY <1>2, <5>1
      <4>3. c \in LoginAdmitted(k) /\ LoginAdmitted(k)' = LoginAdmitted(k) \ {c}
        BY <4>1, <4>2
      <4>4. \A l \in Login : l # k => LoginAdmitted(l)' = LoginAdmitted(l)
        BY <4>2, <4>3 DEF LoginAdmitted, LoginCounted
      <4>5. Logins!Leave(c, k)
        BY <4>3, <4>4 DEF Logins!Leave
      <4>6. QED  BY <4>5
    <3>3. QED  BY <3>1, <3>2
  <2>3. QED  BY <2>1, <2>2, OneMoves DEF Logins!Next
<1>3. CASE ~ \E c \in Conn : TouchesLogin(c)
  <2>1. NoLoginTaken
    BY <1>3, OthersTakeNoLogin
  <2>2. QED  BY <1>2, <2>1 DEF NoLoginTaken, LoginAdmitted, LoginCounted, Limited, TakingPC
<1>4. ASSUME NEW c \in Conn, TouchesLogin(c), pc'[c] # "remember"
      PROVE  \A l \in Login : LoginAdmitted(l)' \in SUBSET LoginAdmitted(l)
  <2>1. UNCHANGED <<prof, trial>> /\ \A d \in Conn : d # c => pc'[d] = pc[d]
    BY <1>4, LoginStepsAreLocal
  <2>2. pc'[c] \notin TakingPC \/ pc'[c] = "undo_login"
    BY <1>4 DEF TouchesLogin, UndoLogin, DecrLogin, IncrLogin, Goto, TypeOK, TakingPC
  <2>3. QED  BY <2>1, <2>2 DEF LoginAdmitted, LoginCounted, Limited, TakingPC
<1>5. ASSUME NEW c \in Conn, UndoLogin(c) \/ DecrLogin(c)
      PROVE  pc'[c] # "remember"
  BY <1>5 DEF UndoLogin, DecrLogin, Goto, TypeOK
<1>6. QED  BY <1>1, <1>2, <1>3, <1>4, <1>5 DEF TouchesLogin, Logins!Next

\* The counters of the provider logins implement one counting semaphore per login.
THEOREM LoginsImplementSemaphores == Spec => LoginsAreSemaphores
<1>1. Init => Logins!Init
  BY DEF Init, Logins!Init, LoginAdmitted, LoginCounted
<1>2. TypeOK /\ ProfileCounterExact /\ LoginCounterCovers /\ [Next]_vars
        => [Logins!Next]_([l \in Login |-> LoginAdmitted(l)])
  BY LoginsStep
<1>3. QED  BY <1>1, <1>2, TypeCorrect, CountersExact, LoginCounterCoversHolds, PTL
           DEF Spec, LoginsAreSemaphores, Logins!Spec

(***************************************************************************)
(* Switches                                                                 *)
(***************************************************************************)
\* The shape of what the counters depend on.
Shape ==
  /\ profile_connections \in [Profile -> Int]
  /\ server_group_connections \in [Login -> Int]
  /\ credential_release \in [Profile -> Login \cup {NoLogin, NotPooled}]
  /\ pc \in [Conn -> PC \cup SwitchPC]
  /\ prof \in [Conn -> Profile \cup {NoProfile}]
  /\ target \in [Conn -> Profile \cup {NoProfile}]
  /\ url \in [Conn -> Profile \cup {NoProfile}]

Pulled == upstream \in [Conn -> Profile \cup {NoProfile}]
OwnKeys == \A p \in Profile : credential_release[p] \in {NoLogin, LoginOf[p]}

\* What holds of a request at each place.
Places ==
  \A c \in Conn : /\ (pc[c] = "idle") <=> (prof[c] = NoProfile)
                  /\ pc[c] \in SwitchPC => target[c] # NoProfile

\* Who is about to move off a limited profile has read that it is counted.
Seen ==
  /\ had_count \in [Conn -> BOOLEAN]
  /\ \A c \in Conn : pc[c] = "move_count" /\ Limited(prof[c]) => had_count[c]

SwitchInv == Shape /\ Pulled /\ OwnKeys /\ Places /\ Seen /\ SwitchCounterExact

(***************************************************************************)
(* Counting                                                                 *)
(***************************************************************************)
\* Sets of requests are finite, and one request more or less is one more or less.
LEMMA Sizes ==
  ASSUME NEW S \in SUBSET Conn
  PROVE  /\ Cardinality(S) \in Nat
         /\ Cardinality(S) = 0 <=> S = {}
         /\ \A c \in Conn : c \notin S => Cardinality(S \cup {c}) = Cardinality(S) + 1
         /\ \A c \in S : Cardinality(S \ {c}) = Cardinality(S) - 1
BY RequestSets, FS_EmptySet

\* A request on a limited profile reads a positive count.
LEMMA ReadsItself ==
  ASSUME Shape, SwitchCounterExact, NEW c \in Conn, prof[c] \in Profile, Limited(prof[c])
  PROVE  profile_connections[prof[c]] > 0
<1>1. Counted(prof[c]) \in SUBSET Conn /\ Counted(prof[c]) # {}
  BY DEF Counted
<1>2. Cardinality(Counted(prof[c])) \in Nat /\ Cardinality(Counted(prof[c])) # 0
  BY <1>1, Sizes
<1>3. QED  BY <1>2 DEF SwitchCounterExact, Shape

\* A step that moves no request and no count.
LEMMA SwitchExactKept ==
  ASSUME SwitchCounterExact, UNCHANGED <<profile_connections, prof>>
  PROVE  SwitchCounterExact'
BY DEF SwitchCounterExact, Counted, Limited

\* The counts of the limited profiles follow request c from where it was to x.
Follows(c, x) ==
  \A q \in Profile : Limited(q) =>
    profile_connections'[q] = profile_connections[q] + (IF q = x THEN 1 ELSE 0)
                                                     - (IF q = prof[c] THEN 1 ELSE 0)

\* A request goes from where it was to x (or from or to nowhere), and its count with it.
LEMMA ExactMoves ==
  ASSUME Shape, SwitchCounterExact, NEW c \in Conn, NEW x \in Profile \cup {NoProfile},
         prof' = [prof EXCEPT ![c] = x], Follows(c, x)
  PROVE  SwitchCounterExact'
<1> SUFFICES ASSUME NEW q \in Profile, Limited(q)
             PROVE  profile_connections'[q] = Cardinality(Counted(q)')
  BY DEF SwitchCounterExact, Limited
<1>0. profile_connections'[q] = profile_connections[q] + (IF q = x THEN 1 ELSE 0)
                                                       - (IF q = prof[c] THEN 1 ELSE 0)
  BY DEF Follows
<1>1. Counted(q) \in SUBSET Conn /\ profile_connections[q] = Cardinality(Counted(q))
  BY DEF Counted, SwitchCounterExact
<1>2. c \in Counted(q) <=> q = prof[c]
  BY DEF Counted
<1>3. CASE q = x /\ q # prof[c]
  <2>1. Counted(q)' = Counted(q) \cup {c}
    BY <1>3 DEF Counted, Limited, Shape
  <2>2. QED  BY <1>0, <1>1, <1>2, <1>3, <2>1, Sizes
<1>4. CASE q # x /\ q = prof[c]
  <2>1. Counted(q)' = Counted(q) \ {c}
    BY <1>4 DEF Counted, Limited, Shape
  <2>2. QED  BY <1>0, <1>1, <1>2, <1>4, <2>1, Sizes
<1>5. CASE (q = x) <=> (q = prof[c])
  <2>1. Counted(q)' = Counted(q)
    BY <1>5 DEF Counted, Limited, Shape
  <2>2. profile_connections'[q] = profile_connections[q]
    BY <1>0, <1>5 DEF Shape
  <2>3. QED  BY <1>1, <2>1, <2>2
<1>6. QED  BY <1>3, <1>4, <1>5

(***************************************************************************)
(* The shape of the state                                                   *)
(***************************************************************************)
\* Nobody has or waits for anything at first.
LEMMA InitInv == SwitchInit => SwitchInv
<1>1. ASSUME SwitchInit, NEW p \in Profile PROVE Counted(p) = {}
  BY <1>1 DEF SwitchInit, Init, Counted
<1>2. ASSUME SwitchInit PROVE SwitchCounterExact
  BY <1>1, <1>2, FS_EmptySet DEF SwitchInit, Init, SwitchCounterExact
<1>3. ASSUME SwitchInit PROVE Shape /\ Pulled /\ OwnKeys /\ Places /\ Seen
  BY <1>3 DEF SwitchInit, Init, Shape, Pulled, OwnKeys, Places, Seen, PC, SwitchPC
<1>4. QED  BY <1>2, <1>3 DEF SwitchInv

\* INCR, DECR and SET 0 of a login's counter, whatever the login.
LEMMA LoginCounts ==
  ASSUME NEW f \in [Login -> Int], NEW l
  PROVE  /\ Bump(f, l, 1) \in [Login -> Int]
         /\ Bump(f, l, -1) \in [Login -> Int]
         /\ [f EXCEPT ![l] = 0] \in [Login -> Int]
<1>1. CASE l \in Login
  BY <1>1 DEF Bump
<1>2. CASE l \notin Login
  <2>1. /\ Bump(f, l, 1) = [k \in Login |-> f[k]]
        /\ Bump(f, l, -1) = [k \in Login |-> f[k]]
        /\ [f EXCEPT ![l] = 0] = [k \in Login |-> f[k]]
    BY <1>2 DEF Bump
  <2>2. QED  BY <2>1
<1>3. QED  BY <1>1, <1>2

\* A step of one request that changes only the counter of a login.
LEMMA LoginStep ==
  ASSUME Shape, OwnKeys, Places, NEW c \in Conn, pc[c] # "idle",
         NEW l \in (PC \cup SwitchPC) \ {"idle"},
         l \in SwitchPC => target[c] # NoProfile,
         pc' = [pc EXCEPT ![c] = l],
         server_group_connections' \in [Login -> Int],
         UNCHANGED <<profile_connections, credential_release, prof, target, url>>
  PROVE  Shape' /\ OwnKeys' /\ Places'
BY DEF Shape, OwnKeys, Places, PC, SwitchPC

\* A reservation or a release keeps the shape, the keys and the places.
LEMMA PoolKeepsShape ==
  ASSUME Shape, OwnKeys, Places, NEW c \in Conn, PoolStep(c)
  PROVE  Shape' /\ OwnKeys' /\ Places'
<1> USE DEF Shape, OwnKeys, Places, PC, SwitchPC, Goto, Bump, counters, local
<1>1. target[c] = NoProfile /\ UNCHANGED <<target, url>>
  BY DEF PoolStep
<1>2. ASSUME NEW p \in Profile, NEW t \in Trials, ReserveUnlimited(c, p, t)
      PROVE  Shape' /\ OwnKeys' /\ Places'
  BY <1>1, <1>2 DEF ReserveUnlimited, Begin
<1>3. ASSUME NEW p \in Profile, NEW t \in Trials, NEW held \in 0..MaxHeld, IncrProfile(c, p, t, held)
      PROVE  Shape' /\ OwnKeys' /\ Places'
  BY <1>1, <1>3 DEF IncrProfile, Begin
<1>4. CASE UndoProfile(c)
  BY <1>1, <1>4 DEF UndoProfile, Finish
<1>5. CASE SkipLogin(c) \/ RefuseUnknownLogin(c)
  BY <1>1, <1>5 DEF SkipLogin, RefuseUnknownLogin
<1>6. ASSUME NEW held \in 0..MaxHeld, IncrLogin(c, held)
      PROVE  Shape' /\ OwnKeys' /\ Places'
  <2>1. server_group_connections' \in [Login -> Int]
    BY <1>6, LoginCounts DEF IncrLogin
  <2>2. QED  BY <1>1, <1>6, <2>1, LoginStep DEF IncrLogin
<1>7. CASE UndoLogin(c)
  <2>1. server_group_connections' \in [Login -> Int]
    BY <1>7, LoginCounts DEF UndoLogin
  <2>2. QED  BY <1>1, <1>7, <2>1, LoginStep DEF UndoLogin
<1>8. CASE Remember(c)
  BY <1>1, <1>8 DEF Remember
<1>9. CASE BeginRelease(c)
  BY <1>1, <1>9 DEF BeginRelease
<1>10. CASE ReadReleaseKey(c, "read_count")
  BY <1>1, <1>10 DEF ReadReleaseKey
<1>11. CASE DecrementLogin(c)
  BY <1>1, <1>11 DEF DecrementLogin, ReadLoginCount, DecrLogin
<1>12. CASE ForgetKey(c, "read_count")
  BY <1>1, <1>12 DEF ForgetKey
<1>13. CASE ReadProfileCount(c)
  <2>1. CASE profile_connections[prof[c]] > 0
    BY <1>1, <1>13, <2>1 DEF ReadProfileCount
  <2>2. CASE ~(profile_connections[prof[c]] > 0)
    BY <1>1, <1>13, <2>2 DEF ReadProfileCount, Finish
  <2>3. QED  BY <2>1, <2>2
<1>14. CASE DecrProfile(c)
  BY <1>1, <1>14 DEF DecrProfile, Finish
<1>15. CASE ZeroLogin(c)
  <2>1. server_group_connections' \in [Login -> Int]
    BY <1>15, LoginCounts DEF ZeroLogin
  <2>2. QED  BY <1>1, <1>15, <2>1, LoginStep DEF ZeroLogin
<1>16. QED
  BY <1>2, <1>3, <1>4, <1>5, <1>6, <1>7, <1>8, <1>9, <1>10, <1>11, <1>12, <1>13, <1>14, <1>15
  DEF PoolStep, Reserve, Release

\* So does the choice of a stream, or a step of the move to it.
LEMMA SwitchKeepsShape ==
  ASSUME Shape, OwnKeys, Places, NEW c \in Conn, Choose(c) \/ Move(c)
  PROVE  Shape' /\ OwnKeys' /\ Places'
<1> USE DEF Shape, OwnKeys, Places, PC, SwitchPC, Goto, Bump, counters, local, switching
<1>1. ASSUME NEW p \in Profile, PickAlternate(c, p) PROVE Shape' /\ OwnKeys' /\ Places'
  BY <1>1 DEF PickAlternate
<1>2. ASSUME NEW p \in Profile, PickUrl(c, p) PROVE Shape' /\ OwnKeys' /\ Places'
  BY <1>2 DEF PickUrl
<1>3. CASE NoUrl(c)
  BY <1>3 DEF NoUrl
<1>4. CASE SameProfile(c)
  BY <1>4 DEF SameProfile, Reconnect
<1>5. CASE BeginMove(c)
  BY <1>5 DEF BeginMove
<1>6. CASE ReleaseOldLogin(c)
  <2>1. CASE ReadReleaseKey(c, "take_login")
    BY <1>6, <2>1 DEF ReleaseOldLogin, ReadReleaseKey
  <2>2. CASE DecrementLogin(c)
    BY <1>6, <2>2 DEF ReleaseOldLogin, DecrementLogin, ReadLoginCount, DecrLogin
  <2>3. CASE ZeroLogin(c)
    <3>1. server_group_connections' \in [Login -> Int]
      BY <2>3, LoginCounts DEF ZeroLogin
    <3>2. target[c] # NoProfile /\ UNCHANGED <<target, url>>
      BY <1>6 DEF ReleaseOldLogin
    <3>3. QED  BY <2>3, <3>1, <3>2, LoginStep DEF ZeroLogin
  <2>4. CASE ForgetKey(c, "take_login")
    BY <1>6, <2>4 DEF ReleaseOldLogin, ForgetKey
  <2>5. QED  BY <1>6, <2>1, <2>2, <2>3, <2>4 DEF ReleaseOldLogin
<1>7. ASSUME NEW held \in 0..MaxHeld, TakeLogin(c, held) PROVE Shape' /\ OwnKeys' /\ Places'
  BY <1>7 DEF TakeLogin
<1>8. CASE UndoTake(c)
  <2>1. server_group_connections' \in [Login -> Int]
    BY <1>8, LoginCounts DEF UndoTake
  <2>2. QED  BY <1>8, <2>1, LoginStep DEF UndoTake
<1>9. CASE RememberTake(c)
  BY <1>9 DEF RememberTake
<1>10. CASE RestoreLogin(c)
  BY <1>10 DEF RestoreLogin, Reconnect
<1>11. CASE UndoRestore(c)
  <2>1. server_group_connections' \in [Login -> Int]
    BY <1>11, LoginCounts DEF UndoRestore
  <2>2. /\ pc[c] = "undo_restore" /\ pc' = [pc EXCEPT ![c] = "open"]
        /\ target' = [target EXCEPT ![c] = NoProfile] /\ url' = [url EXCEPT ![c] = NoProfile]
        /\ UNCHANGED <<profile_connections, credential_release, prof>>
    BY <1>11 DEF UndoRestore, Reconnect
  <2>3. QED  BY <2>1, <2>2
<1>12. CASE RememberRestore(c)
  BY <1>12 DEF RememberRestore, Reconnect
<1>13. CASE ReadOldCount(c)
  BY <1>13 DEF ReadOldCount
<1>14. CASE MoveCount(c)
  BY <1>14 DEF MoveCount, Reconnect
<1>15. QED
  BY <1>1, <1>2, <1>3, <1>4, <1>5, <1>6, <1>7, <1>8, <1>9, <1>10, <1>11, <1>12, <1>13, <1>14
  DEF Choose, Move

\* What is pulled is the profile that was opened, the URL's, or nothing.
LEMMA PulledStep ==
  ASSUME Shape, Shape', Pulled, NEW c \in Conn, PoolStep(c) \/ Choose(c) \/ Move(c)
  PROVE  Pulled'
<1> USE DEF Pulled
<1>1. CASE PoolStep(c)
  <2> DEFINE x == CASE pc'[c] = "open" /\ pc[c] # "open" -> prof'[c]
                    [] pc'[c] = "read_key" -> NoProfile
                    [] OTHER -> upstream[c]
  <2>1. x \in Profile \cup {NoProfile}
    BY DEF Shape
  <2>2. upstream' = [upstream EXCEPT ![c] = x]
    BY <1>1 DEF PoolStep, Opened
  <2> HIDE DEF x
  <2>3. QED  BY <2>1, <2>2
<1>2. CASE Choose(c)
  BY <1>2 DEF Choose, PickAlternate, PickUrl, NoUrl
<1>3. CASE Move(c)
  <2>1. UNCHANGED upstream \/ upstream' = [upstream EXCEPT ![c] = url[c]]
    BY <1>3 DEF Move, SameProfile, BeginMove, ReleaseOldLogin, TakeLogin, UndoTake, RememberTake,
                RestoreLogin, UndoRestore, RememberRestore, ReadOldCount, MoveCount, Reconnect, switching
  <2>2. QED  BY <2>1 DEF Shape
<1>4. QED  BY <1>1, <1>2, <1>3

(***************************************************************************)
(* The counters of the profiles                                             *)
(***************************************************************************)
\* A step of request c moves no other, and only ReadOldCount takes it to the last step.
LEMMA ElsewhereKept ==
  ASSUME Shape, NEW c \in Conn, PoolStep(c) \/ Choose(c) \/ Move(c), ~ReadOldCount(c)
  PROVE  pc'[c] # "move_count" /\ \A d \in Conn \ {c} : pc'[d] = pc[d] /\ prof'[d] = prof[d]
<1> USE DEF Shape, Goto, local
<1>1. CASE Reserve(c)
  BY <1>1 DEF Reserve, ReserveUnlimited, IncrProfile, UndoProfile, SkipLogin, RefuseUnknownLogin,
              IncrLogin, UndoLogin, Remember, Begin, Finish
<1>2. CASE Release(c) \/ ZeroLogin(c)
  BY <1>2 DEF Release, BeginRelease, ReadReleaseKey, DecrementLogin, ReadLoginCount, DecrLogin,
              ZeroLogin, ForgetKey, ReadProfileCount, DecrProfile, Finish
<1>3. CASE Choose(c)
  BY <1>3 DEF Choose, PickAlternate, PickUrl, NoUrl
<1>4. CASE ReleaseOldLogin(c)
  BY <1>4 DEF ReleaseOldLogin, ReadReleaseKey, DecrementLogin, ReadLoginCount, DecrLogin,
              ZeroLogin, ForgetKey
<1>5. CASE SameProfile(c) \/ BeginMove(c) \/ MoveCount(c)
  BY <1>5 DEF SameProfile, BeginMove, MoveCount, Reconnect
<1>6. CASE (\E held \in 0..MaxHeld : TakeLogin(c, held)) \/ UndoTake(c) \/ RememberTake(c)
  BY <1>6 DEF TakeLogin, UndoTake, RememberTake
<1>7. CASE RestoreLogin(c) \/ UndoRestore(c) \/ RememberRestore(c)
  BY <1>7 DEF RestoreLogin, UndoRestore, RememberRestore, Reconnect
<1>8. QED  BY <1>1, <1>2, <1>3, <1>4, <1>5, <1>6, <1>7 DEF PoolStep, Move

\* What a request has read stays true: it is counted until it moves or ends.
LEMMA SeenStep ==
  ASSUME Shape, Places, Seen, SwitchCounterExact, NEW c \in Conn, PoolStep(c) \/ Choose(c) \/ Move(c)
  PROVE  Seen'
<1>1. CASE ReadOldCount(c)
  <2>1. PICK b \in BOOLEAN : /\ b <=> profile_connections[prof[c]] > 0
                             /\ had_count' = [had_count EXCEPT ![c] = b]
    <3> DEFINE b == profile_connections[prof[c]] > 0
    <3>1. had_count' = [had_count EXCEPT ![c] = b] /\ b \in BOOLEAN
      BY <1>1 DEF ReadOldCount
    <3>2. QED  BY <3>1
  <2>2. prof[c] \in Profile
    BY <1>1 DEF ReadOldCount, Shape, Places
  <2>3. Limited(prof[c]) => b
    BY <2>1, <2>2, ReadsItself
  <2>4. pc' = [pc EXCEPT ![c] = "move_count"] /\ prof' = prof
    BY <1>1 DEF ReadOldCount, Goto, local
  <2>5. QED  BY <2>1, <2>3, <2>4 DEF Seen, Shape, Limited
<1>2. CASE MoveCount(c)
  <2>1. /\ had_count' = [had_count EXCEPT ![c] = FALSE]
        /\ pc' = [pc EXCEPT ![c] = "open"]
        /\ prof' = [prof EXCEPT ![c] = target[c]]
    BY <1>2 DEF MoveCount, Reconnect, Goto
  <2>2. QED  BY <2>1 DEF Seen, Shape, Limited
<1>3. CASE ~ReadOldCount(c) /\ ~MoveCount(c)
  <2>1. UNCHANGED had_count
    BY <1>3 DEF PoolStep, Choose, PickAlternate, PickUrl, NoUrl, Move, SameProfile, BeginMove,
                ReleaseOldLogin, TakeLogin, UndoTake, RememberTake, RestoreLogin, UndoRestore,
                RememberRestore, switching
  <2>2. pc'[c] # "move_count" /\ \A d \in Conn \ {c} : pc'[d] = pc[d] /\ prof'[d] = prof[d]
    BY <1>3, ElsewhereKept
  <2>3. QED  BY <2>1, <2>2 DEF Seen, Limited
<1>4. QED  BY <1>1, <1>2, <1>3

\* The counts stay exact.
LEMMA SwitchExactStep ==
  ASSUME Shape, Places, Seen, SwitchCounterExact, NEW c \in Conn, PoolStep(c) \/ Choose(c) \/ Move(c)
  PROVE  SwitchCounterExact'
<1>0. /\ \A q \in Profile : q # NoProfile /\ profile_connections[q] \in Int
      /\ NoProfile \in Profile \cup {NoProfile}
  BY DEF Shape
<1>1. CASE PoolStep(c)
  <2>1. ASSUME NEW p \in Profile, NEW t \in Trials, ReserveUnlimited(c, p, t)
        PROVE  SwitchCounterExact'
    <3>1. /\ prof[c] = NoProfile /\ ~Limited(p) /\ UNCHANGED profile_connections
          /\ prof' = [prof EXCEPT ![c] = p]
      BY <2>1 DEF ReserveUnlimited, Places, Begin, counters
    <3>2. Follows(c, p)
      BY <3>1, <1>0 DEF Follows
    <3>3. p \in Profile \cup {NoProfile}
      OBVIOUS
    <3>4. QED  BY <3>1, <3>2, <3>3, ExactMoves
  <2>2. ASSUME NEW p \in Profile, NEW t \in Trials, NEW held \in 0..MaxHeld, IncrProfile(c, p, t, held)
        PROVE  SwitchCounterExact'
    <3>1. /\ prof[c] = NoProfile /\ profile_connections' = Bump(profile_connections, p, 1)
          /\ prof' = [prof EXCEPT ![c] = p]
      BY <2>2 DEF IncrProfile, Places, Begin
    <3>2. Follows(c, p)
      BY <3>1, <1>0 DEF Follows, Bump, Shape
    <3>3. p \in Profile \cup {NoProfile}
      OBVIOUS
    <3>4. QED  BY <3>1, <3>2, <3>3, ExactMoves
  <2>3. CASE UndoProfile(c) \/ DecrProfile(c)
    <3>1. profile_connections' = Bump(profile_connections, prof[c], -1)
          /\ prof' = [prof EXCEPT ![c] = NoProfile]
      BY <2>3 DEF UndoProfile, DecrProfile, Finish
    <3>2. Follows(c, NoProfile)
      BY <3>1, <1>0 DEF Follows, Bump, Shape
    <3>3. QED  BY <1>0, <3>1, <3>2, ExactMoves
  <2>4. CASE ReadProfileCount(c)
    <3>1. prof[c] \in Profile
      BY <2>4 DEF ReadProfileCount, Places, Shape
    <3>2. CASE profile_connections[prof[c]] > 0
      BY <2>4, <3>2, SwitchExactKept DEF ReadProfileCount, counters, local
    <3>3. CASE ~(profile_connections[prof[c]] > 0)
      <4>1. ~Limited(prof[c])
        BY <3>1, <3>3, ReadsItself
      <4>2. prof' = [prof EXCEPT ![c] = NoProfile] /\ UNCHANGED profile_connections
        BY <2>4, <3>3 DEF ReadProfileCount, Finish, counters
      <4>3. Follows(c, NoProfile)
        BY <4>1, <4>2, <1>0 DEF Follows
      <4>4. QED  BY <1>0, <4>2, <4>3, ExactMoves
    <3>4. QED  BY <3>2, <3>3
  <2>5. CASE \/ SkipLogin(c) \/ RefuseUnknownLogin(c) \/ \E held \in 0..MaxHeld : IncrLogin(c, held)
             \/ UndoLogin(c) \/ Remember(c) \/ BeginRelease(c) \/ ReadReleaseKey(c, "read_count")
             \/ DecrementLogin(c) \/ ForgetKey(c, "read_count") \/ ZeroLogin(c)
    BY <2>5, SwitchExactKept
    DEF SkipLogin, RefuseUnknownLogin, IncrLogin, UndoLogin, Remember, BeginRelease, ReadReleaseKey,
        DecrementLogin, ReadLoginCount, DecrLogin, ForgetKey, ZeroLogin, counters, local
  <2>6. QED  BY <1>1, <2>1, <2>2, <2>3, <2>4, <2>5 DEF PoolStep, Reserve, Release
<1>2. CASE MoveCount(c)
  <2>1. /\ pc[c] = "move_count"
        /\ prof' = [prof EXCEPT ![c] = target[c]]
        /\ profile_connections' =
             Bump(IF had_count[c] THEN Bump(profile_connections, prof[c], -1) ELSE profile_connections,
                  target[c], 1)
    BY <1>2 DEF MoveCount
  <2>2. prof[c] \in Profile /\ target[c] \in Profile /\ (Limited(prof[c]) => had_count[c])
    BY <2>1 DEF Places, Shape, Seen, SwitchPC
  <2>3. ASSUME NEW q \in Profile, Limited(q)
        PROVE  profile_connections'[q] = profile_connections[q] + (IF q = target[c] THEN 1 ELSE 0)
                                                                - (IF q = prof[c] THEN 1 ELSE 0)
    <3>1. CASE had_count[c]
      BY <2>1, <2>2, <3>1 DEF Bump, Shape
    <3>2. CASE ~had_count[c]
      <4>1. q # prof[c]
        BY <2>2, <2>3, <3>2
      <4>2. QED  BY <2>1, <2>2, <3>2, <4>1 DEF Bump, Shape
    <3>3. QED  BY <3>1, <3>2
  <2>4. Follows(c, target[c])
    BY <2>3 DEF Follows
  <2>5. target[c] \in Profile \cup {NoProfile}
    BY <2>2
  <2>6. QED  BY <2>1, <2>4, <2>5, ExactMoves
<1>3. CASE (Choose(c) \/ Move(c)) /\ ~MoveCount(c)
  BY <1>3, SwitchExactKept
  DEF Choose, PickAlternate, PickUrl, NoUrl, Move, SameProfile, BeginMove, ReleaseOldLogin,
      ReadReleaseKey, DecrementLogin, ReadLoginCount, DecrLogin, ZeroLogin, ForgetKey, TakeLogin,
      UndoTake, RememberTake, RestoreLogin, UndoRestore, RememberRestore, ReadOldCount, counters, local
<1>4. QED  BY <1>1, <1>2, <1>3

(***************************************************************************)
(* The theorems                                                              *)
(***************************************************************************)
\* Every step of the specification keeps the invariant.
LEMMA SwitchStep == SwitchInv /\ [SwitchNext]_switchVars => SwitchInv'
<1> SUFFICES ASSUME SwitchInv, [SwitchNext]_switchVars PROVE SwitchInv'
  OBVIOUS
<1>1. Shape /\ Pulled /\ OwnKeys /\ Places /\ Seen /\ SwitchCounterExact
  BY DEF SwitchInv
<1>2. ASSUME NEW c \in Conn, PoolStep(c) \/ Choose(c) \/ Move(c) PROVE SwitchInv'
  <2>1. Shape' /\ OwnKeys' /\ Places'
    BY <1>1, <1>2, PoolKeepsShape, SwitchKeepsShape
  <2>2. Pulled'
    BY <1>1, <1>2, <2>1, PulledStep
  <2>3. Seen'
    BY <1>1, <1>2, SeenStep
  <2>4. SwitchCounterExact'
    BY <1>1, <1>2, SwitchExactStep
  <2>5. QED  BY <2>1, <2>2, <2>3, <2>4 DEF SwitchInv
<1>3. CASE UNCHANGED switchVars
  BY <1>1, <1>3 DEF SwitchInv, Shape, Pulled, OwnKeys, Places, Seen, SwitchCounterExact, Counted,
                    Limited, switchVars, vars, counters, local, switching
<1>4. QED  BY <1>2, <1>3 DEF SwitchNext

\* The invariant holds of every reachable state.
THEOREM SwitchInductive == SwitchSpec => []SwitchInv
<1>1. QED  BY InitInv, SwitchStep, PTL DEF SwitchSpec

\* Through any switches, the shape of the state, and each release key that of its profile
\* (move_credential_slot_on_profile_switch).
THEOREM SwitchTypeCorrect == SwitchSpec => []SwitchTypeOK
<1>1. SwitchInv => SwitchTypeOK
  BY DEF SwitchInv, Shape, Pulled, OwnKeys, Places, SwitchTypeOK
<1>2. QED  BY <1>1, SwitchInductive, PTL

\* update_stream_profile moves one slot, wherever the switch of another request stands:
\* the count of a limited profile is always the number of requests on it.
THEOREM SwitchCountersExact == SwitchSpec => []SwitchCounterExact
<1>1. SwitchInv => SwitchCounterExact
  BY DEF SwitchInv
<1>2. QED  BY <1>1, SwitchInductive, PTL

(***************************************************************************)
(* Guides (EpgRefresh): the shape of the state                              *)
(***************************************************************************)
\* What EpgAssumption says of the constants, with what None is not in one set; it is used
\* in all of what follows.
LEMMA GuideAssumption ==
  /\ Lapsing \subseteq {"refresh", "file"} \cup Guide
  /\ None \notin {"refresh", "index"} \cup Guide \cup SUBSET Guide
  /\ {"refresh", "index", "file"} \cap Guide = {}
  /\ MaxEdition \in Nat \ {0} /\ MaxRefreshes \in Nat /\ MaxBuilds \in Nat
  /\ MaxMaps \in [Guide -> Nat] /\ MaxTrouble \in Nat
BY EpgAssumption

USE GuideAssumption

\* Where a worker can be, by the task that it runs; it has read an edition where it needs
\* one.
TaskPlace(w) ==
  /\ job[w] = None => at[w] = "away"
  /\ job[w] = "refresh" => at[w] \in Refreshing
  /\ job[w] = "index" => at[w] \in {"scan", "save", "unlock"}
  /\ job[w] \in Guide => at[w] \in {"incr", "lock", "decr", "zero"} \cup Parsing
  /\ at[w] \in {"save", "delete", "orphans", "commit"} => read[w] # 0
TaskPlaces == \A w \in Worker : TaskPlace(w)

\* The types of GuideTypeOK, but for the counter's range.
TaskTypes ==
  /\ locks \subseteq Lock
  /\ count \in Int
  /\ queue \in [Job -> Nat]
  /\ edition \in Edition /\ file \in 0 .. edition /\ index \in Edition \cup {None}
  /\ failed \in BOOLEAN
  /\ mapped \subseteq Guide /\ rows \in [Guide -> SUBSET Edition]
  /\ at \in [Worker -> Place] /\ job \in [Worker -> Job \cup {None}]
  /\ read \in [Worker -> 0 .. edition] /\ ids \in [Worker -> (SUBSET Guide) \cup {None}]
  /\ unmapped \in [Worker -> SUBSET Guide]
  /\ gone \in [Worker -> [Guide -> SUBSET Edition]]
TaskShape == TaskTypes /\ TaskPlaces

\* No task runs at first.
LEMMA InitTasks == GuideInit => TaskShape
<1> SUFFICES ASSUME GuideInit PROVE TaskShape
  OBVIOUS
<1>1. TaskTypes
  <2>1. 1 \in Edition /\ \A f \in {0, 1} : f \in 0 .. 1
    BY DEF Edition
  <2>2. rows \in [Guide -> SUBSET Edition] /\ mapped \subseteq Guide
    BY <2>1 DEF GuideInit
  <2>3. queue \in [Job -> Nat]
    BY DEF GuideInit
  <2>4. at \in [Worker -> Place] /\ job \in [Worker -> Job \cup {None}]
    BY DEF GuideInit, Place
  <2>5. read \in [Worker -> 0 .. edition] /\ ids \in [Worker -> (SUBSET Guide) \cup {None}]
    BY DEF GuideInit
  <2>6. gone \in [Worker -> [Guide -> SUBSET Edition]] /\ unmapped \in [Worker -> SUBSET Guide]
    BY DEF GuideInit, NoRows
  <2>7. locks \subseteq Lock /\ count \in Int /\ index \in Edition \cup {None}
    BY DEF GuideInit
  <2>10. failed \in BOOLEAN
    BY DEF GuideInit
  <2>8. edition \in Edition /\ file \in 0 .. edition
    BY <2>1 DEF GuideInit
  <2>9. QED  BY <2>2, <2>3, <2>4, <2>5, <2>6, <2>7, <2>8, <2>10 DEF TaskTypes
<1>2. TaskPlaces
  BY DEF GuideInit, TaskPlaces, TaskPlace
<1>3. QED  BY <1>1, <1>2 DEF TaskShape

\* What worker w does changes the place of no other.
LEMMA OtherTasks ==
  ASSUME TaskShape, NEW w \in Worker, TaskTypes', TaskPlace(w)',
         \A v \in Worker \ {w} : at'[v] = at[v] /\ job'[v] = job[v] /\ read'[v] = read[v]
  PROVE  TaskShape'
BY DEF TaskShape, TaskPlaces, TaskPlace

\* Who takes a message, and only that worker, runs its task, unless that is over at once.
LEMMA TakesTyped ==
  ASSUME TaskShape, NEW w \in Worker, NEW j \in Job, NEW p \in Place, Takes(w, j, p)
  PROVE  /\ queue' \in [Job -> Nat] /\ at' \in [Worker -> Place]
         /\ job' \in [Worker -> Job \cup {None}]
         /\ \A v \in Worker \ {w} : at'[v] = at[v] /\ job'[v] = job[v]
         /\ p # "away" => at'[w] = p /\ job'[w] = j
         /\ p = "away" => at'[w] = at[w] /\ job'[w] = job[w]
<1>1. queue' \in [Job -> Nat]
  BY DEF Takes, TaskShape, TaskTypes
<1>2. at \in [Worker -> Place] /\ job \in [Worker -> Job \cup {None}]
  BY DEF TaskShape, TaskTypes
<1>3. CASE p = "away"
  BY <1>1, <1>2, <1>3 DEF Takes
<1>4. CASE p # "away"
  <2>1. at' = [at EXCEPT ![w] = p] /\ job' = [job EXCEPT ![w] = j]
    BY <1>4 DEF Takes, GoTo
  <2>2. QED  BY <1>1, <1>2, <1>4, <2>1
<1>5. QED  BY <1>3, <1>4

\* The three tasks that can be taken.
LEMMA TakesShape ==
  ASSUME TaskShape, NEW w \in Worker, Take(w)
  PROVE  TaskShape'
<1>1. "away" \in Place /\ "invalidate" \in Place /\ "incr" \in Place /\ "scan" \in Place
  BY DEF Place, Refreshing, WithFile, Parsing
<1>2. CASE TakeRefresh(w)
  <2>1. "refresh" \in Job
    BY DEF Job
  <2>2. TaskTypes'
    BY <1>1, <1>2, <2>1, TakesTyped DEF TakeRefresh, TaskShape, TaskTypes, Lock, source, guides,
       task, counts
  <2>3. TaskPlace(w)'
    BY <1>1, <1>2, <2>1, TakesTyped DEF TakeRefresh, TaskShape, TaskPlaces, TaskPlace, task,
       Refreshing
  <2>4. QED  BY <1>1, <1>2, <2>1, <2>2, <2>3, TakesTyped, OtherTasks DEF TakeRefresh, task
<1>3. CASE TakeIndex(w)
  <2>1. "index" \in Job /\ "file" \in Lock
    BY DEF Job, Lock
  <2>2. TaskTypes'
    BY <1>1, <1>3, <2>1, TakesTyped DEF TakeIndex, TaskShape, TaskTypes, source, guides, task,
       counts
  <2>3. TaskPlace(w)'
    BY <1>1, <1>3, <2>1, TakesTyped DEF TakeIndex, TaskPlace
  <2>4. QED  BY <1>1, <1>3, <2>1, <2>2, <2>3, TakesTyped, OtherTasks DEF TakeIndex, task
<1>4. ASSUME NEW g \in Guide, TakeParse(w, g) PROVE TaskShape'
  <2>1. g \in Job
    BY DEF Job
  <2>2. TaskTypes'
    BY <1>1, <1>4, <2>1, TakesTyped DEF TakeParse, TaskShape, TaskTypes, source, guides, task,
       counts
  <2>3. TaskPlace(w)'
    BY <1>1, <1>4, <2>1, TakesTyped DEF TakeParse, TaskPlace
  <2>4. QED  BY <1>1, <1>4, <2>1, <2>2, <2>3, TakesTyped, OtherTasks DEF TakeParse, task
<1>5. QED  BY <1>2, <1>3, <1>4 DEF Take

\* The places, tasks and locks that the steps name.
LEMMA PlaceNames ==
  /\ \A p \in Refreshing \cup WithFile \cup Parsing : p \in Place
  /\ \A p \in {"away", "incr", "lock", "decr", "zero"} : p \in Place
  /\ Refreshing \subseteq Place
  /\ {"refresh", "index"} \subseteq Job /\ {"refresh", "file"} \subseteq Lock 
  /\ Guide \subseteq Lock /\ Guide \subseteq Job
BY DEF Place, Job, Lock

\* The end of a task clears what its worker had.
LEMMA EndsTyped ==
  ASSUME TaskTypes, NEW w \in Worker, Ends(w)
  PROVE  /\ at' \in [Worker -> Place] /\ job' \in [Worker -> Job \cup {None}]
         /\ read' \in [Worker -> 0 .. edition] /\ ids' \in [Worker -> (SUBSET Guide) \cup {None}]
         /\ unmapped' \in [Worker -> SUBSET Guide]
         /\ gone' \in [Worker -> [Guide -> SUBSET Edition]]
         /\ at'[w] = "away" /\ job'[w] = None
         /\ \A v \in Worker \ {w} : at'[v] = at[v] /\ job'[v] = job[v] /\ read'[v] = read[v]
<1>1. at' \in [Worker -> Place] /\ at'[w] = "away" /\ \A v \in Worker \ {w} : at'[v] = at[v]
  BY PlaceNames DEF TaskTypes, Ends, GoTo
<1>2. /\ job' \in [Worker -> Job \cup {None}] /\ job'[w] = None
      /\ \A v \in Worker \ {w} : job'[v] = job[v]
  BY DEF TaskTypes, Ends
<1>3. read' \in [Worker -> 0 .. edition] /\ \A v \in Worker \ {w} : read'[v] = read[v]
  <2>1. 0 \in 0 .. edition
    BY DEF TaskTypes, Edition
  <2>2. QED  BY <2>1 DEF TaskTypes, Ends
<1>4. ids' \in [Worker -> (SUBSET Guide) \cup {None}] /\ unmapped' \in [Worker -> SUBSET Guide]
  BY DEF TaskTypes, Ends
<1>5. gone' \in [Worker -> [Guide -> SUBSET Edition]]
  <2>1. NoRows \in [Guide -> SUBSET Edition]
    BY DEF NoRows
  <2>2. QED  BY <2>1 DEF TaskTypes, Ends
<1>6. QED  BY <1>1, <1>2, <1>3, <1>4, <1>5

\* So it keeps the shape.
LEMMA EndsShape ==
  ASSUME TaskShape, NEW w \in Worker, Ends(w),
         locks' \subseteq Lock, count' \in Int, UNCHANGED <<queue, source, guides>>
  PROVE  TaskShape'
<1>1. TaskTypes'
  BY EndsTyped DEF TaskShape, TaskTypes, source, guides
<1>2. TaskPlace(w)'
  BY EndsTyped DEF TaskShape, TaskPlace
<1>3. QED  BY <1>1, <1>2, EndsTyped, OtherTasks DEF TaskShape

\* One message more.
LEMMA MoreQueued ==
  ASSUME TaskTypes, NEW j \in Job, queue' = [queue EXCEPT ![j] = @ + 1]
  PROVE  queue' \in [Job -> Nat]
BY DEF TaskTypes

\* What a task reads from the disk is an edition that was downloaded, or none.
LEMMA FileIsRead ==
  ASSUME TaskTypes, NEW w \in Worker, read' = [read EXCEPT ![w] = file]
  PROVE  read' \in [Worker -> 0 .. edition] /\ read'[w] = file
BY DEF TaskTypes

\* A transaction adds rows of the edition that was read.
LEMMA CommitsTyped ==
  ASSUME TaskShape, NEW w \in Worker, NEW added, Commits(w, added), at[w] = "commit"
  PROVE  rows' \in [Guide -> SUBSET Edition]
<1>1. read[w] \in Edition
  BY DEF TaskShape, TaskTypes, TaskPlaces, TaskPlace, Edition
<1>2. QED  BY <1>1 DEF Commits, TaskShape, TaskTypes

\* The steps of a refresh, and of a download.
LEMMA RefreshesShape ==
  ASSUME TaskShape, NEW w \in Worker, Refreshes(w) \/ DownloadFails(w)
  PROVE  TaskShape'
<1> USE PlaceNames DEF TaskShape, GoTo, At, source, guides, task, counts, Refreshing, WithFile,
      Parsing
<1>1. CASE Invalidate(w)
  <2>1. TaskTypes'
    BY <1>1 DEF Invalidate, TaskTypes
  <2>2. TaskPlace(w)'
    BY <1>1 DEF Invalidate, TaskTypes, TaskPlaces, TaskPlace
  <2>3. QED  BY <1>1, <2>1, <2>2, OtherTasks DEF Invalidate, TaskTypes
<1>2. CASE CheckCount(w)
  <2>1. TaskTypes'
    <3>1. queue' \in [Job -> Nat]
      BY <1>2, MoreQueued DEF CheckCount, TaskTypes, Defers
    <3>2. at' = [at EXCEPT ![w] = "lock"] \/ at' = [at EXCEPT ![w] = "release"]
      BY <1>2 DEF CheckCount, Defers
    <3>3. at' \in [Worker -> Place]
      BY <3>2 DEF TaskTypes
    <3>4. QED  BY <1>2, <3>1, <3>3 DEF CheckCount, TaskTypes
  <2>2. TaskPlace(w)'
    BY <1>2 DEF CheckCount, TaskTypes, TaskPlaces, TaskPlace, Defers
  <2>3. QED  BY <1>2, <2>1, <2>2, OtherTasks DEF CheckCount, TaskTypes, Defers
<1>3. CASE LockFile(w)
  <2>1. TaskTypes'
    <3>1. queue' \in [Job -> Nat]
      BY <1>3, MoreQueued DEF LockFile, TaskTypes, Defers
    <3>2. at' \in [Worker -> Place]
      BY <1>3 DEF LockFile, TaskTypes, Defers
    <3>3. QED  BY <1>3, <3>1, <3>2 DEF LockFile, TaskTypes
  <2>2. TaskPlace(w)'
    BY <1>3 DEF LockFile, TaskTypes, TaskPlaces, TaskPlace, Defers
  <2>3. QED  BY <1>3, <2>1, <2>2, OtherTasks DEF LockFile, TaskTypes, Defers
<1>4. CASE Download(w)
  <2>1. TaskTypes'
    BY <1>4 DEF Download, TaskTypes, Edition
  <2>2. TaskPlace(w)'
    BY <1>4 DEF Download, TaskTypes, TaskPlaces, TaskPlace, Edition
  <2>3. QED  BY <1>4, <2>1, <2>2, OtherTasks DEF Download, TaskTypes, Edition
<1>5. CASE Store(w)
  <2>1. TaskTypes'
    BY <1>5 DEF Store, TaskTypes, Edition
  <2>2. TaskPlace(w)'
    BY <1>5 DEF Store, TaskTypes, TaskPlaces, TaskPlace, Edition
  <2>3. QED  BY <1>5, <2>1, <2>2, OtherTasks DEF Store, TaskTypes, Edition
<1>6. CASE Reopen(w)
  <2>1. TaskTypes'
    <3>1. at' = [at EXCEPT ![w] = "unlock"] \/ at' = [at EXCEPT ![w] = "delete"]
      BY <1>6 DEF Reopen, Fails
    <3>2. at' \in [Worker -> Place]
      BY <3>1 DEF TaskTypes
    <3>3. read' \in [Worker -> 0 .. edition]
      BY <1>6 DEF Reopen, TaskTypes
    <3>4. QED  BY <1>6, <3>2, <3>3 DEF Reopen, TaskTypes, Fails
  <2>2. TaskPlace(w)'
    BY <1>6 DEF Reopen, TaskTypes, TaskPlaces, TaskPlace, Fails
  <2>3. QED  BY <1>6, <2>1, <2>2, OtherTasks DEF Reopen, TaskTypes, Fails
<1>7. CASE Snapshot(w)
  <2>1. TaskTypes'
    BY <1>7 DEF Snapshot, TaskTypes
  <2>2. TaskPlace(w)'
    BY <1>7 DEF Snapshot, TaskTypes, TaskPlaces, TaskPlace
  <2>3. QED  BY <1>7, <2>1, <2>2, OtherTasks DEF Snapshot, TaskTypes
<1>8. CASE ReadFile(w)
  <2>1. TaskTypes'
    <3>1. at' = [at EXCEPT ![w] = "download"] \/ at' = [at EXCEPT ![w] = "delete"]
      BY <1>8 DEF ReadFile
    <3>2. at' \in [Worker -> Place]
      BY <3>1 DEF TaskTypes
    <3>3. read' \in [Worker -> 0 .. edition]
      BY <1>8, FileIsRead DEF ReadFile, TaskTypes
    <3>4. QED  BY <1>8, <3>2, <3>3 DEF ReadFile, TaskTypes
  <2>2. TaskPlace(w)'
    BY <1>8 DEF ReadFile, TaskTypes, TaskPlaces, TaskPlace
  <2>3. QED  BY <1>8, <2>1, <2>2, OtherTasks DEF ReadFile, TaskTypes
<1>9. CASE DeleteReplaced(w)
  <2>1. TaskTypes'
    BY <1>9 DEF DeleteReplaced, TaskTypes
  <2>2. TaskPlace(w)'
    BY <1>9 DEF DeleteReplaced, TaskTypes, TaskPlaces, TaskPlace
  <2>3. QED  BY <1>9, <2>1, <2>2, OtherTasks DEF DeleteReplaced, TaskTypes
<1>10. CASE DeleteOrphans(w)
  <2>1. TaskTypes'
    BY <1>10 DEF DeleteOrphans, TaskTypes
  <2>2. TaskPlace(w)'
    BY <1>10 DEF DeleteOrphans, TaskTypes, TaskPlaces, TaskPlace
  <2>3. QED  BY <1>10, <2>1, <2>2, OtherTasks DEF DeleteOrphans, TaskTypes
<1>11. CASE CommitSwap(w)
  <2>1. TaskTypes'
    BY <1>11, CommitsTyped DEF CommitSwap, TaskTypes
  <2>2. TaskPlace(w)'
    BY <1>11 DEF CommitSwap, TaskTypes, TaskPlaces, TaskPlace, Commits
  <2>3. QED  BY <1>11, <2>1, <2>2, OtherTasks DEF CommitSwap, TaskTypes, Commits
<1>12. CASE DispatchLate(w)
  <2>1. TaskTypes'
    BY <1>12 DEF DispatchLate, TaskTypes
  <2>2. TaskPlace(w)'
    BY <1>12 DEF DispatchLate, TaskTypes, TaskPlaces, TaskPlace
  <2>3. QED  BY <1>12, <2>1, <2>2, OtherTasks DEF DispatchLate, TaskTypes
<1>13. CASE UnlockFile(w)
  <2>1. TaskTypes'
    BY <1>13 DEF UnlockFile, TaskTypes
  <2>2. TaskPlace(w)'
    BY <1>13 DEF UnlockFile, TaskTypes, TaskPlaces, TaskPlace
  <2>3. QED  BY <1>13, <2>1, <2>2, OtherTasks DEF UnlockFile, TaskTypes
<1>14. CASE UnlockRefresh(w)
  BY <1>14, EndsShape DEF UnlockRefresh, TaskTypes
<1>15. CASE DownloadFails(w)
  <2>1. TaskTypes'
    BY <1>15 DEF DownloadFails, TaskTypes, Fails
  <2>2. TaskPlace(w)'
    BY <1>15 DEF DownloadFails, TaskTypes, TaskPlaces, TaskPlace, Fails
  <2>3. QED  BY <1>15, <2>1, <2>2, OtherTasks DEF DownloadFails, TaskTypes, Fails
<1>16. QED  BY <1>1, <1>2, <1>3, <1>4, <1>5, <1>6, <1>7, <1>8, <1>9, <1>10, <1>11, <1>12, <1>13,
      <1>14, <1>15 DEF Refreshes

\* The steps of a parse.
LEMMA ParsesShape ==
  ASSUME TaskShape, NEW w \in Worker, Parses(w)
  PROVE  TaskShape'
<1> USE PlaceNames DEF TaskShape, GoTo, At, source, guides, task, counts, Refreshing, WithFile,
      Parsing
<1>1. CASE Incr(w)
  <2>1. TaskTypes'
    BY <1>1 DEF Incr, TaskTypes
  <2>2. TaskPlace(w)'
    BY <1>1 DEF Incr, TaskTypes, TaskPlaces, TaskPlace
  <2>3. QED  BY <1>1, <2>1, <2>2, OtherTasks DEF Incr, TaskTypes
<1>2. CASE LockParse(w)
  <2>1. TaskTypes'
    BY <1>2 DEF LockParse, TaskTypes
  <2>2. TaskPlace(w)'
    BY <1>2 DEF LockParse, TaskTypes, TaskPlaces, TaskPlace
  <2>3. QED  BY <1>2, <2>1, <2>2, OtherTasks DEF LockParse, TaskTypes
<1>3. CASE CheckMapped(w)
  <2>1. TaskTypes'
    BY <1>3 DEF CheckMapped, TaskTypes
  <2>2. TaskPlace(w)'
    BY <1>3 DEF CheckMapped, TaskTypes, TaskPlaces, TaskPlace
  <2>3. QED  BY <1>3, <2>1, <2>2, OtherTasks DEF CheckMapped, TaskTypes
<1>4. CASE OpenFile(w)
  <2>1. TaskTypes'
    <3>1. at' = [at EXCEPT ![w] = "download"] \/ at' = [at EXCEPT ![w] = "delete"]
      BY <1>4 DEF OpenFile
    <3>4. at' \in [Worker -> Place]
      BY <3>1 DEF TaskTypes
    <3>2. read' \in [Worker -> 0 .. edition]
      BY <1>4, FileIsRead DEF OpenFile, TaskTypes
    <3>3. QED  BY <1>4, <3>2, <3>4 DEF OpenFile, TaskTypes
  <2>2. TaskPlace(w)'
    BY <1>4 DEF OpenFile, TaskTypes, TaskPlaces, TaskPlace
  <2>3. QED  BY <1>4, <2>1, <2>2, OtherTasks DEF OpenFile, TaskTypes
<1>5. CASE DeleteOld(w)
  <2>1. TaskTypes'
    BY <1>5 DEF DeleteOld, TaskTypes
  <2>2. TaskPlace(w)'
    BY <1>5 DEF DeleteOld, TaskTypes, TaskPlaces, TaskPlace
  <2>3. QED  BY <1>5, <2>1, <2>2, OtherTasks DEF DeleteOld, TaskTypes
<1>6. CASE CommitParse(w)
  <2>1. TaskTypes'
    BY <1>6, CommitsTyped DEF CommitParse, TaskTypes
  <2>2. TaskPlace(w)'
    BY <1>6 DEF CommitParse, TaskTypes, TaskPlaces, TaskPlace, Commits
  <2>3. QED  BY <1>6, <2>1, <2>2, OtherTasks DEF CommitParse, TaskTypes, Commits
<1>7. CASE UnlockParse(w)
  <2>1. TaskTypes'
    BY <1>7 DEF UnlockParse, TaskTypes
  <2>2. TaskPlace(w)'
    BY <1>7 DEF UnlockParse, TaskTypes, TaskPlaces, TaskPlace
  <2>3. QED  BY <1>7, <2>1, <2>2, OtherTasks DEF UnlockParse, TaskTypes
<1>8. CASE Decr(w)
  <2>1. CASE Ends(w)
    BY <1>8, <2>1, EndsShape DEF Decr, TaskTypes
  <2>2. CASE GoTo(w, "zero") /\ UNCHANGED <<job, task>>
    <3>1. TaskTypes'
      BY <1>8, <2>2 DEF Decr, TaskTypes
    <3>2. TaskPlace(w)'
      BY <1>8, <2>2 DEF Decr, TaskTypes, TaskPlaces, TaskPlace
    <3>3. QED  BY <1>8, <2>2, <3>1, <3>2, OtherTasks DEF Decr, TaskTypes
  <2>3. QED  BY <1>8, <2>1, <2>2 DEF Decr
<1>9. CASE Zero(w)
  BY <1>9, EndsShape DEF Zero, TaskTypes
<1>10. QED  BY <1>1, <1>2, <1>3, <1>4, <1>5, <1>6, <1>7, <1>8, <1>9 DEF Parses

\* The steps of a build, and the death of a worker.
LEMMA BuildsShape ==
  ASSUME TaskShape, NEW w \in Worker, Builds(w) \/ Dies(w)
  PROVE  TaskShape'
<1> USE PlaceNames DEF TaskShape, GoTo, At, source, guides, task, counts, Refreshing, WithFile,
      Parsing
<1>1. CASE Scan(w)
  <2>1. TaskTypes'
    BY <1>1 DEF Scan, TaskTypes
  <2>2. TaskPlace(w)'
    BY <1>1 DEF Scan, TaskTypes, TaskPlaces, TaskPlace
  <2>3. QED  BY <1>1, <2>1, <2>2, OtherTasks DEF Scan, TaskTypes
<1>2. CASE SaveIndex(w)
  <2>1. TaskTypes'
    <3>1. read[w] \in Edition
      BY <1>2 DEF SaveIndex, TaskTypes, TaskPlaces, TaskPlace, Edition
    <3>2. QED  BY <1>2, <3>1 DEF SaveIndex, TaskTypes
  <2>2. TaskPlace(w)'
    BY <1>2 DEF SaveIndex, TaskTypes, TaskPlaces, TaskPlace
  <2>3. QED  BY <1>2, <2>1, <2>2, OtherTasks DEF SaveIndex, TaskTypes
<1>3. CASE UnlockIndex(w)
  BY <1>3, EndsShape DEF UnlockIndex, TaskTypes
<1>4. CASE Dies(w)
  BY <1>4, EndsShape DEF Dies, TaskTypes
<1>5. QED  BY <1>1, <1>2, <1>3, <1>4 DEF Builds

\* What happens without a task, and what a worker does.
Outside ==
  \/ AskRefresh \/ AskIndex
  \/ \E g \in Guide : Map(g) \/ Unmap(g)
  \/ \E l \in Lock : Expires(l) \/ Lapses(l)
Acts(w) == Take(w) \/ Refreshes(w) \/ Parses(w) \/ Builds(w) \/ DownloadFails(w) \/ Dies(w)

\* It leaves the tasks where they are.
LEMMA OutsideShape ==
  ASSUME TaskShape, Outside
  PROVE  TaskShape'
<1> USE PlaceNames
<1>1. UNCHANGED <<at, job, read, ids, unmapped, gone, edition>>
  BY DEF Outside, AskRefresh, AskIndex, Map, Unmap, Expires, Lapses, task, source
<1>2. TaskTypes'
  <2>1. queue' \in [Job -> Nat]
    BY MoreQueued DEF Outside, AskRefresh, AskIndex, Map, Unmap, Expires, Lapses, TaskShape,
       TaskTypes
  <2>2. locks' \subseteq Lock /\ mapped' \subseteq Guide
    BY DEF Outside, AskRefresh, AskIndex, Map, Unmap, Expires, Lapses, guides, TaskShape,
       TaskTypes
  <2>3. UNCHANGED <<count, file, index, failed, rows>>
    BY DEF Outside, AskRefresh, AskIndex, Map, Unmap, Expires, Lapses, source, guides
  <2>4. QED  BY <1>1, <2>1, <2>2, <2>3 DEF TaskShape, TaskTypes
<1>3. TaskPlaces'
  BY <1>1 DEF TaskShape, TaskPlaces, TaskPlace
<1>4. QED  BY <1>2, <1>3 DEF TaskShape

\* A step that changes nothing.
LEMMA SameTasks ==
  ASSUME TaskShape, UNCHANGED guideVars
  PROVE  TaskShape'
BY DEF TaskShape, TaskTypes, TaskPlaces, TaskPlace, guideVars

\* Every step is one or the other.
LEMMA NextCases == GuideNext <=> Outside \/ \E w \in Worker : Acts(w)
BY DEF GuideNext, Outside, Acts

\* No step spoils the shape.
LEMMA TaskShapeStep ==
  ASSUME TaskShape, [GuideNext]_guideVars
  PROVE  TaskShape'
<1>1. ASSUME NEW w \in Worker, Acts(w) PROVE TaskShape'
  BY <1>1, TakesShape, RefreshesShape, ParsesShape, BuildsShape DEF Acts
<1>2. QED  BY <1>1, OutsideShape, SameTasks, NextCases

(***************************************************************************)
(* Guides: the counter of parses                                            *)
(***************************************************************************)
\* The parses that have counted themselves and are not counted off, and those between
\* their DECR and their DEL, which may delete what others have counted meanwhile.
Counting(w) == job[w] \in Guide /\ at[w] \notin {"incr", "zero"}
CountedParses == {w \in Worker : Counting(w)}
Zeroing == {w \in Worker : at[w] = "zero"}

\* The counter never says more than there are parses, so a refresh is never put off by
\* parses that are over; and it is too low by no more than the DELs that are due.
ParsesCounted == count <= Cardinality(CountedParses) /\ -Cardinality(Zeroing) <= count

\* Counting one worker more or less in a set moves its size by one.
LEMMA WorkerSets ==
  ASSUME IsFiniteSet(Worker), NEW S \in SUBSET Worker
  PROVE  /\ IsFiniteSet(S) /\ Cardinality(S) \in Nat /\ Cardinality(S) <= Cardinality(Worker)
         /\ \A w \in Worker \ S : Cardinality(S \cup {w}) = Cardinality(S) + 1
         /\ \A w \in S : Cardinality(S \ {w}) = Cardinality(S) - 1
         /\ Cardinality(S) = 0 <=> S = {}
<1>1. IsFiniteSet(S) /\ Cardinality(S) <= Cardinality(Worker)
  BY FS_Subset
<1>2. QED  BY <1>1, FS_CardinalityType, FS_AddElement, FS_RemoveElement, FS_EmptySet

\* A step of w leaves the places of the others as they are.
Alone(w) == \A v \in Worker \ {w} :
  /\ at'[v] = at[v] /\ job'[v] = job[v] /\ ids'[v] = ids[v]
  /\ unmapped'[v] = unmapped[v] /\ gone'[v] = gone[v]

LEMMA ActsAlone ==
  ASSUME TaskShape, NEW w \in Worker, Acts(w)
  PROVE  Alone(w)
<1> USE DEF TaskShape, TaskTypes, Alone, GoTo, task
<1>1. CASE Take(w)
  BY <1>1 DEF Take, TakeRefresh, TakeIndex, TakeParse, Takes
<1>2. CASE Refreshes(w) \/ DownloadFails(w)
  BY <1>2 DEF Refreshes, Invalidate, CheckCount, LockFile, Download, Store, Reopen, Snapshot,
     ReadFile, DeleteReplaced, DeleteOrphans, CommitSwap, DispatchLate, UnlockFile, UnlockRefresh,
     DownloadFails, Fails, Ends, Defers
<1>3. CASE Parses(w)
  BY <1>3 DEF Parses, Incr, LockParse, CheckMapped, OpenFile, DeleteOld, CommitParse,
     UnlockParse, Decr, Zero, Ends
<1>4. CASE Builds(w) \/ Dies(w)
  BY <1>4 DEF Builds, Scan, SaveIndex, UnlockIndex, Dies, Ends
<1>5. QED  BY <1>1, <1>2, <1>3, <1>4 DEF Acts

\* All steps but three leave the counter and who is counted.
Uncounted(w) ==
  /\ count' = count
  /\ Counting(w)' <=> Counting(w)
  /\ at'[w] = "zero" <=> at[w] = "zero"

LEMMA ActsUncounted ==
  ASSUME TaskShape, NEW w \in Worker, Acts(w)
  PROVE  Uncounted(w) \/ Incr(w) \/ Decr(w) \/ Zero(w)
<1> USE DEF Uncounted, Counting
<1>0. /\ at \in [Worker -> Place] /\ job \in [Worker -> Job \cup {None}]
      /\ TaskPlace(w) /\ {"refresh", "index", None} \cap Guide = {}
  BY DEF TaskShape, TaskTypes, TaskPlaces
<1>1. ASSUME Ends(w), UNCHANGED count, job[w] \in {"refresh", "index"} PROVE Uncounted(w)
  BY <1>0, <1>1 DEF Ends, GoTo, TaskPlace, Refreshing
<1>2. ASSUME NEW p \in Refreshing \cup Parsing, at[w] \in Refreshing \cup Parsing, GoTo(w, p),
             UNCHANGED <<job, count>>
      PROVE  Uncounted(w)
  BY <1>0, <1>2 DEF GoTo, Refreshing, Parsing
<1>3. CASE Take(w)
  <2>1. ASSUME NEW j \in Job, NEW p \in Place, p \notin {"away", "zero"}, Takes(w, j, p),
               j \in Guide => p = "incr", UNCHANGED count
        PROVE  Uncounted(w)
    <3>1. at[w] = "away" /\ job[w] \notin Guide
      BY <1>0, <2>1 DEF Takes, TaskPlace, Parsing
    <3>2. at'[w] = p /\ job'[w] = j
      BY <1>0, <2>1 DEF Takes, GoTo
    <3>3. QED  BY <2>1, <3>1, <3>2
  <2>2. QED  BY <1>0, <1>3, <2>1, PlaceNames DEF Take, TakeRefresh, TakeIndex, TakeParse, Takes,
        Refreshing, WithFile
<1>4. CASE Refreshes(w) \/ DownloadFails(w)
  BY <1>1, <1>2, <1>4 DEF Refreshes, Invalidate, CheckCount, LockFile, Download, Store, Reopen,
     Snapshot,
     ReadFile, DeleteReplaced, DeleteOrphans, CommitSwap, DispatchLate, UnlockFile, UnlockRefresh,
     DownloadFails, Fails, Defers, At, source, task, Refreshing, Parsing
<1>5. CASE Parses(w)
  BY <1>2, <1>5, <1>0 DEF Parses, LockParse, CheckMapped, OpenFile, DeleteOld, CommitParse,
     UnlockParse, source, task, Refreshing, Parsing, GoTo
<1>6. CASE Builds(w)
  <2>1. CASE Scan(w) \/ SaveIndex(w)
    BY <1>0, <2>1 DEF Scan, SaveIndex, GoTo, TaskPlace, Refreshing, Parsing
  <2>2. QED  BY <1>1, <1>6, <2>1 DEF Builds, UnlockIndex, At
<1>7. CASE Dies(w)
  BY <1>1, <1>7 DEF Dies
<1>8. QED  BY <1>3, <1>4, <1>5, <1>6, <1>7 DEF Acts

\* INCR, DECR and DEL move the counter with the parses.
LEMMA CountStep ==
  ASSUME IsFiniteSet(Worker), TaskShape, ParsesCounted, [GuideNext]_guideVars
  PROVE  ParsesCounted'
<1>0. /\ count \in Int /\ CountedParses \in SUBSET Worker /\ Zeroing \in SUBSET Worker
      /\ Cardinality(CountedParses) \in Nat /\ Cardinality(Zeroing) \in Nat
  BY WorkerSets DEF TaskShape, TaskTypes, CountedParses, Zeroing
<1>1. CASE Outside \/ UNCHANGED guideVars
  <2>1. count' = count /\ at' = at /\ job' = job
    BY <1>1 DEF Outside, AskRefresh, AskIndex, Map, Unmap, Expires, Lapses, guideVars
  <2>2. QED  BY <2>1 DEF ParsesCounted, CountedParses, Zeroing, Counting
<1>2. ASSUME NEW w \in Worker, Acts(w) PROVE ParsesCounted'
  <2>1. Alone(w)
    BY <1>2, ActsAlone
  <2>2. CASE Uncounted(w)
    <3>1. CountedParses' = CountedParses /\ Zeroing' = Zeroing
      BY <2>1, <2>2 DEF Uncounted, CountedParses, Zeroing, Counting, Alone
    <3>2. QED  BY <2>2, <3>1 DEF Uncounted, ParsesCounted
  <2>3. CASE Incr(w)
    <3>1. w \notin CountedParses /\ CountedParses' = CountedParses \cup {w} /\ Zeroing' = Zeroing
      <4>1. at[w] = "incr" /\ TaskPlace(w) /\ job[w] \in Job \cup {None}
        BY <2>3 DEF Incr, TaskShape, TaskTypes, TaskPlaces
      <4>2. job[w] \in Guide
        BY <4>1 DEF TaskPlace, Refreshing, Job
      <4>3. at'[w] = "lock" /\ job'[w] = job[w]
        BY <2>3 DEF Incr, GoTo, TaskShape, TaskTypes
      <4>4. QED  BY <2>1, <4>1, <4>2, <4>3 DEF CountedParses, Zeroing, Counting, Alone
    <3>2. QED  BY <1>0, <2>3, <3>1, WorkerSets DEF Incr, ParsesCounted
  <2>4. CASE Decr(w)
    <3>1. w \in CountedParses /\ CountedParses' = CountedParses \ {w}
      <4>1. at[w] = "decr" /\ TaskPlace(w) /\ job[w] \in Job \cup {None}
        BY <2>4 DEF Decr, TaskShape, TaskTypes, TaskPlaces
      <4>2. job[w] \in Guide
        BY <4>1 DEF TaskPlace, Refreshing, Job
      <4>3. at'[w] = "zero" \/ job'[w] = None
        BY <2>4 DEF Decr, GoTo, Ends, TaskShape, TaskTypes
      <4>4. QED  BY <2>1, <4>1, <4>2, <4>3 DEF CountedParses, Counting, Alone
    <3>2. CASE count' <= 0
      <4>1. w \notin Zeroing /\ Zeroing' = Zeroing \cup {w}
        BY <2>1, <2>4, <3>2 DEF Decr, Zeroing, Alone, GoTo, TaskShape, TaskTypes
      <4>2. /\ Cardinality(CountedParses') = Cardinality(CountedParses) - 1
            /\ Cardinality(Zeroing') = Cardinality(Zeroing) + 1
        BY <1>0, <3>1, <4>1, WorkerSets
      <4>3. QED  BY <1>0, <2>4, <3>2, <4>2 DEF Decr, ParsesCounted
    <3>3. CASE ~(count' <= 0)
      <4>1. Zeroing' \in SUBSET Worker
        BY DEF Zeroing
      <4>2. QED  BY <1>0, <2>4, <3>1, <3>3, <4>1, WorkerSets DEF Decr, ParsesCounted
    <3>4. QED  BY <3>2, <3>3
  <2>5. CASE Zero(w)
    <3>1. CountedParses' \in SUBSET Worker /\ Zeroing' \in SUBSET Worker
      BY DEF CountedParses, Zeroing
    <3>2. count' = 0
      BY <2>5 DEF Zero
    <3>3. QED  BY <3>1, <3>2, WorkerSets DEF ParsesCounted
  <2>6. QED  BY <1>2, <2>2, <2>3, <2>4, <2>5, ActsUncounted
<1>3. QED  BY <1>1, <1>2, NextCases

\* For any guides, any finite number of workers, any locks that lapse and any number of
\* faults, the state keeps its shape; the counter is never more than the parses that have
\* counted themselves, so never more than the workers, and negative only while a parse
\* is about to delete it (tasks.py: parse_programs_for_tvg_id, refresh_epg_data_impl).
THEOREM GuideTypeCorrect ==
  ASSUME IsFiniteSet(Worker)
  PROVE  GuideSpec => []GuideTypeOK
<1>1. GuideInit => ParsesCounted
  <2> SUFFICES ASSUME GuideInit PROVE ParsesCounted
    OBVIOUS
  <2>1. CountedParses \in SUBSET Worker /\ Zeroing \in SUBSET Worker /\ count = 0
    BY DEF CountedParses, Zeroing, GuideInit
  <2>2. QED  BY <2>1, WorkerSets DEF ParsesCounted
<1>2. TaskShape /\ ParsesCounted => GuideTypeOK
  <2> SUFFICES ASSUME TaskShape, ParsesCounted PROVE GuideTypeOK
    OBVIOUS
  <2>1. CountedParses \in SUBSET Worker /\ Zeroing \in SUBSET Worker
    BY DEF CountedParses, Zeroing
  <2>2. Cardinality(Worker) \in Nat /\ count \in -Cardinality(Worker) .. Cardinality(Worker)
    <3>1. /\ Cardinality(Worker) \in Nat /\ Cardinality(CountedParses) \in Nat
          /\ Cardinality(Zeroing) \in Nat
          /\ Cardinality(CountedParses) <= Cardinality(Worker)
          /\ Cardinality(Zeroing) <= Cardinality(Worker)
      BY <2>1, WorkerSets, FS_CardinalityType
    <3>2. QED  BY <3>1 DEF ParsesCounted, TaskShape, TaskTypes
  <2>3. count < 0 => \E w \in Worker : at[w] = "zero"
    <3>1. count < 0 => Cardinality(Zeroing) # 0
      BY <2>1, WorkerSets DEF ParsesCounted, TaskShape, TaskTypes
    <3>2. QED  BY <2>1, <3>1, WorkerSets DEF Zeroing
  <2>4. QED  BY <2>2, <2>3 DEF GuideTypeOK, TaskShape, TaskTypes
<1>3. TaskShape /\ ParsesCounted /\ [GuideNext]_guideVars => TaskShape' /\ ParsesCounted'
  BY TaskShapeStep, CountStep
<1>4. QED  BY <1>1, <1>2, <1>3, InitTasks, PTL DEF GuideSpec

(***************************************************************************)
(* Guides: task locks                                                       *)
(***************************************************************************)
\* Who holds which lock, by task and place.
LEMMA HoldsMeans ==
  ASSUME NEW w
  PROVE  /\ Holds(w, "refresh") <=> job[w] = "refresh" /\ at[w] \in Refreshing
         /\ Holds(w, "file") <=> job[w] \in {"refresh", "index"} /\ at[w] \in WithFile
         /\ \A g \in Guide : Holds(w, g) <=> job[w] = g /\ at[w] \in Parsing
<1>1. \A g \in Guide : g # "refresh" /\ g # "file"
  OBVIOUS
<1>2. \A g \in Guide : Holds(w, g) <=> job[w] = g /\ at[w] \in Parsing
  BY <1>1 DEF Holds
<1>3. QED  BY <1>2 DEF Holds

\* A lock that does not lapse is set while a task holds it, and one task holds it. The lock
\* of a guide is not set when no parse holds it: a parse does not die.
HeldAlone(l) == \A v, w \in Worker : Holds(v, l) /\ Holds(w, l) => v = w
LocksKept ==
  /\ \A l \in Lock \ Lapsing : (Held(l) => l \in locks) /\ HeldAlone(l)
  /\ \A g \in Guide \cap locks : Held(g)

\* What a step of w does to a lock: nothing, or w dies with it; w takes it; w gives it back.
Hands(w, l) ==
  \/ (l \in locks' <=> l \in locks) /\ (Holds(w, l)' => Holds(w, l))
     /\ (l \in Guide /\ Holds(w, l) => Holds(w, l)')
  \/ l \notin locks /\ l \in locks' /\ Holds(w, l)'
  \/ Holds(w, l) /\ l \notin locks' /\ ~Holds(w, l)'

\* Most steps change no lock and nothing about who holds one.
SameHold(w) == locks' = locks /\ \A l \in Lock : Holds(w, l)' <=> Holds(w, l)

\* A refresh and a build take their lock with the message, a parse takes none yet.
LEMMA TakeHands ==
  ASSUME TaskShape, NEW w \in Worker, NEW l \in Lock, Take(w)
  PROVE  Hands(w, l)
<1>1. /\ at \in [Worker -> Place] /\ job \in [Worker -> Job \cup {None}]
      /\ TaskPlace(w) /\ {"refresh", "index", None, "file"} \cap Guide = {}
  BY DEF TaskShape, TaskTypes, TaskPlaces
<1>2. \A k \in Lock : ~Holds(w, k)
  <2>1. at[w] = "away"
    BY DEF Take, TakeRefresh, TakeIndex, TakeParse, Takes
  <2>2. "away" \notin Refreshing \cup WithFile \cup Parsing
    BY DEF Refreshing, WithFile, Parsing
  <2>3. QED  BY <2>1, <2>2, HoldsMeans DEF Lock
<1>3. CASE TakeRefresh(w)
  <2>1. CASE "refresh" \in locks
    <3>1. at' = at /\ job' = job /\ locks' = locks
      BY <1>3, <2>1 DEF TakeRefresh, Takes
    <3>2. QED  BY <1>2, <3>1 DEF Hands, Holds
  <2>2. CASE "refresh" \notin locks
    <3>1. at'[w] = "invalidate" /\ job'[w] = "refresh" /\ locks' = locks \cup {"refresh"}
      BY <1>1, <1>3, <2>2 DEF TakeRefresh, Takes, GoTo
    <3>2. Holds(w, l)' <=> l = "refresh"
      BY <1>1, <3>1 DEF Holds, Refreshing, WithFile, Lock
    <3>3. QED  BY <1>2, <2>2, <3>1, <3>2 DEF Hands
  <2>3. QED  BY <2>1, <2>2
<1>4. CASE TakeIndex(w)
  <2>1. at'[w] = "scan" /\ job'[w] = "index" /\ locks' = locks \cup {"file"} /\ "file" \notin locks
    BY <1>1, <1>4 DEF TakeIndex, Takes, GoTo
  <2>2. Holds(w, l)' <=> l = "file"
    BY <1>1, <2>1 DEF Holds, Refreshing, WithFile, Lock
  <2>3. QED  BY <1>2, <2>1, <2>2 DEF Hands
<1>5. CASE \E g \in Guide : TakeParse(w, g)
  <2>1. at'[w] = "incr" /\ locks' = locks
    BY <1>1, <1>5 DEF TakeParse, Takes, GoTo
  <2>2. ~Holds(w, l)'
    BY <2>1 DEF Holds, Refreshing, WithFile, Parsing
  <2>3. QED  BY <1>2, <2>1, <2>2 DEF Hands
<1>6. QED  BY <1>3, <1>4, <1>5 DEF Take

\* Such a step does nothing to a lock.
LEMMA SameHoldHands ==
  ASSUME NEW w \in Worker, NEW l \in Lock, SameHold(w)
  PROVE  Hands(w, l)
BY DEF SameHold, Hands

\* Who has ended holds no lock.
LEMMA EndsHands ==
  ASSUME TaskShape, NEW w \in Worker, NEW l \in Lock, Ends(w)
  PROVE  ~Holds(w, l)'
<1>1. job'[w] = None
  BY EndsTyped DEF TaskShape
<1>2. QED  BY <1>1 DEF Holds, Lock

\* A refresh takes the lock of the file, and gives back both.
LEMMA RefreshHands ==
  ASSUME TaskShape, NEW w \in Worker, NEW l \in Lock, Refreshes(w) \/ DownloadFails(w)
  PROVE  Hands(w, l)
<1>1. /\ at \in [Worker -> Place] /\ job \in [Worker -> Job \cup {None}]
      /\ TaskPlace(w) /\ {"refresh", "index", None, "file"} \cap Guide = {}
  BY DEF TaskShape, TaskTypes, TaskPlaces
<1>2. ASSUME NEW p \in Place, GoTo(w, p), UNCHANGED <<job, locks>>,
             at[w] \in Refreshing <=> p \in Refreshing,
             at[w] \in WithFile <=> p \in WithFile,
             at[w] \in Parsing <=> p \in Parsing
      PROVE  SameHold(w)
  <2>1. at'[w] = p
    BY <1>1, <1>2 DEF GoTo
  <2>2. QED  BY <1>2, <2>1, HoldsMeans DEF SameHold, Holds
<1> USE DEF Refreshing, WithFile, Parsing
<1>3. ASSUME NEW p \in Refreshing, GoTo(w, p), UNCHANGED <<job, locks>>,
             at[w] \in Refreshing, job[w] = "refresh",
             at[w] \in WithFile <=> p \in WithFile
      PROVE  SameHold(w)
  <2>1. at'[w] = p
    BY <1>1, <1>3 DEF GoTo
  <2>2. QED  BY <1>1, <1>3, <2>1 DEF SameHold, Holds, Lock
<1>4. CASE Download(w) \/ Store(w) \/ Reopen(w) \/ DownloadFails(w)
  <2>1. CASE job[w] = "refresh"
    BY <1>3, <1>4, <2>1, SameHoldHands DEF Download, Store, Reopen, DownloadFails, Fails, task
  <2>2. CASE job[w] # "refresh"
    BY <1>2, <1>4, <2>2, SameHoldHands, PlaceNames DEF Download, Store, Reopen, DownloadFails,
       Fails, task
  <2>3. QED  BY <2>1, <2>2
<1>5. CASE \/ Invalidate(w) \/ CheckCount(w) \/ Snapshot(w) \/ ReadFile(w)
           \/ DeleteReplaced(w) \/ DeleteOrphans(w) \/ CommitSwap(w)
           \/ DispatchLate(w)
  BY <1>3, <1>5, SameHoldHands DEF Invalidate, CheckCount, Snapshot, ReadFile, DeleteReplaced,
     DeleteOrphans, CommitSwap, DispatchLate, Defers, At, task
<1>6. CASE LockFile(w)
  <2>1. job'[w] = "refresh" /\ job[w] = "refresh" /\ at[w] = "lock" /\ locks' = locks \cup {"file"}
    BY <1>6 DEF LockFile, At
  <2>2. CASE "file" \in locks
    <3>1. at'[w] = "release"
      BY <1>1, <1>6, <2>2 DEF LockFile, Defers, GoTo
    <3>2. QED  BY <1>1, <2>1, <2>2, <3>1 DEF Hands, Holds, Lock
  <2>3. CASE "file" \notin locks
    <3>1. at'[w] = "download"
      BY <1>1, <1>6, <2>3 DEF LockFile, Defers, GoTo
    <3>2. QED  BY <1>1, <2>1, <2>3, <3>1 DEF Hands, Holds, Lock
  <2>4. QED  BY <2>2, <2>3
<1>7. CASE UnlockFile(w)
  <2>1. job'[w] = "refresh" /\ job[w] = "refresh" /\ at[w] = "unlock" /\ at'[w] = "release"
        /\ locks' = locks \ {"file"}
    BY <1>1, <1>7 DEF UnlockFile, At, GoTo, task
  <2>2. QED  BY <1>1, <2>1 DEF Hands, Holds, Lock
<1>8. CASE UnlockRefresh(w)
  <2>1. job[w] = "refresh" /\ at[w] = "release" /\ locks' = locks \ {"refresh"} /\ Ends(w)
    BY <1>8 DEF UnlockRefresh, At
  <2>2. QED  BY <1>1, <2>1, EndsHands DEF Hands, Holds, Lock
<1>9. QED  BY <1>4, <1>5, <1>6, <1>7, <1>8 DEF Refreshes

\* A parse takes the lock of its guide, or is over when another has it.
LEMMA ParseHands ==
  ASSUME TaskShape, NEW w \in Worker, NEW l \in Lock, Parses(w)
  PROVE  Hands(w, l)
<1>1. /\ at \in [Worker -> Place] /\ job \in [Worker -> Job \cup {None}]
      /\ TaskPlace(w) /\ {"refresh", "index", None, "file"} \cap Guide = {}
  BY DEF TaskShape, TaskTypes, TaskPlaces
<1>2. job[w] \in Guide
  BY <1>1 DEF Parses, Incr, LockParse, CheckMapped, OpenFile, DeleteOld, CommitParse,
     UnlockParse, Decr, Zero, TaskPlace, Refreshing, Job
<1>3. ASSUME GoTo(w, at'[w]), UNCHANGED <<job, locks>>, at[w] \in Parsing <=> at'[w] \in Parsing
      PROVE  SameHold(w)
  BY <1>1, <1>2, <1>3 DEF SameHold, Holds, Lock
<1> USE DEF Parsing
<1>4. CASE Incr(w) \/ CheckMapped(w) \/ OpenFile(w) \/ DeleteOld(w) \/ CommitParse(w)
  BY <1>1, <1>3, <1>4, SameHoldHands DEF Incr, CheckMapped, OpenFile, DeleteOld, CommitParse,
     GoTo, task
<1>5. CASE LockParse(w)
  <2>1. job' = job /\ at[w] = "lock" /\ locks' = locks \cup {job[w]}
    BY <1>5 DEF LockParse
  <2>2. at'[w] = IF job[w] \in locks THEN "decr" ELSE "check"
    BY <1>1, <1>5 DEF LockParse, GoTo
  <2>3. QED  BY <1>1, <1>2, <2>1, <2>2 DEF Hands, Holds, Lock
<1>6. CASE UnlockParse(w)
  <2>1. job' = job /\ at[w] = "unlock" /\ locks' = locks \ {job[w]} /\ at'[w] = "decr"
    BY <1>1, <1>6 DEF UnlockParse, GoTo
  <2>2. QED  BY <1>1, <1>2, <2>1 DEF Hands, Holds, Lock
<1>7. CASE Decr(w) \/ Zero(w)
  <2>1. locks' = locks /\ (Ends(w) \/ (job' = job /\ at'[w] = "zero")) /\ at[w] \in {"decr", "zero"}
    <3>1. CASE Decr(w)
      BY <1>1, <3>1 DEF Decr, GoTo
    <3>2. CASE Zero(w)
      BY <3>2 DEF Zero
    <3>3. QED  BY <1>7, <3>1, <3>2
  <2>2. ~Holds(w, l) /\ ~Holds(w, l)'
    BY <1>1, <1>2, <2>1, EndsHands DEF Holds, Lock
  <2>3. QED  BY <2>1, <2>2 DEF Hands
<1>8. QED  BY <1>4, <1>5, <1>6, <1>7 DEF Parses

\* A build gives back the lock of the file; who dies leaves its locks set.
LEMMA BuildHands ==
  ASSUME TaskShape, NEW w \in Worker, NEW l \in Lock, Builds(w) \/ Dies(w)
  PROVE  Hands(w, l)
<1>1. /\ at \in [Worker -> Place] /\ job \in [Worker -> Job \cup {None}]
      /\ TaskPlace(w) /\ {"refresh", "index", None, "file"} \cap Guide = {}
  BY DEF TaskShape, TaskTypes, TaskPlaces
<1>2. CASE Scan(w) \/ SaveIndex(w)
  <2>1. job[w] = "index" /\ job' = job /\ locks' = locks
    BY <1>1, <1>2 DEF Scan, SaveIndex, TaskPlace, Refreshing, Parsing, Job, task
  <2>2. at[w] \in WithFile /\ at'[w] \in WithFile
    BY <1>1, <1>2 DEF Scan, SaveIndex, GoTo, WithFile
  <2>3. QED  BY <1>1, <2>1, <2>2 DEF Hands, Holds, Lock
<1>3. CASE UnlockIndex(w)
  <2>1. job[w] = "index" /\ at[w] = "unlock" /\ locks' = locks \ {"file"} /\ Ends(w)
    BY <1>3 DEF UnlockIndex, At
  <2>2. QED  BY <1>1, <2>1, EndsHands DEF Hands, Holds, Lock, WithFile
<1>4. CASE Dies(w)
  <2>1. job[w] \in {"refresh", "index"} /\ locks' = locks /\ Ends(w)
    BY <1>4 DEF Dies
  <2>2. QED  BY <1>1, <2>1, EndsHands DEF Hands, Holds, Lock
<1>5. QED  BY <1>2, <1>3, <1>4 DEF Builds

\* So every step keeps the locks.
LEMMA LocksStep ==
  ASSUME TaskShape, LocksKept, [GuideNext]_guideVars
  PROVE  LocksKept'
<1>1. CASE UNCHANGED guideVars
  BY <1>1 DEF LocksKept, Held, HeldAlone, Holds, guideVars
<1>2. CASE Outside
  <2>1. at' = at /\ job' = job
    BY <1>2 DEF Outside, AskRefresh, AskIndex, Map, Unmap, Expires, Lapses, task
  <2>2. \A l \in Lock : (Held(l)' <=> Held(l)) /\ (HeldAlone(l)' <=> HeldAlone(l))
    BY <2>1 DEF Held, HeldAlone, Holds
  <2>3. CASE locks' = locks
    BY <2>2, <2>3 DEF LocksKept, Lock
  <2>4. ASSUME NEW k \in Lock, locks' = locks \ {k}, k \in Lapsing \/ ~Held(k)
        PROVE  LocksKept'
    BY <2>2, <2>4 DEF LocksKept, Lock
  <2>5. QED  BY <1>2, <2>3, <2>4 DEF Outside, AskRefresh, AskIndex, Map, Unmap, Expires, Lapses
<1>3. ASSUME NEW w \in Worker, Acts(w) PROVE LocksKept'
  <2>1. \A l \in Lock : Hands(w, l)
    BY <1>3, TakeHands, RefreshHands, ParseHands, BuildHands DEF Acts
  <2>2. \A v \in Worker \ {w}, l \in Lock : Holds(v, l)' <=> Holds(v, l)
    BY <1>3, ActsAlone DEF Alone, Holds
  <2>3. ASSUME NEW l \in Lock \ Lapsing PROVE (Held(l)' => l \in locks') /\ HeldAlone(l)'
    <3>1. (Held(l) => l \in locks) /\ HeldAlone(l)
      BY <2>3 DEF LocksKept
    <3>2. QED  BY <2>1, <2>2, <3>1 DEF Held, HeldAlone, Hands
  <2>4. ASSUME NEW g \in Guide, g \in locks' PROVE Held(g)'
    BY <2>1, <2>2, <2>4 DEF Held, Hands, LocksKept, Lock
  <2>5. QED  BY <2>3, <2>4 DEF LocksKept
<1>4. QED  BY <1>1, <1>2, <1>3, NextCases

\* No lock is set at first.
LEMMA InitLocks == GuideInit => LocksKept
<1> SUFFICES ASSUME GuideInit PROVE LocksKept
  OBVIOUS
<1>1. \A w \in Worker, l \in Lock : ~Holds(w, l)
  BY DEF GuideInit, Holds, Refreshing, WithFile, Parsing
<1>2. QED  BY <1>1 DEF GuideInit, LocksKept, Held, HeldAlone

\* Two tasks never hold a lock that its renewer keeps, and no lock of a guide outlives its
\* parse (core/utils.py: acquire_task_lock, release_task_lock): a release deletes the
\* lock whoever holds it, but only a lock that lapsed can be another's by then.
THEOREM LocksHeldAlone == GuideSpec => []LocksKept
BY InitTasks, TaskShapeStep, InitLocks, LocksStep, PTL DEF GuideSpec

(***************************************************************************)
(* Guides: none that has a channel is forgotten                             *)
(***************************************************************************)
\* The guides that the source has failed since they were given to a channel, as long as
\* they have no programmes: MappedFilled asks nothing for them.
VARIABLE excused

Excusing ==
  excused' = IF failed' THEN Guide
             ELSE {g \in excused : rows'[g] = {} /\ g \notin mapped' \ mapped}

\* Worker w runs a parse that is going to fill guide g.
Coming(w, g) == job[w] = g /\ at[w] \in {"incr", "lock"} \cup (Parsing \ {"unlock"})
Unfilled(g) == g \in mapped /\ rows[g] = {} /\ g \notin excused

\* A guide of a channel that has no programmes has a message on the queue, or a parse.
Attended == \A g \in Guide : Unfilled(g) => queue[g] > 0 \/ \E w \in Worker : Coming(w, g)

\* A refresh has deleted rows and not committed yet.
Replacing(w) == job[w] = "refresh" /\ at[w] \in {"orphans", "commit"}

\* A guide that was given to no channel since the start has no message and no parse.
MappedOnce ==
  /\ maps \in [Guide -> 0 .. 1]
  /\ \A g \in Guide : maps[g] = 0 => queue[g] = 0 /\ \A w \in Worker : job[w] # g
\* A refresh at its programmes has its list of guides; one that is missing from it and has
\* a channel was given to it meanwhile.
ListKnown(w) ==
  /\ job[w] = "refresh" /\ at[w] \in {"read", "reopen", "delete", "orphans", "commit", "late"} =>
       ids[w] # None
  /\ ids[w] # None => \A g \in mapped \ ids[w] : maps[g] = 1
\* What a transaction deletes: rows of the list and of guides that had no channel, or of the
\* one guide that is parsed.
Deletes(w) ==
  \A g \in Guide : gone[w][g] # {} =>
    /\ job[w] = "refresh" \/ job[w] = g
    /\ job[w] = "refresh" /\ at[w] = "orphans" => g \in ids[w]
    /\ job[w] = "refresh" /\ at[w] = "commit" => g \in ids[w] \cup unmapped[w]
\* A guide whose rows a refresh deletes though it has a channel again waits for its parse,
\* which the lock of the refresh puts off.
Refound(w) ==
  Replacing(w) => \A g \in (unmapped[w] \cap mapped) \ ids[w] :
                    queue[g] > 0 /\ \A v \in Worker : job[v] # g
\* A parse that is through has filled its guide, or failed, or found it without a channel.
Through(w) == \A g \in Guide : job[w] = g /\ at[w] = "unlock" => ~Unfilled(g)

\* The inductive invariant, together with the shape and the locks.
FillInv ==
  /\ MappedOnce /\ Attended
  /\ \A w \in Worker : ListKnown(w) /\ Deletes(w) /\ Refound(w) /\ Through(w)

\* What the proof assumes: the renewer of the refresh's lock is in time, and a guide is given
\* to a channel once. Without one or the other, the code forgets a guide.
GuideHypothesis == "refresh" \notin Lapsing /\ \A g \in Guide : MaxMaps[g] <= 1

\* A step of w that no waiting guide notices.
Calm(w) ==
  /\ Alone(w) /\ UNCHANGED <<mapped, rows, maps>>
  /\ \A g \in Guide : queue'[g] = queue[g] /\ (job'[w] = g => job[w] = g)
  /\ ListKnown(w)' /\ Deletes(w)'
  /\ Replacing(w)' => \/ unmapped'[w] \cap mapped = {}
                      \/ Replacing(w) /\ ids'[w] = ids[w] /\ unmapped'[w] = unmapped[w]
  /\ \A g \in Guide : job'[w] = g /\ at'[w] = "unlock" =>
       at[w] = "unlock" \/ g \notin mapped \/ failed'
  /\ \A g \in Guide : Coming(w, g) =>
       \/ Coming(w, g)' \/ failed' \/ g \notin mapped
       \/ \E v \in Worker \ {w} : job[v] = g /\ at[v] \in Parsing

\* What is not filled after a step that maps no guide and removes no rows was not before.
LEMMA Excuses ==
  ASSUME Excusing, NEW g \in Guide, Unfilled(g)'
  PROVE  ~failed' /\ (g \in mapped => g \notin excused)
BY DEF Excusing, Unfilled

\* A calm step keeps the invariant: who was about to fill a guide still is, or another is.
LEMMA CalmFill ==
  ASSUME TaskShape, FillInv, Excusing, NEW w \in Worker, Calm(w)
  PROVE  FillInv'
<1> USE DEF Calm, Alone
<1>1. \A g \in Guide : Unfilled(g)' => Unfilled(g) /\ ~failed'
  BY Excuses DEF Unfilled
<1>2. \A v \in Worker : ListKnown(v)' /\ Deletes(v)'
  BY DEF FillInv, ListKnown, Deletes
<1>3. \A v \in Worker, g \in Guide : job'[v] = g => job[v] = g
  OBVIOUS
<1>4. MappedOnce'
  BY <1>3 DEF FillInv, MappedOnce
<1>5. \A v \in Worker : Refound(v)'
  BY <1>3 DEF FillInv, Refound, Replacing, TaskShape, TaskTypes
<1>6. \A v \in Worker : Through(v)'
  BY <1>1, <1>3 DEF FillInv, Through, Unfilled
<1>7. Attended'
  <2> SUFFICES ASSUME NEW g \in Guide, Unfilled(g)'
               PROVE  queue'[g] > 0 \/ \E v \in Worker : Coming(v, g)'
    BY DEF Attended
  <2>1. Unfilled(g) /\ ~failed' /\ g \in mapped
    BY <1>1 DEF Unfilled
  <2>2. CASE queue[g] > 0
    BY <2>2
  <2>3. ASSUME NEW v \in Worker \ {w}, Coming(v, g) PROVE \E u \in Worker : Coming(u, g)'
    BY <2>3 DEF Coming
  <2>4. ASSUME NEW v \in Worker \ {w}, job[v] = g, at[v] \in Parsing
        PROVE  \E u \in Worker : Coming(u, g)'
    BY <2>1, <2>3, <2>4 DEF Coming, FillInv, Through
  <2>5. CASE Coming(w, g)
    BY <2>1, <2>4, <2>5
  <2>6. QED  BY <2>1, <2>2, <2>3, <2>5 DEF FillInv, Attended
<1>8. QED  BY <1>2, <1>4, <1>5, <1>6, <1>7 DEF FillInv

\* A parse is taken from the queue: no refresh runs then, so none deletes rows.
LEMMA TakeParseFill ==
  ASSUME GuideHypothesis, TaskShape, LocksKept, FillInv, Excusing,
         NEW w \in Worker, NEW h \in Guide, TakeParse(w, h)
  PROVE  FillInv'
<1>1. Alone(w)
  BY ActsAlone DEF Acts, Take
<1>2. at'[w] = "incr" /\ job'[w] = h /\ "incr" # "away" /\ at[w] = "away"
  BY DEF TakeParse, Takes, GoTo, TaskShape, TaskTypes
<1>3. /\ UNCHANGED <<mapped, rows, maps, failed, ids, unmapped, gone>> /\ queue[h] > 0
      /\ queue' = [queue EXCEPT ![h] = @ - 1] /\ "refresh" \notin locks
  BY DEF TakeParse, Takes, guides, counts, source, task
<1>4. \A v \in Worker : ~Replacing(v)
  BY <1>3, HoldsMeans DEF GuideHypothesis, LocksKept, Held, Lock, Replacing, Refreshing
<1>5. maps[h] = 1 /\ \A g \in Guide : g # h => queue'[g] = queue[g]
  BY <1>3 DEF FillInv, MappedOnce, TaskShape, TaskTypes, Job
<1>6. \A g \in Guide : Unfilled(g)' => Unfilled(g)
  BY <1>3, Excuses DEF Unfilled
<1>7. \A v \in Worker, g \in Guide : job'[v] = g => job[v] = g \/ g = h
  BY <1>1, <1>2 DEF Alone
<1>8. MappedOnce'
  BY <1>3, <1>5, <1>7 DEF FillInv, MappedOnce
<1>9. \A v \in Worker : ListKnown(v)' /\ Through(v)' /\ Refound(v)'
  BY <1>1, <1>2, <1>3, <1>4, <1>6 DEF Alone, FillInv, ListKnown, Through, Refound, Replacing
<1>10. \A v \in Worker : Deletes(v)'
  <2>1. job[w] \notin Guide \cup {"refresh"}
    BY <1>2 DEF TaskShape, TaskPlaces, TaskPlace, Parsing, Refreshing
  <2>2. \A g \in Guide : gone[w][g] = {}
    BY <2>1 DEF FillInv, Deletes
  <2>3. QED  BY <1>1, <1>3, <2>2 DEF FillInv, Deletes, Alone
<1>11. Attended'
  BY <1>1, <1>2, <1>5, <1>6 DEF Attended, FillInv, Coming, Alone, Parsing
<1>12. QED  BY <1>8, <1>9, <1>10, <1>11 DEF FillInv

\* The commit of a parse fills its guide and touches no other.
LEMMA CommitParseFill ==
  ASSUME TaskShape, FillInv, Excusing, NEW w \in Worker, CommitParse(w)
  PROVE  FillInv'
<1>1. Alone(w)
  BY ActsAlone DEF Acts, Parses
<1>2. /\ at'[w] = "unlock" /\ at[w] = "commit" /\ job[w] \in Guide
      /\ UNCHANGED <<mapped, maps, queue, job, failed, ids, unmapped, gone>>
      /\ Commits(w, {job[w]})
  BY DEF CommitParse, GoTo, TaskShape, TaskTypes, counts, source, task
<1>3. rows'[job[w]] # {} /\ \A g \in Guide : rows[g] # {} => rows'[g] # {}
  <2>1. \A g \in Guide : g # job[w] => gone[w][g] = {}
    BY <1>2 DEF FillInv, Deletes
  <2>2. QED  BY <1>2, <2>1 DEF Commits
<1>4. \A g \in Guide : Unfilled(g)' => Unfilled(g) /\ g # job[w]
  BY <1>2, <1>3, Excuses DEF Unfilled
<1>5. MappedOnce' /\ \A v \in Worker : ListKnown(v)' /\ Deletes(v)' /\ Refound(v)'
  BY <1>1, <1>2 DEF Alone, FillInv, MappedOnce, ListKnown, Deletes, Refound, Replacing
<1>6. \A v \in Worker : Through(v)'
  BY <1>1, <1>2, <1>4 DEF Alone, FillInv, Through
<1>7. Attended'
  BY <1>1, <1>2, <1>4 DEF Alone, FillInv, Attended, Coming
<1>8. QED  BY <1>5, <1>6, <1>7 DEF FillInv

\* The commit of a refresh: rows that it takes from a guide that has a channel again are
\* those of a guide that waits for its parse.
LEMMA CommitSwapFill ==
  ASSUME TaskShape, FillInv, Excusing, NEW w \in Worker, CommitSwap(w)
  PROVE  FillInv'
<1>1. Alone(w)
  BY ActsAlone DEF Acts, Refreshes
<1>2. /\ at'[w] = "late" /\ at[w] = "commit" /\ job[w] = "refresh"
      /\ UNCHANGED <<mapped, maps, queue, job, ids, unmapped, gone>>
      /\ Commits(w, ids[w])
  BY DEF CommitSwap, GoTo, TaskShape, TaskTypes, counts, source, task, At
<1>3. ASSUME NEW g \in Guide, g \in mapped, rows'[g] = {}
      PROVE  rows[g] = {} \/ (queue[g] > 0 /\ \A v \in Worker : job[v] # g)
  <2>1. g \notin ids[w] /\ (gone[w][g] = {} => rows[g] = {})
    BY <1>2, <1>3 DEF Commits
  <2>2. gone[w][g] # {} => g \in unmapped[w]
    BY <1>2, <2>1 DEF FillInv, Deletes
  <2>3. QED  BY <1>2, <1>3, <2>1, <2>2 DEF FillInv, Refound, Replacing
<1>4. \A g \in Guide : Unfilled(g)' =>
        Unfilled(g) \/ (queue[g] > 0 /\ \A v \in Worker : job[v] # g)
  BY <1>2, <1>3, Excuses DEF Unfilled
<1>5. MappedOnce' /\ \A v \in Worker : ListKnown(v)' /\ Deletes(v)' /\ Refound(v)'
  BY <1>1, <1>2 DEF Alone, FillInv, MappedOnce, ListKnown, Deletes, Refound, Replacing
<1>6. \A v \in Worker : Through(v)'
  BY <1>1, <1>2, <1>4 DEF Alone, FillInv, Through
<1>7. Attended'
  BY <1>1, <1>2, <1>4 DEF Alone, FillInv, Attended, Coming
<1>8. QED  BY <1>5, <1>6, <1>7 DEF FillInv

\* Guides that were mapped late get a message each.
LEMMA DispatchFill ==
  ASSUME TaskShape, FillInv, Excusing, NEW w \in Worker, DispatchLate(w)
  PROVE  FillInv'
<1>1. Alone(w)
  BY ActsAlone DEF Acts, Refreshes
<1>2. /\ at'[w] = "unlock" /\ at[w] = "late" /\ job[w] = "refresh"
      /\ UNCHANGED <<mapped, maps, rows, job, ids, unmapped, gone>>
  BY DEF DispatchLate, GoTo, TaskShape, TaskTypes, counts, source, guides, task, At
<1>3. \A g \in Guide : queue'[g] >= queue[g] /\ (queue'[g] # queue[g] => maps[g] = 1)
  BY <1>2 DEF DispatchLate, FillInv, ListKnown, TaskShape, TaskTypes, Job
<1>4. \A g \in Guide : Unfilled(g)' => Unfilled(g)
  BY <1>2, Excuses DEF Unfilled
<1>5. \A g \in Guide : queue[g] > 0 => queue'[g] > 0
  BY <1>3 DEF DispatchLate, TaskShape, TaskTypes, Job
<1>6. MappedOnce' /\ \A v \in Worker : ListKnown(v)' /\ Deletes(v)'
  BY <1>1, <1>2, <1>3 DEF Alone, FillInv, MappedOnce, ListKnown, Deletes
<1>7. \A v \in Worker : Through(v)'
  BY <1>1, <1>2, <1>4 DEF Alone, FillInv, Through
<1>8. ASSUME NEW v \in Worker PROVE Refound(v)'
  <2>1. Replacing(v)' => Replacing(v)
    BY <1>1, <1>2 DEF Alone, Replacing
  <2>2. Refound(v) /\ v \in Worker
    BY DEF FillInv
  <2>3. ASSUME Replacing(v)', NEW g \in (unmapped'[v] \cap mapped') \ ids'[v]
        PROVE  queue'[g] > 0 /\ \A u \in Worker : job'[u] # g
    BY <1>2, <1>5, <2>1, <2>2, <2>3 DEF Refound, TaskShape, TaskTypes
  <2>4. QED  BY <2>3 DEF Refound
<1>9. Attended'
  BY <1>1, <1>2, <1>4, <1>5 DEF Alone, FillInv, Attended, Coming
<1>10. QED  BY <1>6, <1>7, <1>8, <1>9 DEF FillInv

\* A guide that is given to a channel has its message; nothing else outside adds work.
LEMMA OutsideFill ==
  ASSUME GuideHypothesis, TaskShape, FillInv, Excusing, Outside
  PROVE  FillInv'
<1>1. UNCHANGED <<at, job, ids, unmapped, gone, rows>>
  BY DEF Outside, AskRefresh, AskIndex, Map, Unmap, Expires, Lapses, task, guides
<1>2. ASSUME NEW h \in Guide, Map(h) PROVE FillInv'
  <2>1. /\ h \notin mapped /\ mapped' = mapped \cup {h}
        /\ maps[h] = 0 /\ maps' = [maps EXCEPT ![h] = 1]
        /\ queue' = [queue EXCEPT ![h] = @ + 1]
    <3>1. maps[h] < MaxMaps[h] /\ MaxMaps[h] <= 1 /\ MaxMaps[h] \in Nat /\ maps[h] \in 0 .. 1
      BY <1>2 DEF Map, GuideHypothesis, FillInv, MappedOnce
    <3>2. maps[h] = 0
      BY <3>1
    <3>3. QED  BY <1>2, <3>2 DEF Map
  <2>2. queue'[h] > 0 /\ \A g \in Guide : g # h => queue'[g] = queue[g]
    BY <2>1 DEF TaskShape, TaskTypes, Job
  <2>3. \A v \in Worker : job[v] # h
    BY <2>1 DEF FillInv, MappedOnce
  <2>4. \A g \in Guide : Unfilled(g)' => Unfilled(g) \/ g = h
    BY <1>1, <2>1, Excuses DEF Unfilled
  <2>5. MappedOnce'
    BY <1>1, <2>1, <2>2 DEF FillInv, MappedOnce
  <2>6. \A v \in Worker : ListKnown(v)' /\ Deletes(v)'
    BY <1>1, <2>1 DEF FillInv, ListKnown, Deletes, MappedOnce
  <2>7. \A v \in Worker : Refound(v)'
    BY <1>1, <2>1, <2>2, <2>3 DEF FillInv, Refound, Replacing, TaskShape, TaskTypes
  <2>8. \A v \in Worker : Through(v)'
    BY <1>1, <2>3, <2>4 DEF FillInv, Through
  <2>9. Attended'
    BY <1>1, <2>2, <2>4 DEF FillInv, Attended, Coming
  <2>10. QED  BY <2>5, <2>6, <2>7, <2>8, <2>9 DEF FillInv
<1>3. CASE mapped' \subseteq mapped /\ maps' = maps /\ \A g \in Guide : queue'[g] = queue[g]
  <2>1. \A g \in Guide : Unfilled(g)' => Unfilled(g)
    BY <1>1, <1>3, Excuses DEF Unfilled
  <2>2. MappedOnce' /\ \A v \in Worker : ListKnown(v)' /\ Deletes(v)'
    BY <1>1, <1>3 DEF FillInv, MappedOnce, ListKnown, Deletes
  <2>5. \A v \in Worker : Refound(v)'
    BY <1>1, <1>3 DEF FillInv, Refound, Replacing, TaskShape, TaskTypes
  <2>3. Attended' /\ \A v \in Worker : Through(v)'
    BY <1>1, <1>3, <2>1 DEF FillInv, Attended, Coming, Through
  <2>4. QED  BY <2>2, <2>3, <2>5 DEF FillInv
<1>4. QED
  BY <1>2, <1>3 DEF Outside, AskRefresh, AskIndex, Unmap, Expires, Lapses, counts, guides,
     TaskShape, TaskTypes, Job

\* Taking a refresh or a build.
LEMMA TakeCalm ==
  ASSUME TaskShape, FillInv, NEW w \in Worker, TakeRefresh(w) \/ TakeIndex(w)
  PROVE  Calm(w)
<1>1. Alone(w)
  BY ActsAlone DEF Acts, Take
<1>2. /\ UNCHANGED <<mapped, rows, maps, ids, unmapped, gone>>
      /\ \A g \in Guide : queue'[g] = queue[g]
  BY DEF TakeRefresh, TakeIndex, Takes, guides, counts, source, task, TaskShape, TaskTypes, Job
<1>3. /\ at[w] = "away"
      /\ \/ at'[w] = "away" /\ job'[w] = job[w]
         \/ at'[w] \in {"invalidate", "scan"} /\ job'[w] \in {"refresh", "index"}
  BY DEF TakeRefresh, TakeIndex, Takes, GoTo, TaskShape, TaskTypes
<1>4. job[w] \notin Guide \cup {"refresh"}
  BY <1>3 DEF TaskShape, TaskPlaces, TaskPlace, Parsing, Refreshing
<1>5. ListKnown(w)' /\ Deletes(w)' /\ ~Replacing(w)'
  BY <1>2, <1>3, <1>4 DEF FillInv, ListKnown, Deletes, Replacing
<1>6. \A g \in Guide : ~Coming(w, g)
  BY <1>4 DEF Coming
<1>7. QED  BY <1>1, <1>2, <1>3, <1>4, <1>5, <1>6 DEF Calm

\* A task that is over leaves nothing to remember.
LEMMA EndsCalm ==
  ASSUME TaskShape, FillInv, NEW w \in Worker, Alone(w), Ends(w),
         UNCHANGED <<mapped, rows, maps, queue>>,
         job[w] \in Guide => at[w] \in {"decr", "zero"}
  PROVE  Calm(w)
<1>1. at'[w] = "away" /\ job'[w] = None /\ ids'[w] = None /\ gone'[w] = NoRows
  BY DEF Ends, GoTo, TaskShape, TaskTypes
<1>2. ListKnown(w)' /\ Deletes(w)' /\ ~Replacing(w)'
  BY <1>1 DEF ListKnown, Deletes, Replacing, NoRows
<1>3. \A g \in Guide : ~Coming(w, g)
  BY DEF Coming, Parsing
<1>4. QED  BY <1>1, <1>2, <1>3 DEF Calm

\* The steps of a refresh but its commit and the messages after it.
LEMMA RefreshCalm ==
  ASSUME TaskShape, FillInv, NEW w \in Worker, At(w, "refresh", at[w]), Refreshes(w),
         ~CommitSwap(w), ~DispatchLate(w)
  PROVE  Calm(w)
<1>1. Alone(w)
  BY ActsAlone DEF Acts
<1>2. /\ job[w] = "refresh" /\ "refresh" \notin Guide /\ "index" \notin Guide
      /\ \A g \in Guide : ~Coming(w, g)
  BY DEF At, Coming
<1>3. CASE UnlockRefresh(w)
  BY <1>1, <1>2, <1>3, EndsCalm DEF UnlockRefresh, guides, counts
<1>4. ASSUME NEW p, at'[w] = p, UNCHANGED <<mapped, rows, maps, job, gone, unmapped>>,
             \A g \in Guide : queue'[g] = queue[g], p \notin {"orphans", "commit"},
             ids'[w] = ids[w] \/ (ids'[w] = None /\ p = "unlock") \/ ids'[w] = mapped,
             p \in {"read", "reopen", "delete", "late"} => ids'[w] # None
      PROVE  Calm(w)
  <2>1. ListKnown(w)'
    BY <1>2, <1>4 DEF ListKnown, FillInv
  <2>2. Deletes(w)' /\ ~Replacing(w)'
    BY <1>2, <1>4 DEF Deletes, FillInv, Replacing
  <2>3. QED  BY <1>1, <1>2, <1>4, <2>1, <2>2 DEF Calm
<1>5. CASE Invalidate(w) \/ CheckCount(w) \/ LockFile(w) \/ UnlockFile(w)
  <2>1. /\ at \in [Worker -> Place] /\ queue \in [Job -> Nat]
        /\ {"refresh", "index"} \subseteq Job /\ Guide \subseteq Job
    BY PlaceNames DEF TaskShape, TaskTypes
  <2>2. \A g \in Guide : queue'[g] = queue[g]
    BY <1>2, <1>5, <2>1 DEF Invalidate, CheckCount, LockFile, UnlockFile, Defers
  <2>3. /\ at'[w] \in {"count", "lock", "release", "download"}
        /\ UNCHANGED <<mapped, rows, maps, job, gone, unmapped, ids>>
    BY <1>5, <2>1 DEF Invalidate, CheckCount, LockFile, UnlockFile, Defers, GoTo, guides, task,
                      counts
  <2>4. QED  BY <1>4, <2>2, <2>3
<1>6. CASE Download(w) \/ Store(w) \/ ReadFile(w) \/ Reopen(w) \/ Snapshot(w)
  <2>1. at \in [Worker -> Place] /\ ids \in [Worker -> (SUBSET Guide) \cup {None}] /\ ListKnown(w)
    BY DEF TaskShape, TaskTypes, FillInv
  <2>2. CASE Download(w) \/ Store(w) \/ ReadFile(w)
    <3>1. CASE Download(w)
      BY <1>4, <2>1, <3>1 DEF Download, GoTo, guides, counts
    <3>2. CASE Store(w)
      BY <1>2, <1>4, <2>1, <3>2 DEF Store, GoTo, guides, task, counts
    <3>3. CASE ReadFile(w)
      BY <1>2, <1>4, <2>1, <3>3 DEF ReadFile, At, ListKnown, GoTo, guides, counts
    <3>4. QED  BY <2>2, <3>1, <3>2, <3>3
  <2>3. CASE Reopen(w)
    BY <1>2, <1>4, <2>1, <2>3 DEF Reopen, Fails, ListKnown, GoTo, guides, counts
  <2>4. CASE Snapshot(w)
    <3>1. ids'[w] = mapped /\ mapped # None
      BY <2>1, <2>4 DEF Snapshot, TaskShape, TaskTypes
    <3>2. QED  BY <1>2, <1>4, <2>1, <2>4, <3>1 DEF Snapshot, GoTo, guides, counts
  <2>5. QED  BY <1>6, <2>2, <2>3, <2>4
<1>7. CASE DeleteReplaced(w)
  <2>1. /\ at'[w] = "orphans" /\ at[w] = "delete"
        /\ UNCHANGED <<mapped, rows, maps, queue, job, ids>>
        /\ gone'[w] = [g \in Guide |-> IF g \in ids[w] THEN rows[g] ELSE {}]
        /\ unmapped'[w] = Guide \ mapped
    BY <1>7 DEF DeleteReplaced, At, GoTo, guides, counts, TaskShape, TaskTypes
  <2>2. ListKnown(w)' /\ Deletes(w)'
    BY <1>2, <2>1 DEF ListKnown, Deletes, FillInv
  <2>3. QED  BY <1>1, <1>2, <2>1, <2>2 DEF Calm
<1>8. CASE DeleteOrphans(w)
  <2>1. /\ at'[w] = "commit" /\ at[w] = "orphans"
        /\ UNCHANGED <<mapped, rows, maps, queue, job, ids, unmapped>>
        /\ gone'[w] = [g \in Guide |-> IF g \in unmapped[w] THEN gone[w][g] \cup rows[g]
                                                              ELSE gone[w][g]]
    BY <1>8 DEF DeleteOrphans, At, GoTo, guides, counts, TaskShape, TaskTypes
  <2>2. ListKnown(w)' /\ Deletes(w)'
    BY <1>2, <2>1 DEF ListKnown, Deletes, FillInv
  <2>3. QED  BY <1>1, <1>2, <2>1, <2>2 DEF Calm, Replacing
<1>9. QED  BY <1>3, <1>5, <1>6, <1>7, <1>8 DEF Refreshes

\* The steps of a parse but its commit. One that meets the lock of its guide leaves it to the
\* parse that holds the lock.
LEMMA ParseCalm ==
  ASSUME TaskShape, LocksKept, FillInv, NEW w \in Worker, job[w] \in Guide,
         Parses(w) \/ Download(w) \/ Store(w) \/ Reopen(w), ~CommitParse(w)
  PROVE  Calm(w)
<1>1. Alone(w)
  BY ActsAlone DEF Acts, Refreshes
<1>2. /\ at \in [Worker -> Place] /\ ids \in [Worker -> (SUBSET Guide) \cup {None}]
      /\ job[w] \notin {"refresh", "index", None} /\ ListKnown(w) /\ Deletes(w)
  BY DEF TaskShape, TaskTypes, FillInv
<1>3. CASE Ends(w) /\ (Decr(w) \/ Zero(w))
  BY <1>1, <1>3, EndsCalm DEF Decr, Zero, guides, counts
<1>4. ASSUME NEW p, at'[w] = p, UNCHANGED <<mapped, rows, maps, job, queue, unmapped>>,
             ids'[w] = ids[w] \/ ids'[w] = None,
             \A g \in Guide : g # job[w] => gone'[w][g] = gone[w][g],
             p = "unlock" => job[w] \notin mapped \/ failed',
             at[w] \in {"incr", "lock"} \cup (Parsing \ {"unlock"}) =>
               \/ p \in {"lock"} \cup (Parsing \ {"unlock"}) \/ failed' \/ job[w] \notin mapped
               \/ \E v \in Worker \ {w} : job[v] = job[w] /\ at[v] \in Parsing
      PROVE  Calm(w)
  <2>1. ListKnown(w)' /\ Deletes(w)' /\ ~Replacing(w)'
    BY <1>2, <1>4 DEF ListKnown, Deletes, Replacing
  <2>2. QED  BY <1>1, <1>2, <1>4, <2>1 DEF Calm, Coming
<1> USE DEF Parsing
<1>5. CASE Incr(w) \/ CheckMapped(w) \/ OpenFile(w) \/ UnlockParse(w)
  BY <1>2, <1>4, <1>5 DEF Incr, CheckMapped, OpenFile, UnlockParse, GoTo, guides, task, counts
<1>6. CASE Download(w) \/ Store(w) \/ Reopen(w)
  BY <1>2, <1>4, <1>6 DEF Download, Store, Reopen, Fails, GoTo, guides, task, counts
<1>7. CASE DeleteOld(w)
  <2>1. \A g \in Guide : g # job[w] => gone'[w][g] = gone[w][g]
    BY <1>7 DEF DeleteOld, TaskShape, TaskTypes
  <2>2. QED  BY <1>2, <1>4, <1>7, <2>1 DEF DeleteOld, GoTo, guides, counts
<1>8. CASE LockParse(w)
  <2>1. /\ at[w] = "lock" /\ at'[w] = IF job[w] \in locks THEN "decr" ELSE "check"
        /\ UNCHANGED <<mapped, rows, maps, job, queue, unmapped, ids, gone>>
    BY <1>2, <1>8 DEF LockParse, GoTo, guides, task, counts
  <2>2. job[w] \in locks => \E v \in Worker : job[v] = job[w] /\ at[v] \in Parsing
    BY HoldsMeans DEF LocksKept, Held
  <2>3. at[w] \notin Parsing
    BY <2>1
  <2>4. QED  BY <1>4, <2>1, <2>2, <2>3
<1>9. CASE Decr(w) /\ GoTo(w, "zero") /\ UNCHANGED <<job, task>>
  BY <1>2, <1>4, <1>9 DEF Decr, GoTo, guides, task, counts
<1>10. QED  BY <1>3, <1>5, <1>6, <1>7, <1>8, <1>9 DEF Parses, Decr, Zero

\* The steps of a build, and what goes wrong.
LEMMA OtherCalm ==
  ASSUME TaskShape, FillInv, NEW w \in Worker, Builds(w) \/ DownloadFails(w) \/ Dies(w)
  PROVE  Calm(w)
<1>1. Alone(w)
  BY ActsAlone DEF Acts
<1>2. /\ at \in [Worker -> Place] /\ ids \in [Worker -> (SUBSET Guide) \cup {None}] /\ TaskPlace(w)
      /\ job \in [Worker -> Job \cup {None}]
      /\ {"refresh", "index", None} \cap Guide = {} /\ ListKnown(w) /\ Deletes(w)
  BY DEF TaskShape, TaskTypes, TaskPlaces, FillInv
<1>3. CASE Dies(w) \/ UnlockIndex(w)
  BY <1>1, <1>2, <1>3, EndsCalm DEF Dies, UnlockIndex, At, guides, counts
<1>4. CASE Scan(w) \/ SaveIndex(w)
  <2>1. job[w] \notin Guide \cup {"refresh"} /\ job' = job
    BY <1>2, <1>4 DEF Scan, SaveIndex, TaskPlace, Refreshing, Parsing, task
  <2>2. UNCHANGED <<mapped, rows, maps, queue, ids, unmapped, gone>>
    BY <1>4 DEF Scan, SaveIndex, guides, counts, task
  <2>3. ListKnown(w)' /\ Deletes(w)' /\ ~Replacing(w)'
    BY <1>2, <2>1, <2>2 DEF ListKnown, Deletes, Replacing
  <2>4. QED  BY <1>1, <2>1, <2>2, <2>3 DEF Calm, Coming
<1>5. CASE DownloadFails(w)
  <2>1. /\ at'[w] = "unlock" /\ failed' = TRUE /\ ids'[w] = None
        /\ UNCHANGED <<mapped, rows, maps, queue, unmapped, gone, job>>
    BY <1>2, <1>5 DEF DownloadFails, Fails, GoTo, guides
  <2>2. ListKnown(w)' /\ Deletes(w)' /\ ~Replacing(w)'
    BY <1>2, <2>1 DEF ListKnown, Deletes, Replacing
  <2>3. QED  BY <1>1, <2>1, <2>2 DEF Calm
<1>6. QED  BY <1>3, <1>4, <1>5 DEF Builds

\* So every step keeps the invariant.
LEMMA FillStep ==
  ASSUME GuideHypothesis, TaskShape, LocksKept, FillInv,
         [GuideNext]_guideVars, [Excusing]_<<guideVars, excused>>
  PROVE  FillInv'
<1>1. CASE UNCHANGED guideVars
  <2>1. \A g \in Guide : Unfilled(g)' => Unfilled(g)
    BY <1>1, Excuses DEF guideVars, Unfilled
  <2>2. QED  BY <1>1, <2>1 DEF guideVars, FillInv, MappedOnce, Attended, ListKnown, Deletes,
        Refound, Through, Coming, Replacing
<1>2. CASE Outside /\ Excusing /\ ~UNCHANGED guideVars
  BY <1>2, OutsideFill
<1>3. ASSUME NEW w \in Worker, Acts(w), Excusing PROVE FillInv'
  <2>1. CASE Take(w)
    BY <1>3, <2>1, TakeCalm, CalmFill, TakeParseFill DEF Take
  <2>2. CASE Builds(w) \/ DownloadFails(w) \/ Dies(w)
    BY <1>3, <2>2, OtherCalm, CalmFill
  <2>3. CASE Parses(w)
    <3>1. job[w] \in Guide
      BY <2>3 DEF Parses, Incr, LockParse, CheckMapped, OpenFile, DeleteOld, CommitParse,
         UnlockParse, Decr, Zero, TaskShape, TaskTypes, TaskPlaces, TaskPlace, Refreshing, Job
    <3>2. QED  BY <1>3, <2>3, <3>1, ParseCalm, CalmFill, CommitParseFill
  <2>4. CASE Refreshes(w)
    <3>1. CASE job[w] = "refresh"
      BY <1>3, <2>4, <3>1, RefreshCalm, CalmFill, CommitSwapFill, DispatchFill DEF At
    <3>2. CASE job[w] # "refresh"
      <4>1. Download(w) \/ Store(w) \/ Reopen(w)
        BY <2>4, <3>2 DEF Refreshes, Invalidate, CheckCount, LockFile, Snapshot, ReadFile,
           DeleteReplaced, DeleteOrphans, CommitSwap, DispatchLate, UnlockFile, UnlockRefresh, At
      <4>2. job[w] \in Guide
        BY <3>2, <4>1 DEF Download, Store, Reopen, TaskShape, TaskTypes, TaskPlaces, TaskPlace,
           Job
      <4>3. ~CommitParse(w)
        BY <4>1 DEF Download, Store, Reopen, CommitParse
      <4>4. QED  BY <1>3, <4>1, <4>2, <4>3, ParseCalm, CalmFill
    <3>3. QED  BY <3>1, <3>2
  <2>5. QED  BY <1>3, <2>1, <2>2, <2>3, <2>4 DEF Acts
<1>4. Excusing \/ UNCHANGED guideVars
  OBVIOUS
<1>5. QED  BY <1>1, <1>2, <1>3, <1>4, NextCases

\* A guide that has a channel at first has its programmes.
LEMMA InitFill == GuideInit /\ excused = {} => FillInv
<1> SUFFICES ASSUME GuideInit PROVE FillInv
  OBVIOUS
<1>1. MappedOnce
  BY DEF GuideInit, MappedOnce, Job
<1>2. Attended
  BY DEF GuideInit, Attended, Unfilled
<1>3. \A w \in Worker : ListKnown(w) /\ Deletes(w) /\ Refound(w) /\ Through(w)
  BY DEF GuideInit, ListKnown, Deletes, Refound, Through, Replacing, NoRows
<1>4. QED  BY <1>1, <1>2, <1>3 DEF FillInv

\* The state part of MappedFilled, for any guides, workers, editions, refreshes, builds and
\* faults: a guide that has a channel and no programmes is never forgotten, whatever
\* refresh commits over it, dies before it has told of the guides mapped late, or parse
\* leaves it to another, unless the source failed since (tasks.py:
\* _swap_staged_epg_programs, _dispatch_late_mapped_epg_parses).
THEOREM GuidesAttended ==
  ASSUME GuideHypothesis
  PROVE  GuideSpec /\ excused = {} /\ [][Excusing]_<<guideVars, excused>> => []Attended
<1>1. /\ TaskShape /\ LocksKept /\ FillInv
      /\ [GuideNext]_guideVars /\ [Excusing]_<<guideVars, excused>>
      => TaskShape' /\ LocksKept' /\ FillInv'
  BY TaskShapeStep, LocksStep, FillStep
<1>2. FillInv => Attended
  BY DEF FillInv
<1>3. QED  BY <1>1, <1>2, InitTasks, InitLocks, InitFill, PTL DEF GuideSpec
=============================================================================
