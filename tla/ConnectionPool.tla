--------------------------- MODULE ConnectionPool ---------------------------
(* Slot accounting of apps/m3u/connection_pool.py: reserve_profile_slot and  *)
(* release_profile_slot, run by many requests at once in several workers.    *)
(* All the state they share is in Redis, so one action is one Redis command  *)
(* together with the local code up to the next command.                      *)
(*                                                                           *)
(* A request c reserves a slot of one M3U account profile (INCR of the       *)
(* profile's counter, undone when it went past the limit) and, when the      *)
(* account is in a ServerGroup, a slot of the provider login behind it (a    *)
(* second counter, shared by every profile with that login). The key of the  *)
(* login's counter is written to ONE Redis key per profile, and read back    *)
(* from there at release.                                                    *)
EXTENDS Integers, FiniteSets

CONSTANTS
  Conn,        \* requests: channels, previews, VOD sessions, probes, catch-up
  Profile,     \* rows of M3UAccountProfile
  NoProfile,   \* of a request that is idle
  Login,       \* counter keys server_group_connections:{group}:{fingerprint}
  NotPooled,   \* LoginOf of a profile whose account is in no ServerGroup
  NoLogin,     \* LoginOf of a pooled profile with no fingerprint; also "no key"
  LoginOf,     \* [Profile -> Login \cup {NotPooled, NoLogin}]
  MaxStreams,  \* [Profile -> Nat], 0 for unlimited
  Overlap,     \* PROBATION_EXTRA_CAPACITY
  MaxHeld      \* bound on the slots held for viewers that switch channels

ASSUME PoolAssumption ==
  /\ IsFiniteSet(Conn)
  /\ NoProfile \notin Profile
  /\ NotPooled \notin Login
  /\ NoLogin \notin Login \cup {NotPooled}
  /\ LoginOf \in [Profile -> Login \cup {NotPooled, NoLogin}]
  /\ MaxStreams \in [Profile -> Nat]
  /\ Overlap \in Nat
  /\ MaxHeld \in Nat

VARIABLES
  profile_connections,       \* [Profile -> Int]
  server_group_connections,  \* [Login -> Int]
  credential_release,        \* [Profile -> Login \cup {NoLogin}]
  pc,                        \* where each request is
  prof,                      \* the profile it works on
  trial,                     \* it reserves with extra_capacity = Overlap
  key                        \* cred_key: the counter key it read at release

counters == <<profile_connections, server_group_connections, credential_release>>
local == <<prof, trial, key>>
vars == <<profile_connections, server_group_connections, credential_release,
          pc, prof, trial, key>>

(***************************************************************************)
(* Where a request can be. Reserving: undo_profile, reserve_login,          *)
(* undo_login, remember. Then open. Releasing: read_key .. forget are       *)
(* _release_credential_slot_by_profile_id, the last two the profile's DECR. *)
(***************************************************************************)
PC == {"idle", "undo_profile", "reserve_login", "undo_login", "remember", "open",
       "read_key", "read_login", "decr_login", "zero_login", "forget",
       "read_count", "decr_count"}

Limited(p) == MaxStreams[p] > 0
Pooled(p) == LoginOf[p] # NotPooled /\ Limited(p)
Extra(t) == IF t THEN Overlap ELSE 0
Limit(c) == MaxStreams[prof[c]] + Extra(trial[c])

Goto(c, l) == pc' = [pc EXCEPT ![c] = l]
Bump(counter, k, n) == [counter EXCEPT ![k] = @ + n]

Begin(c, p, t) ==
  /\ pc[c] = "idle"
  /\ prof' = [prof EXCEPT ![c] = p]
  /\ trial' = [trial EXCEPT ![c] = t]

Finish(c) ==
  /\ Goto(c, "idle")
  /\ prof' = [prof EXCEPT ![c] = NoProfile]
  /\ trial' = [trial EXCEPT ![c] = FALSE]

Init ==
  /\ profile_connections = [p \in Profile |-> 0]
  /\ server_group_connections = [l \in Login |-> 0]
  /\ credential_release = [p \in Profile |-> NoLogin]
  /\ pc = [c \in Conn |-> "idle"]
  /\ prof = [c \in Conn |-> NoProfile]
  /\ trial = [c \in Conn |-> FALSE]
  /\ key = [c \in Conn |-> NoLogin]

(***************************************************************************)
(* reserve_profile_slot                                                     *)
(***************************************************************************)
\* An unlimited profile is not counted, and its login is not either.
ReserveUnlimited(c, p, t) ==
  /\ Begin(c, p, t)
  /\ ~Limited(p)
  /\ Goto(c, "open")
  /\ UNCHANGED <<counters, key>>

\* Mutant of IncrProfile: the count from before the INCR is compared.
IncrProfileOffByOne(c, p, t, held) ==
  /\ Begin(c, p, t)
  /\ Limited(p)
  /\ profile_connections' = Bump(profile_connections, p, 1)
  /\ Goto(c, IF profile_connections[p] > MaxStreams[p] + Extra(t) - held
             THEN "undo_profile" ELSE "reserve_login")
  /\ UNCHANGED <<server_group_connections, credential_release, key>>

\* INCR of the profile's counter. The slots held for other viewers were read
\* before it and may be stale, so any number up to the bound is possible.
IncrProfile(c, p, t, held) ==
  /\ Begin(c, p, t)
  /\ Limited(p)
  /\ profile_connections' = Bump(profile_connections, p, 1)
  /\ Goto(c, IF profile_connections[p] + 1 > MaxStreams[p] + Extra(t) - held
             THEN "undo_profile" ELSE "reserve_login")
  /\ UNCHANGED <<server_group_connections, credential_release, key>>

\* DECR after profile_full, or after credential_full.
UndoProfile(c) ==
  /\ pc[c] = "undo_profile"
  /\ profile_connections' = Bump(profile_connections, prof[c], -1)
  /\ Finish(c)
  /\ UNCHANGED <<server_group_connections, credential_release, key>>

\* _reserve_server_group_slot_for_profile: no pool, nothing to count.
SkipLogin(c) ==
  /\ pc[c] = "reserve_login"
  /\ ~Pooled(prof[c])
  /\ Goto(c, "open")
  /\ UNCHANGED <<counters, local>>

\* Mutant of RefuseUnknownLogin: refused without the DECR of the profile.
RefuseWithoutUndo(c) ==
  /\ pc[c] = "reserve_login"
  /\ Pooled(prof[c])
  /\ LoginOf[prof[c]] = NoLogin
  /\ Finish(c)
  /\ UNCHANGED <<counters, key>>

\* A pooled profile whose login has no fingerprint is refused.
RefuseUnknownLogin(c) ==
  /\ pc[c] = "reserve_login"
  /\ Pooled(prof[c])
  /\ LoginOf[prof[c]] = NoLogin
  /\ Goto(c, "undo_profile")
  /\ UNCHANGED <<counters, local>>

\* Mutant of IncrLogin: the count from before the INCR is compared.
IncrLoginOffByOne(c, held) ==
  /\ pc[c] = "reserve_login"
  /\ Pooled(prof[c])
  /\ LET l == LoginOf[prof[c]] IN
       /\ l # NoLogin
       /\ server_group_connections' = Bump(server_group_connections, l, 1)
       /\ Goto(c, IF server_group_connections[l] <= Limit(c) - held
                  THEN "remember" ELSE "undo_login")
  /\ UNCHANGED <<profile_connections, credential_release, local>>

IncrLogin(c, held) ==
  /\ pc[c] = "reserve_login"
  /\ Pooled(prof[c])
  /\ LET l == LoginOf[prof[c]] IN
       /\ l # NoLogin
       /\ server_group_connections' = Bump(server_group_connections, l, 1)
       /\ Goto(c, IF server_group_connections[l] + 1 <= Limit(c) - held
                  THEN "remember" ELSE "undo_login")
  /\ UNCHANGED <<profile_connections, credential_release, local>>

\* Mutant of UndoLogin: the login is given back, the profile is not.
UndoLoginOnly(c) ==
  /\ pc[c] = "undo_login"
  /\ server_group_connections' = Bump(server_group_connections, LoginOf[prof[c]], -1)
  /\ Finish(c)
  /\ UNCHANGED <<profile_connections, credential_release, key>>

\* Mutant of UndoLogin: the DECR is followed by all of release_profile_slot.
UndoLoginTwice(c) ==
  /\ pc[c] = "undo_login"
  /\ server_group_connections' = Bump(server_group_connections, LoginOf[prof[c]], -1)
  /\ Goto(c, "read_key")
  /\ UNCHANGED <<profile_connections, credential_release, local>>

UndoLogin(c) ==
  /\ pc[c] = "undo_login"
  /\ server_group_connections' = Bump(server_group_connections, LoginOf[prof[c]], -1)
  /\ Goto(c, "undo_profile")
  /\ UNCHANGED <<profile_connections, credential_release, local>>

\* _remember_credential_release_key: one key per profile, whoever holds it.
Remember(c) ==
  /\ pc[c] = "remember"
  /\ credential_release' = [credential_release EXCEPT ![prof[c]] = LoginOf[prof[c]]]
  /\ Goto(c, "open")
  /\ UNCHANGED <<profile_connections, server_group_connections, local>>

(***************************************************************************)
(* release_profile_slot. The release of the login's slot is a routine of its *)
(* own (a profile switch runs it too): next is where its caller goes on.     *)
(***************************************************************************)
BeginRelease(c) ==
  /\ pc[c] = "open"
  /\ Goto(c, "read_key")
  /\ UNCHANGED <<counters, local>>

\* Mutant of ReadReleaseKey: a missing key is not noticed.
ReadReleaseKeyUnchecked(c, next) ==
  /\ pc[c] = "read_key"
  /\ key' = [key EXCEPT ![c] = credential_release[prof[c]]]
  /\ Goto(c, "read_login")
  /\ UNCHANGED <<counters, prof, trial>>

\* GET of the key remembered for the profile; none, no login slot to release.
ReadReleaseKey(c, next) ==
  /\ pc[c] = "read_key"
  /\ key' = [key EXCEPT ![c] = credential_release[prof[c]]]
  /\ Goto(c, IF credential_release[prof[c]] = NoLogin THEN next ELSE "read_login")
  /\ UNCHANGED <<counters, prof, trial>>

\* _safe_decr: GET, then DECR, then SET 0 if that went below zero, which only the
\* switches of ProfileSwitch (ZeroLogin) come to: see LoginCounterCovers.
ReadLoginCount(c) ==
  /\ pc[c] = "read_login"
  /\ Goto(c, IF server_group_connections[key[c]] <= 0 THEN "forget" ELSE "decr_login")
  /\ UNCHANGED <<counters, local>>

DecrLogin(c) ==
  /\ pc[c] = "decr_login"
  /\ server_group_connections' = Bump(server_group_connections, key[c], -1)
  /\ Goto(c, IF server_group_connections[key[c]] - 1 < 0 THEN "zero_login" ELSE "forget")
  /\ UNCHANGED <<profile_connections, credential_release, local>>

\* DEL of the profile's release key.
ForgetKey(c, next) ==
  /\ pc[c] = "forget"
  /\ credential_release' = [credential_release EXCEPT ![prof[c]] = NoLogin]
  /\ key' = [key EXCEPT ![c] = NoLogin]
  /\ Goto(c, next)
  /\ UNCHANGED <<profile_connections, server_group_connections, prof, trial>>

\* GET of the profile's counter: only a positive one is decremented.
ReadProfileCount(c) ==
  /\ pc[c] = "read_count"
  /\ IF profile_connections[prof[c]] > 0
     THEN Goto(c, "decr_count") /\ UNCHANGED <<prof, trial>>
     ELSE Finish(c)
  /\ UNCHANGED <<counters, key>>

DecrProfile(c) ==
  /\ pc[c] = "decr_count"
  /\ profile_connections' = Bump(profile_connections, prof[c], -1)
  /\ Finish(c)
  /\ UNCHANGED <<server_group_connections, credential_release, key>>

\* Where the overlap is not used nobody asks for it.
Trials == IF Overlap = 0 THEN {FALSE} ELSE BOOLEAN

Reserve(c) ==
  \/ \E p \in Profile, t \in Trials : ReserveUnlimited(c, p, t)
  \/ \E p \in Profile, t \in Trials, held \in 0..MaxHeld : IncrProfile(c, p, t, held)
  \/ UndoProfile(c)
  \/ SkipLogin(c)
  \/ RefuseUnknownLogin(c)
  \/ \E held \in 0..MaxHeld : IncrLogin(c, held)
  \/ UndoLogin(c)
  \/ Remember(c)

DecrementLogin(c) == ReadLoginCount(c) \/ DecrLogin(c)

Release(c) ==
  \/ BeginRelease(c)
  \/ ReadReleaseKey(c, "read_count")
  \/ DecrementLogin(c)
  \/ ForgetKey(c, "read_count")
  \/ ReadProfileCount(c)
  \/ DecrProfile(c)

Next == \E c \in Conn : Reserve(c) \/ Release(c)

Spec == Init /\ [][Next]_vars
-----------------------------------------------------------------------------
(***************************************************************************)
(* Properties                                                               *)
(***************************************************************************)
\* What a request knows where it stands: it is on a profile unless idle, it
\* undoes or releases only what is counted, past the checks of
\* _reserve_server_group_slot_for_profile it is on a pooled profile, and the key
\* it read at release is the key of the login it reserved.
CountsProfile == {"undo_profile", "reserve_login", "decr_count"}
KnowsLogin == {"undo_login", "remember", "read_login", "decr_login", "zero_login", "forget"}
UsesKey == {"read_login", "decr_login", "zero_login", "forget"}

PlacesOK ==
  /\ \A c \in Conn :
       /\ (pc[c] = "idle") <=> (prof[c] = NoProfile)
       /\ pc[c] \in CountsProfile \cup KnowsLogin => Limited(prof[c])
       /\ pc[c] \in KnowsLogin => LoginOf[prof[c]] \in Login
       /\ pc[c] \in UsesKey => key[c] = LoginOf[prof[c]]
  /\ \A p \in Profile :
       credential_release[p] # NoLogin => Limited(p) /\ credential_release[p] = LoginOf[p]

\* The shape of the shared and of the local state, and what each place knows.
TypeOK ==
  /\ profile_connections \in [Profile -> Int]
  /\ server_group_connections \in [Login -> Int]
  /\ credential_release \in [Profile -> Login \cup {NoLogin}]
  /\ pc \in [Conn -> PC]
  /\ prof \in [Conn -> Profile \cup {NoProfile}]
  /\ trial \in [Conn -> BOOLEAN]
  /\ key \in [Conn -> Login \cup {NoLogin}]
  /\ PlacesOK

\* The requests whose INCR of the profile's counter has not been undone.
Counted(p) == {c \in Conn : prof[c] = p /\ Limited(p)}

\* profile_connections:{p} is the number of requests that hold a slot of p, or
\* are about to undo or release it: no interleaving of reservations and
\* releases loses a slot of a profile or counts one twice.
ProfileCounterExact ==
  \A p \in Profile : profile_connections[p] = Cardinality(Counted(p))

\* The requests that passed the check of the profile's limit.
Admitted(p) == {c \in Counted(p) : pc[c] # "undo_profile"}

AtMost(S, n) == Cardinality({d \in S : Limit(d) <= n}) <= n

\* "Maximum number of concurrent streams": a request admitted under a limit
\* shares its profile with fewer others under that limit, at every moment and
\* not only at the INCR; one past the limit only where the overlap is in use.
ProfileLimit ==
  \A p \in Profile : \A c \in Admitted(p) : AtMost(Admitted(p), Limit(c))

\* The requests whose INCR of the login's counter has not been taken back.
LoginCounted(l) ==
  {c \in Conn :
     /\ prof[c] \in Profile
     /\ LoginOf[prof[c]] = l
     /\ Limited(prof[c])
     /\ pc[c] \in {"undo_login", "remember", "open", "read_key", "read_login", "decr_login"}}

\* The counter of a login never says less than what is in use, so a lost or a
\* shared release key can make the login look full but never look free; hence
\* it is never negative and _safe_decr never comes to its SET 0.
LoginCounterCovers ==
  /\ \A l \in Login : server_group_connections[l] >= Cardinality(LoginCounted(l))
  /\ \A c \in Conn : pc[c] # "zero_login"

LoginAdmitted(l) == {c \in LoginCounted(l) : pc[c] # "undo_login"}

\* One provider login is not used by more requests at once than the limit under
\* which each was admitted, whatever profiles of the ServerGroup they came by.
LoginLimit ==
  \A l \in Login : \A c \in LoginAdmitted(l) : AtMost(LoginAdmitted(l), Limit(c))

\* The two pools a reservation goes through, as the semaphores they promise to be.
ProfileBounds == [p \in Profile |-> {MaxStreams[p], MaxStreams[p] + Overlap}]
LoginBounds ==
  [l \in Login |-> UNION {ProfileBounds[p] : p \in {q \in Profile : LoginOf[q] = l}}]

Profiles == INSTANCE SlotSemaphore
  WITH Client <- Conn, Pool <- Profile, Bounds <- ProfileBounds,
       holders <- [p \in Profile |-> Admitted(p)]
Logins == INSTANCE SlotSemaphore
  WITH Client <- Conn, Pool <- Login, Bounds <- LoginBounds,
       holders <- [l \in Login |-> LoginAdmitted(l)]

\* The counters of the profiles implement a semaphore per profile.
ProfilesAreSemaphores == Profiles!Spec
\* The counters of the logins implement a semaphore per login.
LoginsAreSemaphores == Logins!Spec
=============================================================================
