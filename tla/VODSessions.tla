----------------------------- MODULE VODSessions -----------------------------
(* How the byte-range requests of VOD sessions share one provider slot: the  *)
(* Redis hash of a session (vod_proxy/multi_worker_connection_manager.py) as *)
(* stream_content_with_session sets a request up, plays it and tears it down *)
(* on several workers, with the session and profile that vod_proxy/views.py  *)
(* chose for it.                                                             *)
(*                                                                           *)
(* A session counts its requests in active_streams. The request that counts  *)
(* 0 -> 1 takes the profile's slot, the one that counts 1 -> 0 gives it      *)
(* back; the hash stays for a second, and is then deleted if it is idle.     *)
(* Reserving and releasing a slot are atomic: ConnectionPool shows it. Each  *)
(* Lua script is a step, as is each HGETALL.                                 *)
EXTENDS Integers, FiniteSets

CONSTANTS
  Request,      \* HTTP requests under way at a time, each in its worker
  Session,      \* session ids, used again once their hash is gone
  Profile,
  None,
  Limit,        \* [Profile -> Nat \ {0}]: max_streams
  MaxRetired    \* bound: profiles that are inactive at a time

ASSUME VODAssumption ==
  /\ None \notin Profile \cup Session
  /\ Limit \in [Profile -> Nat \ {0}]
  /\ MaxRetired \in Nat
  /\ IsFiniteSet(Request) /\ IsFiniteSet(Session)

VARIABLES
  slots,        \* [Profile -> Int]: profile_connections
  active,       \* [Session -> Nat]: active_streams of the hash
  bound,        \* [Session -> its m3u_profile_id, or None when there is no hash]
  cleaning,     \* SUBSET Session: delayed_cleanup threads that sleep
  valid,        \* SUBSET Profile: rows with is_active
  at,           \* [Request -> Place]
  own, sid,     \* [Request -> Session \cup {None}]: session_id, effective_session_id
  view,         \* [Request -> Profile \cup {None}]: m3u_profile, the view's pick
  stored,       \* ...: m3u_profile_id of the state it read last
  eff,          \* ...: effective_profile
  staked,       \* [Request -> BOOLEAN]: active_streams_reserved
  first,        \* [Request -> BOOLEAN]: its increment was 0 -> 1
  private,      \* [Request -> BOOLEAN]: it holds a slot of view, for no session yet
  crossed       \* BOOLEAN (ghost): a state so far was Crossed

hash == <<active, bound>>
request == <<own, sid, view, stored, eff, staked, first, private>>
vars == <<slots, active, bound, cleaning, valid, at, own, sid, view, stored, eff,
          staked, first, private, crossed>>

Place == {"away", "find", "grab", "look", "reserve", "create", "race", "lost", "join",
          "resolve", "rewrite", "drop", "claim", "undo", "open", "fetch", "play", "release"}

Exists(s) == bound[s] # None
Set(f, x, v) == [f EXCEPT ![x] = v]
Goto(r, l) == at' = Set(at, r, l)

\* The request is answered: its locals are gone.
Leave(r) ==
  /\ Goto(r, "away")
  /\ own' = Set(own, r, None) /\ sid' = Set(sid, r, None)
  /\ view' = Set(view, r, None) /\ stored' = Set(stored, r, None) /\ eff' = Set(eff, r, None)
  /\ staked' = Set(staked, r, FALSE) /\ first' = Set(first, r, FALSE)
  /\ private' = Set(private, r, FALSE)

Init ==
  /\ slots = [p \in Profile |-> 0]
  /\ active = [s \in Session |-> 0] /\ bound = [s \in Session |-> None]
  /\ cleaning = {}
  /\ valid = Profile
  /\ at = [r \in Request |-> "away"]
  /\ own = [r \in Request |-> None] /\ sid = own
  /\ view = [r \in Request |-> None] /\ stored = view /\ eff = view
  /\ staked = [r \in Request |-> FALSE] /\ first = staked /\ private = staked
  /\ crossed = FALSE

-----------------------------------------------------------------------------
(* The scripts, and the pool.                                                *)

Reserve(p) == slots[p] < Limit[p] /\ slots' = Set(slots, p, slots[p] + 1)
Full(p) == slots[p] >= Limit[p] /\ UNCHANGED slots
\* Mutant: the pool's counter is not clamped at 0.
GiveBackUnclamped(p) == slots' = Set(slots, p, slots[p] - 1)
GiveBack(p) == slots' = Set(slots, p, IF slots[p] > 0 THEN slots[p] - 1 ELSE 0)

\* vod_incr_as of r's session s: 0, and nothing done, when there is no hash.
Increment(r, s) ==
  /\ active' = Set(active, s, active[s] + 1)
  /\ staked' = Set(staked, r, TRUE)
  /\ first' = Set(first, r, active[s] = 0)

\* vod_decr_as of r's session: nothing done without hash or at 0.
Decrement(r) ==
  active' = IF active[sid[r]] > 0 THEN Set(active, sid[r], active[sid[r]] - 1) ELSE active
HitsZero(r) == active[sid[r]] = 1

-----------------------------------------------------------------------------
(* The view and the choice of the session.                                   *)

\* _get_m3u_profile: the profile the session is bound to while it is valid,
\* else a valid one with room.
Arrive(r, s, p) ==
  /\ at[r] = "away"
  /\ p \in valid
  /\ IF Exists(s) /\ bound[s] \in valid THEN p = bound[s] ELSE slots[p] < Limit[p]
  /\ own' = Set(own, r, s) /\ sid' = Set(sid, r, s)
  /\ view' = Set(view, r, p) /\ stored' = Set(stored, r, p) /\ eff' = Set(eff, r, p)
  /\ Goto(r, "find")
  /\ UNCHANGED <<slots, hash, cleaning, valid, staked, first, private>>

\* find_matching_idle_session: a session of the same viewer and title without
\* active streams. It is a SCAN: it may miss one.
FindIdle(r, s) ==
  /\ at[r] = "find" /\ Exists(s) /\ active[s] = 0
  /\ sid' = Set(sid, r, s)
  /\ Goto(r, "grab")
  /\ UNCHANGED <<slots, hash, cleaning, valid, own, view, stored, eff, staked, first, private>>

FindNone(r) ==
  /\ at[r] = "find"
  /\ Goto(r, "look")
  /\ UNCHANGED <<slots, hash, cleaning, valid, request>>

\* The session found is counted at once, against its cleanup.
Grab(r) ==
  /\ at[r] = "grab" /\ Goto(r, "look")
  /\ IF Exists(sid[r])
       THEN Increment(r, sid[r]) /\ UNCHANGED <<bound, sid>>
       ELSE sid' = Set(sid, r, own[r]) /\ UNCHANGED <<hash, staked, first>>
  /\ UNCHANGED <<slots, cleaning, valid, own, view, stored, eff, private>>

Look(r) ==
  /\ at[r] = "look"
  /\ IF Exists(sid[r])
       THEN /\ stored' = Set(stored, r, bound[sid[r]])
            /\ Goto(r, IF staked[r] THEN "resolve" ELSE "join")
       ELSE Goto(r, "reserve") /\ UNCHANGED stored
  /\ UNCHANGED <<slots, hash, cleaning, valid, own, sid, view, eff, staked, first, private>>

-----------------------------------------------------------------------------
(* A session without a hash: reserve, then create, or lose that race.        *)

ReserveView(r) ==
  /\ at[r] = "reserve"
  /\ \/ /\ Reserve(view[r]) /\ private' = Set(private, r, TRUE) /\ Goto(r, "create")
        /\ UNCHANGED <<own, sid, view, stored, eff, staked, first>>
     \/ Full(view[r]) /\ Leave(r)
  /\ UNCHANGED <<hash, cleaning, valid>>

Create(r) ==
  /\ at[r] = "create" /\ ~Exists(sid[r])
  /\ active' = Set(active, sid[r], 1) /\ bound' = Set(bound, sid[r], view[r])
  /\ staked' = Set(staked, r, TRUE) /\ first' = Set(first, r, TRUE)
  /\ private' = Set(private, r, FALSE)
  /\ Goto(r, "open")
  /\ UNCHANGED <<slots, cleaning, valid, own, sid, view, stored, eff>>

LoseRace(r) ==
  /\ at[r] = "create" /\ Exists(sid[r])
  /\ Goto(r, "race")
  /\ UNCHANGED <<slots, hash, cleaning, valid, request>>

\* The lock is another creator's that has not written the hash yet.
MissLock(r) ==
  /\ at[r] = "create" /\ ~Exists(sid[r])
  /\ \E o \in Request \ {r} : at[o] = "create" /\ sid[o] = sid[r]
  /\ Goto(r, "lost")
  /\ UNCHANGED <<slots, hash, cleaning, valid, request>>

RaceIncrement(r) ==
  /\ at[r] = "race"
  /\ IF Exists(sid[r])
       THEN Increment(r, sid[r]) /\ Goto(r, "look")
       ELSE Goto(r, "lost") /\ UNCHANGED <<active, staked, first>>
  /\ UNCHANGED <<slots, bound, cleaning, valid, own, sid, view, stored, eff, private>>

Lost(r) ==
  /\ at[r] = "lost"
  /\ GiveBack(view[r]) /\ Leave(r)
  /\ UNCHANGED <<hash, cleaning, valid>>

-----------------------------------------------------------------------------
(* A session with a hash: count the request, find its profile, claim a slot. *)

Join(r) ==
  /\ at[r] = "join"
  /\ IF Exists(sid[r])
       THEN /\ Increment(r, sid[r]) /\ Goto(r, "resolve")
            /\ UNCHANGED <<own, sid, view, stored, eff, private>>
       ELSE Leave(r) /\ UNCHANGED active
  /\ UNCHANGED <<slots, bound, cleaning, valid>>

\* Where a request goes once it knows its profile p: the first of a session
\* claims a slot, unless it holds the right one since before the create race.
Resolved(r, p) ==
  /\ eff' = Set(eff, r, p)
  /\ LET keeps == private[r] /\ first[r] /\ p = view[r]
     IN  /\ private' = IF keeps THEN Set(private, r, FALSE) ELSE private
         /\ Goto(r, CASE keeps -> "open"
                      [] private[r] /\ ~keeps -> "drop"
                      [] ~private[r] /\ first[r] -> "claim"
                      [] OTHER -> "open")

\* _resolve_effective_profile, and rewrite_dead.
Resolve(r) ==
  /\ at[r] = "resolve"
  /\ \/ /\ stored[r] = view[r] \/ stored[r] \in valid \/ ~first[r]
        /\ Resolved(r, stored[r])
     \/ /\ stored[r] # view[r] /\ stored[r] \notin valid /\ first[r]
        /\ Goto(r, "rewrite")
        /\ UNCHANGED <<eff, private>>
  /\ UNCHANGED <<slots, hash, cleaning, valid, own, sid, view, stored, staked, first>>

\* _rewrite_session_profile_id does nothing when it does not get the lock.
Rewrite(r) ==
  /\ at[r] = "rewrite"
  /\ bound' \in {bound, IF Exists(sid[r]) /\ bound[sid[r]] = stored[r]
                          THEN Set(bound, sid[r], view[r]) ELSE bound}
  /\ Resolved(r, view[r])
  /\ UNCHANGED <<slots, active, cleaning, valid, own, sid, view, stored, staked, first>>

\* The slot taken before the create race is given back: by a sibling for good,
\* by the first to claim one of the session's own profile.
Drop(r) ==
  /\ at[r] = "drop"
  /\ GiveBack(view[r]) /\ private' = Set(private, r, FALSE)
  /\ Goto(r, IF first[r] THEN "claim" ELSE "open")
  /\ UNCHANGED <<hash, cleaning, valid, own, sid, view, stored, eff, staked, first>>

Claim(r) ==
  /\ at[r] = "claim"
  /\ \/ Reserve(eff[r]) /\ Goto(r, "open")
     \/ Full(eff[r]) /\ Goto(r, "undo")
  /\ UNCHANGED <<hash, cleaning, valid, request>>

\* Mutant: a refused claim is rolled back like a failure after it.
UndoReleases(r) ==
  /\ at[r] = "undo"
  /\ Decrement(r)
  /\ slots' = IF HitsZero(r) /\ slots[eff[r]] > 0 THEN Set(slots, eff[r], slots[eff[r]] - 1) ELSE slots
  /\ Leave(r)
  /\ UNCHANGED <<bound, cleaning, valid>>

Undo(r) ==
  /\ at[r] = "undo"
  /\ Decrement(r) /\ Leave(r)
  /\ UNCHANGED <<slots, bound, cleaning, valid>>

-----------------------------------------------------------------------------
(* Playing, reopening, and the end.                                          *)

\* get_stream reads the state; its request to the provider may take seconds.
Open(r) ==
  /\ at[r] \in {"open", "play"}
  /\ stored' = Set(stored, r, bound[sid[r]])
  /\ Goto(r, "fetch")
  /\ UNCHANGED <<slots, hash, cleaning, valid, own, sid, view, eff, staked, first, private>>

\* It then saves all it read but the counter, if there still is a hash.
Fetched(r) ==
  /\ at[r] = "fetch"
  /\ bound' = IF Exists(sid[r]) THEN Set(bound, sid[r], stored[r]) ELSE bound
  /\ Goto(r, "play")
  /\ UNCHANGED <<slots, active, cleaning, valid, request>>

\* The provider fails, the range is not satisfiable, the viewer leaves, the
\* file ends or a stop signal is seen: the request no longer counts, and the
\* last of the session gives its slot back.
End(r) ==
  /\ at[r] \in {"fetch", "play"}
  /\ Decrement(r)
  /\ \/ /\ HitsZero(r) /\ Goto(r, "release")
        /\ staked' = Set(staked, r, FALSE) /\ first' = Set(first, r, FALSE)
        /\ UNCHANGED <<own, sid, view, stored, eff, private>>
     \/ ~HitsZero(r) /\ Leave(r)
  /\ UNCHANGED <<slots, bound, cleaning, valid>>

Release(r) ==
  /\ at[r] = "release"
  /\ GiveBack(eff[r])
  /\ cleaning' \in {cleaning, cleaning \cup {sid[r]}}   \* not after a 416
  /\ Leave(r)
  /\ UNCHANGED <<hash, valid>>

\* Mutant: a second later the session is deleted unseen.
CleanupBlindly(s) ==
  /\ s \in cleaning /\ cleaning' = cleaning \ {s}
  /\ bound' = Set(bound, s, None) /\ active' = Set(active, s, 0)
  /\ UNCHANGED <<slots, valid, at, request>>

\* vod_cleanup_idle, a second later.
Cleanup(s) ==
  /\ s \in cleaning /\ cleaning' = cleaning \ {s}
  /\ bound' = IF active[s] > 0 THEN bound ELSE Set(bound, s, None)
  /\ UNCHANGED <<slots, active, valid, at, request>>

\* The TTL of an idle hash; one that plays is saved, and extended, all the time.
Expire(s) ==
  /\ Exists(s) /\ active[s] = 0
  /\ bound' = Set(bound, s, None)
  /\ UNCHANGED <<slots, active, cleaning, valid, at, request>>

Retire(p) ==
  /\ p \in valid /\ Cardinality(Profile \ valid) < MaxRetired
  /\ valid' = valid \ {p}
  /\ UNCHANGED <<slots, hash, cleaning, at, request>>

Restore(p) ==
  /\ p \notin valid
  /\ valid' = valid \cup {p}
  /\ UNCHANGED <<slots, hash, cleaning, at, request>>

-----------------------------------------------------------------------------
\* Where the first request of a session has not claimed its slot yet.
Claiming(r) == staked[r] /\ first[r] /\ at[r] \in {"look", "resolve", "rewrite", "drop", "claim", "undo"}

\* The two ways in which requests cross that the code does not prevent: a
\* request joins a session whose slot is about to be refused to its first, or
\* two requests of a session, or a request and the hash, disagree on the
\* profile.
Crossed ==
  \E r \in Request : staked[r] /\
    \/ at[r] = "undo" /\ active[sid[r]] > 1
    \/ at[r] \in {"drop", "claim", "open", "fetch", "play"} /\ eff[r] # bound[sid[r]]

Sets(r) ==
  \/ \E s \in Session : FindIdle(r, s) \/ \E p \in Profile : Arrive(r, s, p)
  \/ FindNone(r) \/ Grab(r) \/ Look(r) \/ ReserveView(r) \/ Create(r) \/ LoseRace(r)
  \/ MissLock(r) \/ RaceIncrement(r) \/ Lost(r) \/ Join(r) \/ Resolve(r) \/ Rewrite(r)
  \/ Drop(r) \/ Claim(r) \/ Undo(r)

Plays(r) == Open(r) \/ Fetched(r) \/ End(r) \/ Release(r)

Next ==
  /\ \/ \E r \in Request : Sets(r) \/ Plays(r)
     \/ \E s \in Session : Cleanup(s) \/ Expire(s)
     \/ \E p \in Profile : Retire(p) \/ Restore(p)
  /\ crossed' = (crossed \/ Crossed')

Spec == Init /\ [][Next]_vars
-----------------------------------------------------------------------------
(* Properties.                                                               *)

TypeOK ==
  /\ slots \in [Profile -> Nat] /\ \A p \in Profile : slots[p] <= Limit[p]
  /\ active \in [Session -> Nat] /\ bound \in [Session -> Profile \cup {None}]
  /\ cleaning \subseteq Session /\ valid \subseteq Profile
  /\ at \in [Request -> Place]
  /\ own \in [Request -> Session \cup {None}] /\ sid \in [Request -> Session \cup {None}]
  /\ view \in [Request -> Profile \cup {None}] /\ stored \in [Request -> Profile \cup {None}]
  /\ eff \in [Request -> Profile \cup {None}]
  /\ staked \in [Request -> BOOLEAN] /\ first \in [Request -> BOOLEAN] /\ private \in [Request -> BOOLEAN]
  /\ crossed \in BOOLEAN

\* active_streams is exactly the number of requests that count themselves in
\* the session, whoever creates, joins, refuses, ends or cleans it up: a hash
\* with requests is never deleted, no late save brings one back, no count is
\* lost (vod_decr_as, vod_cleanup_idle, vod_meta_save_if_exists).
StakesExact ==
  \A s \in Session :
    /\ active[s] = Cardinality({r \in Request : staked[r] /\ sid[r] = s})
    /\ active[s] > 0 => Exists(s)

\* While requests have not crossed, a provider counter is exactly the slots in
\* use: one for each session that plays on it, one for each request that is
\* creating a session or giving a slot back. No slot is left reserved by
\* nobody, and none is given back twice.
SlotsExact ==
  ~crossed => \A p \in Profile :
    slots[p] = Cardinality({r \in Request : private[r] /\ view[r] = p})
             + Cardinality({r \in Request : at[r] = "release" /\ eff[r] = p})
             + Cardinality({s \in Session : /\ active[s] > 0 /\ bound[s] = p
                                            /\ ~\E r \in Request : sid[r] = s /\ Claiming(r)})

\* A profile plays no more sessions than its limit ("Sibling already holds the
\* profile slot.": a request that joins a session plays without a claim).
SessionsWithinLimit ==
  \A p \in Profile :
    Cardinality({sid[r] : r \in {q \in Request : at[q] = "play" /\ eff[q] = p}}) <= Limit[p]
=============================================================================
