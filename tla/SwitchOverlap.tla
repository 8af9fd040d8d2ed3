----------------------------- MODULE SwitchOverlap -----------------------------
(* Channel Switch Overlap (apps/proxy/live_proxy/probation.py): a viewer     *)
(* that already watches on a full profile may start its next channel on one  *)
(* temporary slot past the limit. A record of it is kept in Redis until the  *)
(* overlap is resolved: confirmed when the old channel ends, and otherwise,  *)
(* when its window is over, moved to another account or stopped. A monitor   *)
(* greenlet on some worker does that; a lease keeps other workers out, and   *)
(* lets them resume what a worker that died left behind.                     *)
(*                                                                           *)
(* The two keys of an assignment are one value here, and released in one     *)
(* step (StreamAssignment takes that apart), as are a profile's counters     *)
(* (ConnectionPool does).                                                    *)
EXTENDS Integers, FiniteSets

CONSTANTS
  Channel,
  Viewer,
  Worker,
  Profile,
  ProfilesOf,      \* [Channel -> SUBSET Profile]: where it has a stream
  MaxStreams,      \* [Profile -> Nat \ {0}]
  Overlaps,        \* SUBSET Profile: of the accounts that allow the overlap
  ExtraCapacity,   \* PROBATION_EXTRA_CAPACITY
  MaxAttempts,     \* MAX_RESOLVE_ATTEMPTS
  MaxTrouble,      \* bound on crashes and errors
  MaxStarts,       \* bound on the requests that start a channel
  LongWindow,      \* a window may outlast the keys of a channel whose worker died
  None, Starting   \* no profile, viewer, lease; the lease of a start

ASSUME OverlapAssumption ==
  /\ ProfilesOf \in [Channel -> SUBSET Profile]
  /\ MaxStreams \in [Profile -> Nat \ {0}]
  /\ Overlaps \subseteq Profile
  /\ ExtraCapacity \in Nat /\ MaxAttempts \in Nat /\ MaxTrouble \in Nat /\ MaxStarts \in Nat
  /\ LongWindow \in BOOLEAN
  /\ IsFiniteSet(Channel)
  /\ None \notin Profile \cup Viewer \cup Worker
  /\ Starting \notin Worker \cup {None}

VARIABLES
  slots,      \* [Profile -> Int]: profile_connections
  assigned,   \* [Channel -> Profile \cup {None}]: channel_stream and stream_profile
  phase,      \* [Channel -> Phase]
  home,       \* [Channel -> Worker]: of the request that starts it, then its owner
  asker,      \* [Channel -> Viewer \cup {None}]: for whom it is being started
  watching,   \* [Channel -> SUBSET Viewer]: the clients
  seen,       \* [Channel -> SUBSET Viewer]: CHANNEL_VIEWERS_KEY
  record,     \* [Channel -> Profile \cup {None}]: probation_key
  attempts,   \* [Channel -> Nat]: a field of the record
  overdue,    \* [Channel -> BOOLEAN]: its deadline has passed
  pending,    \* SUBSET Channel: PENDING_PROBATIONS_KEY
  lease,      \* [Channel -> Worker \cup {None, Starting}]: MONITOR_LEASE_KEY
  skipped,    \* SUBSET Channel: SKIPPED_STOPPING_KEY, their full stop still runs
  monitor,    \* [Worker -> [Channel -> PC]]: _monitor
  target,     \* [Worker -> [Channel -> Profile \cup {None}]]: where it moves from, then to
  trouble, starts

sessions == <<phase, home, asker, watching, seen, skipped>>
probation == <<record, attempts, overdue, pending, lease>>
monitors == <<monitor, target>>
bounds == <<trouble, starts>>
counted == <<slots, assigned>>
vars == <<slots, assigned, phase, home, asker, watching, seen, record, attempts,
          overdue, pending, lease, skipped, monitor, target, trouble, starts>>

\* off: no key of it in the live proxy. booked: a request has its slot and
\* has not initialised it. dead: its worker died, and what it left has not expired.
Phase == {"off", "booked", "on", "dead"}
PC == {"idle", "poll", "choose", "move", "stop"}

Set(f, x, v) == [f EXCEPT ![x] = v]
Goto(w, c, l) == monitor' = [monitor EXCEPT ![w][c] = l]
Aim(w, c, p) == target' = [target EXCEPT ![w][c] = p]

Init ==
  /\ slots = [p \in Profile |-> 0]
  /\ assigned = [c \in Channel |-> None]
  /\ phase = [c \in Channel |-> "off"]
  /\ home \in [Channel -> {CHOOSE w \in Worker : TRUE}]
  /\ asker = [c \in Channel |-> None]
  /\ watching = [c \in Channel |-> {}]
  /\ seen = [c \in Channel |-> {}]
  /\ record = [c \in Channel |-> None]
  /\ attempts = [c \in Channel |-> 0]
  /\ overdue = [c \in Channel |-> FALSE]
  /\ pending = {}
  /\ lease = [c \in Channel |-> None]
  /\ skipped = {}
  /\ monitor = [w \in Worker |-> [c \in Channel |-> "idle"]]
  /\ target = [w \in Worker |-> [c \in Channel |-> None]]
  /\ trouble = 0
  /\ starts = 0

Free(p) == slots[p] < MaxStreams[p]
Over(p) == slots[p] > MaxStreams[p]

\* _waiting_for_shutdown: it runs for the Channel Shutdown Delay alone.
Waiting(c) == phase[c] = "on" /\ watching[c] = {} /\ c \notin skipped

\* watched_channels_by: the viewer watches on p, or was alone on a channel there
\* that waits for its shutdown.
Watches(v, p) ==
  \E c \in Channel : /\ assigned[c] = p /\ phase[c] = "on"
                     /\ v \in watching[c] \/ (Waiting(c) /\ seen[c] = {v})

\* release_stream of the channels C.
Release(C) ==
  /\ slots' = [p \in Profile |-> slots[p] - Cardinality({c \in C : assigned[c] = p})]
  /\ assigned' = [c \in Channel |-> IF c \in C THEN None ELSE assigned[c]]

\* A session ends; its keys are deleted.
Ended(c) ==
  /\ phase' = Set(phase, c, "off")
  /\ home' = Set(home, c, CHOOSE w \in Worker : TRUE)
  /\ asker' = Set(asker, c, None)
  /\ watching' = Set(watching, c, {})
  /\ seen' = Set(seen, c, {})
  /\ skipped' = skipped \ {c}

(***************************************************************************)
(* Requests of viewers: stream_ts and Channel.get_stream                    *)
(***************************************************************************)
\* A request for c that sets it up; it first waits for a stop of c by the overlap.
Asks(w, v, c) ==
  /\ phase[c] = "off"
  /\ starts < MaxStarts
  /\ starts' = starts + 1
  /\ phase' = Set(phase, c, "booked")
  /\ home' = Set(home, c, w)
  /\ asker' = Set(asker, c, v)
  /\ UNCHANGED <<watching, seen, skipped, monitors, trouble>>

Counts(c, p) ==
  /\ slots' = Set(slots, p, slots[p] + 1)
  /\ assigned' = Set(assigned, c, p)

Book(w, v, c, p) ==
  /\ Asks(w, v, c)
  /\ assigned[c] = None
  /\ p \in ProfilesOf[c] /\ Free(p)
  /\ Counts(c, p)
  /\ UNCHANGED probation

\* An assignment that an unclean stop left behind is reused.
Rebook(w, v, c) ==
  /\ Asks(w, v, c)
  /\ assigned[c] # None
  /\ UNCHANGED <<counted, probation>>

\* Mutant of Marks: it is not added to the pending ones.
MarksUnlisted(c, p) ==
  /\ record' = Set(record, c, p)
  /\ attempts' = Set(attempts, c, 0)
  /\ overdue' = Set(overdue, c, FALSE)
  /\ lease' = Set(lease, c, Starting)
  /\ UNCHANGED pending

\* mark_probation. HSET keeps the attempts of a record that is still there.
Marks(c, p) ==
  /\ record' = Set(record, c, p)
  /\ overdue' = Set(overdue, c, FALSE)
  /\ pending' = pending \cup {c}
  /\ lease' = Set(lease, c, Starting)
  /\ UNCHANGED attempts

\* reserve_overlap_slot, when every profile of the channel is full.
BookOverlap(w, v, c, p) ==
  /\ Asks(w, v, c)
  /\ assigned[c] = None
  /\ \A r \in ProfilesOf[c] : ~Free(r)
  /\ p \in ProfilesOf[c] \cap Overlaps /\ Watches(v, p)
  /\ slots[p] < MaxStreams[p] + ExtraCapacity
  /\ Counts(c, p)
  /\ Marks(c, p)

\* initialize_channel, the registration of the client, and start_probation_monitor,
\* which takes the lease whoever holds it.
Initialize(c) ==
  LET w == home[c] IN
  /\ phase[c] = "booked"
  /\ monitor[w][c] = "idle"
  /\ phase' = Set(phase, c, "on")
  /\ watching' = Set(watching, c, {asker[c]})
  /\ seen' = Set(seen, c, {asker[c]})
  /\ asker' = Set(asker, c, None)
  /\ IF record[c] # None
     THEN lease' = Set(lease, c, w) /\ Goto(w, c, "poll")
     ELSE UNCHANGED <<lease, monitor>>
  /\ UNCHANGED <<counted, home, skipped, record, attempts, overdue, pending, target, bounds>>

\* The start fails, and gives back what it reserved.
GivesUp(c) ==
  /\ phase[c] = "booked"
  /\ Release({c})
  /\ Ended(c)
  /\ UNCHANGED <<probation, monitors, bounds>>

Join(v, c) ==
  /\ phase[c] = "on" /\ c \notin skipped
  /\ v \notin watching[c]
  /\ watching' = Set(watching, c, watching[c] \cup {v})
  /\ seen' = Set(seen, c, seen[c] \cup {v})
  /\ UNCHANGED <<counted, phase, home, asker, skipped, probation, monitors, bounds>>

Leave(v, c) ==
  /\ v \in watching[c]
  /\ watching' = Set(watching, c, watching[c] \ {v})
  /\ UNCHANGED <<counted, phase, home, asker, seen, skipped, probation, monitors, bounds>>

\* A stop: the shutdown delay is over, the stream ended, or it was asked for. For a
\* channel whose worker died, the cleanup of another worker. The rest of the stop of
\* a skipped channel finds no assignment.
Stop(c) ==
  /\ phase[c] \in {"on", "dead"}
  /\ Release({c})
  /\ Ended(c)
  /\ UNCHANGED <<probation, monitors, bounds>>

(***************************************************************************)
(* The monitor of a probation                                               *)
(***************************************************************************)
\* _clear: the record, its place among the pending ones and the lease.
Clear(c) ==
  /\ record' = Set(record, c, None)
  /\ attempts' = Set(attempts, c, 0)
  /\ overdue' = Set(overdue, c, FALSE)
  /\ pending' = pending \ {c}
  /\ lease' = Set(lease, c, None)

\* _monitor gets the lease, renews it and calls resolve_probation.
Checks(w, c) == monitor[w][c] = "poll" /\ lease[c] \in {w, None}
Renews(w, c) == lease' = Set(lease, c, w)

\* Another monitor has the lease, or a new start of the channel.
LosesLease(w, c) ==
  /\ monitor[w][c] = "poll"
  /\ lease[c] \notin {w, None}
  /\ Goto(w, c, "idle")
  /\ UNCHANGED <<counted, sessions, probation, target, bounds>>

\* The outcomes GONE and ENDED: there is no record, or it is not about what the
\* channel is assigned to now.
Gone(w, c) ==
  /\ Checks(w, c)
  /\ record[c] = None
  /\ Renews(w, c)
  /\ pending' = pending \ {c}
  /\ Goto(w, c, "idle")
  /\ UNCHANGED <<counted, sessions, record, attempts, overdue, target, bounds>>

EndedOrMoved(w, c) ==
  /\ Checks(w, c)
  /\ record[c] # None /\ assigned[c] # record[c]
  /\ Clear(c)
  /\ Goto(w, c, "idle")
  /\ UNCHANGED <<counted, sessions, target, bounds>>

Idle(c) == {d \in Channel \ {c} : assigned[d] = record[c] /\ Waiting(d)}
Current(w, c) == Checks(w, c) /\ record[c] # None /\ assigned[c] = record[c]

\* CONFIRMED: the profile is within its limits, at once or after _stop_idle_channels
\* has taken the slots of those that nobody watches.
Confirm(w, c) ==
  LET C == IF Over(record[c]) THEN Idle(c) ELSE {} IN
  /\ Current(w, c)
  /\ slots[record[c]] - Cardinality(C) <= MaxStreams[record[c]]
  /\ Release(C)
  /\ skipped' = skipped \cup C
  /\ Clear(c)
  /\ Goto(w, c, "idle")
  /\ UNCHANGED <<phase, home, asker, watching, seen, target, bounds>>

StillOver(w, c) ==
  LET C == Idle(c) IN
  /\ Current(w, c)
  /\ slots[record[c]] - Cardinality(C) > MaxStreams[record[c]]
  /\ Release(C)
  /\ skipped' = skipped \cup C
  /\ UNCHANGED <<phase, home, asker, watching, seen, bounds>>

\* PENDING.
Waits(w, c) ==
  /\ StillOver(w, c)
  /\ ~overdue[c]
  /\ Renews(w, c)
  /\ UNCHANGED <<record, attempts, overdue, pending, monitors>>

\* The window is over: another attempt to move it or to stop it, or FAILED.
Acts(w, c) ==
  /\ StillOver(w, c)
  /\ overdue[c]
  /\ IF attempts[c] < MaxAttempts
     THEN /\ attempts' = Set(attempts, c, attempts[c] + 1)
          /\ Renews(w, c)
          /\ Goto(w, c, "choose")
          /\ Aim(w, c, record[c])
          /\ UNCHANGED <<record, overdue, pending>>
     ELSE Clear(c) /\ Goto(w, c, "idle") /\ UNCHANGED target

\* pool_has_capacity_for_profile, in _migrate_to_free_profile.
Choose(w, c, p) ==
  /\ monitor[w][c] = "choose"
  /\ p \in ProfilesOf[c] \ {target[w][c]} /\ Free(p)
  /\ Aim(w, c, p)
  /\ Goto(w, c, "move")
  /\ UNCHANGED <<counted, sessions, probation, bounds>>

NoneFree(w, c) ==
  /\ monitor[w][c] = "choose"
  /\ \A p \in ProfilesOf[c] \ {target[w][c]} : ~Free(p)
  /\ Aim(w, c, None)
  /\ Goto(w, c, "stop")
  /\ UNCHANGED <<counted, sessions, probation, bounds>>

\* Mutant of Move: the slot of the old profile stays counted.
MoveKeeping(w, c) ==
  /\ monitor[w][c] = "move"
  /\ phase[c] = "on" /\ assigned[c] # None
  /\ slots' = Set(slots, target[w][c], slots[target[w][c]] + 1)
  /\ assigned' = Set(assigned, c, target[w][c])
  /\ Clear(c)
  /\ Aim(w, c, None)
  /\ Goto(w, c, "idle")
  /\ UNCHANGED <<sessions, bounds>>

\* change_stream_url, by the owner: update_stream_profile moves the counters, and
\* does not compare with the limit.
Move(w, c) ==
  /\ monitor[w][c] = "move"
  /\ phase[c] = "on" /\ assigned[c] # None
  /\ slots' = [slots EXCEPT ![assigned[c]] = @ - 1, ![target[w][c]] = @ + 1]
  /\ assigned' = Set(assigned, c, target[w][c])
  /\ Clear(c)
  /\ Aim(w, c, None)
  /\ Goto(w, c, "idle")
  /\ UNCHANGED <<sessions, bounds>>

\* There is nothing to move, or the owner did not confirm; no other candidate either.
MoveFails(w, c) ==
  /\ monitor[w][c] = "move"
  /\ phase[c] = "on" /\ assigned[c] # None => trouble < MaxTrouble
  /\ trouble' = IF phase[c] = "on" /\ assigned[c] # None THEN trouble + 1 ELSE trouble
  /\ Aim(w, c, None)
  /\ Goto(w, c, "stop")
  /\ UNCHANGED <<counted, sessions, probation, starts>>

\* ChannelService.stop_channel. Of a channel that is being started it takes the claim
\* for a leftover, and cleans what is there; the start goes on. When nothing of it is
\* live, it answers that there is none. What it answers is not looked at.
StopsIt(w, c) ==
  /\ monitor[w][c] = "stop"
  /\ IF phase[c] = "off" THEN UNCHANGED counted ELSE Release({c})
  /\ IF phase[c] \in {"on", "dead"} THEN Ended(c) ELSE UNCHANGED sessions
  /\ Clear(c)
  /\ Goto(w, c, "idle")
  /\ UNCHANGED <<target, bounds>>

\* An error while it resolves: the monitor ends, the record and the lease stay. An
\* error of a move does not end it.
Fails(w, c) ==
  /\ monitor[w][c] \in {"poll", "stop"}
  /\ trouble < MaxTrouble
  /\ trouble' = trouble + 1
  /\ Aim(w, c, None)
  /\ Goto(w, c, "idle")
  /\ UNCHANGED <<counted, sessions, probation, starts>>

\* recover_unmonitored_probations, in the cleanup loop of every worker.
Recover(w, c) ==
  /\ c \in pending
  /\ monitor[w][c] = "idle"
  /\ IF record[c] = None
     THEN pending' = pending \ {c} /\ UNCHANGED <<lease, monitor>>
     ELSE /\ lease[c] = None
          /\ lease' = Set(lease, c, w)
          /\ Goto(w, c, "poll")
          /\ UNCHANGED pending
  /\ UNCHANGED <<counted, sessions, record, attempts, overdue, target, bounds>>

(***************************************************************************)
(* Time, crashes and the sweep                                              *)
(***************************************************************************)
\* The window is longer than a start.
DeadlinePasses(c) ==
  /\ record[c] # None /\ ~overdue[c] /\ phase[c] # "booked"
  /\ overdue' = Set(overdue, c, TRUE)
  /\ UNCHANGED <<counted, sessions, record, attempts, pending, lease, monitors, bounds>>

\* The lease is longer than a start and than a move: one that lapses belongs to
\* nobody who still works.
LeaseExpires(c) ==
  /\ lease[c] # None
  /\ IF lease[c] = Starting THEN phase[c] # "booked" ELSE monitor[lease[c]][c] = "idle"
  /\ lease' = Set(lease, c, None)
  /\ UNCHANGED <<counted, sessions, record, attempts, overdue, pending, monitors, bounds>>

\* A worker dies, with its channels, its monitors and the requests it serves.
Crash(w) ==
  LET mine == {c \in Channel : home[c] = w /\ phase[c] \in {"booked", "on"}} IN
  /\ trouble < MaxTrouble
  /\ trouble' = trouble + 1
  /\ monitor' = [monitor EXCEPT ![w] = [c \in Channel |-> "idle"]]
  /\ target' = [target EXCEPT ![w] = [c \in Channel |-> None]]
  /\ phase' = [c \in Channel |-> IF c \in mine THEN "dead" ELSE phase[c]]
  /\ asker' = [c \in Channel |-> IF c \in mine THEN None ELSE asker[c]]
  /\ watching' = [c \in Channel |-> IF c \in mine THEN {} ELSE watching[c]]
  /\ UNCHANGED <<counted, home, seen, skipped, probation, starts>>

\* The keys of a channel whose worker died run out, the claim of a start as well;
\* those of its assignment do not.
KeysExpire(c) ==
  /\ phase[c] = "dead"
  /\ record[c] # None => LongWindow
  /\ Ended(c)
  /\ UNCHANGED <<counted, probation, monitors, bounds>>

\* release_abandoned_slots: no key of the channel was alive for a whole minute.
Sweep(c) ==
  /\ phase[c] = "off" /\ assigned[c] # None
  /\ Release({c})
  /\ UNCHANGED <<sessions, probation, monitors, bounds>>

Request ==
  \/ \E w \in Worker, v \in Viewer, c \in Channel, p \in Profile :
       Book(w, v, c, p) \/ BookOverlap(w, v, c, p)
  \/ \E w \in Worker, v \in Viewer, c \in Channel : Rebook(w, v, c)
  \/ \E v \in Viewer, c \in Channel : Join(v, c) \/ Leave(v, c)

Session(c) == Initialize(c) \/ GivesUp(c) \/ Stop(c)

Resolves(w, c) ==
  \/ LosesLease(w, c)
  \/ Gone(w, c)
  \/ EndedOrMoved(w, c)
  \/ Confirm(w, c)
  \/ Waits(w, c)
  \/ Acts(w, c)
  \/ \E p \in Profile : Choose(w, c, p)
  \/ NoneFree(w, c)
  \/ Move(w, c)
  \/ MoveFails(w, c)
  \/ StopsIt(w, c)

Next ==
  \/ Request
  \/ \E c \in Channel : Session(c)
  \/ \E w \in Worker, c \in Channel : Resolves(w, c) \/ Fails(w, c) \/ Recover(w, c)
  \/ \E c \in Channel : DeadlinePasses(c) \/ LeaseExpires(c) \/ KeysExpire(c) \/ Sweep(c)
  \/ \E w \in Worker : Crash(w)

Spec == Init /\ [][Next]_vars

\* A started request ends one way or the other, a monitor takes its steps, the
\* cleanup loops run, and clocks go on. Nothing makes a viewer leave.
Fairness ==
  /\ \A c \in Channel :
       /\ WF_vars(Initialize(c) \/ GivesUp(c))
       /\ WF_vars(phase[c] = "dead" /\ (Stop(c) \/ KeysExpire(c)))
       /\ WF_vars(c \in skipped /\ Stop(c))
       /\ WF_vars(Sweep(c))
       /\ WF_vars(DeadlinePasses(c))
       /\ WF_vars(LeaseExpires(c))
       /\ WF_vars(\E w \in Worker : Recover(w, c))
  /\ \A w \in Worker, c \in Channel : WF_vars(Resolves(w, c))

FairSpec == Spec /\ Fairness
-----------------------------------------------------------------------------
\* Whoever moves or ends a channel, its monitor, a second stop of a skipped channel,
\* or the sweep: a profile counts the channels assigned to it, each once.
SlotsExact == \A p \in Profile : slots[p] = Cardinality({c \in Channel : assigned[c] = p})

\* "Without this the extra connection would stay open until some stream on that profile
\* ends": a profile over its limit gets back to it, though no viewer leaves, and
\* though workers die or their checks fail.
OverlapEnds == \A p \in Overlaps : Over(p) ~> ~Over(p)
=============================================================================
