----------------------------- MODULE CatchupPool -----------------------------
(* One viewer of catch-up: the pool entry that keeps the provider slot of a  *)
(* session from request to request, and how a seek takes the slot over from  *)
(* the stream it displaces (apps/timeshift/views.py).                        *)
(*                                                                           *)
(* The entry says busy while a stream runs. A request that finds it idle     *)
(* reserves the slot again; one that finds it busy asks the running stream   *)
(* to stop for reuse, through a stop key that names the newest generation to *)
(* stop, and takes the entry as it is: the stream that is displaced does not *)
(* give the slot back, its replacement will. Each pool lock section is a     *)
(* step; what comes after it is another. Reserving and releasing a slot are  *)
(* atomic (ConnectionPool). Other viewers use the same login.                *)
EXTENDS Integers, FiniteSets

CONSTANTS
  Request,      \* requests of the session being served at a time
  Media,        \* positions, each with its programme_vid
  None,
  Limit,        \* max_streams of the login
  MaxOthers,    \* bound: other viewers of the login
  MaxServed,    \* bound: requests in all
  MaxStops      \* bound: stops by an administrator or a limit

ASSUME CatchupAssumption ==
  /\ None \notin Media /\ None \notin BOOLEAN
  /\ IsFiniteSet(Request)
  /\ Limit \in Nat \ {0} /\ MaxServed \in Nat \ {0}
  /\ MaxOthers \in Nat /\ MaxStops \in Nat

VARIABLES
  slots, others,    \* profile_connections; how many of them other viewers hold
  busy,             \* of the pool entry: BOOLEAN, or None when there is no entry
  media,            \* of the pool entry
  generation,       \* [Media -> Nat]: stream_generation keys, 0 when there is none
  stop,             \* [Media -> Nat \cup {Terminal}]: client_stop keys, 0: none
  stats,            \* programme_vid of the registered stats client, or None
  grace,            \* BOOLEAN: its removal is scheduled
  at, want, kind,   \* of each request: place, position, and what its Range asks for
  mine,             \* of each request: stream_generation
  reuse,            \* of each request: stopped_for_reuse
  served, stopped,  \* counters of the bounds
  preempted,        \* BOOLEAN (ghost): a request has asked a stream to stop for reuse
  late              \* BOOLEAN (ghost): an entry was marked idle that was another's by then

pool == <<busy, media>>
keys == <<generation, stop>>
viewer == <<stats, grace>>
request == <<want, kind, mine, reuse>>
counts == <<served, stopped>>
ghosts == <<preempted, late>>
vars == <<slots, others, busy, media, generation, stop, stats, grace, at, want, kind,
          mine, reuse, served, stopped, preempted, late>>

Place == {"away", "acquire", "preempt", "handoff", "abandon", "reserve", "create", "move",
          "open", "start", "play", "ended", "newer", "release", "idle"}
\* A plain GET, or bytes=0-; a seek into the file. A probe of the end of a busy
\* file has no effect on the pool.
Kind == {"restart", "seek"}

Terminal == -1      \* a stop that is not for reuse: hop, admin, limit
Entry == busy # None
Set(f, x, v) == [f EXCEPT ![x] = v]
Goto(r, l) == at' = Set(at, r, l)

Init ==
  /\ slots = 0 /\ others = 0
  /\ busy = None /\ media = None
  /\ generation = [m \in Media |-> 0] /\ stop = [m \in Media |-> 0]
  /\ stats = None /\ grace = FALSE
  /\ at = [r \in Request |-> "away"]
  /\ want = [r \in Request |-> None] /\ kind = [r \in Request |-> "restart"]
  /\ mine = [r \in Request |-> 0] /\ reuse = [r \in Request |-> FALSE]
  /\ served = 0 /\ stopped = 0
  /\ preempted = FALSE /\ late = FALSE

\* Mutant: the pool's counter is not clamped at 0.
GiveBackUnclamped == slots' = slots - 1
GiveBack == slots' = IF slots > 0 THEN slots - 1 ELSE 0

\* _stream_stop_requested of a stream of r's position and generation.
StopsIt(r) == stop[want[r]] = Terminal \/ (0 < stop[want[r]] /\ mine[r] <= stop[want[r]])

\* Where a request owns a slot.
Holds(r) == at[r] \in {"create", "move", "open", "start", "play", "ended", "newer", "release"}

\* Where it has the entry, or is about to take it over.
Takes(r) == at[r] = "handoff" \/ (Holds(r) /\ at[r] # "create")

\* The response is closed: the locals are gone.
Leave(r) ==
  /\ Goto(r, "away")
  /\ want' = Set(want, r, None) /\ kind' = Set(kind, r, "restart")
  /\ mine' = Set(mine, r, 0) /\ reuse' = Set(reuse, r, FALSE)

-----------------------------------------------------------------------------
(* _serve_catchup: which way to the slot the state of the entry leaves. A    *)
(* request also keeps the registered viewer from being removed.              *)

Preempts(m, k) ==
  IF busy THEN media = m \/ stats # None ELSE k = "seek" /\ media = m /\ stats # None

Serve(r, m, k) ==
  /\ at[r] = "away" /\ served < MaxServed
  /\ want' = Set(want, r, m) /\ kind' = Set(kind, r, k)
  /\ \/ ~Entry /\ Goto(r, "reserve")
     \/ Entry /\ Preempts(m, k) /\ Goto(r, "preempt")
     \/ Entry /\ ~Preempts(m, k) /\ busy /\ Goto(r, "preempt")   \* silent for two seconds
     \/ Entry /\ ~Preempts(m, k) /\ ~busy /\ Goto(r, "acquire")
  /\ grace' = FALSE
  /\ served' = served + 1
  /\ UNCHANGED <<slots, others, pool, keys, stats, mine, reuse, stopped, ghosts>>

\* _acquire_idle_pool_session, without handoff.
Acquire(r) ==
  /\ at[r] = "acquire"
  /\ IF busy = FALSE /\ slots < Limit
       THEN slots' = slots + 1 /\ busy' = TRUE /\ Goto(r, "move")
       ELSE UNCHANGED <<slots, busy>> /\ Goto(r, "reserve")
  /\ UNCHANGED <<others, media, keys, viewer, request, counts, ghosts>>

\* _preempt_playback_streams finds the stream to stop by its stats client.
Preempt(r) ==
  /\ at[r] = "preempt"
  /\ stop' = IF stats = None THEN stop
             ELSE Set(stop, stats, IF generation[stats] = 0 THEN 1 ELSE generation[stats])
  /\ Goto(r, "handoff")
  /\ preempted' = TRUE
  /\ UNCHANGED <<slots, others, pool, generation, viewer, request, counts, late>>

\* _acquire_idle_pool_session with handoff: busy or not, nothing is reserved.
Handoff(r) ==
  /\ at[r] = "handoff"
  /\ \/ Entry /\ busy' = TRUE /\ Goto(r, "move") /\ UNCHANGED request
     \/ ~Entry /\ kind[r] = "seek" /\ Goto(r, "abandon") /\ UNCHANGED <<busy, request>>
     \/ ~Entry /\ kind[r] # "seek" /\ Leave(r) /\ UNCHANGED busy
  /\ UNCHANGED <<slots, others, media, keys, viewer, counts, ghosts>>

\* _discard_pool_session: give the slot back and delete the entry.
Discard == GiveBack /\ busy' = None /\ media' = None

Abandon(r) ==
  /\ at[r] = "abandon"
  /\ Discard
  /\ Goto(r, "reserve")
  /\ UNCHANGED <<others, keys, viewer, request, counts, ghosts>>

Reserve(r) ==
  /\ at[r] = "reserve"
  /\ \/ slots < Limit /\ slots' = slots + 1 /\ Goto(r, "create") /\ UNCHANGED request
     \/ slots >= Limit /\ Leave(r) /\ UNCHANGED slots
  /\ UNCHANGED <<others, pool, keys, viewer, counts, ghosts>>

\* Mutant: the request that was not first keeps its reservation.
CreateKeeps(r) ==
  /\ at[r] = "create"
  /\ IF Entry THEN Leave(r) /\ UNCHANGED <<slots, pool>>
     ELSE /\ busy' = TRUE /\ media' = want[r] /\ Goto(r, "open")
          /\ UNCHANGED <<slots, request>>
  /\ UNCHANGED <<others, keys, viewer, counts, ghosts>>

\* _create_pool_session; the slot goes back when another request was first.
Create(r) ==
  /\ at[r] = "create"
  /\ IF Entry THEN GiveBack /\ Leave(r) /\ UNCHANGED pool
     ELSE /\ busy' = TRUE /\ media' = want[r] /\ Goto(r, "open")
          /\ UNCHANGED <<slots, request>>
  /\ UNCHANGED <<others, keys, viewer, counts, ghosts>>

\* _update_pool_position writes into an entry that is still there.
Move(r) ==
  /\ at[r] = "move"
  /\ media' = IF Entry THEN want[r] ELSE media
  /\ Goto(r, "open")
  /\ UNCHANGED <<slots, others, busy, keys, viewer, request, counts, ghosts>>

-----------------------------------------------------------------------------
(* _stream_from_provider, and stream_generator.                              *)

\* The provider answers: _register_stats_client, which forgets the generation
\* of the position the viewer leaves.
Open(r) ==
  /\ at[r] = "open"
  /\ stats' = want[r] /\ grace' = FALSE
  /\ generation' = IF stats \notin {None, want[r]} THEN Set(generation, stats, 0) ELSE generation
  /\ Goto(r, "start")
  /\ UNCHANGED <<slots, others, pool, stop, request, counts, ghosts>>

\* It refuses: the entry goes, and perhaps another catch-up stream is tried.
OpenFails(r) ==
  /\ at[r] = "open"
  /\ Discard
  /\ \/ Goto(r, "reserve") /\ UNCHANGED request
     \/ Leave(r)
  /\ UNCHANGED <<others, keys, viewer, counts, ghosts>>

\* 416: the client gets it, the entry stays.
OutOfRange(r) ==
  /\ at[r] = "open"
  /\ Goto(r, "release")
  /\ UNCHANGED <<slots, others, pool, keys, viewer, request, counts, ghosts>>

\* _allocate_stream_generation, which also clears the stop key.
Start(r) ==
  /\ at[r] = "start"
  /\ generation' = Set(generation, want[r], generation[want[r]] + 1)
  /\ mine' = Set(mine, r, generation[want[r]] + 1)
  /\ stop' = Set(stop, want[r], 0)
  /\ Goto(r, "play")
  /\ UNCHANGED <<slots, others, pool, viewer, want, kind, reuse, counts, ghosts>>

\* The stream sees the stop between two chunks, or comes to an end: the file's,
\* the viewer's, or that of a socket another request closed.
End(r) ==
  /\ at[r] = "play"
  /\ Goto(r, "ended")
  /\ UNCHANGED <<slots, others, pool, keys, viewer, request, counts, ghosts>>

\* Its finally block: was it stopped for reuse ...
CheckStop(r) ==
  /\ at[r] = "ended"
  /\ reuse' = Set(reuse, r, StopsIt(r) /\ stop[want[r]] # Terminal)
  /\ stop' = IF stop[want[r]] = Terminal THEN Set(stop, want[r], 0) ELSE stop
  /\ Goto(r, "newer")
  /\ UNCHANGED <<slots, others, pool, generation, viewer, want, kind, mine, counts, ghosts>>

\* Mutant: the newest generation takes itself for an older one.
CheckNotOlder(r) ==
  /\ at[r] = "newer"
  /\ \/ /\ reuse[r] \/ mine[r] <= generation[want[r]]
        /\ Leave(r)
        /\ UNCHANGED <<generation, grace>>
     \/ /\ ~reuse[r] /\ mine[r] > generation[want[r]]
        /\ generation' = Set(generation, want[r], 0)
        /\ grace' = (stats # None)
        /\ Goto(r, "release")
        /\ UNCHANGED request
  /\ UNCHANGED <<slots, others, pool, stop, stats, counts, ghosts>>

\* ... or has a newer generation taken over? If so the slot is not its own. If
\* not it may forget the generation and schedule the viewer's removal, unless it
\* was only a probe.
CheckNewer(r) ==
  /\ at[r] = "newer"
  /\ \/ /\ reuse[r] \/ mine[r] < generation[want[r]]
        /\ Leave(r)
        /\ UNCHANGED <<generation, grace>>
     \/ /\ ~reuse[r] /\ mine[r] >= generation[want[r]]
        /\ generation' \in {generation, Set(generation, want[r], 0)}
        /\ grace' \in {grace, stats # None}
        /\ Goto(r, "release")
        /\ UNCHANGED request
  /\ UNCHANGED <<slots, others, pool, stop, stats, counts, ghosts>>

\* _release_pool_session gives the slot back, and then marks the entry idle.
Release(r) ==
  /\ at[r] = "release"
  /\ GiveBack
  /\ Goto(r, "idle")
  /\ UNCHANGED <<others, pool, keys, viewer, request, counts, ghosts>>

MarkIdle(r) ==
  /\ at[r] = "idle"
  /\ busy' = IF Entry THEN FALSE ELSE busy
  /\ late' = (late \/ (busy = TRUE /\ \E q \in Request \ {r} : Takes(q)))
  /\ Leave(r)
  /\ UNCHANGED <<slots, others, media, keys, viewer, counts, preempted>>

-----------------------------------------------------------------------------
(* The rest of the world.                                                    *)

\* _run_stats_disconnect_grace: the viewer is removed, and with an API session
\* its entry; nothing happens while the entry is busy.
GraceEnds ==
  /\ grace /\ grace' = FALSE
  /\ IF busy = TRUE THEN UNCHANGED <<stats, generation, pool>>
     ELSE /\ stats' = None
          /\ generation' = [m \in Media |-> 0]
          /\ \/ UNCHANGED pool
             \/ busy' = None /\ media' = None
  /\ UNCHANGED <<slots, others, stop, at, request, counts, ghosts>>

\* stop_client of an administrator, or a stream limit.
StopClient ==
  /\ stats # None /\ stopped < MaxStops
  /\ stop' = Set(stop, stats, Terminal)
  /\ stopped' = stopped + 1
  /\ UNCHANGED <<slots, others, pool, generation, viewer, at, request, served, ghosts>>

\* TTLs: of an idle entry, of a stop key.
EntryExpires ==
  /\ busy = FALSE
  /\ busy' = None /\ media' = None
  /\ UNCHANGED <<slots, others, keys, viewer, at, request, counts, ghosts>>

StopExpires(m) ==
  /\ stop[m] # 0
  /\ stop' = Set(stop, m, 0)
  /\ UNCHANGED <<slots, others, pool, generation, viewer, at, request, counts, ghosts>>

\* Another viewer of the login comes and goes.
OtherStarts ==
  /\ slots < Limit /\ others < MaxOthers
  /\ slots' = slots + 1 /\ others' = others + 1
  /\ UNCHANGED <<pool, keys, viewer, at, request, counts, ghosts>>

OtherEnds ==
  /\ others > 0
  /\ GiveBack /\ others' = others - 1
  /\ UNCHANGED <<pool, keys, viewer, at, request, counts, ghosts>>

-----------------------------------------------------------------------------
Serves(r) ==
  \/ \E m \in Media, k \in Kind : Serve(r, m, k)
  \/ Acquire(r) \/ Preempt(r) \/ Handoff(r) \/ Abandon(r) \/ Reserve(r) \/ Create(r) \/ Move(r)
  \/ Open(r) \/ OpenFails(r) \/ OutOfRange(r)

Streams(r) ==
  Start(r) \/ End(r) \/ CheckStop(r) \/ CheckNewer(r) \/ Release(r) \/ MarkIdle(r)

World ==
  \/ GraceEnds \/ StopClient \/ EntryExpires \/ OtherStarts \/ OtherEnds
  \/ \E m \in Media : StopExpires(m)

Next == (\E r \in Request : Serves(r) \/ Streams(r)) \/ World

Spec == Init /\ [][Next]_vars
-----------------------------------------------------------------------------
(* Properties.                                                               *)

TypeOK ==
  /\ slots \in 0 .. Limit /\ others \in 0 .. MaxOthers
  /\ busy \in BOOLEAN \cup {None} /\ media \in Media \cup {None}
  /\ generation \in [Media -> Nat] /\ stop \in [Media -> Nat \cup {Terminal}]
  /\ stats \in Media \cup {None} /\ grace \in BOOLEAN
  /\ at \in [Request -> Place] /\ want \in [Request -> Media \cup {None}]
  /\ kind \in [Request -> Kind] /\ mine \in [Request -> Nat] /\ reuse \in [Request -> BOOLEAN]
  /\ served \in 0 .. MaxServed /\ stopped \in 0 .. MaxStops /\ preempted \in BOOLEAN /\ late \in BOOLEAN

Quiet == \A r \in Request : at[r] = "away"

\* When every request has ended none of them has left a slot reserved or the
\* entry busy: however seeks displace streams, and streams fail, one of them
\* gives the slot back. The exception is late: a stream releases its slot and
\* marks the entry idle in two steps, and the entry may have become another's
\* in between, or one that a request is about to take over. A third request then
\* reserves a slot of its own, though only the newest generation gives one back;
\* or the entry expires before it is taken over, with nobody left to do so.
NothingLeft == Quiet /\ ~late => slots <= others /\ busy # TRUE

\* Until a slot is first taken over from a stream, the counter is exact.
SlotsExact == ~preempted => slots = others + Cardinality({r \in Request : Holds(r)})
=============================================================================
