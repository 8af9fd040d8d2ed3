-------------------------- MODULE ChannelLifecycle --------------------------
(* One live channel and the workers that may play it: the owner lock (a      *)
(* lease), the metadata, the markers of a teardown, the viewers, and what    *)
(* each worker runs for it (live_proxy/server.py, views.py, client_manager,  *)
(* services/channel_service.py, the audit of input/manager.py and the checks *)
(* of the viewers' generator). A stop may be asked of any worker at any time; *)
(* its worker tells the others by an event, which may be lost.               *)
(*                                                                           *)
(* One action is what a greenlet does up to a place where another one can    *)
(* make a difference: between the look at the owner lock and the write that  *)
(* relies on it, between marking, cleaning and the local teardown of a stop. *)
(* Time is left out: a lease that its worker extends lapses only by the      *)
(* fault budget, a timer that is long enough expires at any later moment.    *)
EXTENDS Integers, FiniteSets

CONSTANTS
  Worker,
  Client,
  NoWorker,
  MaxRequests,  \* bound on the requests of viewers
  MaxTrouble    \* bound on the stops asked from outside (API, Overlap), crashes, lapses of a
                \* live owner's lock, lost events, failed sources, stuck stops, delays together

ASSUME LifecycleAssumption ==
  /\ NoWorker \notin Worker
  /\ {MaxRequests, MaxTrouble} \subseteq Nat

VARIABLES
  owner,       \* the lock: a worker, or NoWorker
  meta,        \* the metadata hash: a record, or NoMeta
  stopping,    \* the stopping key
  disconnect,  \* last_client_disconnect: "no", "recent", or "old": past the shutdown delay
  clients,     \* the client set
  beat,        \* the workers whose heartbeat key is there
  alive,       \* the workers that run
  up,          \* [Worker -> state of the stream manager registered there]
  open,        \* the workers with a buffer and a client manager for the channel
  local,       \* [Worker -> the viewers its client manager knows]
  teardown,    \* [Worker -> where its stop_channel is]
  stuck,       \* the same of a stop that was given up as stuck, and goes on
  extend,      \* the workers about to take the lock back in extend_ownership
  waiting,     \* the workers that wait for the shutdown delay
  promotes,    \* the workers that have found the buffer ready and are about to write so
  events,      \* [Worker -> the events it has not seen yet]
  host,        \* [Client -> the worker its request is on, or NoWorker]
  cpc,         \* [Client -> where that request is]
  requests, trouble  \* what is used up of the bounds

redis == <<owner, meta, stopping, disconnect, clients, beat>>
process == <<alive, up, open, local>>
held == <<extend, promotes>>
tasks == <<teardown, stuck, extend, promotes, waiting>>
viewers == <<host, cpc>>
bounds == <<requests, trouble>>
lifecycleVars == <<owner, meta, stopping, disconnect, clients, beat, alive, up, open, local,
                   teardown, stuck, extend, promotes, waiting, events, host, cpc, requests,
                   trouble>>

Metadata == [owner : Worker \cup {NoWorker},
             state : {"starting", "active", "stopping", "error"},
             ttl : BOOLEAN]
NoMeta == [owner |-> NoWorker, state |-> "gone", ttl |-> FALSE]

Playing == {"starting", "active"}
SettingUp == {"claimed", "release", "connect"}
Registered(w) == up[w] # "none"
HasLocal(w) == Registered(w) \/ w \in open
StopRuns(w) == teardown[w] # "idle"
Goes(c, l) == cpc' = [cpc EXCEPT ![c] = l]
Put(f, x, y) == [f EXCEPT ![x] = y]

\* is_channel_teardown_active, as a worker sees it
Unavailable(w) == StopRuns(w) \/ stopping \/ meta.state = "stopping"

LifecycleInit ==
  /\ owner = NoWorker /\ meta = NoMeta /\ stopping = FALSE
  /\ disconnect = "no" /\ clients = {}
  /\ beat = Worker /\ alive = Worker
  /\ up = [w \in Worker |-> "none"] /\ open = {}
  /\ local = [w \in Worker |-> {}]
  /\ teardown = [w \in Worker |-> "idle"]
  /\ stuck = [w \in Worker |-> "idle"]
  /\ extend = {} /\ promotes = {} /\ waiting = {}
  /\ events = [w \in Worker |-> {}]
  /\ host = [c \in Client |-> NoWorker]
  /\ cpc = [c \in Client |-> "away"]
  /\ requests = 0 /\ trouble = 0

(***************************************************************************)
(* What several operations share                                            *)
(***************************************************************************)
\* Fields written to the hash: a hash that is gone comes back without a TTL.
WriteMeta(by, state) == meta' = [owner |-> by, state |-> state, ttl |-> meta.ttl]

\* _clean_redis_keys: the slots are released, every key of the channel deleted.
DeleteKeys ==
  /\ owner' = NoWorker /\ meta' = NoMeta /\ stopping' = FALSE
  /\ disconnect' = "no" /\ clients' = {}

\* The end of run(): if it is the owner's, or nobody's and never came to play, it
\* leaves ERROR and the stopping key for the viewers that wait.
Fails(w) == owner = w \/ (owner = NoWorker /\ meta.state = "starting")
RunEnds(w) ==
  IF Fails(w)
  THEN WriteMeta(meta.owner, "error") /\ stopping' = TRUE
  ELSE UNCHANGED <<meta, stopping>>

\* _stop_local_stream_activity, _cleanup_local_resources: the thread is ended and
\* nothing local is left.
DropLocal(w) ==
  /\ IF up[w] \in {"pulling", "halted"} THEN RunEnds(w) ELSE UNCHANGED <<meta, stopping>>
  /\ up' = Put(up, w, "none")
  /\ open' = open \ {w}
  /\ local' = Put(local, w, {})

Publish(w, e) ==
  events' = [v \in Worker |-> IF v \in alive \ {w} THEN events[v] \cup {e} ELSE events[v]]

\* Mutant of Halt: a channel that is marked is thought to be stopped by another.
HaltMarksOnly(w) == UNCHANGED <<teardown, up>>

\* stop_channel up to the cleanup: the upstream is told to halt. A stop that runs
\* here already goes on alone.
Halt(w) ==
  IF StopRuns(w) THEN UNCHANGED <<teardown, up>>
  ELSE /\ teardown' = Put(teardown, w, "clean")
       /\ up' = IF up[w] = "pulling" THEN Put(up, w, "halted") ELSE up

\* check_if_channel_exists: something local, or a session whose owner's worker lives.
Session == meta.state \in Playing \cup {"stopping"}
Exists(w) == HasLocal(w) \/ (Session /\ meta.owner \in beat)
Zombie(w) == ~HasLocal(w) /\ Session /\ meta.owner \notin beat

\* ChannelService.stop_channel: mark_channel_stopping, the event, the local stop.
CoordinatedStop(w) ==
  /\ Exists(w)
  /\ meta' = IF meta = NoMeta THEN NoMeta ELSE [meta EXCEPT !.state = "stopping"]
  /\ stopping' = TRUE
  /\ Publish(w, "stop")
  /\ Halt(w)
  /\ UNCHANGED <<owner, clients, beat, alive, open, local, stuck, held, viewers>>

(***************************************************************************)
(* A viewer's request: stream_ts                                            *)
(***************************************************************************)
Arrives(c, w) ==
  /\ cpc[c] = "away" /\ w \in alive
  /\ requests < MaxRequests
  /\ ~Unavailable(w)
  /\ requests' = requests + 1
  /\ host' = Put(host, c, w)
  /\ UNCHANGED <<meta, stopping, beat, process, tasks, events, trouble>>

\* The channel plays, or this worker has something of it: no setup.
Follow(c, w) ==
  /\ Arrives(c, w)
  /\ meta.state \in Playing \/ (meta = NoMeta /\ HasLocal(w))
  /\ Goes(c, IF w \in open THEN "register" ELSE "attach")
  /\ UNCHANGED <<owner, disconnect, clients>>

\* Nothing plays. Keys without metadata are taken for those of a dead session and
\* deleted, though the lock may be of a setup whose metadata is not written yet.
OwnerSeen == IF meta = NoMeta THEN NoWorker ELSE owner
SetsUp(w) == \E c \in Client : host[c] = w /\ cpc[c] \in SettingUp

Claim(c, w) ==
  /\ Arrives(c, w)
  /\ ~HasLocal(w) /\ (meta = NoMeta \/ meta.state = "error")
  /\ IF OwnerSeen \in {NoWorker, w} /\ ~SetsUp(w)
     THEN owner' = w /\ Goes(c, "claimed")
     ELSE owner' = OwnerSeen /\ Goes(c, "attach")
  /\ clients' = IF meta = NoMeta THEN {} ELSE clients
  /\ disconnect' = IF meta = NoMeta /\ (owner # NoWorker \/ clients # {}) THEN "no" ELSE disconnect

\* What this worker has of a session that failed is stopped first.
ForceStop(w) ==
  /\ w \in alive /\ requests < MaxRequests
  /\ ~Unavailable(w)
  /\ meta.state = "error"
  /\ requests' = requests + 1
  /\ CoordinatedStop(w)
  /\ UNCHANGED <<disconnect, waiting, trouble>>

\* No stream can be had, or initialize_channel refuses. release_ownership(signal_
\* stopping=False) looks at the lock, and then deletes it, whosever it is by then.
GivesUp(c) ==
  /\ cpc[c] = "claimed"
  /\ IF owner = host[c]
     THEN Goes(c, "release") /\ UNCHANGED host
     ELSE Goes(c, "away") /\ host' = Put(host, c, NoWorker)
  /\ UNCHANGED <<redis, process, tasks, events, bounds>>

ReleaseLock(c) ==
  /\ cpc[c] = "release"
  /\ owner' = NoWorker
  /\ Goes(c, "away") /\ host' = Put(host, c, NoWorker)
  /\ UNCHANGED <<meta, stopping, disconnect, clients, beat, process, tasks, events, bounds>>

(***************************************************************************)
(* initialize_channel, of a setup or of a request that only attaches        *)
(***************************************************************************)
HasResources(c) == cpc[c] = "attach" /\ host[c] \in open

Initializes(c) ==
  /\ cpc[c] \in {"claimed", "attach"}
  /\ ~Unavailable(host[c])
  /\ UNCHANGED <<stopping, disconnect, clients, beat, alive, local, tasks, events, host, bounds>>

\* It plays, or another worker has the lock: this worker reads along. An upstream
\* that lingers here is stopped.
InitFollows(c) ==
  /\ Initializes(c)
  /\ HasResources(c) \/ meta.state \in Playing \/ owner \notin {NoWorker, host[c]}
  /\ up' = IF HasResources(c) THEN up ELSE Put(up, host[c], "none")
  /\ open' = open \cup {host[c]}
  /\ Goes(c, "register")
  /\ UNCHANGED <<owner, meta>>

\* The lock is taken, or kept: metadata, stream manager, thread; then am_i_owner.
InitOwns(c) ==
  /\ Initializes(c)
  /\ ~HasResources(c)
  /\ meta.state \notin Playing /\ owner \in {NoWorker, host[c]}
  /\ cpc[c] = "claimed" \/ meta # NoMeta
  /\ owner' = host[c]
  /\ meta' = [owner |-> host[c], state |-> "starting", ttl |-> TRUE]
  /\ up' = Put(up, host[c], "pulling")
  /\ open' = open \cup {host[c]}
  /\ Goes(c, "connect")

\* A request that only attaches knows no URL but that of the metadata.
InitNoUrl(c) ==
  /\ cpc[c] = "attach" /\ host[c] \notin open
  /\ meta = NoMeta /\ owner \in {NoWorker, host[c]}
  /\ ~Unavailable(host[c])
  /\ DeleteKeys
  /\ up' = Put(up, host[c], "none")
  /\ local' = Put(local, host[c], {})
  /\ Goes(c, "away") /\ host' = Put(host, c, NoWorker)
  /\ UNCHANGED <<beat, alive, open, tasks, events, bounds>>

\* update_channel_state(CONNECTING), whatever became of the metadata meanwhile.
Connect(c) ==
  /\ cpc[c] = "connect"
  /\ WriteMeta(host[c], "starting")
  /\ Goes(c, "register")
  /\ UNCHANGED <<owner, stopping, disconnect, clients, beat, process, tasks, events, host, bounds>>

\* 503 to a request that finds the teardown after all: it looks once more before
\* it registers, which is no guarantee.
TurnedAway(c) ==
  /\ cpc[c] \in {"attach", "register"}
  /\ Unavailable(host[c])
  /\ Goes(c, "away") /\ host' = Put(host, c, NoWorker)
  /\ UNCHANGED <<redis, process, tasks, events, bounds>>

\* Mutant of NoClientManager: the request is forgotten halfway.
NoClientManagerLeft(c) ==
  /\ cpc[c] = "register" /\ host[c] \notin open
  /\ Goes(c, "away")
  /\ UNCHANGED <<redis, process, tasks, events, host, bounds>>

NoClientManager(c) ==
  /\ cpc[c] = "register" /\ host[c] \notin open
  /\ Goes(c, "away") /\ host' = Put(host, c, NoWorker)
  /\ UNCHANGED <<redis, process, tasks, events, bounds>>

\* add_client: cancel_pending_shutdown, which clears the markers of a teardown
\* unless it is this worker's own; then the client keys.
Cancels(w) == disconnect # "no" /\ ~StopRuns(w)

Register(c) ==
  /\ cpc[c] = "register" /\ host[c] \in open
  /\ IF Cancels(host[c])
     THEN /\ disconnect' = "no" /\ stopping' = FALSE
          /\ meta' = IF meta.state = "stopping" THEN [meta EXCEPT !.state = "active"] ELSE meta
     ELSE UNCHANGED <<disconnect, stopping, meta>>
  /\ clients' = clients \cup {c}
  /\ local' = Put(local, host[c], local[host[c]] \cup {c})
  /\ Goes(c, "watching")
  /\ UNCHANGED <<owner, beat, alive, up, open, tasks, events, host, bounds>>

\* promote_channel_when_buffer_ready: the buffer is ready, and somebody watches.
Ready ==
  /\ meta.state = "starting" /\ clients # {}
  /\ \E w \in Worker : up[w] = "pulling"

Promote ==
  /\ Ready
  /\ meta' = [meta EXCEPT !.state = "active"]
  /\ UNCHANGED <<owner, stopping, disconnect, clients, beat, process, tasks, events, viewers,
                 bounds>>

\* Who promotes it may be held up after the look at the state: what it then writes
\* goes over whatever the state has become.
SeeReady(w) ==
  /\ Ready /\ w \notin promotes
  /\ up[w] = "pulling" \/ local[w] \cap clients # {}
  /\ trouble < MaxTrouble
  /\ trouble' = trouble + 1
  /\ promotes' = promotes \cup {w}
  /\ UNCHANGED <<redis, process, teardown, stuck, extend, waiting, events, viewers, requests>>

PromoteLate(w) ==
  /\ w \in promotes
  /\ WriteMeta(meta.owner, "active")
  /\ promotes' = promotes \ {w}
  /\ UNCHANGED <<owner, stopping, disconnect, clients, beat, process, teardown, stuck, extend,
                 waiting, events, viewers, bounds>>

(***************************************************************************)
(* A viewer goes: by itself, or because its generator finds the channel gone *)
(***************************************************************************)
\* remove_client. The last one starts the shutdown timer, and is handled here if
\* this worker has the lock or an upstream, else told to the owner.
RemoveClient(c) ==
  LET w == host[c]
      last == clients \subseteq {c}
      takes == owner = NoWorker /\ Registered(w) /\ ~Unavailable(w)
      here == owner = w \/ Registered(w)
  IN
  /\ clients' = clients \ {c}
  /\ local' = Put(local, w, local[w] \ {c})
  /\ disconnect' = IF last THEN "recent" ELSE disconnect
  /\ owner' = IF takes THEN w ELSE owner
  /\ waiting' = IF here /\ last THEN waiting \cup {w} ELSE waiting
  /\ IF here THEN UNCHANGED events ELSE Publish(w, "disconnected")

\* Its generator's _cleanup has no client manager to tell, or one that has not
\* heard of it: its entry in the client set is left to the TTL.
Departs(c) ==
  IF host[c] \in open /\ c \in local[host[c]]
  THEN RemoveClient(c)
  ELSE UNCHANGED <<owner, clients, disconnect, local, waiting, events>>

Leaves(c) ==
  /\ cpc[c] = "watching"
  /\ Departs(c)
  /\ Goes(c, "away") /\ host' = Put(host, c, NoWorker)
  /\ UNCHANGED <<meta, stopping, beat, alive, up, open, teardown, stuck, held, bounds>>

\* _check_resources
Kicked(c) ==
  /\ host[c] # NoWorker
  /\ \/ host[c] \notin open \/ c \notin local[host[c]]
     \/ stopping \/ meta.state \in {"error", "stopping"}
  /\ Leaves(c)

(***************************************************************************)
(* Shutdown when nobody watches: handle_client_disconnect                   *)
(***************************************************************************)
TimerExpires ==
  /\ disconnect = "recent"
  /\ disconnect' = "old"
  /\ UNCHANGED <<owner, meta, stopping, clients, beat, process, tasks, events, viewers, bounds>>

WaitAborted(w) ==
  /\ w \in waiting
  /\ clients # {} \/ disconnect = "no" \/ ~HasLocal(w)
  /\ disconnect' = IF clients # {} THEN "no" ELSE disconnect
  /\ waiting' = waiting \ {w}
  /\ UNCHANGED <<owner, meta, stopping, clients, beat, process, teardown, stuck, held, events,
                 viewers, bounds>>

WaitEnds(w) ==
  /\ w \in waiting
  /\ clients = {} /\ disconnect = "old"
  /\ CoordinatedStop(w)
  /\ waiting' = waiting \ {w}
  /\ UNCHANGED <<disconnect, bounds>>

\* Events: dropped unless the worker has the lock when it reads them. (CLIENT_CONNECTED
\* only clears a timer that add_client has cleared.)
HearDisconnected(w) ==
  /\ "disconnected" \in events[w]
  /\ events' = Put(events, w, events[w] \ {"disconnected"})
  /\ IF owner = w /\ HasLocal(w) /\ clients = {}
     THEN /\ waiting' = waiting \cup {w}
          /\ disconnect' = IF disconnect = "no" THEN "recent" ELSE disconnect
     ELSE UNCHANGED <<waiting, disconnect>>
  /\ UNCHANGED <<owner, meta, stopping, clients, beat, process, teardown, stuck, held, viewers,
                 bounds>>

HearStop(w) ==
  /\ "stop" \in events[w]
  /\ events' = Put(events, w, events[w] \ {"stop"})
  /\ IF owner = w /\ Registered(w)
     THEN stopping' = TRUE /\ Halt(w) /\ UNCHANGED <<meta, open, local>>
     ELSE UNCHANGED teardown /\ IF owner = w /\ w \in open
                            THEN DropLocal(w)
                            ELSE UNCHANGED <<meta, stopping, up, open, local>>
  /\ UNCHANGED <<owner, disconnect, clients, beat, alive, stuck, held, waiting, viewers, bounds>>

LoseEvents(w) ==
  /\ events[w] # {}
  /\ trouble < MaxTrouble
  /\ trouble' = trouble + 1
  /\ events' = Put(events, w, {})
  /\ UNCHANGED <<redis, process, tasks, viewers, requests>>

(***************************************************************************)
(* The stop of a channel                                                    *)
(***************************************************************************)
AskStop(w) ==
  /\ w \in alive /\ trouble < MaxTrouble
  /\ trouble' = trouble + 1
  /\ CoordinatedStop(w)
  /\ UNCHANGED <<disconnect, waiting, requests>>

\* Whoever is asked to stop a session whose worker died deletes its keys.
CleanZombie(w) ==
  /\ w \in alive /\ trouble < MaxTrouble
  /\ trouble' = trouble + 1
  /\ Zombie(w)
  /\ DeleteKeys
  /\ UNCHANGED <<beat, process, tasks, events, viewers, requests>>

StopClean(w) ==
  /\ teardown[w] = "clean"
  /\ DeleteKeys
  /\ teardown' = Put(teardown, w, "local")
  /\ UNCHANGED <<beat, process, stuck, held, waiting, events, viewers, bounds>>

StopLocal(w) ==
  /\ teardown[w] = "local"
  /\ DropLocal(w)
  /\ teardown' = Put(teardown, w, "idle")
  /\ UNCHANGED <<owner, disconnect, clients, beat, alive, stuck, held, waiting, events, viewers,
                 bounds>>

\* _recover_stuck_channel_stops does the work of a stop that hangs, which goes on
\* when it can.
StopStuck(w) ==
  /\ StopRuns(w) /\ stuck[w] = "idle" /\ trouble < MaxTrouble
  /\ trouble' = trouble + 1
  /\ stuck' = Put(stuck, w, teardown[w])
  /\ teardown' = Put(teardown, w, "idle")
  /\ up' = Put(up, w, "none") /\ open' = open \ {w} /\ local' = Put(local, w, {})
  /\ DeleteKeys
  /\ UNCHANGED <<beat, alive, held, waiting, events, viewers, requests>>

LateClean(w) ==
  /\ stuck[w] = "clean"
  /\ DeleteKeys
  /\ stuck' = Put(stuck, w, "local")
  /\ UNCHANGED <<beat, process, teardown, held, waiting, events, viewers, bounds>>

LateLocal(w) ==
  /\ stuck[w] = "local"
  /\ DropLocal(w)
  /\ stuck' = Put(stuck, w, "idle")
  /\ UNCHANGED <<owner, disconnect, clients, beat, alive, teardown, held, waiting, events, viewers,
                 bounds>>

(***************************************************************************)
(* The stream manager's thread                                              *)
(***************************************************************************)
\* _evaluate_ownership_from_redis: what its audit must find to go on.
Keeps(w) ==
  /\ ~stopping /\ meta # NoMeta
  /\ owner \in {NoWorker, w}
  /\ owner = NoWorker => clients # {} \/ meta.state = "starting"
  /\ owner = w => ~(clients = {} /\ disconnect = "old")

Audit(w) ==
  /\ up[w] = "pulling"
  /\ ~Keeps(w)
  /\ up' = Put(up, w, "halted")
  /\ UNCHANGED <<redis, alive, open, local, tasks, events, viewers, bounds>>

\* Every stream of the channel was tried.
SourceFails(w) ==
  /\ up[w] = "pulling" /\ trouble < MaxTrouble
  /\ trouble' = trouble + 1
  /\ up' = Put(up, w, "halted")
  /\ UNCHANGED <<redis, alive, open, local, tasks, events, viewers, requests>>

ThreadEnds(w) ==
  /\ up[w] = "halted"
  /\ up' = Put(up, w, "ended")
  /\ RunEnds(w)
  /\ UNCHANGED <<owner, disconnect, clients, beat, alive, open, local, tasks, events, viewers,
                 bounds>>

(***************************************************************************)
(* The cleanup thread of every worker                                       *)
(***************************************************************************)
OwnerLoops(w) == owner = w /\ HasLocal(w) /\ ~stopping

\* Nobody came to a channel that starts, for the whole grace period.
StopUnclaimed(w) ==
  /\ OwnerLoops(w)
  /\ meta.state = "starting" /\ clients = {}
  /\ \A c \in Client : ~(host[c] = w /\ cpc[c] \in {"connect", "register"})
  /\ CoordinatedStop(w)
  /\ UNCHANGED <<disconnect, waiting, bounds>>

\* Mutant of StartTimer: a session that failed has no timer.
StartTimerOfActive(w) ==
  /\ OwnerLoops(w)
  /\ meta.state = "active" /\ clients = {} /\ disconnect = "no"
  /\ disconnect' = "recent"
  /\ UNCHANGED <<owner, meta, stopping, clients, beat, process, tasks, events, viewers, bounds>>

StartTimer(w) ==
  /\ OwnerLoops(w)
  /\ meta.state # "starting" /\ clients = {} /\ disconnect = "no"
  /\ disconnect' = "recent"
  /\ UNCHANGED <<owner, meta, stopping, clients, beat, process, tasks, events, viewers, bounds>>

StopUnwatched(w) ==
  /\ OwnerLoops(w)
  /\ meta.state # "starting" /\ clients = {} /\ disconnect = "old"
  /\ CoordinatedStop(w)
  /\ UNCHANGED <<disconnect, waiting, bounds>>

ClearTimer(w) ==
  /\ owner = w /\ HasLocal(w)
  /\ meta.state # "starting" /\ clients # {} /\ disconnect # "no"
  /\ disconnect' = "no"
  /\ UNCHANGED <<owner, meta, stopping, clients, beat, process, tasks, events, viewers, bounds>>

\* An upstream without the lock finishes the teardown it finds.
JoinStop(w) ==
  /\ owner # w /\ Registered(w) /\ ~StopRuns(w)
  /\ Unavailable(w)
  /\ stopping' = TRUE
  /\ Halt(w)
  /\ UNCHANGED <<owner, meta, disconnect, clients, beat, alive, open, local, stuck, held,
                 waiting, events, viewers, bounds>>

\* Mutant of LockGone: another worker's lock is as good as none.
LockGoneOrTaken(w) == owner # w /\ Registered(w) /\ ~Unavailable(w)

\* extend_ownership: the lock is gone, and no teardown; then SET NX. Its worker may be
\* held up in between.
LockGone(w) == owner = NoWorker /\ Registered(w) /\ ~Unavailable(w)

TakeLock(w) ==
  /\ LockGone(w)
  /\ owner' = w
  /\ UNCHANGED <<meta, stopping, disconnect, clients, beat, process, tasks, events, viewers,
                 bounds>>

SeeLockGone(w) ==
  /\ LockGone(w) /\ w \notin extend
  /\ trouble < MaxTrouble
  /\ trouble' = trouble + 1
  /\ extend' = extend \cup {w}
  /\ UNCHANGED <<redis, process, teardown, stuck, promotes, waiting, events, viewers, requests>>

TakeLockBack(w) ==
  /\ w \in extend
  /\ owner' = IF owner = NoWorker THEN w ELSE owner
  /\ extend' = extend \ {w}
  /\ UNCHANGED <<meta, stopping, disconnect, clients, beat, process, teardown, stuck, promotes,
                 waiting, events, viewers, bounds>>

\* What a worker keeps of a channel that it does not own, is gone or has no viewer
\* of its own here.
CleanLocal(w) ==
  /\ owner # w /\ HasLocal(w)
  /\ IF Registered(w)
     THEN owner # NoWorker /\ ~Unavailable(w) /\ local[w] = {}
     ELSE stopping \/ owner = NoWorker \/ meta = NoMeta \/ local[w] = {}
  /\ DropLocal(w)
  /\ UNCHANGED <<owner, disconnect, clients, beat, alive, tasks, events, viewers, bounds>>

\* _check_orphaned_metadata: the worker of the metadata is dead. What is left of its
\* viewers is removed; with viewers of other workers nothing is done until a teardown.
Ghosts == {c \in clients : cpc[c] # "watching"}
Orphaned == meta # NoMeta /\ meta.owner \notin beat
RemoveGhosts(w) ==
  /\ w \in alive /\ Orphaned
  /\ Ghosts # {}
  /\ clients' = clients \ Ghosts
  /\ UNCHANGED <<owner, meta, stopping, disconnect, beat, process, tasks, events, viewers, bounds>>

CleanOrphan(w) ==
  /\ w \in alive /\ Orphaned
  /\ clients = {} \/ (Ghosts = {} /\ Unavailable(w))
  /\ DeleteKeys
  /\ IF Registered(w)
     THEN up' = Put(up, w, "none") /\ open' = open \ {w} /\ local' = Put(local, w, {})
          /\ UNCHANGED events
     ELSE Publish(w, "stop") /\ UNCHANGED <<up, open, local>>
  /\ UNCHANGED <<beat, alive, tasks, viewers, bounds>>

(***************************************************************************)
(* Keys that expire, workers that die                                       *)
(***************************************************************************)
\* refresh_channel_registry, which renews the TTL of the metadata.
Refreshes(w) == w \in alive /\ w \in open /\ owner = w /\ ~StopRuns(w)

MetaExpires ==
  /\ meta.ttl /\ \A w \in Worker : ~Refreshes(w)
  /\ \A c \in Client : cpc[c] # "connect"
  /\ meta' = NoMeta
  /\ UNCHANGED <<owner, stopping, disconnect, clients, beat, process, tasks, events, viewers,
                 bounds>>

\* The TTL of the client set, once no client manager renews an entry of it.
ClientsExpire ==
  /\ clients # {} /\ \A w \in alive : local[w] \cap clients = {}
  /\ clients' = {}
  /\ UNCHANGED <<owner, meta, stopping, disconnect, beat, process, tasks, events, viewers, bounds>>

StoppingExpires ==
  /\ stopping /\ \A w \in alive : ~StopRuns(w)
  /\ stopping' = FALSE
  /\ UNCHANGED <<owner, meta, disconnect, clients, beat, process, tasks, events, viewers, bounds>>

\* The lease of a worker that is dead, or does not extend it.
LockExpires ==
  /\ owner # NoWorker
  /\ owner \notin alive \/ ~HasLocal(owner)
  /\ ~\E c \in Client : host[c] = owner /\ cpc[c] \in SettingUp
  /\ owner' = NoWorker
  /\ UNCHANGED <<meta, stopping, disconnect, clients, beat, process, tasks, events, viewers,
                 bounds>>

\* The lease of one that was held up for longer than the lease.
LockLapses ==
  /\ owner \in alive /\ trouble < MaxTrouble
  /\ trouble' = trouble + 1
  /\ owner' = NoWorker
  /\ UNCHANGED <<meta, stopping, disconnect, clients, beat, process, tasks, events, viewers,
                 requests>>

HeartbeatExpires(w) ==
  /\ w \in beat \ alive
  /\ beat' = beat \ {w}
  /\ UNCHANGED <<owner, meta, stopping, disconnect, clients, process, tasks, events, viewers,
                 bounds>>

Crash(w) ==
  /\ w \in alive /\ alive # {w} /\ trouble < MaxTrouble
  /\ trouble' = trouble + 1
  /\ alive' = alive \ {w}
  /\ up' = Put(up, w, "none") /\ open' = open \ {w} /\ local' = Put(local, w, {})
  /\ teardown' = Put(teardown, w, "idle") /\ stuck' = Put(stuck, w, "idle")
  /\ extend' = extend \ {w} /\ promotes' = promotes \ {w} /\ waiting' = waiting \ {w}
  /\ events' = Put(events, w, {})
  /\ cpc' = [c \in Client |-> IF host[c] = w THEN "away" ELSE cpc[c]]
  /\ host' = [c \in Client |-> IF host[c] = w THEN NoWorker ELSE host[c]]
  /\ UNCHANGED <<redis, requests>>

(***************************************************************************)
(* The specification                                                        *)
(***************************************************************************)
Setup(c) ==
  \/ GivesUp(c) \/ ReleaseLock(c) \/ InitFollows(c) \/ InitOwns(c)
  \/ InitNoUrl(c) \/ Connect(c) \/ TurnedAway(c) \/ NoClientManager(c)
  \/ Register(c)

Waits(w) == WaitAborted(w) \/ WaitEnds(w)
Hears(w) == HearDisconnected(w) \/ HearStop(w)
Stops(w) == StopClean(w) \/ StopLocal(w)
GoesOn(w) == LateClean(w) \/ LateLocal(w)
Pulls(w) == Audit(w) \/ ThreadEnds(w)
Loops(w) ==
  \/ StopUnclaimed(w) \/ StartTimer(w) \/ StopUnwatched(w) \/ ClearTimer(w) \/ JoinStop(w)
  \/ TakeLock(w) \/ CleanLocal(w)
Scans(w) == RemoveGhosts(w) \/ CleanOrphan(w)

Asked(w) == ForceStop(w) \/ AskStop(w) \/ CleanZombie(w)
Faults(w) ==
  LoseEvents(w) \/ SeeLockGone(w) \/ SeeReady(w) \/ StopStuck(w) \/ SourceFails(w) \/ Crash(w)

LifecycleNext ==
  \/ \E c \in Client :
       \/ \E w \in Worker : Follow(c, w) \/ Claim(c, w)
       \/ Setup(c) \/ Kicked(c) \/ Leaves(c)
  \/ \E w \in Worker :
       \/ Waits(w) \/ Hears(w) \/ Stops(w) \/ GoesOn(w) \/ Pulls(w) \/ Loops(w)
       \/ TakeLockBack(w) \/ PromoteLate(w) \/ Scans(w) \/ HeartbeatExpires(w)
       \/ Asked(w) \/ Faults(w)
  \/ Promote \/ TimerExpires \/ MetaExpires \/ ClientsExpire \/ StoppingExpires
  \/ LockExpires \/ LockLapses

LifecycleSpec == LifecycleInit /\ [][LifecycleNext]_lifecycleVars

\* Greenlets and threads go on, loops come round, TTLs run out. Nothing is assumed
\* of viewers, of who asks for stops, or of faults.
Fairness ==
  /\ \A c \in Client : WF_lifecycleVars(Setup(c)) /\ WF_lifecycleVars(Kicked(c))
  /\ \A w \in Worker :
       /\ WF_lifecycleVars(Waits(w)) /\ WF_lifecycleVars(Hears(w))
       /\ WF_lifecycleVars(Stops(w)) /\ WF_lifecycleVars(GoesOn(w))
       /\ WF_lifecycleVars(Pulls(w)) /\ WF_lifecycleVars(Loops(w))
       /\ WF_lifecycleVars(TakeLockBack(w)) /\ WF_lifecycleVars(PromoteLate(w))
       /\ WF_lifecycleVars(Scans(w)) /\ WF_lifecycleVars(HeartbeatExpires(w))
  /\ WF_lifecycleVars(TimerExpires) /\ WF_lifecycleVars(MetaExpires)
  /\ WF_lifecycleVars(ClientsExpire) /\ WF_lifecycleVars(StoppingExpires)
  /\ WF_lifecycleVars(LockExpires)

FairLifecycleSpec == LifecycleSpec /\ Fairness

(***************************************************************************)
(* Properties                                                               *)
(***************************************************************************)
LifecycleTypeOK ==
  /\ owner \in Worker \cup {NoWorker}
  /\ meta \in Metadata \cup {NoMeta}
  /\ stopping \in BOOLEAN
  /\ disconnect \in {"no", "recent", "old"}
  /\ clients \subseteq Client
  /\ beat \subseteq Worker /\ alive \subseteq beat
  /\ up \in [Worker -> {"none", "pulling", "halted", "ended"}]
  /\ open \subseteq alive
  /\ local \in [Worker -> SUBSET Client]
  /\ teardown \in [Worker -> {"idle", "clean", "local"}]
  /\ stuck \in [Worker -> {"idle", "clean", "local"}]
  /\ extend \subseteq alive /\ promotes \subseteq alive /\ waiting \subseteq alive
  /\ events \in [Worker -> SUBSET {"stop", "disconnected"}]
  /\ host \in [Client -> alive \cup {NoWorker}]
  /\ cpc \in [Client -> {"away", "attach", "register", "watching"} \cup SettingUp]
  /\ \A c \in Client : host[c] = NoWorker <=> cpc[c] = "away"
  /\ requests \in 0..MaxRequests /\ trouble \in 0..MaxTrouble

Pulling == {w \in Worker : up[w] = "pulling"}

\* Whatever lapses, crashes or is lost, the channel is never pulled from its
\* provider twice for good: of two workers that do, the audit ends one.
OnePuller == []<>(Cardinality(Pulling) <= 1)

\* A teardown ends, also when the worker that began it dies, or a viewer takes the
\* markers away halfway: the channel does not answer "stopping" for ever. (But where the
\* metadata came back without a TTL: nothing removes that.)
TearingDown == stopping \/ (meta.state = "stopping" /\ meta.ttl)
TeardownEnds == TearingDown ~> ~TearingDown

\* When nobody watches or asks any more, no worker pulls or keeps anything of the
\* channel, nobody holds its lock, and no viewer is left in Redis. The metadata goes
\* too, but for that which came back without a TTL.
Nobody == \A c \in Client : cpc[c] = "away"
Forgotten ==
  /\ \A w \in Worker : ~HasLocal(w)
  /\ owner = NoWorker /\ clients = {} /\ ~stopping
  /\ meta = NoMeta \/ ~meta.ttl
EndsUnwatched == <>[]Nobody => <>[]Forgotten
=============================================================================
