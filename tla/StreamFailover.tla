---------------------------- MODULE StreamFailover ----------------------------
(* Which stream of a channel its StreamManager pulls, and how it leaves one   *)
(* that fails (apps/proxy/live_proxy/input/manager.py). Three threads switch: *)
(* run, the main loop, after MaxRetries failures or when the health monitor   *)
(* asks for it; reader, which reads ffmpeg's stats, when it buffers for too   *)
(* long; and api, a change that an administrator asks for. They are greenlets: *)
(* a step goes from one wait (database, Redis, a process that ends) to the    *)
(* next.                                                                      *)
(*                                                                            *)
(* What the provider does, which alternates have a free slot, and how long a  *)
(* connection lasts are free; how a switch moves the slots is ProfileSwitch.  *)
(* One reader and one administrator at a time.                                *)
EXTENDS Integers, FiniteSets

CONSTANTS
  Stream,       \* the streams of the channel, each with its own URL
  Default,      \* the one it starts with
  Fallback,     \* SUBSET Stream: the custom "Could Not Dispatch"
  MaxRetries,   \* max_retries
  MaxSwitches,  \* max_stream_switches
  MaxManual,    \* bound: changes by an administrator
  None

ASSUME FailoverAssumption ==
  /\ Default \in Stream /\ Fallback \subseteq Stream
  /\ MaxRetries \in Nat \ {0} /\ MaxSwitches \in Nat \ {0} /\ MaxManual \in Nat
  /\ None \notin Stream

VARIABLES
  url, current,         \* self.url and current_stream_id: a stream each
  meta,                 \* STREAM_ID in the channel's metadata hash
  pulled,               \* the stream whose process or socket is open, or None
  connected,            \* self.connected
  running,              \* self.running
  switching,            \* self.url_switching
  tried,                \* tried_stream_ids
  passes, cooldown,     \* _failover_rotation_passes, _rotation_cooldown_until
  succeeded,            \* _had_successful_connection
  retries, attempts,    \* retry_count, stream_switch_attempts
  needs_reconnect, needs_switch, leaving,   \* the flags of the health monitor
  at,                   \* [Thread -> Place]
  list, next,           \* of each thread's _try_next_stream
  why, before,          \* of run: who asked for the switch; what it restores
  refusing,             \* the provider closes every connection at once
  manual,
  crossed               \* the last to enter update_url met another there (ghost)

identity == <<url, current, meta>>
connection == <<pulled, connected, running>>
rotation == <<tried, passes, cooldown>>
budget == <<succeeded, retries, attempts>>
flags == <<needs_reconnect, needs_switch, leaving>>
search == <<list, next>>
caller == <<why, before>>
world == <<refusing, manual>>
vars == <<url, current, meta, pulled, connected, running, switching, tried, passes, cooldown,
          succeeded, retries, attempts, needs_reconnect, needs_switch, leaving, at, list, next,
           why, before, refusing, manual, crossed>>

Thread == {"run", "reader", "api"}
Searching == {"filter", "pick", "info"}
Updating == {"count", "set", "log"}
RunPlace == {"top", "connect", "read", "wait_check", "wait_cooldown", "ended"}
Place == {"idle"} \cup Searching \cup Updating \cup RunPlace
\* failed: MaxRetries in a row; health: the monitor, by silence; stall: the monitor,
\* by stalls. The second and the third try after failed or health go by these names.
Why == {"failed", "health", "stall"}
Try == {"first", "second", "last"}

Set(f, x, v) == [f EXCEPT ![x] = v]
Goto(t, l) == at' = Set(at, t, l)
Forget(t) == list' = Set(list, t, {}) /\ next' = Set(next, t, None)
Ended == at["run"] = "ended"
NoCaller == [why |-> "failed", try |-> "first"]
Rest == [passes |-> 0, cooldown |-> "none", stream |-> None]

Init ==
  /\ url = Default /\ current = Default /\ meta = Default /\ tried = {Default}
  /\ pulled = None /\ connected = FALSE /\ running = TRUE
  /\ switching = FALSE
  /\ passes = 0 /\ cooldown = "none"
  /\ succeeded = FALSE /\ retries = 0 /\ attempts = 0
  /\ needs_reconnect = FALSE /\ needs_switch = FALSE /\ leaving = FALSE
  /\ at = [t \in Thread |-> IF t = "run" THEN "top" ELSE "idle"]
  /\ list = [t \in Thread |-> {}]
  /\ next = [t \in Thread |-> None]
  /\ why = NoCaller
  /\ before = Rest
  /\ refusing \in BOOLEAN
  /\ manual = 0
  /\ crossed = FALSE

(***************************************************************************)
(* _try_next_stream, by run or reader                                       *)
(***************************************************************************)
\* What the caller does with True ...
Succeeds(t) ==
  /\ Forget(t)
  /\ IF t = "run"
     THEN attempts' = attempts + 1 /\ retries' = 0 /\ Goto("run", "top")
     ELSE Goto(t, "idle") /\ UNCHANGED <<attempts, retries>>
  /\ IF t = "run" THEN why' = NoCaller /\ before' = Rest ELSE UNCHANGED caller

\* ... and with False: run gives the channel up, or, when only the health monitor
\* had asked, goes on with the stream it has.
GivesUp ==
  /\ why' = NoCaller /\ before' = Rest
  /\ IF why.why = "failed"
     THEN Goto("run", "ended") /\ pulled' = None /\ connected' = FALSE /\ UNCHANGED <<retries>>
     ELSE /\ Goto("run", IF switching THEN "top" ELSE "connect") /\ retries' = 0
          /\ UNCHANGED <<pulled, connected>>
  /\ UNCHANGED running

Fails(t) ==
  /\ Forget(t)
  /\ CASE t = "reader" -> Goto(t, "idle") /\ UNCHANGED <<connection, retries, caller>>
       [] t = "run" /\ why.why # "stall" /\ why.try = "first" ->
            Goto(t, "wait_check") /\ UNCHANGED <<connection, retries, caller>>
       [] t = "run" /\ why.why # "stall" /\ why.try = "second" /\ cooldown' # "none" ->
            /\ Goto(t, "wait_cooldown")
            /\ before' = [Rest EXCEPT !.stream = current]
            /\ UNCHANGED <<connection, retries, why>>
       [] OTHER -> GivesUp

\* A are the others with a free profile, from get_alternate_streams. It leaves out the
\* current stream as of before it asks the database; a switch in between makes no
\* difference, for the new one was tried, or has the URL that is pulled.
Untried(t, A) == (A \ tried) \ (IF t = "run" /\ why.why = "stall" THEN Fallback ELSE {})

Found(t, A) ==
  /\ at[t] = "filter"
  /\ Untried(t, A) # {}
  /\ list' = Set(list, t, Untried(t, A))
  /\ Goto(t, "pick")
  /\ UNCHANGED <<identity, connection, switching, rotation, budget, flags, next, caller,
                 world, crossed>>

\* Mutant of MayWrap: one round too many.
MayWrapOnce(t, A) ==
  /\ ~(t = "run" /\ why.why = "stall")
  /\ A # {} /\ succeeded /\ passes <= MaxSwitches

\* Every one was tried: after a first success it waits for the cooldown, then goes
\* round again; at most MaxSwitches times.
MayWrap(t, A) ==
  /\ ~(t = "run" /\ why.why = "stall")
  /\ A # {} /\ succeeded /\ passes < MaxSwitches

NothingToTry(t, A) ==
  /\ at[t] = "filter"
  /\ Untried(t, A) = {}
  /\ ~MayWrap(t, A) \/ cooldown = "armed" \/ (cooldown = "over" /\ A \subseteq {current})
  /\ IF MayWrap(t, A) /\ cooldown = "over"
     THEN cooldown' = "none" /\ tried' = {current}
     ELSE UNCHANGED <<cooldown, tried>>
  /\ Fails(t)
  /\ UNCHANGED <<identity, switching, passes, succeeded, attempts, flags, world, crossed>>

\* Mutant of Arm: the pass is not counted.
ArmUncounted(t, A) ==
  /\ at[t] = "filter"
  /\ Untried(t, A) = {} /\ MayWrap(t, A) /\ cooldown = "none"
  /\ cooldown' = "armed"
  /\ Fails(t)
  /\ UNCHANGED <<identity, switching, tried, passes, succeeded, attempts, flags, world, crossed>>

Arm(t, A) ==
  /\ at[t] = "filter"
  /\ Untried(t, A) = {} /\ MayWrap(t, A) /\ cooldown = "none"
  /\ passes' = passes + 1
  /\ cooldown' = "armed"
  /\ Fails(t)
  /\ UNCHANGED <<identity, switching, tried, succeeded, attempts, flags, world, crossed>>

Wrap(t, A) ==
  /\ at[t] = "filter"
  /\ Untried(t, A) = {} /\ MayWrap(t, A) /\ cooldown = "over"
  /\ A \ {current} # {}
  /\ cooldown' = "none"
  /\ tried' = {current}
  /\ list' = Set(list, t, A \ {current})
  /\ Goto(t, "pick")
  /\ UNCHANGED <<identity, connection, switching, passes, budget, flags, next, caller,
                 world, crossed>>

\* The next of the list, in the user's order; get_stream_info_for_switch reads the database.
Pick(t, s) ==
  /\ at[t] = "pick"
  /\ s \in list[t]
  /\ list' = Set(list, t, list[t] \ {s})
  /\ next' = Set(next, t, s)
  /\ tried' = tried \cup {s}
  /\ Goto(t, "info")
  /\ UNCHANGED <<identity, connection, switching, passes, cooldown, budget, flags, caller,
                 world, crossed>>

NoneLeft(t) ==
  /\ at[t] = "pick"
  /\ list[t] = {}
  /\ cooldown' = cooldown
  /\ Fails(t)
  /\ UNCHANGED <<identity, switching, tried, passes, succeeded, attempts, flags, world, crossed>>

\* No URL, or the one it has already.
Unsuitable(t) ==
  /\ at[t] = "info"
  /\ next' = Set(next, t, None)
  /\ Goto(t, "pick")
  /\ UNCHANGED <<identity, connection, switching, rotation, budget, flags, list, caller,
                 world, crossed>>

(***************************************************************************)
(* update_url, by any thread                                                *)
(***************************************************************************)
Crosses(t) == crossed' = (\E v \in Thread \ {t} : at[v] \in Updating)

\* The URL differs; update_stream_profile moves the slot.
Suitable(t) ==
  /\ at[t] = "info"
  /\ next[t] # url
  /\ list' = Set(list, t, {})
  /\ Goto(t, "count")
  /\ Crosses(t)
  /\ UNCHANGED <<identity, connection, switching, rotation, budget, flags, next, caller, world>>

\* _close_socket kills the process, and waits for it. Until it has done so run may
\* connect again, to the old URL: only its outer loop looks at url_switching.
Close(t) ==
  /\ at[t] = "count"
  /\ switching' = TRUE
  /\ pulled' = None /\ connected' = FALSE
  /\ Goto(t, "set")
  /\ UNCHANGED <<identity, running, rotation, budget, flags, search, caller, world, crossed>>

\* Mutant of Assign: the end of _close_socket drops only what it has killed.
AssignOnly(t) ==
  /\ at[t] = "set"
  /\ url' = next[t] /\ current' = next[t]
  /\ tried' = tried \cup {next[t]}
  /\ retries' = 0
  /\ Goto(t, "log")
  /\ UNCHANGED <<meta, connection, switching, passes, cooldown, succeeded, attempts, flags, search,
                 caller, world, crossed>>

\* The end of _close_socket drops whatever is open then. (A process that was started
\* meanwhile loses its pipe, and ends at its next write.)
Assign(t) ==
  /\ at[t] = "set"
  /\ pulled' = None /\ connected' = FALSE
  /\ url' = next[t] /\ current' = next[t]
  /\ tried' = tried \cup {next[t]}
  /\ retries' = 0
  /\ Goto(t, "log")
  /\ UNCHANGED <<meta, running, switching, passes, cooldown, succeeded, attempts, flags, search,
                 caller, world, crossed>>

\* After log_system_event: a failover sets current_stream_id once more, a change by
\* an administrator forgets what was tried; then the HSET of the metadata.
Finish(t) ==
  /\ at[t] = "log"
  /\ switching' = FALSE
  /\ IF t = "api"
     THEN tried' = {} /\ passes' = 0 /\ cooldown' = "none" /\ UNCHANGED current
     ELSE current' = next[t] /\ UNCHANGED rotation
  /\ meta' = next[t]
  /\ Succeeds(t)
  /\ UNCHANGED <<url, connection, succeeded, flags, world, crossed>>

\* change_stream_url, or the event of another worker, with the owner. The URL it has
\* already is only recorded.
Change(s) ==
  /\ at["api"] = "idle"
  /\ manual < MaxManual
  /\ manual' = manual + 1
  /\ IF s = url
     THEN /\ tried' = {} /\ passes' = 0 /\ cooldown' = "none" /\ meta' = s
          /\ UNCHANGED <<at, next, crossed>>
     ELSE /\ Goto("api", "count") /\ next' = Set(next, "api", s) /\ Crosses("api")
          /\ UNCHANGED <<meta, rotation>>
  /\ UNCHANGED <<url, current, connection, switching, budget, flags, list, caller, refusing>>

(***************************************************************************)
(* run                                                                      *)
(***************************************************************************)
\* The thread ends: its finally block closes everything, and sets ERROR.
Quit ==
  /\ Goto("run", "ended")
  /\ pulled' = None /\ connected' = FALSE

Leave ==
  /\ at["run"] = "top"
  /\ ~running \/ attempts > MaxSwitches
  /\ Quit
  /\ UNCHANGED <<identity, running, switching, rotation, budget, flags, search, caller, world, crossed>>

AtTop == at["run"] = "top" /\ running /\ attempts <= MaxSwitches

\* A switch that takes longer than url_switch_timeout.
ResetStuck ==
  /\ AtTop
  /\ switching
  /\ switching' = FALSE
  /\ UNCHANGED <<identity, connection, rotation, budget, flags, at, search, caller, world, crossed>>

Remember == [passes |-> passes, cooldown |-> cooldown, stream |-> None]

\* needs_stream_switch.
HealthSwitch ==
  /\ AtTop
  /\ needs_switch /\ ~switching
  /\ needs_switch' = FALSE /\ leaving' = FALSE
  /\ why' = [why |-> IF leaving THEN "stall" ELSE "health", try |-> "first"]
  /\ before' = IF leaving THEN Rest ELSE Remember
  /\ Goto("run", "filter")
  /\ UNCHANGED <<identity, connection, switching, rotation, budget, needs_reconnect, search,
                 world, crossed>>

BeginConnecting ==
  /\ AtTop
  /\ ~needs_switch /\ ~switching
  /\ Goto("run", "connect")
  /\ UNCHANGED <<identity, connection, switching, rotation, budget, flags, search, caller, world,
                 crossed>>

\* The inner loop ends without a verdict on the URL.
StopConnecting ==
  /\ at["run"] = "connect"
  /\ ~running \/ needs_switch
  /\ Goto("run", "top")
  /\ UNCHANGED <<identity, connection, switching, rotation, budget, flags, search, caller, world,
                 crossed>>

\* A process or a reader thread starts, without a wait since the URL was read; what the
\* provider says comes later. What was open is closed first.
Connect ==
  /\ at["run"] = "connect"
  /\ running /\ ~needs_switch
  /\ pulled' = url /\ connected' = TRUE
  /\ succeeded' = TRUE
  /\ Goto("run", "read")
  /\ UNCHANGED <<identity, running, switching, rotation, retries, attempts, flags, search, caller, world,
                 crossed>>

\* _record_connection_failure. After a connection longer than the retry window the
\* count begins again (idle).
Counts(idle) ==
  LET failures == IF idle THEN 1 ELSE retries + 1 IN
  /\ retries' = failures
  /\ IF failures >= MaxRetries
     THEN /\ why' = NoCaller
          /\ before' = [Remember EXCEPT !.passes = passes', !.cooldown = cooldown']
          /\ Goto("run", IF running THEN "filter" ELSE "top")
     ELSE Goto("run", "connect") /\ UNCHANGED caller

ConnectFails ==
  /\ at["run"] = "connect"
  /\ running /\ ~needs_switch
  /\ pulled' = None /\ connected' = FALSE
  /\ needs_reconnect' = FALSE
  /\ UNCHANGED rotation
  /\ Counts(FALSE)
  /\ UNCHANGED <<identity, running, switching, succeeded, attempts, needs_switch, leaving, search,
                 world, crossed>>

\* _process_stream_data returns for a switch: nothing is counted, nothing closed.
ReadUntilSwitch ==
  /\ at["run"] = "read"
  /\ needs_switch
  /\ connected' = FALSE
  /\ Goto("run", "top")
  /\ UNCHANGED <<identity, pulled, running, switching, rotation, budget, flags, search, caller,
                 world, crossed>>

Over == ~connected \/ needs_reconnect \/ ~running

\* Mutant of ReadUnstable: what a short connection was counts for nothing.
ReadForgiven ==
  /\ at["run"] = "read"
  /\ Over /\ ~needs_switch
  /\ running
  /\ pulled' = None /\ connected' = FALSE
  /\ needs_reconnect' = FALSE
  /\ Goto("run", "connect")
  /\ UNCHANGED <<identity, running, switching, rotation, budget, needs_switch, leaving, search,
                 caller, world, crossed>>

\* It returns because the connection is over, or to reconnect: a failure.
ReadUnstable ==
  /\ at["run"] = "read"
  /\ Over /\ ~needs_switch
  /\ running
  /\ pulled' = None /\ connected' = FALSE
  /\ needs_reconnect' = FALSE
  /\ UNCHANGED rotation
  /\ Counts(FALSE)
  /\ UNCHANGED <<identity, running, switching, succeeded, attempts, needs_switch, leaving, search,
                 world, crossed>>

\* The same after stable_connection_threshold: _note_stable_connection.
ReadStable(idle) ==
  /\ at["run"] = "read"
  /\ Over /\ ~needs_switch
  /\ running /\ ~refusing
  /\ pulled' = None /\ connected' = FALSE
  /\ needs_reconnect' = FALSE
  /\ tried' = {current} /\ passes' = 0 /\ cooldown' = "none"
  /\ attempts' = 0
  /\ Counts(idle)
  /\ UNCHANGED <<identity, running, switching, succeeded, needs_switch, leaving, search,
                 world, crossed>>

ReadStopped ==
  /\ at["run"] = "read"
  /\ ~running /\ ~needs_switch
  /\ Quit
  /\ UNCHANGED <<identity, running, switching, rotation, budget, flags, search, caller, world, crossed>>

\* _wait_for_stream_check: a check had the connection that an untried stream needs,
\* and lets go. What the failed try armed is undone.
CheckLetsGo ==
  /\ at["run"] = "wait_check"
  /\ running /\ ~(Stream \subseteq tried \cup {current})
  /\ passes' = before.passes /\ cooldown' = before.cooldown
  /\ why' = [why EXCEPT !.try = "second"]
  /\ before' = Rest
  /\ Goto("run", "filter")
  /\ UNCHANGED <<identity, connection, switching, tried, budget, flags, search, world, crossed>>

\* No check, or none in time: the cooldown is waited out, if there is one.
NoCheck ==
  /\ at["run"] = "wait_check"
  /\ IF cooldown = "none" THEN GivesUp
     ELSE /\ Goto("run", "wait_cooldown")
          /\ before' = [Rest EXCEPT !.stream = current]
          /\ UNCHANGED <<connection, retries, why>>
  /\ UNCHANGED <<identity, switching, rotation, succeeded, attempts, flags, search, world, crossed>>

\* Another thread has switched meanwhile, or it tries once more.
CooldownOver ==
  /\ at["run"] = "wait_cooldown"
  /\ running /\ cooldown # "armed"
  /\ IF current # before.stream
     THEN Succeeds("run")
     ELSE /\ why' = [why EXCEPT !.try = "last"]
          /\ before' = Rest
          /\ Goto("run", "filter")
          /\ UNCHANGED <<attempts, retries, search>>
  /\ UNCHANGED <<identity, connection, switching, rotation, succeeded, flags, world, crossed>>

CooldownStopped ==
  /\ at["run"] = "wait_cooldown"
  /\ ~running
  /\ GivesUp
  /\ UNCHANGED <<identity, switching, rotation, succeeded, attempts, flags, search, world, crossed>>

(***************************************************************************)
(* The others                                                               *)
(***************************************************************************)
\* The provider ends the connection.
Closes ==
  /\ connected
  /\ pulled' = None /\ connected' = FALSE
  /\ UNCHANGED <<identity, running, switching, rotation, budget, flags, at, search, caller, world,
                 crossed>>

\* ffmpeg is slower than real time for longer than buffering_timeout.
Buffering ==
  /\ at["reader"] = "idle"
  /\ pulled # None /\ ~refusing
  /\ Goto("reader", "filter")
  /\ UNCHANGED <<identity, connection, switching, rotation, budget, flags, search, caller, world,
                 crossed>>

\* _monitor_health: three checks without data, after a connection that was stable or
\* was not; or the third stall. Its actions are action_cooldown apart, which is long
\* enough for run to see the last one.
Unhealthy ==
  /\ running /\ connected /\ ~refusing
  /\ ~needs_reconnect /\ ~needs_switch
  /\ \/ needs_reconnect' = TRUE /\ UNCHANGED <<needs_switch, leaving>>
     \/ needs_switch' = TRUE /\ UNCHANGED <<needs_reconnect, leaving>>
     \/ needs_switch' = TRUE /\ leaving' = TRUE /\ UNCHANGED needs_reconnect
  /\ UNCHANGED <<identity, connection, switching, rotation, budget, at, search, caller, world, crossed>>

\* Data again.
Recovers ==
  /\ running /\ connected /\ ~refusing
  /\ needs_reconnect' = FALSE
  /\ needs_switch' = (needs_switch /\ leaving)
  /\ UNCHANGED <<identity, connection, switching, rotation, budget, leaving, at, search, caller,
                 world, crossed>>

Elapses ==
  /\ cooldown = "armed"
  /\ cooldown' = "over"
  /\ UNCHANGED <<identity, connection, switching, tried, passes, budget, flags, at, search, caller,
                 world, crossed>>

\* stop(), from a teardown or because the ownership is lost.
Stop ==
  /\ running
  /\ running' = FALSE
  /\ pulled' = None /\ connected' = FALSE
  /\ UNCHANGED <<identity, switching, rotation, budget, flags, at, search, caller, world, crossed>>

TriesNext(t) ==
  \/ \E A \in SUBSET (Stream \ {current}) : Found(t, A) \/ NothingToTry(t, A) \/ Arm(t, A) \/ Wrap(t, A)
  \/ \E s \in Stream : Pick(t, s)
  \/ NoneLeft(t)
  \/ Unsuitable(t) \/ Suitable(t)

Updates(t) == Close(t) \/ Assign(t) \/ Finish(t)

Runs ==
  \/ Leave \/ ResetStuck \/ HealthSwitch
  \/ BeginConnecting \/ StopConnecting \/ Connect \/ ConnectFails
  \/ ReadUntilSwitch \/ ReadUnstable \/ ReadStopped
  \/ \E idle \in BOOLEAN : ReadStable(idle)
  \/ CheckLetsGo \/ NoCheck \/ CooldownOver \/ CooldownStopped

Next ==
  \/ Runs
  \/ \E t \in {"run", "reader"} : TriesNext(t)
  \/ \E t \in Thread : Updates(t)
  \/ \E s \in Stream : Change(s)
  \/ Closes \/ Buffering \/ Unhealthy \/ Recovers \/ Elapses \/ Stop

Spec == Init /\ [][Next]_vars

\* run takes its steps, a provider that refuses closes, and the clock goes on. Nothing
\* is asked of the other threads: run goes on without them.
Fairness ==
  /\ WF_vars(Runs \/ TriesNext("run") \/ Updates("run"))
  /\ WF_vars(refusing /\ Closes)
  /\ WF_vars(Elapses)

FairSpec == Spec /\ Fairness
-----------------------------------------------------------------------------
\* The shape of the state; the counters stay within what the code allows them.
TypeOK ==
  /\ {url, current, meta} \subseteq Stream
  /\ pulled \in Stream \cup {None} /\ connected \in BOOLEAN /\ running \in BOOLEAN
  /\ switching \in BOOLEAN
  /\ tried \subseteq Stream
  /\ passes \in 0..MaxSwitches /\ cooldown \in {"none", "armed", "over"}
  /\ succeeded \in BOOLEAN /\ retries \in 0..MaxRetries /\ attempts \in 0..MaxSwitches + 1
  /\ {needs_reconnect, needs_switch, leaving} \subseteq BOOLEAN
  /\ at \in [Thread -> Place]
  /\ list \in [Thread -> SUBSET Stream]
  /\ next \in [Thread -> Stream \cup {None}]
  /\ why \in [why : Why, try : Try]
  /\ before \in [passes : 0..MaxSwitches, cooldown : {"none", "armed", "over"}, stream : Stream \cup {None}]
  /\ refusing \in BOOLEAN /\ manual \in 0..MaxManual
  /\ crossed \in BOOLEAN

\* "Prevent immediate reconnection with old URL": whenever no switch is under way,
\* what is pulled is the stream the manager and the metadata name, whoever switched
\* and however run retried meanwhile. Unless two switches overlapped, and none has
\* been made alone since.
PullsWhatIsNamed ==
  ~crossed /\ (\A t \in Thread : at[t] \notin Updating) =>
    /\ url = current /\ url = meta
    /\ pulled \in {url, None}

\* "Prevent infinite switching loops": the failovers go on for ever only if
\* connections are stable again and again; or if stream checks let go of a connection
\* again and again, for what CheckLetsGo restores may be a cooldown that the reader
\* has used meanwhile, and so a round that nothing has counted.
SwitchingEnds ==
  []<><<Finish("run") \/ Finish("reader")>>_vars =>
    []<><<CheckLetsGo \/ \E idle \in BOOLEAN : ReadStable(idle)>>_vars

\* A channel whose streams are all refused is given up for good, round again or not.
RefusedEnds == <>[](refusing => Ended)
=============================================================================
