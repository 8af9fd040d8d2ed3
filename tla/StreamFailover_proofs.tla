------------------------- MODULE StreamFailover_proofs -------------------------
(* Proofs about StreamFailover, for any streams and any limits.                *)
(* What is pulled can be compared with what is named only between switches; in *)
(* the middle of one the URL goes first and the metadata follow. The invariant *)
(* says how far each switch is, which determines what the next step finds. The *)
(* counters stay within their limits because run looks at them only at some    *)
(* places, and cannot come to the others past a limit.                         *)
(* That switches come to an end is a matter of fairness; that few of them fit  *)
(* between two renewals is not. The last part counts what a failover uses up:  *)
(* the rounds that are left, and in each the streams not yet tried.            *)
EXTENDS StreamFailover, FiniteSetTheorems, TLAPS

USE FailoverAssumption

\* Who looks at a stream, or switches to it, has one.
HasNext == \A t \in Thread : at[t] \in {"info"} \cup Updating => next[t] \in Stream

\* What run has left where it may spend it.
Budget ==
  /\ at["run"] \notin {"top", "ended"} => attempts <= MaxSwitches
  /\ running /\ at["run"] \in {"top", "connect", "read"} => retries < MaxRetries

\* The parts of the shape.
FlagsOK == {connected, running, switching, succeeded, needs_reconnect, needs_switch, leaving,
            refusing, crossed} \subseteq BOOLEAN
StreamsOK == {url, current, meta} \subseteq Stream /\ pulled \in Stream \cup {None} /\ tried \subseteq Stream
ThreadsOK ==
  /\ at \in [Thread -> Place]
  /\ list \in [Thread -> SUBSET Stream] /\ next \in [Thread -> Stream \cup {None}]
  /\ HasNext
CountersOK ==
  /\ passes \in 0..MaxSwitches /\ cooldown \in {"none", "armed", "over"}
  /\ retries \in 0..MaxRetries /\ attempts \in 0..MaxSwitches + 1 /\ manual \in 0..MaxManual
  /\ Budget
CallerOK ==
  /\ why \in [why : Why, try : Try]
  /\ before \in [passes : 0..MaxSwitches, cooldown : {"none", "armed", "over"}, stream : Stream \cup {None}]

Shape == FlagsOK /\ StreamsOK /\ ThreadsOK /\ CountersOK /\ CallerOK

\* While no switch overlaps another: there is one at most, all is named alike outside
\* it, and from its assignments on the URL and what is pulled are its stream.
Agreed == url = current /\ pulled \in {url, None}
Named ==
  ~crossed =>
    /\ \A t, u \in Thread : at[t] \in Updating /\ at[u] \in Updating => t = u
    /\ \A t \in Thread : at[t] = "log" => next[t] = url /\ Agreed
    /\ (\A t \in Thread : at[t] \notin Updating) => meta = url /\ Agreed

FailoverInv == Shape /\ Named

\* The parts together are the whole shape.
LEMMA ShapeIsTyped == Shape => TypeOK
BY DEF TypeOK, Shape, FlagsOK, StreamsOK, ThreadsOK, CountersOK, CallerOK

\* run has the stream it starts with, which is the one that is named.
LEMMA InitInv == Init => FailoverInv
<1>1. Init => FlagsOK
  BY DEF Init, FlagsOK
<1>2. Init => StreamsOK /\ ThreadsOK
  BY DEF Init, StreamsOK, ThreadsOK, HasNext, Thread, Place, Searching, Updating, RunPlace
<1>3. Init => CountersOK /\ CallerOK
  BY DEF Init, CountersOK, CallerOK, Budget, Thread, NoCaller, Rest, Why, Try
<1>4. Init => Named
  BY DEF Init, Named, Agreed, Thread, Updating
<1>5. QED  BY <1>1, <1>2, <1>3, <1>4 DEF FailoverInv, Shape

(***************************************************************************)
(* The shape of the state                                                   *)
(***************************************************************************)
\* What run remembers of the rotation, when a failure is counted, is in range.
LEMMA CountsCaller ==
  ASSUME Shape, CountersOK', NEW idle \in BOOLEAN, Counts(idle)
  PROVE  CallerOK'
<1>1. CASE UNCHANGED caller
  BY <1>1 DEF Shape, CallerOK, caller
<1>2. CASE why' = NoCaller /\ before' = [Remember EXCEPT !.passes = passes', !.cooldown = cooldown']
  <2>1. before' = [passes |-> passes', cooldown |-> cooldown', stream |-> None]
    BY <1>2 DEF Remember
  <2>2. QED  BY <1>2, <2>1 DEF CallerOK, CountersOK, NoCaller, Why, Try
<1>3. QED  BY <1>1, <1>2 DEF Counts

\* A step of a thread that looks for an alternate.
LEMMA SearchShape ==
  ASSUME Shape, NEW t \in {"run", "reader"}, TriesNext(t)
  PROVE  Shape'
<1> USE DEF Shape, FlagsOK, StreamsOK, ThreadsOK, CountersOK, CallerOK, HasNext, Budget, Set,
       Goto, Thread, Place, Searching, Updating, RunPlace, identity, connection, rotation,
       budget, flags, search, caller, world
<1>1. ASSUME NEW A \in SUBSET (Stream \ {current}), Found(t, A) PROVE Shape'
  BY <1>1 DEF Found, Untried
<1>2. ASSUME NEW A \in SUBSET (Stream \ {current}), NothingToTry(t, A) PROVE Shape'
  <2>1. FlagsOK'  BY <1>2 DEF NothingToTry, Forget, Fails, GivesUp, NoCaller, Rest, Why, Try,
         MayWrap, Untried
  <2>2. StreamsOK' /\ ThreadsOK' /\ CountersOK' /\ CallerOK'
    BY <1>2 DEF NothingToTry, Forget, Fails, GivesUp, NoCaller, Rest, Why, Try, MayWrap, Untried
  <2>3. QED  BY <2>1, <2>2
<1>3. ASSUME NEW A \in SUBSET (Stream \ {current}), Arm(t, A) PROVE Shape'
  <2>1. FlagsOK'  BY <1>3 DEF Arm, Forget, Fails, GivesUp, NoCaller, Rest, Why, Try, MayWrap,
         Untried
  <2>2. StreamsOK' /\ ThreadsOK' /\ CountersOK' /\ CallerOK'
    BY <1>3 DEF Arm, Forget, Fails, GivesUp, NoCaller, Rest, Why, Try, MayWrap, Untried
  <2>3. QED  BY <2>1, <2>2
<1>4. ASSUME NEW A \in SUBSET (Stream \ {current}), Wrap(t, A) PROVE Shape'
  BY <1>4 DEF Wrap
<1>5. ASSUME NEW s \in Stream, Pick(t, s) PROVE Shape'
  BY <1>5 DEF Pick
<1>6. ASSUME NoneLeft(t) PROVE Shape'
  <2>1. FlagsOK'  BY <1>6 DEF NoneLeft, Forget, Fails, GivesUp, NoCaller, Rest, Why, Try,
         MayWrap, Untried
  <2>2. StreamsOK' /\ ThreadsOK' /\ CountersOK' /\ CallerOK'
    BY <1>6 DEF NoneLeft, Forget, Fails, GivesUp, NoCaller, Rest, Why, Try, MayWrap, Untried
  <2>3. QED  BY <2>1, <2>2
<1>7. ASSUME Unsuitable(t) PROVE Shape'
  BY <1>7 DEF Unsuitable
<1>8. ASSUME Suitable(t) PROVE Shape'
  BY <1>8 DEF Suitable, Crosses
<1>9. QED  BY <1>1, <1>2, <1>3, <1>4, <1>5, <1>6, <1>7, <1>8 DEF TriesNext

\* A step of update_url.
LEMMA UpdateShape ==
  ASSUME Shape, NEW t \in Thread, Updates(t)
  PROVE  Shape'
<1> USE DEF Shape, FlagsOK, StreamsOK, ThreadsOK, CountersOK, CallerOK, HasNext, Budget, Set,
       Goto, Thread, Place, Searching, Updating, RunPlace, identity, connection, rotation,
       budget, flags, search, caller, world
<1>1. ASSUME Close(t) PROVE Shape'
  BY <1>1 DEF Close
<1>2. ASSUME Assign(t) PROVE Shape'
  <2>1. FlagsOK'  BY <1>2 DEF Assign
  <2>2. StreamsOK' /\ ThreadsOK' /\ CountersOK' /\ CallerOK'
    BY <1>2 DEF Assign
  <2>3. QED  BY <2>1, <2>2
<1>3. ASSUME Finish(t) PROVE Shape'
  <2>1. FlagsOK'  BY <1>3 DEF Finish, Forget, Succeeds, NoCaller, Rest, Why, Try
  <2>2. StreamsOK' /\ ThreadsOK' /\ CountersOK' /\ CallerOK'
    BY <1>3 DEF Finish, Forget, Succeeds, NoCaller, Rest, Why, Try
  <2>3. QED  BY <2>1, <2>2
<1>4. QED  BY <1>1, <1>2, <1>3 DEF Updates

\* A step of the main loop. What it needs of the counters is what Budget says of the place.
LEMMA RunShape ==
  ASSUME Shape, Runs
  PROVE  Shape'
<1> USE DEF Shape, FlagsOK, StreamsOK, ThreadsOK, CountersOK, CallerOK, HasNext, Budget, Set,
       Goto, Thread, Place, Searching, Updating, RunPlace, identity, connection, rotation,
       budget, flags, search, caller, world
<1>1. ASSUME Leave PROVE Shape'
  BY <1>1 DEF Leave, Quit
<1>2. ASSUME ResetStuck PROVE Shape'
  BY <1>2 DEF ResetStuck, AtTop
<1>3. ASSUME HealthSwitch PROVE Shape'
  <2>1. FlagsOK'  BY <1>3 DEF HealthSwitch, AtTop, Remember, Rest, Why, Try
  <2>2. StreamsOK' /\ ThreadsOK' /\ CountersOK' /\ CallerOK'
    BY <1>3 DEF HealthSwitch, AtTop, Remember, Rest, Why, Try
  <2>3. QED  BY <2>1, <2>2
<1>4. ASSUME BeginConnecting PROVE Shape'
  BY <1>4 DEF BeginConnecting, AtTop
<1>5. ASSUME StopConnecting PROVE Shape'
  BY <1>5 DEF StopConnecting
<1>6. ASSUME Connect PROVE Shape'
  BY <1>6 DEF Connect
<1>7. ASSUME ConnectFails PROVE Shape'
  <2>1. FlagsOK'  BY <1>7 DEF ConnectFails, Counts
  <2>2. StreamsOK' /\ ThreadsOK' /\ CountersOK'  BY <1>7 DEF ConnectFails, Counts
  <2>3. CallerOK'  BY <1>7, <2>2, CountsCaller DEF ConnectFails
  <2>4. QED  BY <2>1, <2>2, <2>3
<1>8. ASSUME ReadUntilSwitch PROVE Shape'
  BY <1>8 DEF ReadUntilSwitch
<1>9. ASSUME ReadUnstable PROVE Shape'
  <2>1. FlagsOK'  BY <1>9 DEF ReadUnstable, Over, Counts
  <2>2. StreamsOK' /\ ThreadsOK' /\ CountersOK'  BY <1>9 DEF ReadUnstable, Over, Counts
  <2>3. CallerOK'  BY <1>9, <2>2, CountsCaller DEF ReadUnstable
  <2>4. QED  BY <2>1, <2>2, <2>3
<1>10. ASSUME NEW idle \in BOOLEAN, ReadStable(idle) PROVE Shape'
  <2>1. FlagsOK'  BY <1>10 DEF ReadStable, Over, Counts
  <2>2. StreamsOK' /\ ThreadsOK' /\ CountersOK'  BY <1>10 DEF ReadStable, Over, Counts
  <2>3. CallerOK'  BY <1>10, <2>2, CountsCaller DEF ReadStable
  <2>4. QED  BY <2>1, <2>2, <2>3
<1>11. ASSUME ReadStopped PROVE Shape'
  BY <1>11 DEF ReadStopped, Quit
<1>12. ASSUME CheckLetsGo PROVE Shape'
  BY <1>12 DEF CheckLetsGo, Rest, Why, Try
<1>13. ASSUME NoCheck PROVE Shape'
  <2>1. FlagsOK'  BY <1>13 DEF NoCheck, GivesUp, Rest, NoCaller, Why, Try
  <2>2. StreamsOK' /\ ThreadsOK' /\ CountersOK' /\ CallerOK'
    BY <1>13 DEF NoCheck, GivesUp, Rest, NoCaller, Why, Try
  <2>3. QED  BY <2>1, <2>2
<1>14. ASSUME CooldownOver PROVE Shape'
  BY <1>14 DEF CooldownOver, Forget, Succeeds, Rest, NoCaller, Why, Try
<1>15. ASSUME CooldownStopped PROVE Shape'
  <2>1. FlagsOK'  BY <1>15 DEF CooldownStopped, GivesUp, Rest, NoCaller, Why, Try
  <2>2. StreamsOK' /\ ThreadsOK' /\ CountersOK' /\ CallerOK'
    BY <1>15 DEF CooldownStopped, GivesUp, Rest, NoCaller, Why, Try
  <2>3. QED  BY <2>1, <2>2
<1>16. QED  BY <1>1, <1>2, <1>3, <1>4, <1>5, <1>6, <1>7, <1>8, <1>9, <1>10, <1>11, <1>12, <1>13,
       <1>14, <1>15 DEF Runs

\* A step of the others.
LEMMA OtherShape ==
  ASSUME Shape,
         \/ \E s \in Stream : Change(s)
         \/ Closes \/ Buffering \/ Unhealthy \/ Recovers \/ Elapses \/ Stop
  PROVE  Shape'
<1> USE DEF Shape, FlagsOK, StreamsOK, ThreadsOK, CountersOK, CallerOK, HasNext, Budget, Set,
       Goto, Thread, Place, Searching, Updating, RunPlace, identity, connection, rotation,
       budget, flags, search, caller, world
<1>1. ASSUME NEW s \in Stream, Change(s) PROVE Shape'
  <2>1. FlagsOK'  BY <1>1 DEF Change, Crosses
  <2>2. StreamsOK' /\ CountersOK' /\ CallerOK'
    BY <1>1 DEF Change
  <2>3. ThreadsOK'
    BY <1>1 DEF Change
  <2>4. QED  BY <2>1, <2>2, <2>3
<1>2. ASSUME Closes PROVE Shape'
  BY <1>2 DEF Closes
<1>3. ASSUME Buffering PROVE Shape'
  BY <1>3 DEF Buffering
<1>4. ASSUME Unhealthy PROVE Shape'
  BY <1>4 DEF Unhealthy
<1>5. ASSUME Recovers PROVE Shape'
  BY <1>5 DEF Recovers
<1>6. ASSUME Elapses PROVE Shape'
  BY <1>6 DEF Elapses
<1>7. ASSUME Stop PROVE Shape'
  BY <1>7 DEF Stop
<1>8. QED  BY <1>1, <1>2, <1>3, <1>4, <1>5, <1>6, <1>7

(***************************************************************************)
(* What is pulled and what is named                                         *)
(***************************************************************************)
\* Outside the switches nobody writes what is named, and only what the URL says is opened.
LEMMA NamedKept ==
  ASSUME Named, UNCHANGED <<identity, crossed>>, pulled' \in {pulled, url, None},
         \A t \in Thread : at'[t] \in Updating \/ at[t] \in Updating =>
                             at'[t] = at[t] /\ next'[t] = next[t]
  PROVE  Named'
BY DEF Named, Agreed, identity, Updating

\* Who comes to update_url finds nobody there, or the switches have crossed.
LEMMA SearchNamed ==
  ASSUME Shape, Named, NEW t \in {"run", "reader"}, TriesNext(t)
  PROVE  Named'
<1> USE DEF Shape, StreamsOK, ThreadsOK, Set, Goto, Thread, Place, Searching, Updating, RunPlace,
       identity, connection, rotation, budget, flags, search, caller, world
<1>1. ASSUME NEW A \in SUBSET (Stream \ {current}), Found(t, A) PROVE Named'
  BY <1>1, NamedKept DEF Found, Untried
<1>2. ASSUME NEW A \in SUBSET (Stream \ {current}), NothingToTry(t, A) PROVE Named'
  BY <1>2, NamedKept DEF NothingToTry, Forget, Fails, GivesUp
<1>3. ASSUME NEW A \in SUBSET (Stream \ {current}), Arm(t, A) PROVE Named'
  BY <1>3, NamedKept DEF Arm, Forget, Fails, GivesUp
<1>4. ASSUME NEW A \in SUBSET (Stream \ {current}), Wrap(t, A) PROVE Named'
  BY <1>4, NamedKept DEF Wrap
<1>5. ASSUME NEW s \in Stream, Pick(t, s) PROVE Named'
  BY <1>5, NamedKept DEF Pick
<1>6. ASSUME NoneLeft(t) PROVE Named'
  BY <1>6, NamedKept DEF NoneLeft, Forget, Fails, GivesUp
<1>7. ASSUME Unsuitable(t) PROVE Named'
  BY <1>7, NamedKept DEF Unsuitable
<1>8. ASSUME Suitable(t) PROVE Named'
  BY <1>8 DEF Suitable, Crosses, Named, Agreed, HasNext
<1>9. QED  BY <1>1, <1>2, <1>3, <1>4, <1>5, <1>6, <1>7, <1>8 DEF TriesNext

\* The URL and the stream are set together; the metadata follow. A process that run
\* starts in between pulls what the URL says then.
LEMMA UpdateNamed ==
  ASSUME Shape, Named, NEW t \in Thread, Updates(t)
  PROVE  Named'
<1> USE DEF Shape, StreamsOK, ThreadsOK, Set, Goto, Thread, Place, Searching, Updating, RunPlace,
       identity, connection, rotation, budget, flags, search, caller, world
<1>1. ASSUME Close(t) PROVE Named'
  BY <1>1 DEF Close, Named, Agreed, HasNext
<1>2. ASSUME Assign(t) PROVE Named'
  BY <1>2 DEF Assign, Named, Agreed, HasNext
<1>3. ASSUME Finish(t) PROVE Named'
  BY <1>3 DEF Finish, Forget, Succeeds, Named, Agreed, HasNext
<1>4. QED  BY <1>1, <1>2, <1>3 DEF Updates

\* The main loop opens what the URL says, or closes.
LEMMA RunNamed ==
  ASSUME Shape, Named, Runs
  PROVE  Named'
<1> USE DEF Shape, StreamsOK, ThreadsOK, Set, Goto, Thread, Place, Searching, Updating, RunPlace,
       identity, connection, rotation, budget, flags, search, caller, world
<1>1. ASSUME Leave PROVE Named'
  BY <1>1, NamedKept DEF Leave, Quit
<1>2. ASSUME ResetStuck PROVE Named'
  BY <1>2, NamedKept DEF ResetStuck, AtTop
<1>3. ASSUME HealthSwitch PROVE Named'
  BY <1>3, NamedKept DEF HealthSwitch, AtTop
<1>4. ASSUME BeginConnecting PROVE Named'
  BY <1>4, NamedKept DEF BeginConnecting, AtTop
<1>5. ASSUME StopConnecting PROVE Named'
  BY <1>5, NamedKept DEF StopConnecting
<1>6. ASSUME Connect PROVE Named'
  BY <1>6, NamedKept DEF Connect
<1>7. ASSUME ConnectFails PROVE Named'
  BY <1>7, NamedKept DEF ConnectFails, Counts
<1>8. ASSUME ReadUntilSwitch PROVE Named'
  BY <1>8, NamedKept DEF ReadUntilSwitch
<1>9. ASSUME ReadUnstable PROVE Named'
  BY <1>9, NamedKept DEF ReadUnstable, Over, Counts
<1>10. ASSUME NEW idle \in BOOLEAN, ReadStable(idle) PROVE Named'
  BY <1>10, NamedKept DEF ReadStable, Over, Counts
<1>11. ASSUME ReadStopped PROVE Named'
  BY <1>11, NamedKept DEF ReadStopped, Quit
<1>12. ASSUME CheckLetsGo PROVE Named'
  BY <1>12, NamedKept DEF CheckLetsGo
<1>13. ASSUME NoCheck PROVE Named'
  BY <1>13, NamedKept DEF NoCheck, GivesUp
<1>14. ASSUME CooldownOver PROVE Named'
  BY <1>14, NamedKept DEF CooldownOver, Forget, Succeeds
<1>15. ASSUME CooldownStopped PROVE Named'
  BY <1>15, NamedKept DEF CooldownStopped, GivesUp
<1>16. QED  BY <1>1, <1>2, <1>3, <1>4, <1>5, <1>6, <1>7, <1>8, <1>9, <1>10, <1>11, <1>12, <1>13,
       <1>14, <1>15 DEF Runs

\* The others close, or come to update_url as an administrator.
LEMMA OtherNamed ==
  ASSUME Shape, Named,
         \/ \E s \in Stream : Change(s)
         \/ Closes \/ Buffering \/ Unhealthy \/ Recovers \/ Elapses \/ Stop
  PROVE  Named'
<1> USE DEF Shape, StreamsOK, ThreadsOK, Set, Goto, Thread, Place, Searching, Updating, RunPlace,
       identity, connection, rotation, budget, flags, search, caller, world
<1>1. ASSUME NEW s \in Stream, Change(s) PROVE Named'
  BY <1>1 DEF Change, Crosses, Named, Agreed, HasNext
<1>2. ASSUME Closes PROVE Named'
  BY <1>2, NamedKept DEF Closes
<1>3. ASSUME Buffering PROVE Named'
  BY <1>3, NamedKept DEF Buffering
<1>4. ASSUME Unhealthy PROVE Named'
  BY <1>4, NamedKept DEF Unhealthy
<1>5. ASSUME Recovers PROVE Named'
  BY <1>5, NamedKept DEF Recovers
<1>6. ASSUME Elapses PROVE Named'
  BY <1>6, NamedKept DEF Elapses
<1>7. ASSUME Stop PROVE Named'
  BY <1>7, NamedKept DEF Stop
<1>8. QED  BY <1>1, <1>2, <1>3, <1>4, <1>5, <1>6, <1>7

(***************************************************************************)
(* Results                                                                  *)
(***************************************************************************)
LEMMA NextInv == FailoverInv /\ [Next]_vars => FailoverInv'
<1> SUFFICES ASSUME Shape, Named, [Next]_vars PROVE Shape' /\ Named'
  BY DEF FailoverInv
<1>1. CASE Runs
  BY <1>1, RunShape, RunNamed
<1>2. ASSUME NEW t \in {"run", "reader"}, TriesNext(t) PROVE Shape' /\ Named'
  BY <1>2, SearchShape, SearchNamed
<1>3. ASSUME NEW t \in Thread, Updates(t) PROVE Shape' /\ Named'
  BY <1>3, UpdateShape, UpdateNamed
<1>4. CASE \/ \E s \in Stream : Change(s)
           \/ Closes \/ Buffering \/ Unhealthy \/ Recovers \/ Elapses \/ Stop
  BY <1>4, OtherShape, OtherNamed
<1>5. CASE UNCHANGED vars
  BY <1>5 DEF vars, Shape, Named, Agreed, FlagsOK, StreamsOK, ThreadsOK, CountersOK, CallerOK, HasNext, Budget
<1>6. QED  BY <1>1, <1>2, <1>3, <1>4, <1>5 DEF Next

\* FailoverInv holds in every state: the switches of a channel, however they meet.
THEOREM FailoverSafe == Spec => []FailoverInv
BY InitInv, NextInv, PTL DEF Spec

\* The retries, the switches and the rounds never exceed their limits, and who switches
\* always has a stream to switch to (manager.py: max_retries, max_stream_switches).
THEOREM TypeCorrect == Spec => []TypeOK
<1>1. FailoverInv => TypeOK
  BY ShapeIsTyped DEF FailoverInv
<1>2. QED  BY <1>1, FailoverSafe, PTL

\* Unless two switches of a channel overlap, what it pulls between them is the stream that
\* the manager and the metadata name (update_url, "Prevent immediate reconnection with
\* old URL").
THEOREM PullsNamed == Spec => []PullsWhatIsNamed
<1>1. FailoverInv => PullsWhatIsNamed
  BY DEF FailoverInv, Named, Agreed, PullsWhatIsNamed, Updating, Thread
<1>2. QED  BY <1>1, FailoverSafe, PTL

(***************************************************************************)
(* How many failovers there can be                                          *)
(***************************************************************************)
\* The failovers, by run or by the reader, since the last step that lets the rotation
\* begin anew: a stable connection, a change by an administrator, a check that lets go.
VARIABLE failovers
Renews == \/ \E idle \in BOOLEAN : ReadStable(idle)
          \/ \E s \in Stream : Change(s)
          \/ Finish("api") \/ CheckLetsGo
FailsOver == Finish("run") \/ Finish("reader")
Counting == failovers' = IF Renews THEN 0 ELSE IF FailsOver THEN failovers + 1 ELSE failovers

\* A cooldown runs only for a round that was counted, and run remembers no other.
Paid == /\ cooldown # "none" => passes > 0
        /\ before.cooldown # "none" => before.passes > 0

\* The rounds to come; the streams that this one has yet to try; whether a thread has taken
\* one of them, and not switched yet.
Turns == MaxSwitches - passes + (IF cooldown = "none" THEN 0 ELSE 1)
Left == Cardinality(Stream \ tried)
Fresh(t) == list[t] # {} /\ list[t] \cap tried = {}
Taking(t) == at[t] \in {"info"} \cup Updating \/ (at[t] = "pick" /\ ~Fresh(t))
Ahead(t) == Left + (IF Taking(t) THEN 1 ELSE 0)
Remaining == 2 * Cardinality(Stream) * Turns + Ahead("run") + Ahead("reader")
Most == 2 * Cardinality(Stream) * (MaxSwitches + 1) + 2

\* There is no cooldown yet.
LEMMA PaidInit == Init => Paid
BY DEF Init, Paid, Rest

\* Arm counts the pass in the step that arms; the others arm nothing.
LEMMA PaidSearch ==
  ASSUME Shape, Paid, NEW t \in {"run", "reader"}, TriesNext(t)
  PROVE  Paid'
<1> USE DEF Paid, Shape, CountersOK, rotation, caller
<1>1. ASSUME NEW A \in SUBSET (Stream \ {current}), Found(t, A) PROVE Paid'
  BY <1>1 DEF Found
<1>2. ASSUME NEW A \in SUBSET (Stream \ {current}), NothingToTry(t, A) PROVE Paid'
  BY <1>2 DEF NothingToTry, Fails, GivesUp, Rest
<1>3. ASSUME NEW A \in SUBSET (Stream \ {current}), Arm(t, A) PROVE Paid'
  BY <1>3 DEF Arm, Fails, GivesUp, Rest
<1>4. ASSUME NEW A \in SUBSET (Stream \ {current}), Wrap(t, A) PROVE Paid'
  BY <1>4 DEF Wrap
<1>5. ASSUME NEW s \in Stream, Pick(t, s) PROVE Paid'
  BY <1>5 DEF Pick
<1>6. ASSUME NoneLeft(t) PROVE Paid'
  BY <1>6 DEF NoneLeft, Fails, GivesUp, Rest
<1>7. ASSUME Unsuitable(t) \/ Suitable(t) PROVE Paid'
  BY <1>7 DEF Unsuitable, Suitable
<1>8. QED  BY <1>1, <1>2, <1>3, <1>4, <1>5, <1>6, <1>7 DEF TriesNext

\* What run remembers and restores are a pass and its cooldown together.
LEMMA PaidRun ==
  ASSUME Shape, Paid, Runs
  PROVE  Paid'
<1> USE DEF Paid, Shape, CountersOK, rotation, caller
<1>1. ASSUME Leave \/ ResetStuck \/ BeginConnecting \/ StopConnecting \/ Connect
             \/ ReadUntilSwitch \/ ReadStopped
      PROVE Paid'
  BY <1>1 DEF Leave, ResetStuck, BeginConnecting, StopConnecting, Connect, ReadUntilSwitch,
              ReadStopped
<1>2. ASSUME HealthSwitch PROVE Paid'
  BY <1>2 DEF HealthSwitch, Remember, Rest
<1>3. ASSUME NEW idle \in BOOLEAN, Counts(idle),
             UNCHANGED rotation \/ (passes' = 0 /\ cooldown' = "none")
      PROVE Paid'
  <2>1. CASE UNCHANGED caller
    BY <1>3, <2>1
  <2>2. CASE before' = [Remember EXCEPT !.passes = passes', !.cooldown = cooldown']
    <3>1. before'.passes = passes' /\ before'.cooldown = cooldown'
      BY <2>2 DEF Remember
    <3>2. QED  BY <1>3, <3>1
  <2>3. QED  BY <1>3, <2>1, <2>2 DEF Counts
<1>4. ASSUME ConnectFails \/ ReadUnstable PROVE Paid'
  BY <1>3, <1>4 DEF ConnectFails, ReadUnstable
<1>5. ASSUME NEW idle \in BOOLEAN, ReadStable(idle) PROVE Paid'
  BY <1>3, <1>5 DEF ReadStable
<1>6. ASSUME CheckLetsGo PROVE Paid'
  BY <1>6 DEF CheckLetsGo, Rest
<1>7. ASSUME NoCheck PROVE Paid'
  BY <1>7 DEF NoCheck, GivesUp, Rest
<1>8. ASSUME CooldownOver \/ CooldownStopped PROVE Paid'
  BY <1>8 DEF CooldownOver, CooldownStopped, GivesUp, Succeeds, Rest
<1>9. QED  BY <1>1, <1>2, <1>4, <1>5, <1>6, <1>7, <1>8 DEF Runs

\* The other steps reset both, or neither.
LEMMA PaidNext == Shape /\ Paid /\ [Next]_vars => Paid'
<1> SUFFICES ASSUME Shape, Paid, [Next]_vars PROVE Paid'
  OBVIOUS
<1> USE DEF Paid, rotation, caller
<1>1. ASSUME NEW t \in Thread, Updates(t) PROVE Paid'
  BY <1>1 DEF Updates, Close, Assign, Finish, Succeeds, Rest
<1>2. ASSUME NEW s \in Stream, Change(s) PROVE Paid'
  BY <1>2 DEF Change
<1>3. CASE Closes \/ Buffering \/ Unhealthy \/ Recovers \/ Elapses \/ Stop
  BY <1>3 DEF Closes, Buffering, Unhealthy, Recovers, Elapses, Stop
<1>4. CASE UNCHANGED vars
  BY <1>4 DEF vars
<1>5. QED  BY <1>1, <1>2, <1>3, <1>4, PaidSearch, PaidRun DEF Next

\* What is left of a round is a number.
LEMMA Numbers ==
  ASSUME IsFiniteSet(Stream), Shape, Paid
  PROVE  /\ Cardinality(Stream) \in Nat /\ Left \in Nat /\ Left <= Cardinality(Stream)
         /\ Turns \in Nat /\ Turns <= MaxSwitches
<1>1. /\ Cardinality(Stream) \in Nat
      /\ IsFiniteSet(Stream \ tried) /\ Left \in Nat /\ Left <= Cardinality(Stream)
  BY FS_CardinalityType, FS_Subset DEF Left
<1>2. passes \in 0..MaxSwitches
  BY DEF Shape, CountersOK
<1>3. QED  BY <1>1, <1>2 DEF Turns, Paid

\* The arithmetic of it.
LEMMA TurnsRange ==
  ASSUME NEW p \in 0..MaxSwitches
  PROVE  /\ MaxSwitches - p \in Nat /\ MaxSwitches - p <= MaxSwitches
         /\ p > 0 => MaxSwitches - p + 1 \in Nat /\ MaxSwitches - p + 1 <= MaxSwitches
OBVIOUS

\* The same after a step.
LEMMA NumbersNext ==
  ASSUME IsFiniteSet(Stream), Shape', Paid'
  PROVE  /\ Left' \in Nat /\ Left' <= Cardinality(Stream)
         /\ Turns' \in Nat /\ Turns' <= MaxSwitches
<1>1. IsFiniteSet(Stream \ tried') /\ Left' \in Nat /\ Left' <= Cardinality(Stream)
  BY FS_CardinalityType, FS_Subset DEF Left
<1>2. passes' \in 0..MaxSwitches
  BY DEF Shape, CountersOK
<1>3. Turns' \in Nat /\ Turns' <= MaxSwitches
  <2>1. CASE cooldown' = "none"
    <3>1. Turns' = MaxSwitches - passes'
      <4>1. Turns' = MaxSwitches - passes' + 0
        BY <2>1 DEF Turns
      <4>2. MaxSwitches - passes' \in Int
        BY <1>2
      <4>3. QED  BY <4>1, <4>2
    <3>2. QED  BY <1>2, <3>1, TurnsRange
  <2>2. CASE cooldown' # "none"
    <3>1. Turns' = MaxSwitches - passes' + 1 /\ passes' > 0
      BY <2>2 DEF Turns, Paid
    <3>2. QED  BY <1>2, <3>1, TurnsRange
  <2>3. QED  BY <2>1, <2>2
<1>4. QED  BY <1>1, <1>3

\* A stream that is tried for the first time in a round.
LEMMA LeftFalls ==
  ASSUME IsFiniteSet(Stream), Shape, NEW s \in Stream, s \notin tried, tried' = tried \cup {s}
  PROVE  Left' = Left - 1 /\ Left \in Nat
<1>1. IsFiniteSet(Stream \ tried) /\ s \in Stream \ tried
  BY FS_Subset
<1>2. Stream \ tried' = (Stream \ tried) \ {s}
  OBVIOUS
<1>3. QED  BY <1>1, <1>2, FS_CardinalityType, FS_RemoveElement DEF Left

\* A step that tries nothing, after which a thread has taken no more than before.
LEMMA Steady ==
  ASSUME IsFiniteSet(Stream), Shape, Paid, UNCHANGED tried,
         NEW t \in Thread, Taking(t)' => Taking(t)
  PROVE  Ahead(t)' <= Ahead(t)
<1>1. Left \in Nat /\ Left' = Left
  BY Numbers DEF Left
<1>2. QED  BY <1>1 DEF Ahead

\* A stream that is tried is one less for each, whoever has taken it.
LEMMA Takes ==
  ASSUME IsFiniteSet(Stream), Shape, Paid,
         NEW s \in Stream, s \notin tried, tried' = tried \cup {s}, NEW t \in Thread
  PROVE  Ahead(t)' <= Ahead(t)
<1>1. Left \in Nat /\ Left' = Left - 1
  BY LeftFalls
<1>2. QED  BY <1>1 DEF Ahead

\* Where a thread is when its search has failed.
LEMMA FailsRests ==
  ASSUME Shape, NEW t \in {"run", "reader"}, Fails(t)
  PROVE  /\ at' = [at EXCEPT ![t] = at'[t]]
         /\ at'[t] \notin {"pick", "info"} \cup Updating
         /\ list' = [list EXCEPT ![t] = {}]
BY DEF Fails, GivesUp, Forget, Goto, Set, Shape, ThreadsOK, Thread, Updating

\* A step goes on with the round, or begins the next.
Automatic == {"run", "reader"}
GoesOn == Turns' = Turns /\ \A u \in Automatic : Ahead(u)' <= Ahead(u)
Begins == Turns' = Turns - 1 /\ Left' < Cardinality(Stream) /\ \E u \in Automatic : ~Taking(u)'

\* Going round again keeps one stream tried, the current one.
LEMMA TurnLeft ==
  ASSUME IsFiniteSet(Stream), Shape, tried' = {current}
  PROVE  Left' < Cardinality(Stream)
<1>1. current \in Stream
  BY DEF Shape, StreamsOK
<1>2. Stream \ tried' = Stream \ {current}
  OBVIOUS
<1>3. Cardinality(Stream \ {current}) = Cardinality(Stream) - 1 /\ Cardinality(Stream) \in Nat
  BY <1>1, FS_CardinalityType, FS_RemoveElement
<1>4. QED  BY <1>2, <1>3 DEF Left

\* A search that fails has taken nothing, and a cooldown that it arms was paid for.
LEMMA FailsGoesOn ==
  ASSUME IsFiniteSet(Stream), Shape, Paid, NEW t \in Automatic, Fails(t), Turns' = Turns,
         UNCHANGED tried
  PROVE  GoesOn
<1>1. ASSUME NEW u \in Automatic PROVE Ahead(u)' <= Ahead(u)
  <2>1. Taking(u)' => Taking(u)
    BY FailsRests, <1>1 DEF Automatic, Taking, Fresh, Updating, Shape, ThreadsOK, Thread
  <2>2. u \in Thread
    BY DEF Automatic, Thread
  <2>3. QED  BY <2>1, <2>2, Steady
<1>2. QED  BY <1>1 DEF GoesOn

\* A search goes on with the round, or begins one that a pass was counted for.
LEMMA SearchAhead ==
  ASSUME IsFiniteSet(Stream), Shape, Paid, Paid', NEW t \in Automatic, TriesNext(t)
  PROVE  GoesOn \/ Begins
<1> USE DEF Automatic
<1>0. /\ t \in Thread /\ Automatic \subseteq Thread
      /\ at \in [Thread -> Place] /\ list \in [Thread -> SUBSET Stream]
      /\ passes \in 0..MaxSwitches
  BY DEF Thread, Shape, ThreadsOK, CountersOK
<1>a. ASSUME UNCHANGED rotation, \A u \in Automatic : Taking(u)' => Taking(u) PROVE GoesOn
  BY <1>0, <1>a, Steady DEF GoesOn, rotation, Turns
<1>1. ASSUME NEW A \in SUBSET (Stream \ {current}), Found(t, A) PROVE GoesOn
  BY <1>0, <1>1, <1>a DEF Found, Untried, Goto, Set, Taking, Fresh, Updating, rotation
<1>2. ASSUME NEW A \in SUBSET (Stream \ {current}), NothingToTry(t, A) PROVE GoesOn \/ Begins
  <2>1. CASE UNCHANGED <<cooldown, tried>>
    BY <1>2, <2>1, FailsGoesOn DEF NothingToTry, Turns
  <2>2. CASE cooldown = "over" /\ cooldown' = "none" /\ tried' = {current}
    <3>1. Turns' = Turns - 1
      BY <1>0, <1>2, <2>2 DEF NothingToTry, Turns
    <3>2. ~Taking(t)'
      BY <1>2, FailsRests DEF NothingToTry, Taking
    <3>3. QED  BY <2>2, <3>1, <3>2, TurnLeft DEF Begins
  <2>3. QED  BY <1>2, <2>1, <2>2 DEF NothingToTry
<1>3. ASSUME NEW A \in SUBSET (Stream \ {current}), Arm(t, A) PROVE GoesOn
  <2>1. Turns' = Turns
    BY <1>0, <1>3 DEF Arm, Turns
  <2>2. QED  BY <1>3, <2>1, FailsGoesOn DEF Arm
<1>4. ASSUME NEW A \in SUBSET (Stream \ {current}), Wrap(t, A) PROVE Begins
  <2>1. Turns' = Turns - 1
    BY <1>0, <1>4 DEF Wrap, Turns
  <2>2. ~Taking(t)'
    BY <1>0, <1>4 DEF Wrap, Goto, Set, Taking, Fresh, Updating
  <2>3. QED  BY <1>4, <2>1, <2>2, TurnLeft DEF Wrap, Begins
<1>5. ASSUME NEW s \in Stream, Pick(t, s) PROVE GoesOn
  <2>1. Turns' = Turns
    BY <1>5 DEF Pick, Turns
  <2>2. CASE s \in tried
    <3>1. Taking(t)
      BY <1>5, <2>2 DEF Pick, Taking, Fresh
    <3>2. UNCHANGED rotation
      BY <1>5, <2>2 DEF Pick, rotation
    <3>3. \A u \in Automatic \ {t} : Taking(u)' => Taking(u)
      BY <1>0, <1>5, <2>2 DEF Pick, Goto, Set, Taking, Fresh
    <3>4. QED  BY <1>a, <3>1, <3>2, <3>3
  <2>3. CASE s \notin tried
    BY <1>0, <1>5, <2>1, <2>3, Takes DEF Pick, GoesOn
  <2>4. QED  BY <2>2, <2>3
<1>6. ASSUME NoneLeft(t) PROVE GoesOn
  BY <1>6, FailsGoesOn DEF NoneLeft, Turns
<1>7. ASSUME Unsuitable(t) PROVE GoesOn
  BY <1>0, <1>7, <1>a DEF Unsuitable, Goto, Set, Taking, Fresh, Updating, rotation
<1>8. ASSUME Suitable(t) PROVE GoesOn
  BY <1>0, <1>8, <1>a DEF Suitable, Goto, Set, Taking, Fresh, Updating, rotation
<1>9. QED  BY <1>1, <1>2, <1>3, <1>4, <1>5, <1>6, <1>7, <1>8 DEF TriesNext

\* A failover is one that its thread had taken; another step of a switch takes none.
LEMMA UpdateAhead ==
  ASSUME IsFiniteSet(Stream), Shape, Paid, NEW t \in Thread, Updates(t), ~Renews
  PROVE  /\ GoesOn
         /\ FailsOver => \E u \in Automatic : Ahead(u)' <= Ahead(u) - 1
<1> USE DEF Automatic
<1>0. /\ at \in [Thread -> Place] /\ list \in [Thread -> SUBSET Stream]
      /\ next \in [Thread -> Stream \cup {None}] /\ HasNext /\ Automatic \subseteq Thread
  BY DEF Shape, ThreadsOK, Thread
<1>1. ASSUME Close(t) PROVE GoesOn /\ ~FailsOver
  <2>1. UNCHANGED <<tried, passes, cooldown, list>> /\ at' = [at EXCEPT ![t] = "set"]
        /\ at[t] = "count"
    BY <1>1 DEF Close, rotation, search, Goto, Set
  <2>2. \A u \in Automatic : Taking(u)' => Taking(u)
    BY <1>0, <2>1 DEF Taking, Fresh, Updating
  <2>3. ~FailsOver
    BY <1>0, <2>1 DEF FailsOver, Finish, Succeeds, Goto, Set
  <2>4. QED  BY <1>0, <2>1, <2>2, <2>3, Steady DEF GoesOn, Turns
<1>2. ASSUME Assign(t) PROVE GoesOn /\ ~FailsOver
  <2>1. /\ UNCHANGED <<passes, cooldown, list>> /\ at' = [at EXCEPT ![t] = "log"]
        /\ at[t] = "set" /\ tried' = tried \cup {next[t]} /\ next[t] \in Stream
    BY <1>0, <1>2 DEF Assign, search, Goto, Set, HasNext, Updating
  <2>2. ~FailsOver
    BY <1>0, <2>1 DEF FailsOver, Finish, Succeeds, Goto, Set
  <2>3. CASE next[t] \in tried
    <3>1. \A u \in Automatic : Taking(u)' => Taking(u)
      BY <1>0, <2>1, <2>3 DEF Taking, Fresh, Updating
    <3>2. QED  BY <1>0, <2>1, <2>2, <2>3, <3>1, Steady DEF GoesOn, Turns
  <2>4. CASE next[t] \notin tried
    BY <1>0, <2>1, <2>2, <2>4, Takes DEF GoesOn, Turns
  <2>5. QED  BY <2>3, <2>4
<1>3. ASSUME Finish(t) PROVE GoesOn /\ Ahead(t)' <= Ahead(t) - 1 /\ t \in Automatic
  <2>1. t \in Automatic
    BY <1>3 DEF Renews, Thread
  <2>2. /\ UNCHANGED <<tried, passes, cooldown>> /\ at[t] = "log"
        /\ at' = [at EXCEPT ![t] = IF t = "run" THEN "top" ELSE "idle"]
        /\ list' = [list EXCEPT ![t] = {}]
    BY <1>3, <2>1 DEF Finish, rotation, Succeeds, Forget, Goto, Set
  <2>3. /\ Taking(t) /\ ~Taking(t)'
        /\ \A u \in Automatic : Taking(u)' => Taking(u)
    BY <1>0, <2>1, <2>2 DEF Taking, Fresh, Updating
  <2>4. Left \in Nat /\ Left' = Left
    BY <2>2, Numbers DEF Left
  <2>5. QED  BY <1>0, <2>1, <2>2, <2>3, <2>4, Steady DEF GoesOn, Turns, Ahead
<1>4. QED  BY <1>1, <1>2, <1>3 DEF Updates

\* What run and the others do besides tries nothing and takes nothing.
LEMMA RestAhead ==
  ASSUME IsFiniteSet(Stream), Shape, Paid, ~Renews,
         Runs \/ Closes \/ Buffering \/ Unhealthy \/ Recovers \/ Elapses \/ Stop
  PROVE  GoesOn
<1> USE DEF Automatic, Goto, Set, Updating
<1>0. /\ at \in [Thread -> Place] /\ list \in [Thread -> SUBSET Stream] /\ Automatic \subseteq Thread
  BY DEF Shape, ThreadsOK, Thread
<1>a. ASSUME UNCHANGED tried, Turns' = Turns, \A u \in Automatic : Taking(u)' => Taking(u)
      PROVE  GoesOn
  BY <1>0, <1>a, Steady DEF GoesOn
<1>b. ASSUME UNCHANGED <<tried, passes, cooldown>>, \A u \in Automatic : Taking(u)' => Taking(u)
      PROVE  GoesOn
  BY <1>a, <1>b DEF Turns
<1>c. ASSUME UNCHANGED <<tried, passes, cooldown, list>>,
             NEW l \in RunPlace \cup {"idle", "filter"}, NEW t \in Thread, at' = [at EXCEPT ![t] = l]
      PROVE  GoesOn
  BY <1>0, <1>b, <1>c DEF Taking, Fresh, RunPlace
<1>d. ASSUME UNCHANGED <<tried, passes, cooldown, list, at>> PROVE GoesOn
  BY <1>b, <1>d DEF Taking, Fresh
<1>1. CASE Leave \/ ResetStuck \/ HealthSwitch \/ BeginConnecting \/ StopConnecting \/ Connect
           \/ ReadUntilSwitch \/ ReadStopped
  BY <1>1, <1>c, <1>d DEF Leave, Quit, ResetStuck, HealthSwitch, BeginConnecting, StopConnecting,
       Connect, ReadUntilSwitch, ReadStopped, Thread, RunPlace, rotation, search
<1>2. CASE ConnectFails \/ ReadUnstable
  BY <1>2, <1>c DEF ConnectFails, ReadUnstable, Counts, Thread, RunPlace, rotation, search
<1>3. CASE NoCheck \/ CooldownStopped
  BY <1>3, <1>c DEF NoCheck, CooldownStopped, GivesUp, Thread, RunPlace, rotation, search
<1>4. CASE CooldownOver
  <2>1. UNCHANGED <<tried, passes, cooldown>>
    BY <1>4 DEF CooldownOver, rotation
  <2>2. at' = [at EXCEPT !["run"] = at'["run"]] /\ at'["run"] \in {"top", "filter"}
        /\ \A u \in Thread \ {"run"} : list'[u] = list[u]
    BY <1>0, <1>4 DEF CooldownOver, Succeeds, Forget, search, Thread
  <2>3. QED  BY <1>0, <1>b, <2>1, <2>2 DEF Taking, Fresh
<1>5. CASE Closes \/ Buffering \/ Unhealthy \/ Recovers \/ Stop
  BY <1>5, <1>c, <1>d DEF Closes, Buffering, Unhealthy, Recovers, Stop, Thread, RunPlace, rotation,
       search
<1>6. CASE Elapses
  <2>1. UNCHANGED <<tried, list, at>> /\ Turns' = Turns
    BY <1>6 DEF Elapses, Turns, search
  <2>2. QED  BY <1>a, <2>1 DEF Taking, Fresh
<1>7. QED  BY <1>1, <1>2, <1>3, <1>4, <1>5, <1>6 DEF Runs, Renews

\* More rounds make more failovers.
LEMMA Times ==
  ASSUME NEW c \in Nat, NEW m \in Nat, NEW n \in Nat, m <= n
  PROVE  c * m \in Nat /\ c * n \in Nat /\ c * m <= c * n
<1>1. PICK d \in Nat : n = m + d
  <2>1. n - m \in Nat /\ n = m + (n - m)
    OBVIOUS
  <2>2. QED  BY <2>1
<1>2. c * m \in Nat /\ c * d \in Nat /\ c * n = c * m + c * d
  BY <1>1
<1>3. QED  BY <1>2

\* Nothing is below zero, and what remains is never more than Most.
LEMMA Sums ==
  ASSUME NEW c \in Nat, NEW m \in 0..MaxSwitches, NEW l \in Nat, 2 * l <= c,
         NEW a \in {0, 1}, NEW b \in {0, 1}
  PROVE  /\ c * m + (l + a) + (l + b) \in Nat
         /\ c * (MaxSwitches + 1) + 2 \in Nat
         /\ c * m + (l + a) + (l + b) <= c * (MaxSwitches + 1) + 2
<1>1. c * m \in Nat /\ c * MaxSwitches \in Nat /\ c * m <= c * MaxSwitches
  BY Times
<1>2. c * (MaxSwitches + 1) = c * MaxSwitches + c
  OBVIOUS
<1>3. QED  BY <1>1, <1>2

\* What remains, from the number of rounds.
LEMMA RemainingBounds ==
  ASSUME IsFiniteSet(Stream), Shape, Paid
  PROVE  Remaining \in Nat /\ Most \in Nat /\ Remaining <= Most
<1> DEFINE c == 2 * Cardinality(Stream)
<1>1. c \in Nat /\ Turns \in 0..MaxSwitches /\ Left \in Nat /\ 2 * Left <= c
  BY Numbers
<1>2. /\ Ahead("run") \in {Left + 0, Left + 1} /\ Ahead("reader") \in {Left + 0, Left + 1}
      /\ Remaining = c * Turns + Ahead("run") + Ahead("reader") /\ Most = c * (MaxSwitches + 1) + 2
  BY <1>1 DEF Ahead, Remaining, Most
<1> HIDE DEF c
<1>3. QED  BY <1>1, <1>2, Sums

\* The same after a step.
LEMMA RemainingBoundsNext ==
  ASSUME IsFiniteSet(Stream), Shape', Paid'
  PROVE  Remaining' \in Nat /\ Remaining' <= Most
<1> DEFINE c == 2 * Cardinality(Stream)
<1>1. c \in Nat /\ Turns' \in 0..MaxSwitches /\ Left' \in Nat /\ 2 * Left' <= c
  BY NumbersNext, FS_CardinalityType
<1>2. /\ Ahead("run")' \in {Left' + 0, Left' + 1} /\ Ahead("reader")' \in {Left' + 0, Left' + 1}
      /\ Remaining' = c * Turns' + Ahead("run")' + Ahead("reader")'
      /\ Most = c * (MaxSwitches + 1) + 2
  BY <1>1 DEF Ahead, Remaining, Most
<1> HIDE DEF c
<1>3. QED  BY <1>1, <1>2, Sums

\* The sums of the two lemmas below.
LEMMA Adds ==
  ASSUME NEW f \in Nat, NEW r \in Nat, NEW q \in Nat, NEW m \in Nat, NEW k \in {0, 1}
  PROVE  /\ f + r <= m /\ q + k <= r => f + k \in Nat /\ (f + k) + q <= m
         /\ q <= m => 0 + q <= m
OBVIOUS

\* What a round costs, and what the next one does.
LEMMA Falls ==
  ASSUME NEW x \in Nat, NEW y \in Nat, NEW d \in Nat, NEW e \in Nat, NEW g \in Nat, NEW h \in Nat,
         NEW c \in Nat, NEW k \in {0, 1}
  PROVE  /\ g <= d /\ h <= e /\ (k = 1 => g <= d - 1 \/ h <= e - 1) => x + g + h + k <= x + d + e
         /\ y = x + c /\ g + h <= c /\ k = 0 => x + g + h + k <= y + d + e
OBVIOUS

\* A step of the round, or to the next, costs what it does.
LEMMA RemainingFalls ==
  ASSUME IsFiniteSet(Stream), Shape, Paid, Shape', Paid', NEW k \in {0, 1},
         \/ /\ GoesOn
            /\ k = 1 => \E u \in Automatic : Ahead(u)' <= Ahead(u) - 1
         \/ Begins /\ k = 0
  PROVE  Remaining' + k <= Remaining
<1> DEFINE c == 2 * Cardinality(Stream)
<1>1. /\ c \in Nat /\ Turns \in Nat /\ Turns' \in Nat /\ Left \in Nat /\ Left' \in Nat
      /\ Cardinality(Stream) \in Nat
  BY Numbers, NumbersNext
<1>2. /\ Ahead("run") \in Nat /\ Ahead("reader") \in Nat
      /\ Ahead("run")' \in Nat /\ Ahead("reader")' \in Nat
  <2>1. /\ Ahead("run") \in {Left + 0, Left + 1} /\ Ahead("reader") \in {Left + 0, Left + 1}
        /\ Ahead("run")' \in {Left' + 0, Left' + 1} /\ Ahead("reader")' \in {Left' + 0, Left' + 1}
    BY DEF Ahead
  <2>2. QED  BY <1>1, <2>1
<1>3. /\ Remaining = c * Turns + Ahead("run") + Ahead("reader")
      /\ Remaining' = c * Turns' + Ahead("run")' + Ahead("reader")'
  BY DEF Remaining
<1>4. c * Turns \in Nat /\ c * Turns' \in Nat
  BY <1>1
<1>5. CASE GoesOn /\ (k = 1 => \E u \in Automatic : Ahead(u)' <= Ahead(u) - 1)
  <2>1. c * Turns' = c * Turns
    BY <1>5 DEF GoesOn
  <2>2. Ahead("run")' <= Ahead("run") /\ Ahead("reader")' <= Ahead("reader")
    BY <1>5 DEF GoesOn, Automatic
  <2>3. k = 1 => \/ Ahead("run")' <= Ahead("run") - 1
                 \/ Ahead("reader")' <= Ahead("reader") - 1
    BY <1>5 DEF Automatic
  <2>4. c * Turns + 0 \in Nat
    BY <1>4
  <2> HIDE DEF c
  <2>5. QED  BY <1>2, <1>3, <1>4, <2>1, <2>2, <2>3, Falls
<1>6. CASE Begins /\ k = 0
  <2>1. Turns = Turns' + 1
    BY <1>1, <1>6 DEF Begins
  <2>2. c * Turns = c * Turns' + c
    BY <1>1, <2>1
  <2>3. Ahead("run")' + Ahead("reader")' <= c
    BY <1>1, <1>6 DEF Begins, Ahead, Automatic
  <2>4. c \in Nat
    BY <1>1
  <2> HIDE DEF c
  <2>5. QED  BY <1>2, <1>3, <1>4, <1>6, <2>2, <2>3, <2>4, Falls
<1>7. QED  BY <1>5, <1>6

\* Between two such steps run and the reader make no more failovers than Most.
Bounded == failovers \in Nat /\ failovers + Remaining <= Most
FailoversBounded == failovers <= Most

\* Each failover is one less that remains; a renewal begins at the most.
LEMMA BoundedNext ==
  ASSUME IsFiniteSet(Stream), FailoverInv, Paid, Bounded, [Next]_vars,
         [Counting]_<<vars, failovers>>
  PROVE  Bounded'
<1>1. Shape /\ Shape' /\ Paid'
  BY NextInv, PaidNext DEF FailoverInv
<1>0. failovers \in Nat /\ failovers + Remaining <= Most
  BY DEF Bounded
<1>2. /\ Remaining \in Nat /\ Most \in Nat /\ Most' = Most
      /\ Remaining' \in Nat /\ Remaining' <= Most'
  <2>1. Remaining \in Nat /\ Most \in Nat
    BY <1>1, RemainingBounds
  <2>2. Most' = Most
    BY DEF Most
  <2>3. Remaining' \in Nat /\ Remaining' <= Most'
    BY <1>1, <2>2, RemainingBoundsNext
  <2>4. QED  BY <2>1, <2>2, <2>3
<1>3. CASE UNCHANGED vars
  <2>1. UNCHANGED Remaining
    BY <1>3 DEF vars, Remaining, Ahead, Left, Turns, Taking, Fresh
  <2>2. ~FailsOver
    BY <1>1, <1>3 DEF vars, FailsOver, Finish, Succeeds, Goto, Set, Shape, ThreadsOK, Thread
  <2>3. failovers' = 0 \/ failovers' = failovers
    BY <2>2 DEF Counting
  <2>4. CASE failovers' = 0
    BY <1>2, <2>4, Adds DEF Bounded
  <2>5. CASE failovers' = failovers
    BY <1>0, <1>2, <2>1, <2>5 DEF Bounded
  <2>6. QED  BY <2>3, <2>4, <2>5
<1>4. CASE Next /\ Counting /\ Renews
  <2>1. failovers' = 0
    BY <1>4 DEF Counting
  <2>2. QED  BY <1>0, <1>2, <2>1, Adds DEF Bounded
<1>5. CASE Next /\ Counting /\ ~Renews
  <2> DEFINE k == IF FailsOver THEN 1 ELSE 0
  <2>1. k \in {0, 1} /\ failovers' = failovers + k
    BY <1>5 DEF Counting, Bounded
  <2>2. \/ GoesOn /\ (FailsOver => \E u \in Automatic : Ahead(u)' <= Ahead(u) - 1)
        \/ Begins /\ ~FailsOver
    <3>1. ASSUME NEW t \in Thread, Updates(t)
          PROVE  GoesOn /\ (FailsOver => \E u \in Automatic : Ahead(u)' <= Ahead(u) - 1)
      BY <1>1, <1>5, <3>1, UpdateAhead
    <3>2. FailsOver => \E t \in Thread : Updates(t)
      BY DEF FailsOver, Updates, Thread
    <3>3. CASE \E t \in Thread : Updates(t)
      BY <3>1, <3>3
    <3>4. CASE ~\E t \in Thread : Updates(t)
      <4>1. ~FailsOver
        BY <3>2, <3>4
      <4>2. ASSUME NEW t \in Automatic, TriesNext(t) PROVE GoesOn \/ Begins
        BY <1>1, <4>2, SearchAhead
      <4>3. CASE Runs \/ Closes \/ Buffering \/ Unhealthy \/ Recovers \/ Elapses \/ Stop
        BY <1>1, <1>5, <4>1, <4>3, RestAhead
      <4>4. QED  BY <1>5, <3>4, <4>1, <4>2, <4>3 DEF Next, Renews, Automatic
    <3>5. QED  BY <3>3, <3>4
  <2>3. Remaining' + k <= Remaining
    BY <1>1, <2>1, <2>2, RemainingFalls
  <2> HIDE DEF k
  <2>4. QED  BY <1>0, <1>2, <2>1, <2>3, Adds DEF Bounded
<1>6. CASE UNCHANGED <<vars, failovers>>
  BY <1>3, <1>6
<1>7. QED  BY <1>3, <1>4, <1>5, <1>6

\* "Prevent infinite switching loops": until a connection is stable, an administrator
\* changes the stream, or a stream check lets go, run and the reader make no more
\* failovers than two for each stream and round, whatever the streams do.
THEOREM FailoversAreBounded ==
  ASSUME IsFiniteSet(Stream)
  PROVE  Spec /\ failovers = 0 /\ [][Counting]_<<vars, failovers>> => []FailoversBounded
<1>1. Init /\ failovers = 0 => FailoverInv /\ Paid /\ Bounded
  <2>1. Init => FailoverInv /\ Paid
    BY InitInv, PaidInit
  <2>2. FailoverInv /\ Paid => Remaining \in Nat /\ Most \in Nat /\ Remaining <= Most
    BY RemainingBounds DEF FailoverInv
  <2>3. QED  BY <2>1, <2>2 DEF Bounded
<1>2. FailoverInv /\ Paid /\ Bounded /\ [Next]_vars /\ [Counting]_<<vars, failovers>>
        => FailoverInv' /\ Paid' /\ Bounded'
  BY NextInv, PaidNext, BoundedNext DEF FailoverInv
<1>3. FailoverInv /\ Paid /\ Bounded => FailoversBounded
  <2>1. FailoverInv /\ Paid => Remaining \in Nat /\ Most \in Nat
    BY RemainingBounds DEF FailoverInv
  <2>2. QED  BY <2>1 DEF Bounded, FailoversBounded
<1>4. QED  BY <1>1, <1>2, <1>3, PTL DEF Spec
=============================================================================
