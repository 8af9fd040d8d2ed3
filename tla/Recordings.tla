----------------------------- MODULE Recordings -----------------------------
(* One recording of the DVR: run_recording and recover_recordings_on_startup *)
(* (apps/channels/tasks.py), what schedules them (signals.py), the requests  *)
(* to stop, extend and delete it (api_views.py), and restarts (celery.py).   *)
(*                                                                           *)
(* The row's custom_properties are read, changed and saved as a whole by all *)
(* of them. A read and the save right after it are one step here; they are   *)
(* two where the code works in between. A task writes segments into the HLS  *)
(* directory of the recording, remuxes them to an MKV and removes the        *)
(* directory. Redis has three locks with a TTL, and may be emptied by a      *)
(* restart. A segment, or what of it is in an MKV, is the task that wrote it.*)
EXTENDS Integers, FiniteSets

CONSTANTS
  Task,        \* 1..n: runs of run_recording, in the order of their dispatch
  Path,        \* names an MKV of the recording may get
  MaxTime,     \* bound of the clock; the recording starts at 1 and ends at 2
  MaxTrouble,  \* bound of restarts and crashes
  None

Status == {"", "recording", "completed", "stopped", "interrupted"}
Row == [status : Status, end : 2..MaxTime, hls : BOOLEAN, file : Path \cup {None}]

ASSUME RecordingAssumption ==
  /\ MaxTrouble \in Nat /\ MaxTime \in Nat \ {0, 1, 2}
  /\ Task = 1..(MaxTrouble + 1)
  /\ Path # {} /\ None \notin Path \cup Row
  /\ \A S \in SUBSET Task : None # S

VARIABLES
  now,
  row,        \* the Recording, or None when it is deleted
  beat,       \* BOOLEAN: there is a PeriodicTask that has not fired
  at,         \* [Task -> Place]
  job,        \* [Task -> Job]: the local variables of a run
  segs,       \* SUBSET Task: the segments in the HLS directory, or None
  mkv,        \* [Path -> SUBSET Task], empty when there is no usable file
  lock,       \* dvr:recording-active, dvr:recover_dispatch_lock, dvr:recover_lock
  worker,     \* the Celery worker of the queue "dvr"
  recovery,   \* the place in recover_recordings_on_startup
  found,      \* the row that the recovery works on, or None
  doomed,     \* the row that a deletion has yet to remove the files of, or None
  trouble,
  captured,   \* SUBSET Task: those that have written a segment
  flaws       \* the ways, below, in which the recording was mistreated (ghost)

tasks == <<at, job>>
disk == <<segs, mkv>>
rec == <<recovery, found>>
rest == <<now, worker, doomed, trouble>>
vars == <<row, beat, tasks, disk, lock, rec, rest, captured, flaws>>

Place == {"none", "queued", "prep", "prime", "open", "capture", "finish", "remux",
          "remuxing", "wait", "clear", "final", "save", "release", "over"}
\* end_timestamp; final_path; whether the source was gone for the whole retry window;
\* what the remux reads; what will be saved.
Job == [until : 2..MaxTime, file : Path \cup {None}, failed : BOOLEAN, take : SUBSET Task,
        seen : Row \cup {None}]
Blank == [until |-> 2, file |-> None, failed |-> FALSE, take |-> {}, seen |-> None]
Living == Place \ {"none", "queued", "over"}
Locked == {"prep", "prime", "open", "capture"}   \* what the active lock is for
Lock == {"active", "dispatch", "recover"}

\* missed: no recovery took it although no task recorded it. met: a recovery took
\* it although a task worked on it. moved: a task gave it another file. stale: a save
\* undid another's. freed: a task deleted the active lock of another. unfinished: it was
\* deleted while its MKV was written, or a restart came before its files were removed.
Flaw == {"missed", "met", "moved", "stale", "freed", "unfinished"}

Is(s) == row # None /\ row.status = s
Note(flaw, holds) == flaws' = IF holds THEN flaws \cup {flaw} ELSE flaws
Goto(t, l) == at' = [at EXCEPT ![t] = l]
Over(t) == Goto(t, "over") /\ job' = [job EXCEPT ![t] = Blank]
Takes(l) == lock' = lock \cup {l}
Drops(l) == lock' = lock \ {l}
Set(status) == row' = [row EXCEPT !.status = status]
SomeLives == \E t \in Task : at[t] \in Living

\* The recording is to come, or is created when it has begun already.
Init ==
  /\ now \in {0, 1}
  /\ row = [status |-> "", end |-> 2, hls |-> FALSE, file |-> None]
  /\ beat = (now = 0)
  /\ at = [t \in Task |-> IF t = 1 /\ now = 1 THEN "queued" ELSE "none"]
  /\ job = [t \in Task |-> Blank]
  /\ segs = None
  /\ mkv = [p \in Path |-> {}]
  /\ lock = {}
  /\ worker = "up"
  /\ recovery = "idle"
  /\ found = None
  /\ doomed = None
  /\ trouble = 0
  /\ captured = {}
  /\ flaws = {}

Tick ==
  /\ now < MaxTime
  /\ now' = now + 1
  /\ UNCHANGED <<row, beat, tasks, disk, lock, worker, rec, doomed, trouble, captured, flaws>>

\* A message to the queue "dvr", with the end that its sender knows.
Dispatch(end) ==
  \E t \in Task :
    /\ at[t] = "none" /\ \A u \in Task : u < t => at[u] # "none"
    /\ Goto(t, "queued")
    /\ job' = [job EXCEPT ![t].until = end]

\* Celery Beat sends a one-off task at its time. Its arguments are those of the save
\* that scheduled it: extend leaves them alone.
BeatFires ==
  /\ beat /\ now >= 1
  /\ beat' = FALSE
  /\ Dispatch(2)
  /\ UNCHANGED <<row, disk, lock, rec, rest, captured, flaws>>

(***************************************************************************)
(* run_recording                                                            *)
(***************************************************************************)
\* Mutant of Guard: no active lock.
GuardUnlocked(t) ==
  /\ at[t] = "queued" /\ worker = "up"
  /\ IF row = None \/ row.status \in {"recording", "completed", "stopped"}
     THEN Over(t) /\ UNCHANGED <<beat, lock>>
     ELSE Goto(t, "prep") /\ Takes("active") /\ beat' = FALSE /\ UNCHANGED job
  /\ UNCHANGED <<row, disk, rec, rest, captured, flaws>>

\* The idempotency guard, SET NX of the active lock, and the end of the PeriodicTask.
Guard(t) ==
  /\ at[t] = "queued" /\ worker = "up"
  /\ IF row = None \/ row.status \in {"recording", "completed", "stopped"} \/ "active" \in lock
     THEN Over(t) /\ UNCHANGED <<beat, lock>>
     ELSE Goto(t, "prep") /\ Takes("active") /\ beat' = FALSE /\ UNCHANGED job
  /\ UNCHANGED <<row, disk, rec, rest, captured, flaws>>

\* The HLS directory of an earlier run is there, and its MKV has a name.
Resumes == row.hls /\ row.file # None /\ segs # None

\* The row is read and the paths are chosen: those of the run that is resumed, or a
\* name that no MKV has. A return here leaves the lock to its TTL.
Prep(t) ==
  /\ at[t] = "prep"
  /\ IF row = None THEN Goto(t, "finish") /\ UNCHANGED job
     ELSE IF Is("stopped") THEN Over(t)
     ELSE /\ Goto(t, "prime")
          /\ \E p \in Path : /\ IF Resumes THEN p = row.file ELSE mkv[p] = {}
                             /\ job' = [job EXCEPT ![t].file = p]
  /\ UNCHANGED <<row, beat, disk, lock, rec, rest, captured, flaws>>

\* refresh_from_db, and the save of the paths and the status.
Prime(t) ==
  /\ at[t] = "prime"
  /\ IF row = None THEN Goto(t, "open") /\ UNCHANGED <<row, job, flaws>>
     ELSE IF Is("stopped") THEN Over(t) /\ UNCHANGED <<row, flaws>>
     ELSE /\ row' = [row EXCEPT !.status = "recording", !.hls = TRUE, !.file = job[t].file]
          /\ Note("moved", row.file \notin {None, job[t].file})
          /\ Goto(t, "open")
          /\ UNCHANGED job
  /\ UNCHANGED <<beat, disk, lock, rec, rest, captured>>

\* Mutant of Open: no check for a deletion.
OpenUnchecked(t) ==
  /\ at[t] = "open"
  /\ segs' = IF segs = None THEN {} ELSE segs
  /\ Goto(t, "capture")
  /\ UNCHANGED <<row, beat, job, mkv, lock, rec, rest, captured, flaws>>

\* makedirs, and the check for a deletion.
Open(t) ==
  /\ at[t] = "open"
  /\ segs' = IF segs = None THEN {} ELSE segs
  /\ Goto(t, IF row = None THEN "finish" ELSE "capture")
  /\ UNCHANGED <<row, beat, job, mkv, lock, rec, rest, captured, flaws>>

\* The worker is shutting down, and there is more to record.
Halted(t) == worker = "stopping" /\ now < job[t].until

Segment(t) ==
  /\ at[t] = "capture" /\ now < job[t].until /\ segs # None
  /\ segs' = segs \cup {t}
  /\ captured' = captured \cup {t}
  /\ UNCHANGED <<row, beat, tasks, mkv, lock, rec, rest, flaws>>

\* listdir of a directory that is not there: the exception ends the task.
CaptureFails(t) ==
  /\ at[t] = "capture" /\ segs = None
  /\ Over(t)
  /\ UNCHANGED <<row, beat, disk, lock, rec, rest, captured, flaws>>

\* The poll for an end that was extended.
Poll(t) ==
  /\ at[t] = "capture" /\ now < job[t].until
  /\ row # None /\ row.end > job[t].until
  /\ job' = [job EXCEPT ![t].until = row.end]
  /\ UNCHANGED <<row, beat, at, disk, lock, rec, rest, captured, flaws>>

\* The end of the window, a stop or a deletion.
EndCapture(t) ==
  /\ at[t] = "capture" /\ ~Halted(t)
  /\ now >= job[t].until \/ row = None \/ Is("stopped")
  /\ Goto(t, "finish")
  /\ UNCHANGED <<row, beat, job, disk, lock, rec, rest, captured, flaws>>

\* ffmpeg was started again for the whole retry window, in vain.
Outage(t) ==
  /\ at[t] = "capture" /\ ~Halted(t) /\ now < job[t].until
  /\ job' = [job EXCEPT ![t].failed = TRUE]
  /\ Goto(t, "finish")
  /\ UNCHANGED <<row, beat, disk, lock, rec, rest, captured, flaws>>

\* Shutting down: the files stay for the recovery, the lock for its TTL.
Shutdown(t) ==
  /\ at[t] = "capture" /\ Halted(t)
  /\ IF row = None THEN UNCHANGED row ELSE Set("interrupted")
  /\ Over(t)
  /\ UNCHANGED <<beat, disk, lock, rec, rest, captured, flaws>>

\* A recording that was deleted is cleaned up, any other is remuxed.
Finish(t) ==
  /\ at[t] = "finish"
  /\ IF row = None
     THEN /\ segs' = IF job[t].file = None THEN segs ELSE None
          /\ mkv' = [p \in Path |-> IF p = job[t].file THEN {} ELSE mkv[p]]
          /\ Over(t)
     ELSE Goto(t, "remux") /\ UNCHANGED <<disk, job>>
  /\ UNCHANGED <<row, beat, lock, rec, rest, captured, flaws>>

\* ffmpeg reads the playlist and begins to write the MKV.
Remux(t) ==
  /\ at[t] = "remux"
  /\ IF segs \in {None, {}} THEN Goto(t, "final") /\ UNCHANGED <<job, mkv>>
     ELSE /\ Goto(t, "remuxing")
          /\ job' = [job EXCEPT ![t].take = segs]
          /\ mkv' = [mkv EXCEPT ![job[t].file] = {}]
  /\ UNCHANGED <<row, beat, segs, lock, rec, rest, captured, flaws>>

\* Mutant of Remuxed: the directory goes whether or not the remux succeeded.
RemuxedAnyhow(t) ==
  /\ at[t] = "remuxing"
  /\ \E done \in {job[t].take, {}} : mkv' = [mkv EXCEPT ![job[t].file] = done]
  /\ Goto(t, "wait")
  /\ job' = [job EXCEPT ![t].take = {}]
  /\ UNCHANGED <<row, beat, segs, lock, rec, rest, captured, flaws>>

\* A remux that fails, also by way of an MP4, leaves the directory.
Remuxed(t) ==
  /\ at[t] = "remuxing"
  /\ \/ mkv' = [mkv EXCEPT ![job[t].file] = job[t].take] /\ Goto(t, "wait")
     \/ mkv' = [mkv EXCEPT ![job[t].file] = {}] /\ Goto(t, "final")
  /\ job' = [job EXCEPT ![t].take = {}]
  /\ UNCHANGED <<row, beat, segs, lock, rec, rest, captured, flaws>>

\* No viewer fetches segments any more.
RemoveDir(t) ==
  /\ at[t] = "wait"
  /\ segs' = None
  /\ Goto(t, "clear")
  /\ UNCHANGED <<row, beat, job, mkv, lock, rec, rest, captured, flaws>>

ClearDir(t) ==
  /\ at[t] = "clear"
  /\ row' = IF row = None THEN row ELSE [row EXCEPT !.hls = FALSE]
  /\ Goto(t, "final")
  /\ UNCHANGED <<beat, job, disk, lock, rec, rest, captured, flaws>>

\* refresh_from_db, then the status: stopped before completed before interrupted.
Outcome(t) ==
  IF Is("stopped") THEN "stopped"
  ELSE IF t \in captured /\ ~job[t].failed THEN "completed" ELSE "interrupted"

Final(t) ==
  /\ at[t] = "final"
  /\ IF row = None THEN Goto(t, "release") /\ UNCHANGED job
     ELSE /\ Goto(t, "save")
          /\ job' = [job EXCEPT ![t].seen = [row EXCEPT !.status = Outcome(t)]]
  /\ UNCHANGED <<row, beat, disk, lock, rec, rest, captured, flaws>>

\* The properties as they were read and changed, with the end that is there now.
Saved(copy) == [copy EXCEPT !.end = row.end]

\* The figures of the stream from Redis, and the save.
SaveFinal(t) ==
  /\ at[t] = "save"
  /\ IF row = None THEN Over(t) /\ UNCHANGED <<row, flaws>>
     ELSE /\ row' = Saved(job[t].seen)
          /\ Note("stale", row' # [row EXCEPT !.status = job[t].seen.status])
          /\ Goto(t, "release")
          /\ UNCHANGED job
  /\ UNCHANGED <<beat, disk, lock, rec, rest, captured>>

\* DEL of the lock, whoever has it.
Release(t) ==
  /\ at[t] = "release"
  /\ Drops("active")
  /\ Note("freed", \E u \in Task : at[u] \in Locked)
  /\ Over(t)
  /\ UNCHANGED <<row, beat, disk, rec, rest, captured>>

Runs(t) ==
  \/ Guard(t) \/ Prep(t) \/ Prime(t) \/ Open(t)
  \/ CaptureFails(t) \/ EndCapture(t) \/ Shutdown(t)
  \/ Finish(t) \/ Remux(t) \/ Remuxed(t) \/ RemoveDir(t) \/ ClearDir(t)
  \/ Final(t) \/ SaveFinal(t) \/ Release(t)

(***************************************************************************)
(* recover_recordings_on_startup                                            *)
(***************************************************************************)
Step(l) == recovery' = l

\* The recover lock, and the queries: recordings whose window is open, and those that
\* were running when their end came.
Begin ==
  /\ recovery = "asked"
  /\ IF "recover" \in lock
     THEN Step("idle") /\ Note("missed", TRUE) /\ UNCHANGED <<lock, found>>
     ELSE LET open == row # None /\ 1 <= now /\ now < row.end
              expired == Is("recording") /\ row.end <= now IN
          /\ Takes("recover")
          /\ found' = IF open \/ expired THEN row ELSE None
          /\ Step(IF open THEN "active" ELSE IF expired THEN "expired" ELSE "upcoming")
          /\ Note("met", expired /\ SomeLives)
  /\ UNCHANGED <<row, beat, tasks, disk, rest, captured>>

\* Mutant of Skips: what is recording is left to the worker that records it.
SkipsRunning == found.status \in {"recording", "completed", "stopped"} \/ "active" \in lock

\* What has ended, or is locked, is skipped.
Skips == found.status \in {"completed", "stopped"} \/ "active" \in lock

Skip ==
  /\ recovery = "active" /\ Skips
  /\ Note("missed", found.status \notin {"completed", "stopped"} /\ "active" \in lock /\ ~SomeLives)
  /\ found' = None
  /\ Step("upcoming")
  /\ UNCHANGED <<row, beat, tasks, disk, lock, rest, captured>>

\* Anything else is marked, and begun again for what is left of it.
Resume ==
  /\ recovery = "active" /\ ~Skips
  /\ IF row = None THEN UNCHANGED <<row, beat, tasks, flaws>>
     ELSE LET saved == Saved([found EXCEPT !.status = "interrupted"]) IN
          /\ row' = saved
          /\ flaws' = flaws \cup (IF SomeLives THEN {"met"} ELSE {})
                            \cup (IF row # Saved(found) THEN {"stale"} ELSE {})
          /\ beat' = FALSE
          /\ Dispatch(found.end)
  /\ found' = None
  /\ Step("upcoming")
  /\ UNCHANGED <<disk, lock, rest, captured>>

\* The remux of what there is; if it succeeds, the directory goes.
RemuxFound ==
  /\ recovery = "expired"
  /\ \/ /\ found.hls /\ found.file # None /\ segs \notin {None, {}}
        /\ mkv' = [mkv EXCEPT ![found.file] = segs]
        /\ segs' = None
        /\ found' = [found EXCEPT !.status = "interrupted", !.hls = FALSE]
     \/ /\ found' = [found EXCEPT !.status = "interrupted"]
        /\ UNCHANGED disk
  /\ Step("save")
  /\ UNCHANGED <<row, beat, tasks, lock, rest, captured, flaws>>

SaveFound ==
  /\ recovery = "save"
  /\ row' = IF row = None THEN row ELSE Saved(found)
  /\ found' = None
  /\ Step("upcoming")
  /\ UNCHANGED <<beat, tasks, disk, lock, rest, captured, flaws>>

\* A PeriodicTask that a recording to come has lost, and the end of the recovery.
Upcoming ==
  /\ recovery = "upcoming"
  /\ beat' = (beat \/ (row # None /\ now < 1))
  /\ Drops("recover")
  /\ Step("idle")
  /\ UNCHANGED <<row, tasks, disk, found, rest, captured, flaws>>

Recovers == Begin \/ Skip \/ Resume \/ RemuxFound \/ SaveFound \/ Upcoming

(***************************************************************************)
(* Requests                                                                 *)
(***************************************************************************)
\* stop, with the revocation of what is scheduled.
Stop ==
  /\ row # None /\ row.status \notin {"completed", "interrupted"}
  /\ Set("stopped")
  /\ beat' = FALSE
  /\ UNCHANGED <<tasks, disk, lock, rec, rest, captured, flaws>>

Extend ==
  /\ row # None /\ row.status \in {"", "recording"} /\ row.end < MaxTime
  /\ row' = [row EXCEPT !.end = @ + 1]
  /\ UNCHANGED <<beat, tasks, disk, lock, rec, rest, captured, flaws>>

\* destroy: the row goes first, then a thread removes the files it named.
Destroy ==
  /\ row # None
  /\ row' = None
  /\ beat' = FALSE
  /\ doomed' = row
  /\ Note("unfinished", \/ \E t \in Task : at[t] \in {"remux", "remuxing"}
                        \/ recovery = "expired")
  /\ UNCHANGED <<now, tasks, disk, lock, worker, rec, trouble, captured>>

RemoveFiles ==
  /\ doomed # None
  /\ doomed' = None
  /\ mkv' = [p \in Path |-> IF p = doomed.file THEN {} ELSE mkv[p]]
  /\ segs' = IF doomed.hls THEN None ELSE segs
  /\ UNCHANGED <<now, row, beat, tasks, lock, worker, rec, trouble, captured, flaws>>

(***************************************************************************)
(* Locks, workers and restarts                                              *)
(***************************************************************************)
\* A TTL runs out. That of the active lock is renewed during the capture, and is
\* longer than what comes before it.
Lapses(l) ==
  /\ l \in lock
  /\ l = "active" => \A t \in Task : at[t] \notin Locked
  /\ l = "recover" => recovery = "idle"
  /\ Drops(l)
  /\ UNCHANGED <<row, beat, tasks, disk, rec, rest, captured, flaws>>

\* The worker is told to stop. Its running tasks may still end.
Stopping ==
  /\ worker = "up" /\ trouble < MaxTrouble
  /\ worker' = "stopping"
  /\ trouble' = trouble + 1
  /\ UNCHANGED <<now, row, beat, tasks, disk, lock, rec, doomed, captured, flaws>>

\* The worker is gone, with its tasks; with the whole container, the web server, the
\* recovery and the contents of Redis are.
Lost(all) == {t \in Task : at[t] \in Living \/ (all /\ at[t] = "queued")}
Dies(all) ==
  /\ worker = "stopping" \/ (worker = "up" /\ trouble < MaxTrouble)
  /\ trouble' = IF worker = "up" THEN trouble + 1 ELSE trouble
  /\ worker' = "down"
  /\ at' = [t \in Task |-> IF t \in Lost(all) THEN "over" ELSE at[t]]
  /\ job' = [t \in Task |-> IF t \in Lost(all) THEN Blank ELSE job[t]]
  /\ IF all THEN /\ lock' = {} /\ recovery' = "idle" /\ found' = None /\ doomed' = None
                 /\ Note("unfinished", doomed # None \/ (row = None /\ recovery = "expired"))
            ELSE UNCHANGED <<lock, rec, doomed, flaws>>
  /\ UNCHANGED <<now, row, beat, disk, captured>>

\* on_worker_ready: a recovery is asked for, if none was lately. One that is running
\* makes the one that is asked for return at once.
Asks(before) ==
  IF "dispatch" \in lock
  THEN Step(before) /\ Note("missed", before # "asked") /\ UNCHANGED lock
  ELSE /\ Step(IF before = "idle" THEN "asked" ELSE before)
       /\ Note("missed", before \notin {"idle", "asked"})
       /\ Takes("dispatch")

Boot ==
  /\ worker = "down"
  /\ worker' = "up"
  /\ Asks(recovery)
  /\ UNCHANGED <<now, row, beat, tasks, disk, found, doomed, trouble, captured>>

\* The other worker, which runs the recovery, is restarted alone.
OtherRestarts ==
  /\ worker = "up" /\ trouble < MaxTrouble
  /\ trouble' = trouble + 1
  /\ Asks(IF recovery = "asked" THEN "asked" ELSE "idle")
  /\ found' = None
  /\ UNCHANGED <<now, row, beat, tasks, disk, worker, doomed, captured>>

Next ==
  \/ Tick
  \/ BeatFires
  \/ \E t \in Task : Runs(t) \/ Segment(t) \/ Poll(t) \/ Outage(t)
  \/ Recovers
  \/ Stop \/ Extend \/ Destroy
  \/ RemoveFiles
  \/ \E l \in Lock : Lapses(l)
  \/ Stopping
  \/ \E all \in BOOLEAN : Dies(all)
  \/ Boot
  \/ OtherRestarts

\* Time passes, messages are sent, tasks and recoveries go on, and a worker that is
\* stopping or down is started again.
Fairness ==
  /\ WF_vars(Tick)
  /\ WF_vars(BeatFires)
  /\ \A t \in Task : WF_vars(Runs(t))
  /\ WF_vars(Recovers)
  /\ WF_vars(worker = "stopping" /\ Dies(FALSE))
  /\ WF_vars(Boot)

Spec == Init /\ [][Next]_vars /\ Fairness
-----------------------------------------------------------------------------
\* The flaws of S have not happened.
Without(S) == flaws \cap S = {}

\* "prevents concurrent ffmpeg processes writing to the same HLS dir when duplicate
\* recovery dispatches occur": whatever is dispatched by Beat and by recoveries, one
\* task at a time captures, unless a task that ends late has deleted another's lock.
OneCapture ==
  Without({"freed"}) => \A t, u \in Task : at[t] = "capture" /\ at[u] = "capture" => t = u

\* The row leads to what task t has captured: in the directory or in the MKV it names.
Reached(t) ==
  \/ row.hls /\ segs # None /\ t \in segs
  \/ row.file # None /\ t \in mkv[row.file]

\* Nothing that was captured is lost, through outages, failed remuxes, stops, crashes
\* and restarts at any step.
NothingLost ==
  row # None /\ Without({"met", "moved", "stale", "freed"}) => \A t \in captured : Reached(t)

\* When a recording was deleted and all that ran is over, no segment and no MKV of it
\* is left on the disk, whatever was going on when it was deleted.
DeletedLeavesNothing ==
  row = None /\ doomed = None /\ ~SomeLives /\ recovery \notin {"expired", "save"}
    => \/ ~Without({"met", "moved", "stale", "freed", "unfinished"})
       \/ segs \in {None, {}} /\ \A p \in Path : mkv[p] = {}

\* A recording does not stay "recording" for ever: its task ends it, or a recovery
\* finds it after a crash, unless one of the flaws has happened.
EndsAtLast == Is("recording") ~> (~Is("recording") \/ flaws # {})
=============================================================================
