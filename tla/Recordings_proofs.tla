--------------------------- MODULE Recordings_proofs ---------------------------
(* Proofs about Recordings, for any number of runs of the task, restarts and   *)
(* crashes, any names and any clock. The active lock has no owner: a run sets  *)
(* it if it is not there, and deletes it whoever has set it. So one run at a    *)
(* time captures only as long as no run that ends deletes the lock of the next. *)
(* FilesInv says where what was captured is: in the directory of the row, or in *)
(* the MKV that it names, or about to be, by who has the recording in hand.     *)
EXTENDS Recordings, TLAPS

USE RecordingAssumption

Where == at \in [Task -> Place]

\* Who prepares or captures has the lock, and is alone in it.
Alone ==
  "freed" \notin flaws =>
    /\ \A t \in Task : at[t] \in Locked => "active" \in lock
    /\ \A t, u \in Task : at[t] \in Locked /\ at[u] \in Locked => t = u

RecordingInv == Where /\ Alone

\* A step after which nobody has come to those places, and whose locks are still there.
LEMMA AloneKept ==
  ASSUME Alone, flaws \subseteq flaws',
         \A t \in Task : at'[t] \in Locked => at[t] \in Locked,
         (\E t \in Task : at'[t] \in Locked) /\ "active" \in lock => "active" \in lock'
  PROVE  Alone'
BY DEF Alone

\* Nobody has begun.
LEMMA InitInv == Init => RecordingInv
<1>1. Init => Where
  BY DEF Init, Where, Place
<1>2. Init => Alone
  BY DEF Init, Alone, Locked
<1>3. QED  BY <1>1, <1>2 DEF RecordingInv

\* A step of a run of the task. Guard finds no lock, so nobody has it. Release frees it,
\* which is noted if that of another goes.
LEMMA RunStep ==
  ASSUME RecordingInv, NEW t \in Task, Runs(t) \/ Segment(t) \/ Poll(t) \/ Outage(t)
  PROVE  RecordingInv'
<1> USE DEF RecordingInv, Where, Locked, Place, Goto, Over, tasks, disk, rec, rest
<1>1. ASSUME Guard(t) PROVE RecordingInv'
  BY <1>1 DEF Guard, Takes, Alone
<1>2. ASSUME Prep(t) PROVE RecordingInv'
  BY <1>2, AloneKept DEF Prep
<1>3. ASSUME Prime(t) PROVE RecordingInv'
  BY <1>3, AloneKept DEF Prime, Note
<1>4. ASSUME Open(t) PROVE RecordingInv'
  BY <1>4, AloneKept DEF Open
<1>5. ASSUME CaptureFails(t) PROVE RecordingInv'
  BY <1>5, AloneKept DEF CaptureFails
<1>6. ASSUME EndCapture(t) PROVE RecordingInv'
  BY <1>6, AloneKept DEF EndCapture
<1>7. ASSUME Shutdown(t) PROVE RecordingInv'
  BY <1>7, AloneKept DEF Shutdown
<1>8. ASSUME Finish(t) PROVE RecordingInv'
  BY <1>8, AloneKept DEF Finish
<1>9. ASSUME Remux(t) PROVE RecordingInv'
  BY <1>9, AloneKept DEF Remux
<1>10. ASSUME Remuxed(t) PROVE RecordingInv'
  BY <1>10, AloneKept DEF Remuxed
<1>11. ASSUME RemoveDir(t) PROVE RecordingInv'
  BY <1>11, AloneKept DEF RemoveDir
<1>12. ASSUME ClearDir(t) PROVE RecordingInv'
  BY <1>12, AloneKept DEF ClearDir
<1>13. ASSUME Final(t) PROVE RecordingInv'
  BY <1>13, AloneKept DEF Final
<1>14. ASSUME SaveFinal(t) PROVE RecordingInv'
  BY <1>14, AloneKept DEF SaveFinal, Note
<1>15. ASSUME Release(t) PROVE RecordingInv'
  BY <1>15 DEF Release, Note, Drops, Alone
<1>16. ASSUME Segment(t) PROVE RecordingInv'
  BY <1>16, AloneKept DEF Segment
<1>17. ASSUME Poll(t) PROVE RecordingInv'
  BY <1>17, AloneKept DEF Poll
<1>18. ASSUME Outage(t) PROVE RecordingInv'
  BY <1>18, AloneKept DEF Outage
<1>19. QED  BY <1>1, <1>2, <1>3, <1>4, <1>5, <1>6, <1>7, <1>8, <1>9, <1>10, <1>11,
       <1>12, <1>13, <1>14, <1>15, <1>16, <1>17, <1>18 DEF Runs

\* The recovery dispatches runs, and does not touch the active lock.
LEMMA RecoveryStep ==
  ASSUME RecordingInv, Recovers
  PROVE  RecordingInv'
<1> USE DEF RecordingInv, Where, Locked, Place, Goto, Over, tasks, disk, rec, rest
<1>1. ASSUME Begin PROVE RecordingInv'
  BY <1>1, AloneKept DEF Begin, Note, Takes, Step
<1>2. ASSUME Skip PROVE RecordingInv'
  BY <1>2, AloneKept DEF Skip, Note, Step
<1>3. ASSUME Resume PROVE RecordingInv'
  BY <1>3, AloneKept DEF Resume, Dispatch, Step
<1>4. ASSUME RemuxFound PROVE RecordingInv'
  BY <1>4, AloneKept DEF RemuxFound, Step
<1>5. ASSUME SaveFound PROVE RecordingInv'
  BY <1>5, AloneKept DEF SaveFound, Step
<1>6. ASSUME Upcoming PROVE RecordingInv'
  BY <1>6, AloneKept DEF Upcoming, Step, Drops
<1>7. QED  BY <1>1, <1>2, <1>3, <1>4, <1>5, <1>6 DEF Recovers

\* Everything else.
Others ==
  \/ Tick \/ BeatFires \/ Stop \/ Extend \/ Destroy \/ RemoveFiles
  \/ \E l \in Lock : Lapses(l)
  \/ Stopping
  \/ \E all \in BOOLEAN : Dies(all)
  \/ Boot \/ OtherRestarts

\* The lock lapses only where it is not renewed any more; whoever dies leaves its place.
LEMMA OtherStep ==
  ASSUME RecordingInv, Others
  PROVE  RecordingInv'
<1> USE DEF RecordingInv, Where, Locked, Place, Goto, Over, tasks, disk, rec, rest
<1>1. ASSUME Tick PROVE RecordingInv'
  BY <1>1, AloneKept DEF Tick
<1>2. ASSUME BeatFires PROVE RecordingInv'
  BY <1>2, AloneKept DEF BeatFires, Dispatch
<1>3. ASSUME Stop PROVE RecordingInv'
  BY <1>3, AloneKept DEF Stop
<1>4. ASSUME Extend PROVE RecordingInv'
  BY <1>4, AloneKept DEF Extend
<1>5. ASSUME Destroy PROVE RecordingInv'
  BY <1>5, AloneKept DEF Destroy, Note
<1>6. ASSUME RemoveFiles PROVE RecordingInv'
  BY <1>6, AloneKept DEF RemoveFiles
<1>7. ASSUME NEW l \in Lock, Lapses(l) PROVE RecordingInv'
  BY <1>7, AloneKept DEF Lapses, Drops
<1>8. ASSUME Stopping PROVE RecordingInv'
  BY <1>8, AloneKept DEF Stopping
<1>9. ASSUME NEW all \in BOOLEAN, Dies(all) PROVE RecordingInv'
  BY <1>9, AloneKept DEF Dies, Note, Lost, Living
<1>10. ASSUME Boot PROVE RecordingInv'
  BY <1>10, AloneKept DEF Boot, Asks, Note, Step, Takes
<1>11. ASSUME OtherRestarts PROVE RecordingInv'
  BY <1>11, AloneKept DEF OtherRestarts, Asks, Note, Step, Takes
<1>12. QED  BY <1>1, <1>2, <1>3, <1>4, <1>5, <1>6, <1>7, <1>8, <1>9, <1>10, <1>11 DEF Others

LEMMA NextInv == RecordingInv /\ [Next]_vars => RecordingInv'
<1> SUFFICES ASSUME RecordingInv, [Next]_vars PROVE RecordingInv'
  OBVIOUS
<1>1. ASSUME NEW t \in Task, Runs(t) \/ Segment(t) \/ Poll(t) \/ Outage(t) PROVE RecordingInv'
  BY <1>1, RunStep
<1>2. CASE Recovers
  BY <1>2, RecoveryStep
<1>3. CASE Others
  BY <1>3, OtherStep
<1>4. CASE UNCHANGED vars
  BY <1>4 DEF vars, tasks, RecordingInv, Where, Alone
<1>5. QED  BY <1>1, <1>2, <1>3, <1>4 DEF Next, Others

\* One run at a time captures, whatever Beat and the recoveries dispatch and whatever
\* dies, unless a run that ended late has deleted the active lock of another
\* (tasks.py 1973: "prevents concurrent ffmpeg processes").
THEOREM CapturesAlone == Spec => []OneCapture
<1>1. RecordingInv => OneCapture
  BY DEF RecordingInv, Alone, OneCapture, Without, Locked
<1>2. QED  BY <1>1, InitInv, NextInv, PTL DEF Spec

(***************************************************************************)
(* The files                                                                *)
(***************************************************************************)
\* The shape of the state, and what a run and a recovery have read where they use it.
Typed ==
  /\ Where
  /\ now \in 0..MaxTime
  /\ row \in Row \cup {None}
  /\ job \in [Task -> Job]
  /\ segs \in (SUBSET Task) \cup {None}
  /\ mkv \in [Path -> SUBSET Task]
  /\ found \in Row \cup {None}
  /\ doomed \in Row \cup {None}
  /\ captured \in SUBSET Task
Ready ==
  \A t \in Task : /\ at[t] = "save" => job[t].seen # None
                  /\ at[t] \in {"prime", "open", "capture", "remux", "remuxing", "wait", "clear"}
                       => job[t].file # None
                  /\ at[t] = "finish" /\ row # None => job[t].file # None
Found ==
  /\ recovery \in {"active", "expired", "save"} => found # None
  /\ doomed # None => row = None
Shape == Typed /\ Ready /\ Found

Treated == {"met", "moved", "stale", "freed"}   \* Without(Treated): the files are its own
Recorded == {"open", "capture", "finish", "remux", "remuxing", "wait", "clear", "final", "save"}
Working == {"prep", "prime"} \cup Recorded

\* One run works on the row at a time, and none beside a recovery that remuxes: the
\* status is "recording" or "stopped" from Prime to the save.
Undisturbed ==
  /\ \A t, u \in Task : at[t] \in Working /\ at[u] \in Working => t = u
  /\ (\E t \in Task : at[t] \in Recorded) \/ recovery \in {"expired", "save"}
       => row.status \in {"recording", "stopped"}
  /\ recovery \in {"expired", "save"} =>
       /\ \A t \in Task : at[t] \notin Working
       /\ found.file = row.file
       /\ found.hls = row.hls \/ (recovery = "save" /\ segs = None)

\* All that was captured is in the directory or, when that is gone, in the MKV; there
\* is no other MKV.
Kempt ==
  /\ IF segs # None THEN row.hls /\ captured \subseteq segs
     ELSE captured = {} \/ (row.file # None /\ captured \subseteq mkv[row.file])
  /\ \A p \in Path : mkv[p] # {} => p = row.file

\* A run opens a directory anew only if nothing was captured, and removes one only
\* after the MKV has it all.
Careful(t) ==
  /\ at[t] = "prime" /\ segs = None => mkv[job[t].file] = {}
  /\ at[t] = "open" => row.hls /\ (segs = None => captured = {})
  /\ at[t] \in {"open", "capture", "finish", "remux", "remuxing", "wait", "clear"}
       => job[t].file = row.file
  /\ at[t] = "remuxing" => segs # None /\ captured \subseteq job[t].take
  /\ at[t] = "wait" => captured \subseteq mkv[row.file]
  /\ at[t] = "clear" => segs = None

Complete == Kempt /\ \A t \in Task : Careful(t)

Filed == row # None /\ Without(Treated) => Undisturbed /\ Complete

\* After the deletion nobody writes an MKV, and only the run that captured then may
\* write segments; what was there is what the deletion knows of.
Removed ==
  row = None /\ Without(Treated \cup {"unfinished"}) =>
    /\ \A t \in Task : at[t] \notin {"remux", "remuxing"}
    /\ recovery # "expired"
    /\ \A p \in Path : mkv[p] # {} => doomed # None /\ p = doomed.file
    /\ \/ doomed # None /\ doomed.hls
       \/ segs = None
       \/ segs = {} /\ \A t \in Task : at[t] # "capture"

FilesInv == Alone /\ Shape /\ Filed /\ Removed

\* What a change of one field does to a row and to the variables of a run.
LEMMA Rows ==
  ASSUME NEW r \in Row
  PROVE  /\ \A x \in Status : /\ [r EXCEPT !.status = x] \in Row
                              /\ [r EXCEPT !.status = x].status = x
                              /\ [r EXCEPT !.status = x].hls = r.hls
                              /\ [r EXCEPT !.status = x].file = r.file
                              /\ [r EXCEPT !.status = x].end = r.end
         /\ \A x \in 2..MaxTime : /\ [r EXCEPT !.end = x] \in Row
                                  /\ [r EXCEPT !.end = x].status = r.status
                                  /\ [r EXCEPT !.end = x].hls = r.hls
                                  /\ [r EXCEPT !.end = x].file = r.file
         /\ \A x \in BOOLEAN : /\ [r EXCEPT !.hls = x] \in Row
                               /\ [r EXCEPT !.hls = x].status = r.status
                               /\ [r EXCEPT !.hls = x].hls = x
                               /\ [r EXCEPT !.hls = x].file = r.file
         /\ r.status \in Status /\ r.hls \in BOOLEAN /\ r.file \in Path \cup {None}
         /\ r.end \in 2..MaxTime
BY DEF Row

LEMMA Jobs ==
  ASSUME NEW j \in Job
  PROVE  /\ \A x \in 2..MaxTime : /\ [j EXCEPT !.until = x] \in Job
                                  /\ [j EXCEPT !.until = x].file = j.file
                                  /\ [j EXCEPT !.until = x].take = j.take
                                  /\ [j EXCEPT !.until = x].seen = j.seen
         /\ \A x \in Path \cup {None} : /\ [j EXCEPT !.file = x] \in Job
                                        /\ [j EXCEPT !.file = x].file = x
                                        /\ [j EXCEPT !.file = x].take = j.take
                                        /\ [j EXCEPT !.file = x].seen = j.seen
         /\ \A x \in BOOLEAN : /\ [j EXCEPT !.failed = x] \in Job
                               /\ [j EXCEPT !.failed = x].file = j.file
                               /\ [j EXCEPT !.failed = x].take = j.take
                               /\ [j EXCEPT !.failed = x].seen = j.seen
         /\ \A x \in SUBSET Task : /\ [j EXCEPT !.take = x] \in Job
                                   /\ [j EXCEPT !.take = x].file = j.file
                                   /\ [j EXCEPT !.take = x].take = x
                                   /\ [j EXCEPT !.take = x].seen = j.seen
         /\ \A x \in Row \cup {None} : /\ [j EXCEPT !.seen = x] \in Job
                                       /\ [j EXCEPT !.seen = x].file = j.file
                                       /\ [j EXCEPT !.seen = x].take = j.take
                                       /\ [j EXCEPT !.seen = x].seen = x
         /\ j.file \in Path \cup {None} /\ j.take \in SUBSET Task
         /\ j.seen \in Row \cup {None} /\ j.until \in 2..MaxTime
BY DEF Job

\* A run that has not begun, or is over.
LEMMA Empty == Blank \in Job
BY DEF Job, Blank

\* A run that is over, and a message to the queue.
LEMMA OverKeeps ==
  ASSUME Where, job \in [Task -> Job], NEW t \in Task, Over(t)
  PROVE  /\ job' \in [Task -> Job] /\ at'[t] = "over"
         /\ \A u \in Task : u # t => at'[u] = at[u] /\ job'[u] = job[u]
BY Empty DEF Where, Over, Goto

LEMMA DispatchKeeps ==
  ASSUME Where, job \in [Task -> Job], NEW end \in 2..MaxTime, Dispatch(end)
  PROVE  /\ job' \in [Task -> Job]
         /\ \A u \in Task : /\ at'[u] = at[u] \/ at'[u] = "queued"
                            /\ job'[u].file = job[u].file
                            /\ job'[u].take = job[u].take
                            /\ job'[u].seen = job[u].seen
<1>1. PICK t \in Task : at' = [at EXCEPT ![t] = "queued"] /\ job' = [job EXCEPT ![t].until = end]
  BY DEF Dispatch, Goto
<1>2. /\ [job[t] EXCEPT !.until = end] \in Job
      /\ [job[t] EXCEPT !.until = end].file = job[t].file
      /\ [job[t] EXCEPT !.until = end].take = job[t].take
      /\ [job[t] EXCEPT !.until = end].seen = job[t].seen
  BY Jobs
<1>3. job' = [job EXCEPT ![t] = [job[t] EXCEPT !.until = end]]
  BY <1>1
<1>4. QED  BY <1>1, <1>2, <1>3 DEF Where

\* The row is there after the step if and only if it was before.
Kept == row' = None <=> row = None

\* A step keeps the shape: a run's, a recovery's, any other. What is saved of a row is a
\* row, so only a deletion takes it away.
LEMMA ShapeRun ==
  ASSUME Shape, Where', NEW t \in Task, Runs(t) \/ Segment(t) \/ Poll(t) \/ Outage(t)
  PROVE  Shape' /\ Kept
<1> USE DEF Shape
<1>1. ASSUME Guard(t) PROVE Shape' /\ Kept
  <2>1. Over(t) => job' \in [Task -> Job] /\ at'[t] = "over" /\ \A u \in Task : u # t =>
      at'[u] = at[u] /\ job'[u] = job[u]
    BY <1>1, OverKeeps DEF Typed
  <2>2. job' \in [Task -> Job]  BY <1>1, <2>1 DEF Typed, tasks, Guard
  <2>3. Typed'  BY <1>1, <2>1, <2>2 DEF Typed, Over, tasks, disk, rec, rest, Guard
  <2>4. Ready'  BY <1>1, <2>1, <2>2 DEF Ready, Typed, Where, Goto, Over, tasks, Guard
  <2>5. Found'  BY <1>1, <2>1, <2>2 DEF Found, Typed, rec, rest, Guard
  <2>6. Kept  BY <1>1 DEF Kept, Guard
  <2>7. QED  BY <2>3, <2>4, <2>5, <2>6 DEF Shape
<1>2. ASSUME Prep(t) PROVE Shape' /\ Kept
  <2>1. Over(t) => job' \in [Task -> Job] /\ at'[t] = "over" /\ \A u \in Task : u # t =>
      at'[u] = at[u] /\ job'[u] = job[u]
    BY <1>2, OverKeeps DEF Typed
  <2>2. \A p \in Path : [job[t] EXCEPT !.file = p] \in Job /\ [job[t] EXCEPT !.file = p].file = p
    BY <1>2, Jobs DEF Typed
  <2>3. job' \in [Task -> Job]  BY <1>2, <2>1, <2>2 DEF Typed, Prep
  <2>4. at'[t] = "prime" => job'[t].file # None
    <3> SUFFICES ASSUME at'[t] = "prime" PROVE job'[t].file # None
      OBVIOUS
    <3>1. PICK p \in Path : job' = [job EXCEPT ![t].file = p]
      BY <1>2, <2>1 DEF Prep, Where, Goto, Typed
    <3>2. job'[t] = [job[t] EXCEPT !.file = p]
      BY <3>1 DEF Typed
    <3>3. QED  BY <2>2, <3>2
  <2>5. \A u \in Task : u # t => job'[u] = job[u]  BY <1>2, <2>1 DEF Prep, Typed
  <2>6. Typed'  BY <1>2, <2>1, <2>2, <2>3, <2>4, <2>5 DEF Typed, Over, tasks, disk, rec, rest, Prep
  <2>7. Ready'
    BY <1>2, <2>1, <2>2, <2>3, <2>4, <2>5 DEF Ready, Typed, Where, Goto, Over, tasks, Prep
  <2>8. Found'  BY <1>2, <2>1, <2>2, <2>3, <2>4, <2>5 DEF Found, Typed, rec, rest, Prep
  <2>9. Kept  BY <1>2 DEF Kept, Prep
  <2>10. QED  BY <2>6, <2>7, <2>8, <2>9 DEF Shape
<1>3. ASSUME Prime(t) PROVE Shape' /\ Kept
  <2>1. Over(t) => job' \in [Task -> Job] /\ at'[t] = "over" /\ \A u \in Task : u # t =>
      at'[u] = at[u] /\ job'[u] = job[u]
    BY <1>3, OverKeeps DEF Typed
  <2>2. job' \in [Task -> Job]  BY <1>3, <2>1 DEF Typed, tasks, Prime
  <2>3. row # None => job[t].file \in Path \cup {None}  BY <1>3, Jobs DEF Typed
  <2>4. row # None => [row EXCEPT !.status = "recording", !.hls = TRUE,
      !.file = job[t].file] \in Row
    BY <1>3, <2>3 DEF Typed, Row, Status
  <2>5. row' \in Row \cup {None} /\ Kept  BY <1>3, <2>4 DEF Kept, Typed, Prime
  <2>6. Typed'
    BY <1>3, <2>1, <2>2, <2>3, <2>4, <2>5 DEF Typed, Over, tasks, disk, rec, rest, Prime, Note
  <2>7. Ready'
    BY <1>3, <2>1, <2>2, <2>3, <2>4, <2>5 DEF Ready, Typed, Where, Goto, Over, tasks, Prime, Note
  <2>8. Found'  BY <1>3, <2>1, <2>2, <2>3, <2>4, <2>5 DEF Found, Typed, rec, rest, Prime, Note
  <2>9. Kept  BY <2>5
  <2>10. QED  BY <2>6, <2>7, <2>8, <2>9 DEF Shape
<1>4. ASSUME Open(t) PROVE Shape' /\ Kept
  <2>1. Typed'  BY <1>4 DEF Typed, Over, tasks, disk, rec, rest, Open
  <2>2. Ready'  BY <1>4 DEF Ready, Typed, Where, Goto, Over, tasks, Open
  <2>3. Found'  BY <1>4 DEF Found, Typed, rec, rest, Open
  <2>4. Kept  BY <1>4 DEF Kept, Open
  <2>5. QED  BY <2>1, <2>2, <2>3, <2>4 DEF Shape
<1>5. ASSUME CaptureFails(t) PROVE Shape' /\ Kept
  <2>1. Over(t) => job' \in [Task -> Job] /\ at'[t] = "over" /\ \A u \in Task : u # t =>
      at'[u] = at[u] /\ job'[u] = job[u]
    BY <1>5, OverKeeps DEF Typed
  <2>2. job' \in [Task -> Job]  BY <1>5, <2>1 DEF Typed, tasks, CaptureFails
  <2>3. Typed'  BY <1>5, <2>1, <2>2 DEF Typed, Over, tasks, disk, rec, rest, CaptureFails
  <2>4. Ready'  BY <1>5, <2>1, <2>2 DEF Ready, Typed, Where, Goto, Over, tasks, CaptureFails
  <2>5. Found'  BY <1>5, <2>1, <2>2 DEF Found, Typed, rec, rest, CaptureFails
  <2>6. Kept  BY <1>5 DEF Kept, CaptureFails
  <2>7. QED  BY <2>3, <2>4, <2>5, <2>6 DEF Shape
<1>6. ASSUME EndCapture(t) PROVE Shape' /\ Kept
  <2>1. Typed'  BY <1>6 DEF Typed, Over, tasks, disk, rec, rest, EndCapture
  <2>2. Ready'  BY <1>6 DEF Ready, Typed, Where, Goto, Over, tasks, EndCapture
  <2>3. Found'  BY <1>6 DEF Found, Typed, rec, rest, EndCapture
  <2>4. Kept  BY <1>6 DEF Kept, EndCapture
  <2>5. QED  BY <2>1, <2>2, <2>3, <2>4 DEF Shape
<1>7. ASSUME Shutdown(t) PROVE Shape' /\ Kept
  <2>1. Over(t) => job' \in [Task -> Job] /\ at'[t] = "over" /\ \A u \in Task : u # t =>
      at'[u] = at[u] /\ job'[u] = job[u]
    BY <1>7, OverKeeps DEF Typed
  <2>2. job' \in [Task -> Job]  BY <1>7, <2>1 DEF Typed, tasks, Shutdown
  <2>3. row # None => [row EXCEPT !.status = "interrupted"] \in Row
    BY <1>7, Rows DEF Typed, Status
  <2>4. row' \in Row \cup {None} /\ Kept  BY <1>7, <2>3 DEF Kept, Typed, Shutdown, Set
  <2>5. Typed'  BY <1>7, <2>1, <2>2, <2>3, <2>4 DEF Typed, Over, tasks, disk, rec, rest, Shutdown
  <2>6. Ready'  BY <1>7, <2>1, <2>2, <2>3, <2>4 DEF Ready, Typed, Where, Goto, Over, tasks, Shutdown
  <2>7. Found'  BY <1>7, <2>1, <2>2, <2>3, <2>4 DEF Found, Typed, rec, rest, Shutdown
  <2>8. Kept  BY <2>4
  <2>9. QED  BY <2>5, <2>6, <2>7, <2>8 DEF Shape
<1>8. ASSUME Finish(t) PROVE Shape' /\ Kept
  <2>1. Over(t) => job' \in [Task -> Job] /\ at'[t] = "over" /\ \A u \in Task : u # t =>
      at'[u] = at[u] /\ job'[u] = job[u]
    BY <1>8, OverKeeps DEF Typed
  <2>2. job' \in [Task -> Job]  BY <1>8, <2>1 DEF Typed, tasks, Finish
  <2>3. mkv' \in [Path -> SUBSET Task]  BY <1>8 DEF Typed, disk, Finish
  <2>4. Typed'  BY <1>8, <2>1, <2>2, <2>3 DEF Typed, Over, tasks, disk, rec, rest, Finish
  <2>5. Ready'  BY <1>8, <2>1, <2>2, <2>3 DEF Ready, Typed, Where, Goto, Over, tasks, Finish
  <2>6. Found'  BY <1>8, <2>1, <2>2, <2>3 DEF Found, Typed, rec, rest, Finish
  <2>7. Kept  BY <1>8 DEF Kept, Finish
  <2>8. QED  BY <2>4, <2>5, <2>6, <2>7 DEF Shape
<1>9. ASSUME Remux(t) PROVE Shape' /\ Kept
  <2>1. segs \notin {None, {}} => LET k == [job[t] EXCEPT !.take = segs] IN k \in Job /\
      k.file = job[t].file /\ k.seen = job[t].seen
    BY <1>9, Jobs DEF Typed
  <2>2. job' \in [Task -> Job]  BY <1>9, <2>1 DEF Typed, Remux
  <2>3. \A u \in Task : job'[u].file = job[u].file /\ job'[u].seen = job[u].seen
    BY <1>9, <2>1 DEF Typed, Remux
  <2>4. mkv' \in [Path -> SUBSET Task]  BY <1>9 DEF Typed, Ready, Remux
  <2>5. Typed'  BY <1>9, <2>1, <2>2, <2>3, <2>4 DEF Typed, Over, tasks, disk, rec, rest, Remux
  <2>6. Ready'  BY <1>9, <2>1, <2>2, <2>3, <2>4 DEF Ready, Typed, Where, Goto, Over, tasks, Remux
  <2>7. Found'  BY <1>9, <2>1, <2>2, <2>3, <2>4 DEF Found, Typed, rec, rest, Remux
  <2>8. Kept  BY <1>9 DEF Kept, Remux
  <2>9. QED  BY <2>5, <2>6, <2>7, <2>8 DEF Shape
<1>10. ASSUME Remuxed(t) PROVE Shape' /\ Kept
  <2>1. LET k == [job[t] EXCEPT !.take = {}] IN k \in Job /\ k.file = job[t].file /\
      k.seen = job[t].seen
    BY <1>10, Jobs DEF Typed
  <2>2. job' \in [Task -> Job]  BY <1>10, <2>1 DEF Typed, Remuxed
  <2>3. \A u \in Task : job'[u].file = job[u].file /\ job'[u].seen = job[u].seen
    BY <1>10, <2>1 DEF Typed, Remuxed
  <2>4. job[t].take \in SUBSET Task  BY <1>10, Jobs DEF Typed
  <2>5. mkv' \in [Path -> SUBSET Task]  BY <1>10, <2>4 DEF Typed, Remuxed
  <2>6. Typed'
    BY <1>10, <2>1, <2>2, <2>3, <2>4, <2>5 DEF Typed, Over, tasks, disk, rec, rest, Remuxed
  <2>7. Ready'
    BY <1>10, <2>1, <2>2, <2>3, <2>4, <2>5 DEF Ready, Typed, Where, Goto, Over, tasks, Remuxed
  <2>8. Found'  BY <1>10, <2>1, <2>2, <2>3, <2>4, <2>5 DEF Found, Typed, rec, rest, Remuxed
  <2>9. Kept  BY <1>10 DEF Kept, Remuxed
  <2>10. QED  BY <2>6, <2>7, <2>8, <2>9 DEF Shape
<1>11. ASSUME RemoveDir(t) PROVE Shape' /\ Kept
  <2>1. Typed'  BY <1>11 DEF Typed, Over, tasks, disk, rec, rest, RemoveDir
  <2>2. Ready'  BY <1>11 DEF Ready, Typed, Where, Goto, Over, tasks, RemoveDir
  <2>3. Found'  BY <1>11 DEF Found, Typed, rec, rest, RemoveDir
  <2>4. Kept  BY <1>11 DEF Kept, RemoveDir
  <2>5. QED  BY <2>1, <2>2, <2>3, <2>4 DEF Shape
<1>12. ASSUME ClearDir(t) PROVE Shape' /\ Kept
  <2>1. row # None => [row EXCEPT !.hls = FALSE] \in Row  BY <1>12, Rows DEF Typed
  <2>2. row' \in Row \cup {None} /\ Kept  BY <1>12, <2>1 DEF Kept, Typed, ClearDir
  <2>3. Typed'  BY <1>12, <2>1, <2>2 DEF Typed, Over, tasks, disk, rec, rest, ClearDir
  <2>4. Ready'  BY <1>12, <2>1, <2>2 DEF Ready, Typed, Where, Goto, Over, tasks, ClearDir
  <2>5. Found'  BY <1>12, <2>1, <2>2 DEF Found, Typed, rec, rest, ClearDir
  <2>6. Kept  BY <2>2
  <2>7. QED  BY <2>3, <2>4, <2>5, <2>6 DEF Shape
<1>13. ASSUME Final(t) PROVE Shape' /\ Kept
  <2>1. row # None => [row EXCEPT !.status = Outcome(t)] \in Row
    BY <1>13, Rows DEF Typed, Status, Outcome
  <2>2. row # None =>
      LET k == [job[t] EXCEPT !.seen = [row EXCEPT !.status = Outcome(t)]] IN k \in Job /\
      k.file = job[t].file /\ k.seen # None
    BY <1>13, <2>1, Jobs DEF Typed
  <2>3. job' \in [Task -> Job]  BY <1>13, <2>2 DEF Typed, Final
  <2>4. at'[t] = "save" => job'[t].seen # None  BY <1>13, <2>2 DEF Where, Typed, Final, Goto
  <2>5. \A u \in Task : job'[u].file = job[u].file /\ (u # t => job'[u] = job[u])
    BY <1>13, <2>2 DEF Final, Typed
  <2>6. Typed'
    BY <1>13, <2>1, <2>2, <2>3, <2>4, <2>5 DEF Typed, Over, tasks, disk, rec, rest, Final
  <2>7. Ready'
    BY <1>13, <2>1, <2>2, <2>3, <2>4, <2>5 DEF Ready, Typed, Where, Goto, Over, tasks, Final
  <2>8. Found'  BY <1>13, <2>1, <2>2, <2>3, <2>4, <2>5 DEF Found, Typed, rec, rest, Final
  <2>9. Kept  BY <1>13 DEF Kept, Final
  <2>10. QED  BY <2>6, <2>7, <2>8, <2>9 DEF Shape
<1>14. ASSUME SaveFinal(t) PROVE Shape' /\ Kept
  <2>1. Over(t) => job' \in [Task -> Job] /\ at'[t] = "over" /\ \A u \in Task : u # t =>
      at'[u] = at[u] /\ job'[u] = job[u]
    BY <1>14, OverKeeps DEF Typed
  <2>2. job' \in [Task -> Job]  BY <1>14, <2>1 DEF Typed, tasks, SaveFinal
  <2>3. job[t].seen \in Row  BY <1>14, Jobs DEF Typed, Ready, SaveFinal
  <2>4. row # None => Saved(job[t].seen) \in Row  BY <1>14, <2>3, Rows DEF Typed, Saved
  <2>5. row' \in Row \cup {None} /\ Kept  BY <1>14, <2>4 DEF Kept, Typed, SaveFinal
  <2>6. \A u \in Task : u # t => job'[u] = job[u]  BY <1>14, <2>1 DEF SaveFinal
  <2>7. Typed'
    BY <1>14, <2>1, <2>2, <2>3, <2>4, <2>5, <2>6 DEF Typed, Over, tasks, disk, rec, rest,
        SaveFinal, Note
  <2>8. Ready'
    BY <1>14, <2>1, <2>2, <2>3, <2>4, <2>5, <2>6 DEF Ready, Typed, Where, Goto, Over,
        tasks, SaveFinal, Note
  <2>9. Found'
    BY <1>14, <2>1, <2>2, <2>3, <2>4, <2>5, <2>6 DEF Found, Typed, rec, rest, SaveFinal, Note
  <2>10. Kept  BY <2>5
  <2>11. QED  BY <2>7, <2>8, <2>9, <2>10 DEF Shape
<1>15. ASSUME Release(t) PROVE Shape' /\ Kept
  <2>1. Over(t) => job' \in [Task -> Job] /\ at'[t] = "over" /\ \A u \in Task : u # t =>
      at'[u] = at[u] /\ job'[u] = job[u]
    BY <1>15, OverKeeps DEF Typed
  <2>2. job' \in [Task -> Job]  BY <1>15, <2>1 DEF Typed, tasks, Release
  <2>3. Typed'  BY <1>15, <2>1, <2>2 DEF Typed, Over, tasks, disk, rec, rest, Release, Note
  <2>4. Ready'  BY <1>15, <2>1, <2>2 DEF Ready, Typed, Where, Goto, Over, tasks, Release, Note
  <2>5. Found'  BY <1>15, <2>1, <2>2 DEF Found, Typed, rec, rest, Release, Note
  <2>6. Kept  BY <1>15 DEF Kept, Release
  <2>7. QED  BY <2>3, <2>4, <2>5, <2>6 DEF Shape
<1>16. ASSUME Segment(t) PROVE Shape' /\ Kept
  <2>1. Typed'  BY <1>16 DEF Typed, Over, tasks, disk, rec, rest, Segment
  <2>2. Ready'  BY <1>16 DEF Ready, Typed, Where, Goto, Over, tasks, Segment
  <2>3. Found'  BY <1>16 DEF Found, Typed, rec, rest, Segment
  <2>4. Kept  BY <1>16 DEF Kept, Segment
  <2>5. QED  BY <2>1, <2>2, <2>3, <2>4 DEF Shape
<1>17. ASSUME Poll(t) PROVE Shape' /\ Kept
  <2>1. row.end \in 2..MaxTime  BY <1>17, Rows DEF Typed, Poll
  <2>2. LET k == [job[t] EXCEPT !.until = row.end] IN k \in Job /\ k.file = job[t].file /\
      k.seen = job[t].seen
    BY <1>17, <2>1, Jobs DEF Typed
  <2>3. job' \in [Task -> Job]  BY <1>17, <2>2 DEF Typed, Poll
  <2>4. \A u \in Task : job'[u].file = job[u].file /\ job'[u].seen = job[u].seen
    BY <1>17, <2>2 DEF Typed, Poll
  <2>5. Typed'  BY <1>17, <2>1, <2>2, <2>3, <2>4 DEF Typed, Over, tasks, disk, rec, rest, Poll
  <2>6. Ready'  BY <1>17, <2>1, <2>2, <2>3, <2>4 DEF Ready, Typed, Where, Goto, Over, tasks, Poll
  <2>7. Found'  BY <1>17, <2>1, <2>2, <2>3, <2>4 DEF Found, Typed, rec, rest, Poll
  <2>8. Kept  BY <1>17 DEF Kept, Poll
  <2>9. QED  BY <2>5, <2>6, <2>7, <2>8 DEF Shape
<1>18. ASSUME Outage(t) PROVE Shape' /\ Kept
  <2>1. LET k == [job[t] EXCEPT !.failed = TRUE] IN k \in Job /\ k.file = job[t].file /\
      k.seen = job[t].seen
    BY <1>18, Jobs DEF Typed
  <2>2. job' \in [Task -> Job]  BY <1>18, <2>1 DEF Typed, Outage
  <2>3. \A u \in Task : job'[u].file = job[u].file /\ job'[u].seen = job[u].seen
    BY <1>18, <2>1 DEF Typed, Outage
  <2>4. Typed'  BY <1>18, <2>1, <2>2, <2>3 DEF Typed, Over, tasks, disk, rec, rest, Outage
  <2>5. Ready'  BY <1>18, <2>1, <2>2, <2>3 DEF Ready, Typed, Where, Goto, Over, tasks, Outage
  <2>6. Found'  BY <1>18, <2>1, <2>2, <2>3 DEF Found, Typed, rec, rest, Outage
  <2>7. Kept  BY <1>18 DEF Kept, Outage
  <2>8. QED  BY <2>4, <2>5, <2>6, <2>7 DEF Shape
<1>19. QED  BY <1>1, <1>2, <1>3, <1>4, <1>5, <1>6, <1>7, <1>8, <1>9, <1>10, <1>11, <1>12,
    <1>13, <1>14, <1>15, <1>16, <1>17, <1>18 DEF Runs

LEMMA ShapeRecovery ==
  ASSUME Shape, Where', Recovers
  PROVE  Shape' /\ Kept
<1> USE DEF Shape
<1>1. ASSUME Begin PROVE Shape' /\ Kept
  <2>1. found' \in Row \cup {None}  BY <1>1 DEF Typed, Begin
  <2>2. Typed'  BY <1>1, <2>1 DEF Typed, Over, tasks, disk, rec, rest, Begin, Note, Step, Is
  <2>3. Ready'  BY <1>1, <2>1 DEF Ready, Typed, Where, Goto, Over, tasks, Begin, Note, Step, Is
  <2>4. Found'  BY <1>1, <2>1 DEF Found, Typed, rec, rest, Begin, Note, Step, Is
  <2>5. Kept  BY <1>1 DEF Kept, Begin
  <2>6. QED  BY <2>2, <2>3, <2>4, <2>5 DEF Shape
<1>2. ASSUME Skip PROVE Shape' /\ Kept
  <2>1. Typed'  BY <1>2 DEF Typed, Over, tasks, disk, rec, rest, Skip, Note, Step
  <2>2. Ready'  BY <1>2 DEF Ready, Typed, Where, Goto, Over, tasks, Skip, Note, Step
  <2>3. Found'  BY <1>2 DEF Found, Typed, rec, rest, Skip, Note, Step
  <2>4. Kept  BY <1>2 DEF Kept, Skip
  <2>5. QED  BY <2>1, <2>2, <2>3, <2>4 DEF Shape
<1>3. ASSUME Resume PROVE Shape' /\ Kept
  <2>1. found \in Row /\ found.end \in 2..MaxTime  BY <1>3, Rows DEF Typed, Found, Resume
  <2>2. row # None => Saved([found EXCEPT !.status = "interrupted"]) \in Row
    BY <1>3, <2>1, Rows DEF Typed, Saved, Status
  <2>3. row' \in Row \cup {None} /\ Kept  BY <1>3, <2>2 DEF Kept, Typed, Resume
  <2>4. job' \in [Task -> Job] /\ \A u \in Task : /\ at'[u] = at[u] \/ at'[u] = "queued"
                                              /\ job'[u].file = job[u].file
                                              /\ job'[u].seen = job[u].seen
    BY <1>3, <2>1, DispatchKeeps DEF Typed, Resume, tasks
  <2>5. Typed'
    BY <1>3, <2>1, <2>2, <2>3, <2>4 DEF Typed, Over, tasks, disk, rec, rest, Resume, Step
  <2>6. Ready'
    BY <1>3, <2>1, <2>2, <2>3, <2>4 DEF Ready, Typed, Where, Goto, Over, tasks, Resume, Step
  <2>7. Found'  BY <1>3, <2>1, <2>2, <2>3, <2>4 DEF Found, Typed, rec, rest, Resume, Step
  <2>8. Kept  BY <2>3
  <2>9. QED  BY <2>5, <2>6, <2>7, <2>8 DEF Shape
<1>4. ASSUME RemuxFound PROVE Shape' /\ Kept
  <2>1. found \in Row /\ found.file \in Path \cup {None}
    BY <1>4, Rows DEF Typed, Found, RemuxFound
  <2>2. [found EXCEPT !.status = "interrupted", !.hls = FALSE] \in Row /\
      [found EXCEPT !.status = "interrupted"] \in Row
    BY <1>4, <2>1 DEF Row, Status
  <2>3. found' \in Row  BY <1>4, <2>2 DEF RemuxFound
  <2>4. mkv' \in [Path -> SUBSET Task]  BY <1>4, <2>1 DEF Typed, RemuxFound, disk
  <2>5. Typed'
    BY <1>4, <2>1, <2>2, <2>3, <2>4 DEF Typed, Over, tasks, disk, rec, rest, RemuxFound, Step
  <2>6. Ready'
    BY <1>4, <2>1, <2>2, <2>3, <2>4 DEF Ready, Typed, Where, Goto, Over, tasks, RemuxFound, Step
  <2>7. Found'  BY <1>4, <2>1, <2>2, <2>3, <2>4 DEF Found, Typed, rec, rest, RemuxFound, Step
  <2>8. Kept  BY <1>4 DEF Kept, RemuxFound
  <2>9. QED  BY <2>5, <2>6, <2>7, <2>8 DEF Shape
<1>5. ASSUME SaveFound PROVE Shape' /\ Kept
  <2>1. found \in Row  BY <1>5 DEF Typed, Found, SaveFound
  <2>2. row # None => Saved(found) \in Row  BY <1>5, <2>1, Rows DEF Typed, Saved
  <2>3. row' \in Row \cup {None} /\ Kept  BY <1>5, <2>2 DEF Kept, Typed, SaveFound
  <2>4. Typed'  BY <1>5, <2>1, <2>2, <2>3 DEF Typed, Over, tasks, disk, rec, rest, SaveFound, Step
  <2>5. Ready'
    BY <1>5, <2>1, <2>2, <2>3 DEF Ready, Typed, Where, Goto, Over, tasks, SaveFound, Step
  <2>6. Found'  BY <1>5, <2>1, <2>2, <2>3 DEF Found, Typed, rec, rest, SaveFound, Step
  <2>7. Kept  BY <2>3
  <2>8. QED  BY <2>4, <2>5, <2>6, <2>7 DEF Shape
<1>6. ASSUME Upcoming PROVE Shape' /\ Kept
  <2>1. Typed'  BY <1>6 DEF Typed, Over, tasks, disk, rec, rest, Upcoming, Step
  <2>2. Ready'  BY <1>6 DEF Ready, Typed, Where, Goto, Over, tasks, Upcoming, Step
  <2>3. Found'  BY <1>6 DEF Found, Typed, rec, rest, Upcoming, Step
  <2>4. Kept  BY <1>6 DEF Kept, Upcoming
  <2>5. QED  BY <2>1, <2>2, <2>3, <2>4 DEF Shape
<1>7. QED  BY <1>1, <1>2, <1>3, <1>4, <1>5, <1>6 DEF Recovers

LEMMA ShapeOthers ==
  ASSUME Shape, Where', Others
  PROVE  Shape' /\ (Kept \/ Destroy)
<1> USE DEF Shape
<1>1. ASSUME Tick PROVE Shape' /\ (Kept \/ Destroy)
  <2>1. Typed'  BY <1>1 DEF Typed, Over, tasks, disk, rec, rest, Tick
  <2>2. Ready'  BY <1>1 DEF Ready, Typed, Where, Goto, Over, tasks, Tick
  <2>3. Found'  BY <1>1 DEF Found, Typed, rec, rest, Tick
  <2>4. Kept  BY <1>1 DEF Kept, Tick
  <2>5. QED  BY <2>1, <2>2, <2>3, <2>4 DEF Shape
<1>2. ASSUME BeatFires PROVE Shape' /\ (Kept \/ Destroy)
  <2>1. job' \in [Task -> Job] /\ \A u \in Task : /\ at'[u] = at[u] \/ at'[u] = "queued"
                                              /\ job'[u].file = job[u].file
                                              /\ job'[u].seen = job[u].seen
    BY <1>2, DispatchKeeps DEF Typed, BeatFires
  <2>2. Typed'  BY <1>2, <2>1 DEF Typed, Over, tasks, disk, rec, rest, BeatFires
  <2>3. Ready'  BY <1>2, <2>1 DEF Ready, Typed, Where, Goto, Over, tasks, BeatFires
  <2>4. Found'  BY <1>2, <2>1 DEF Found, Typed, rec, rest, BeatFires
  <2>5. Kept  BY <1>2 DEF Kept, BeatFires
  <2>6. QED  BY <2>2, <2>3, <2>4, <2>5 DEF Shape
<1>3. ASSUME Stop PROVE Shape' /\ (Kept \/ Destroy)
  <2>1. row # None => [row EXCEPT !.status = "stopped"] \in Row
    BY <1>3, Rows DEF Typed, Status
  <2>2. row' \in Row \cup {None} /\ Kept  BY <1>3, <2>1 DEF Kept, Typed, Stop, Set
  <2>3. Typed'  BY <1>3, <2>1, <2>2 DEF Typed, Over, tasks, disk, rec, rest, Stop
  <2>4. Ready'  BY <1>3, <2>1, <2>2 DEF Ready, Typed, Where, Goto, Over, tasks, Stop
  <2>5. Found'  BY <1>3, <2>1, <2>2 DEF Found, Typed, rec, rest, Stop
  <2>6. Kept  BY <2>2
  <2>7. QED  BY <2>3, <2>4, <2>5, <2>6 DEF Shape
<1>4. ASSUME Extend PROVE Shape' /\ (Kept \/ Destroy)
  <2>1. row \in Row /\ row.end \in 2..MaxTime /\ row.end < MaxTime
    BY <1>4, Rows DEF Typed, Extend
  <2>2. row.end + 1 \in 2..MaxTime  BY <2>1
  <2>3. [row EXCEPT !.end = row.end + 1] \in Row  BY <2>1, <2>2, Rows
  <2>4. row' \in Row \cup {None} /\ Kept  BY <1>4, <2>3 DEF Kept, Extend
  <2>5. Typed'  BY <1>4, <2>1, <2>2, <2>3, <2>4 DEF Typed, Over, tasks, disk, rec, rest, Extend
  <2>6. Ready'  BY <1>4, <2>1, <2>2, <2>3, <2>4 DEF Ready, Typed, Where, Goto, Over, tasks, Extend
  <2>7. Found'  BY <1>4, <2>1, <2>2, <2>3, <2>4 DEF Found, Typed, rec, rest, Extend
  <2>8. Kept  BY <2>4
  <2>9. QED  BY <2>5, <2>6, <2>7, <2>8 DEF Shape
<1>5. ASSUME Destroy PROVE Shape' /\ (Kept \/ Destroy)
  <2>1. Typed'  BY <1>5 DEF Typed, Over, tasks, disk, rec, rest, Destroy, Note
  <2>2. Ready'  BY <1>5 DEF Ready, Typed, Where, Goto, Over, tasks, Destroy, Note
  <2>3. Found'  BY <1>5 DEF Found, Typed, rec, rest, Destroy, Note
  <2>4. QED  BY <1>5, <2>1, <2>2, <2>3 DEF Shape
<1>6. ASSUME RemoveFiles PROVE Shape' /\ (Kept \/ Destroy)
  <2>1. mkv' \in [Path -> SUBSET Task]  BY <1>6 DEF Typed, RemoveFiles
  <2>2. Typed'  BY <1>6, <2>1 DEF Typed, Over, tasks, disk, rec, rest, RemoveFiles
  <2>3. Ready'  BY <1>6, <2>1 DEF Ready, Typed, Where, Goto, Over, tasks, RemoveFiles
  <2>4. Found'  BY <1>6, <2>1 DEF Found, Typed, rec, rest, RemoveFiles
  <2>5. Kept  BY <1>6 DEF Kept, RemoveFiles
  <2>6. QED  BY <2>2, <2>3, <2>4, <2>5 DEF Shape
<1>7. ASSUME NEW l \in Lock, Lapses(l) PROVE Shape' /\ (Kept \/ Destroy)
  <2>1. Typed'  BY <1>7 DEF Typed, Over, tasks, disk, rec, rest, Lapses
  <2>2. Ready'  BY <1>7 DEF Ready, Typed, Where, Goto, Over, tasks, Lapses
  <2>3. Found'  BY <1>7 DEF Found, Typed, rec, rest, Lapses
  <2>4. Kept  BY <1>7 DEF Kept, Lapses
  <2>5. QED  BY <2>1, <2>2, <2>3, <2>4 DEF Shape
<1>8. ASSUME Stopping PROVE Shape' /\ (Kept \/ Destroy)
  <2>1. Typed'  BY <1>8 DEF Typed, Over, tasks, disk, rec, rest, Stopping
  <2>2. Ready'  BY <1>8 DEF Ready, Typed, Where, Goto, Over, tasks, Stopping
  <2>3. Found'  BY <1>8 DEF Found, Typed, rec, rest, Stopping
  <2>4. Kept  BY <1>8 DEF Kept, Stopping
  <2>5. QED  BY <2>1, <2>2, <2>3, <2>4 DEF Shape
<1>9. ASSUME NEW all \in BOOLEAN, Dies(all) PROVE Shape' /\ (Kept \/ Destroy)
  <2>1. job' \in [Task -> Job]  BY <1>9, Empty DEF Typed, Dies
  <2>2. \A u \in Task : at'[u] \in {"none", "queued", "over"} \/ (at'[u] = at[u] /\
      job'[u] = job[u])
    BY <1>9 DEF Dies, Lost, Living, Typed, Where
  <2>3. Typed'  BY <1>9, <2>1, <2>2 DEF Typed, Over, tasks, disk, rec, rest, Dies, Note
  <2>4. Ready'  BY <1>9, <2>1, <2>2 DEF Ready, Typed, Where, Goto, Over, tasks, Dies, Note
  <2>5. Found'  BY <1>9, <2>1, <2>2 DEF Found, Typed, rec, rest, Dies, Note
  <2>6. Kept  BY <1>9 DEF Kept, Dies
  <2>7. QED  BY <2>3, <2>4, <2>5, <2>6 DEF Shape
<1>10. ASSUME Boot PROVE Shape' /\ (Kept \/ Destroy)
  <2>1. Typed'  BY <1>10 DEF Typed, Over, tasks, disk, rec, rest, Boot, Asks, Note, Step
  <2>2. Ready'  BY <1>10 DEF Ready, Typed, Where, Goto, Over, tasks, Boot, Asks, Note, Step
  <2>3. Found'  BY <1>10 DEF Found, Typed, rec, rest, Boot, Asks, Note, Step
  <2>4. Kept  BY <1>10 DEF Kept, Boot
  <2>5. QED  BY <2>1, <2>2, <2>3, <2>4 DEF Shape
<1>11. ASSUME OtherRestarts PROVE Shape' /\ (Kept \/ Destroy)
  <2>1. Typed'  BY <1>11 DEF Typed, Over, tasks, disk, rec, rest, OtherRestarts, Asks, Note, Step
  <2>2. Ready'  BY <1>11 DEF Ready, Typed, Where, Goto, Over, tasks, OtherRestarts, Asks, Note, Step
  <2>3. Found'  BY <1>11 DEF Found, Typed, rec, rest, OtherRestarts, Asks, Note, Step
  <2>4. Kept  BY <1>11 DEF Kept, OtherRestarts
  <2>5. QED  BY <2>1, <2>2, <2>3, <2>4 DEF Shape
<1>12. QED  BY <1>1, <1>2, <1>3, <1>4, <1>5, <1>6, <1>7, <1>8, <1>9, <1>10, <1>11 DEF Others

\* Flaws are noted for good.
LEMMA FlawsGrow == Next => flaws \subseteq flaws'
<1> USE DEF Note, vars
<1>1. ASSUME NEW t \in Task, Runs(t) \/ Segment(t) \/ Poll(t) \/
    Outage(t) PROVE flaws \subseteq flaws'
  BY <1>1 DEF Runs, Guard, Prep, Prime, Open, CaptureFails, EndCapture, Shutdown, Finish,
      Remux, Remuxed,
    RemoveDir, ClearDir, Final, SaveFinal, Release, Segment, Poll, Outage
<1>2. ASSUME Recovers PROVE flaws \subseteq flaws'
  BY <1>2 DEF Recovers, Begin, Skip, Resume, RemuxFound, SaveFound, Upcoming
<1>3. ASSUME Others PROVE flaws \subseteq flaws'
  BY <1>3 DEF Others, Tick, BeatFires, Stop, Extend, Destroy, RemoveFiles, Lapses,
      Stopping, Dies, Boot,
    OtherRestarts, Asks
<1>4. QED  BY <1>1, <1>2, <1>3 DEF Next, Others

\* While a run works on the row, no other does, and no recovery remuxes.
LEMMA WorksAlone ==
  ASSUME Undisturbed, NEW t \in Task, at[t] \in Working
  PROVE  /\ \A u \in Task : u # t => at[u] \notin Working
         /\ recovery \notin {"expired", "save"}
         /\ at[t] \in Recorded => row.status \in {"recording", "stopped"}
BY DEF Undisturbed

\* Nothing changes that between steps of that run, if the status is what it says.
LEMMA UndisturbedRun ==
  ASSUME Undisturbed, NEW t \in Task, at[t] \in Working,
         \A u \in Task : u # t => at'[u] = at[u], recovery' = recovery,
         at'[t] \in Recorded => row'.status \in {"recording", "stopped"}
  PROVE  Undisturbed'
BY WorksAlone DEF Undisturbed, Working

\* What it may have to do is then all that the files depend on.
LEMMA CompleteRun ==
  ASSUME Undisturbed, NEW t \in Task, at[t] \in Working,
         \A u \in Task : u # t => at'[u] = at[u], Kempt', Careful(t)'
  PROVE  Complete'
<1>1. ASSUME NEW u \in Task, u # t PROVE Careful(u)'
  BY <1>1, WorksAlone DEF Careful, Working, Recorded
<1>2. QED  BY <1>1 DEF Complete

\* A step of something else: those who work, and their files, stay as they are.
LEMMA UndisturbedKept ==
  ASSUME Undisturbed,
         \A u \in Task : at'[u] = at[u] \/ at'[u] \notin Working,
         row.status \in {"recording", "stopped"} => row'.status \in {"recording", "stopped"},
         row'.file = row.file, row'.hls = row.hls, segs' = segs,
         recovery' \in {"expired", "save"} => recovery' = recovery /\ found' = found
  PROVE  Undisturbed'
BY DEF Undisturbed, Working

LEMMA CompleteKept ==
  ASSUME Complete,
         \A u \in Task : \/ /\ at'[u] = at[u]
                            /\ job'[u].file = job[u].file /\ job'[u].take = job[u].take
                         \/ at'[u] \notin Working,
         row'.file = row.file, row'.hls = row.hls, UNCHANGED <<disk, captured>>
  PROVE  Complete'
<1>1. Kempt'
  BY DEF Complete, Kempt, disk
<1>2. ASSUME NEW u \in Task PROVE Careful(u)'
  BY <1>2 DEF Complete, Careful, Working, Recorded, disk
<1>3. QED  BY <1>1, <1>2 DEF Complete

\* The steps of a run on the files.
LEMMA GotoKeeps ==
  ASSUME Where, NEW t \in Task, NEW l, Goto(t, l)
  PROVE  at'[t] = l /\ \A u \in Task : u # t => at'[u] = at[u]
BY DEF Where, Goto

\* Guard finds nobody at work: the lock would be there, or the status.
LEMMA FiledGuard ==
  ASSUME Alone, Shape, Undisturbed, Complete, row # None, Without(Treated), NEW t \in Task, Guard(t)
  PROVE  Undisturbed' /\ Complete'
<1>1. CASE Over(t)
  <2>1. /\ at'[t] = "over"
        /\ \A u \in Task : u # t => at'[u] = at[u] /\ job'[u] = job[u]
    BY <1>1, OverKeeps DEF Shape, Typed
  <2>2. UNCHANGED <<row, disk, rec, captured>>
    BY DEF Guard
  <2>3. QED  BY <2>1, <2>2, UndisturbedKept, CompleteKept DEF Working, Recorded, rec, disk
<1>2. CASE ~Over(t)
  <2>1. at[t] = "queued" /\ Goto(t, "prep") /\ UNCHANGED <<row, disk, rec, captured, job>>
    BY <1>2 DEF Guard, rest
  <2>2. row.status \notin {"recording", "stopped"} /\ "active" \notin lock
    BY <1>2 DEF Guard
  <2>3. at'[t] = "prep" /\ \A u \in Task : u # t => at'[u] = at[u]
    BY <2>1, GotoKeeps DEF Shape, Typed
  <2>4. \A u \in Task : at[u] \notin Locked
    BY <2>2 DEF Alone, Without, Treated
  <2>5. \A u \in Task : at[u] \notin Working /\ recovery \notin {"expired", "save"}
    BY <2>2, <2>4 DEF Undisturbed, Working, Locked
  <2>6. Undisturbed'
    BY <2>1, <2>3, <2>5 DEF Undisturbed, Recorded, rec
  <2>7. Kempt'
    BY <2>1 DEF Complete, Kempt, disk
  <2>8. \A u \in Task : Careful(u)'
    BY <2>3, <2>5 DEF Careful, Working, Recorded
  <2>9. QED  BY <2>6, <2>7, <2>8 DEF Complete
<1>3. QED  BY <1>1, <1>2

\* A run that goes from a place to another, on the files that it finds.
LEMMA FiledPrep ==
  ASSUME Shape, Undisturbed, Complete, row # None, NEW t \in Task, Prep(t)
  PROVE  Undisturbed' /\ Complete'
<1>1. at[t] = "prep" /\ at[t] \in Working /\ UNCHANGED <<row, segs, mkv, captured, recovery>>
  BY DEF Prep, Working, disk, rec
<1>2. at'[t] \in {"prime", "over"} /\ \A u \in Task : u # t => at'[u] = at[u]
  BY GotoKeeps, OverKeeps DEF Prep, Shape, Typed
<1>3. Undisturbed'
  BY <1>1, <1>2, UndisturbedRun DEF Recorded
<1>4. Kempt'
  BY <1>1 DEF Complete, Kempt
<1>5. ASSUME at'[t] = "prime", segs = None PROVE mkv[job'[t].file] = {}
  <2>1. PICK p \in Path : job' = [job EXCEPT ![t].file = p] /\ (Resumes \/ mkv[p] = {})
    BY <1>5, OverKeeps DEF Prep, Shape, Typed
  <2>2. job'[t] = [job[t] EXCEPT !.file = p]
    BY <2>1 DEF Shape, Typed
  <2>3. job'[t].file = p
    BY <2>2, Jobs DEF Shape, Typed
  <2>4. QED  BY <2>1, <2>3, <1>5 DEF Resumes
<1>6. Careful(t)'
  BY <1>1, <1>2, <1>5 DEF Careful
<1>7. QED  BY <1>1, <1>2, <1>3, <1>4, <1>6, CompleteRun

LEMMA FiledPrime ==
  ASSUME Shape, Undisturbed, Complete, row # None, Without(Treated)', NEW t \in Task, Prime(t)
  PROVE  Undisturbed' /\ Complete'
<1>1. at[t] = "prime" /\ at[t] \in Working /\ UNCHANGED <<segs, mkv, captured, recovery>>
  BY DEF Prime, Working, disk, rec
<1>2. at'[t] \in {"open", "over"} /\ \A u \in Task : u # t => at'[u] = at[u]
  BY GotoKeeps, OverKeeps DEF Prime, Shape, Typed
<1>3. CASE at'[t] = "over"
  <2>1. row' = row
    BY <1>3, GotoKeeps DEF Prime, Shape, Typed
  <2>2. Undisturbed'
    BY <1>1, <1>2, <1>3, UndisturbedRun DEF Recorded
  <2>3. Kempt'
    BY <1>1, <2>1 DEF Complete, Kempt
  <2>4. Careful(t)'
    BY <1>3 DEF Careful
  <2>5. QED  BY <1>1, <1>2, <2>2, <2>3, <2>4, CompleteRun
<1>4. CASE at'[t] = "open"
  <2>1. /\ row' = [row EXCEPT !.status = "recording", !.hls = TRUE, !.file = job[t].file]
        /\ Note("moved", row.file \notin {None, job[t].file}) /\ job' = job
    BY <1>4, OverKeeps DEF Prime, Shape, Typed
  <2>2. row'.status = "recording" /\ row'.hls /\ row'.file = job[t].file
    BY <2>1 DEF Shape, Typed, Row
  <2>3. row.file \in {None, job[t].file}
    BY <2>1 DEF Note, Without, Treated
  <2>4. Undisturbed'
    BY <1>1, <1>2, <2>2, UndisturbedRun
  <2>5. job[t].file \in Path
    BY <1>1, Jobs DEF Shape, Typed, Ready
  <2>6. Kempt'
    BY <1>1, <2>2, <2>3, <2>5 DEF Complete, Kempt
  <2>7. segs = None => captured = {}
    BY <1>1, <2>3 DEF Complete, Kempt, Careful
  <2>8. Careful(t)'
    BY <1>1, <1>4, <2>1, <2>2, <2>7 DEF Careful
  <2>9. QED  BY <1>1, <1>2, <2>4, <2>6, <2>8, CompleteRun
<1>5. QED  BY <1>2, <1>3, <1>4

LEMMA FiledOpen ==
  ASSUME Shape, Undisturbed, Complete, row # None, NEW t \in Task, Open(t)
  PROVE  Undisturbed' /\ Complete'
<1>1. /\ at[t] = "open" /\ at[t] \in Working /\ at[t] \in Recorded
      /\ segs' = (IF segs = None THEN {} ELSE segs)
      /\ UNCHANGED <<row, mkv, captured, recovery, job>>
  BY DEF Open, Working, Recorded, rec
<1>2. at'[t] = "capture" /\ \A u \in Task : u # t => at'[u] = at[u]
  BY GotoKeeps DEF Open, Shape, Typed
<1>3. Undisturbed'
  BY <1>1, <1>2, UndisturbedRun, WorksAlone
<1>4. Careful(t)
  BY DEF Complete
<1>5. Kempt'
  BY <1>1, <1>4 DEF Complete, Kempt, Careful
<1>6. Careful(t)'
  BY <1>1, <1>2, <1>4 DEF Careful
<1>7. QED  BY <1>1, <1>2, <1>3, <1>5, <1>6, CompleteRun

\* The end of a capture, and of a run whose directory is gone.
LEMMA FiledCapture ==
  ASSUME Shape, Undisturbed, Complete, row # None, NEW t \in Task,
         \/ CaptureFails(t) \/ EndCapture(t) \/ Outage(t) \/ Shutdown(t)
         \/ Segment(t) \/ Poll(t)
  PROVE  Undisturbed' /\ Complete'
<1>1. /\ at[t] = "capture" /\ at[t] \in Working /\ at[t] \in Recorded
      /\ UNCHANGED <<mkv, recovery>>
  BY DEF CaptureFails, EndCapture, Outage, Shutdown, Segment, Poll, Working, Recorded, disk, rec
<1>2. /\ at'[t] \in {"over", "finish", "capture"}
      /\ \A u \in Task : u # t => at'[u] = at[u]
  BY GotoKeeps, OverKeeps DEF CaptureFails, EndCapture, Outage, Shutdown, Segment, Poll,
      Shape, Typed, tasks
<1>3. /\ at'[t] # "over" => row' = row
      /\ row'.hls = row.hls /\ row'.file = row.file
  <2>1. CASE Shutdown(t)
    <3>1. at'[t] = "over" /\ row' = [row EXCEPT !.status = "interrupted"]
      BY <2>1, OverKeeps DEF Shutdown, Set, Shape, Typed
    <3>2. QED  BY <3>1 DEF Shape, Typed, Row
  <2>2. CASE ~Shutdown(t)
    BY <2>2 DEF CaptureFails, EndCapture, Outage, Segment, Poll
  <2>3. QED  BY <2>1, <2>2
<1>4. at'[t] # "over" => job'[t].file = job[t].file
  <2>1. CASE EndCapture(t) \/ Segment(t)
    BY <2>1 DEF EndCapture, Segment, tasks
  <2>2. CASE Poll(t)
    BY <2>2, Rows, Jobs DEF Poll, Shape, Typed
  <2>3. CASE Outage(t)
    BY <2>3, Jobs DEF Outage, Shape, Typed
  <2>4. CASE CaptureFails(t) \/ Shutdown(t)
    BY <2>4, OverKeeps DEF CaptureFails, Shutdown, Shape, Typed
  <2>5. QED  BY <2>1, <2>2, <2>3, <2>4
<1>5. \/ UNCHANGED <<segs, captured>>
      \/ segs # None /\ segs' = segs \cup {t} /\ captured' = captured \cup {t} /\ segs' # None
  BY DEF CaptureFails, EndCapture, Outage, Shutdown, Segment, Poll, disk, Shape, Typed
<1>6. Undisturbed'
  BY <1>1, <1>2, <1>3, UndisturbedRun, WorksAlone DEF Recorded
<1>7. Kempt'
  BY <1>1, <1>3, <1>5 DEF Complete, Kempt
<1>8. Careful(t)'
  BY <1>1, <1>2, <1>3, <1>4 DEF Careful, Complete
<1>9. QED  BY <1>1, <1>2, <1>6, <1>7, <1>8, CompleteRun

\* The remux. What it took is all that was captured, so the MKV has it all when the
\* directory goes.
LEMMA FiledRemux ==
  ASSUME Shape, Undisturbed, Complete, row # None, NEW t \in Task, Finish(t) \/ Remux(t)
  PROVE  Undisturbed' /\ Complete'
<1>1. /\ at[t] \in {"finish", "remux"} /\ at[t] \in Working /\ at[t] \in Recorded
      /\ UNCHANGED <<row, segs, captured, recovery>>
  BY DEF Finish, Remux, Working, Recorded, disk, rec
<1>2. at'[t] \in {"remux", "remuxing", "final"} /\ \A u \in Task : u # t => at'[u] = at[u]
  BY GotoKeeps DEF Finish, Remux, Shape, Typed
<1>3. Undisturbed'
  BY <1>1, <1>2, UndisturbedRun, WorksAlone
<1>4. Careful(t) /\ job[t].file = row.file /\ job[t].file # None
  BY <1>1 DEF Complete, Careful, Shape, Ready
<1>5. CASE at'[t] # "remuxing"
  <2>1. mkv' = mkv /\ job' = job
    BY <1>5, GotoKeeps DEF Finish, Remux, Shape, Typed, disk
  <2>2. Kempt'
    BY <1>1, <2>1 DEF Complete, Kempt
  <2>3. Careful(t)'
    BY <1>1, <1>2, <1>4, <1>5, <2>1 DEF Careful
  <2>4. QED  BY <1>1, <1>2, <1>3, <2>2, <2>3, CompleteRun
<1>6. CASE at'[t] = "remuxing"
  <2>1. /\ segs \notin {None, {}} /\ job' = [job EXCEPT ![t].take = segs]
        /\ mkv' = [mkv EXCEPT ![job[t].file] = {}]
    BY <1>6, GotoKeeps DEF Finish, Remux, Shape, Typed
  <2>2. segs \in SUBSET Task
    BY <2>1 DEF Shape, Typed
  <2>3. job'[t] = [job[t] EXCEPT !.take = segs]
    BY <2>1 DEF Shape, Typed
  <2>4. job'[t].take = segs /\ job'[t].file = job[t].file
    BY <2>2, <2>3, Jobs DEF Shape, Typed
  <2>5. Kempt'
    BY <1>1, <2>1 DEF Complete, Kempt, Shape, Typed
  <2>6. Careful(t)'
    BY <1>1, <1>4, <1>6, <2>1, <2>4, <2>5 DEF Careful, Kempt
  <2>7. QED  BY <1>1, <1>2, <1>3, <2>5, <2>6, CompleteRun
<1>7. QED  BY <1>5, <1>6

LEMMA FiledRemuxed ==
  ASSUME Shape, Undisturbed, Complete, row # None, NEW t \in Task, Remuxed(t)
  PROVE  Undisturbed' /\ Complete'
<1>1. /\ at[t] = "remuxing" /\ at[t] \in Working /\ at[t] \in Recorded
      /\ job' = [job EXCEPT ![t].take = {}]
      /\ UNCHANGED <<row, segs, captured, recovery>>
  BY DEF Remuxed, Working, Recorded, rec
<1>2. at'[t] \in {"wait", "final"} /\ \A u \in Task : u # t => at'[u] = at[u]
  BY GotoKeeps DEF Remuxed, Shape, Typed
<1>3. Undisturbed'
  BY <1>1, <1>2, UndisturbedRun, WorksAlone
<1>4. /\ job[t].file = row.file /\ job[t].file \in Path
      /\ segs # None /\ captured \subseteq job[t].take
  BY <1>1, Jobs DEF Complete, Careful, Shape, Typed, Ready
<1>5. \E done \in {job[t].take, {}} : /\ mkv' = [mkv EXCEPT ![job[t].file] = done]
                                      /\ at'[t] = "wait" => done = job[t].take
  BY GotoKeeps DEF Remuxed, Shape, Typed
<1>6. Kempt'
  BY <1>1, <1>4, <1>5 DEF Complete, Kempt, Shape, Typed
<1>7. job'[t] = [job[t] EXCEPT !.take = {}]
  BY <1>1 DEF Shape, Typed
<1>8. job'[t].file = job[t].file
  BY <1>7, Jobs DEF Shape, Typed
<1>9. at'[t] = "wait" => captured' \subseteq mkv'[row'.file]
  BY <1>1, <1>4, <1>5 DEF Shape, Typed
<1>10. Careful(t)'
  BY <1>1, <1>2, <1>4, <1>8, <1>9 DEF Careful
<1>11. QED  BY <1>1, <1>2, <1>3, <1>6, <1>10, CompleteRun

\* The directory goes, then the row's word of it.
LEMMA FiledRemove ==
  ASSUME Shape, Undisturbed, Complete, row # None, NEW t \in Task, RemoveDir(t) \/ ClearDir(t)
  PROVE  Undisturbed' /\ Complete'
<1>1. /\ at[t] \in {"wait", "clear"} /\ at[t] \in Working /\ at[t] \in Recorded
      /\ UNCHANGED <<mkv, captured, recovery, job>>
  BY DEF RemoveDir, ClearDir, Working, Recorded, disk, rec
<1>2. at'[t] \in {"clear", "final"} /\ \A u \in Task : u # t => at'[u] = at[u]
  BY GotoKeeps DEF RemoveDir, ClearDir, Shape, Typed
<1>3. row'.status = row.status /\ row'.file = row.file
  BY Rows DEF RemoveDir, ClearDir, Shape, Typed
<1>4. Undisturbed'
  BY <1>1, <1>2, <1>3, UndisturbedRun, WorksAlone
<1>5. segs' = None
  BY <1>1 DEF RemoveDir, ClearDir, disk, Complete, Careful
<1>6. job[t].file = row.file /\ job[t].file # None /\ (at[t] = "wait" =>
    captured \subseteq mkv[row.file])
  BY <1>1 DEF Complete, Careful, Shape, Ready
<1>7. Kempt'
  <2>1. CASE RemoveDir(t)
    BY <2>1, <1>1, <1>3, <1>5, <1>6 DEF RemoveDir, Complete, Kempt
  <2>2. CASE ClearDir(t)
    BY <2>2, <1>1, <1>3, <1>5 DEF ClearDir, disk, Complete, Kempt
  <2>3. QED  BY <2>1, <2>2
<1>8. Careful(t)'
  BY <1>1, <1>2, <1>3, <1>5, <1>6 DEF Careful
<1>9. QED  BY <1>1, <1>2, <1>4, <1>7, <1>8, CompleteRun

\* The end of a run: unless another's save was undone, it changes only the status.
LEMMA FiledEnd ==
  ASSUME Shape, Undisturbed, Complete, row # None, Without(Treated)', NEW t \in Task,
         Final(t) \/ SaveFinal(t)
  PROVE  Undisturbed' /\ Complete'
<1>1. /\ at[t] \in {"final", "save"} /\ at[t] \in Working /\ at[t] \in Recorded
      /\ UNCHANGED <<segs, mkv, captured, recovery>>
  BY DEF Final, SaveFinal, Working, Recorded, disk, rec
<1>2. at'[t] \in {"save", "release"} /\ \A u \in Task : u # t => at'[u] = at[u]
  BY GotoKeeps DEF Final, SaveFinal, Shape, Typed
<1>3. /\ at'[t] = "save" => row' = row
      /\ row'.file = row.file /\ row'.hls = row.hls
  <2>1. CASE Final(t)
    BY <2>1 DEF Final
  <2>2. CASE SaveFinal(t)
    <3>1. /\ at'[t] = "release" /\ row' = [row EXCEPT !.status = job[t].seen.status]
      BY <2>2, GotoKeeps DEF SaveFinal, Note, Without, Treated, Shape, Typed
    <3>2. QED  BY <3>1 DEF Shape, Typed, Row
  <2>3. QED  BY <2>1, <2>2
<1>4. Undisturbed'
  BY <1>1, <1>2, <1>3, UndisturbedRun, WorksAlone DEF Recorded
<1>5. Kempt'
  BY <1>1, <1>3 DEF Complete, Kempt
<1>6. Careful(t)'
  BY <1>2 DEF Careful
<1>7. QED  BY <1>1, <1>2, <1>4, <1>5, <1>6, CompleteRun

LEMMA FiledRelease ==
  ASSUME Shape, Undisturbed, Complete, NEW t \in Task, Release(t)
  PROVE  Undisturbed' /\ Complete'
<1>1. at'[t] = "over" /\ \A u \in Task : u # t => at'[u] = at[u] /\ job'[u] = job[u]
  BY OverKeeps DEF Release, Shape, Typed
<1>2. UNCHANGED <<row, disk, rec, captured>>
  BY DEF Release
<1>3. QED  BY <1>1, <1>2, UndisturbedKept, CompleteKept DEF Working, Recorded, rec, disk

LEMMA FiledRun ==
  ASSUME Alone, Shape, Undisturbed, Complete, row # None, Without(Treated), Without(Treated)',
         NEW t \in Task, Runs(t) \/ Segment(t) \/ Poll(t) \/ Outage(t)
  PROVE  Undisturbed' /\ Complete'
BY FiledGuard, FiledPrep, FiledPrime, FiledOpen, FiledCapture, FiledRemux, FiledRemuxed,
    FiledRemove,
   FiledEnd, FiledRelease DEF Runs

\* Nobody who works on the row lives when a recovery takes it, unless that is noted.
LEMMA WorkersLive == ~SomeLives => \A t \in Task : at[t] \notin Working
BY DEF SomeLives, Living, Working, Recorded, Place

\* A recovery takes a row that is "recording" for one whose task has died.
LEMMA FiledBegin ==
  ASSUME Shape, Undisturbed, Complete, row # None, Without(Treated)', Begin
  PROVE  Undisturbed' /\ Complete'
<1>1. UNCHANGED <<row, tasks, disk, captured>>
  BY DEF Begin
<1>2. Complete'
  BY <1>1, CompleteKept DEF tasks
<1>3. recovery' = "expired" => ~SomeLives /\ row.status = "recording" /\ found' = row
  BY DEF Begin, Is, Step, Note, Without, Treated
<1>4. recovery' # "save"
  BY DEF Begin, Step
<1>5. Undisturbed'
  BY <1>1, <1>3, <1>4, WorkersLive DEF Undisturbed, tasks
<1>6. QED  BY <1>2, <1>5

LEMMA FiledResume ==
  ASSUME Shape, Undisturbed, Complete, row # None, Without(Treated)', Resume
  PROVE  Undisturbed' /\ Complete'
<1>1. /\ ~SomeLives /\ row = Saved(found) /\ row' = Saved([found EXCEPT !.status = "interrupted"])
      /\ Dispatch(found.end) /\ recovery' = "upcoming" /\ UNCHANGED <<disk, captured>>
  BY DEF Resume, Without, Treated, Step
<1>2. found \in Row /\ found.end \in 2..MaxTime
  BY Rows DEF Shape, Typed, Found, Resume
<1>3. row'.hls = row.hls /\ row'.file = row.file
  BY <1>1, <1>2 DEF Saved, Row
<1>4. \A u \in Task : /\ at'[u] = at[u] \/ at'[u] = "queued"
                      /\ job'[u].file = job[u].file /\ job'[u].take = job[u].take
  BY <1>1, <1>2, DispatchKeeps DEF Shape, Typed
<1>5. \A u \in Task : at'[u] \notin Working
  BY <1>1, <1>4, WorkersLive DEF Working, Recorded
<1>6. Undisturbed'
  BY <1>1, <1>5 DEF Undisturbed, Working
<1>7. Complete'
  BY <1>1, <1>3, <1>5, CompleteKept, <1>4
<1>8. QED  BY <1>6, <1>7

\* The remux of the recovery: the MKV has it all when the directory goes.
LEMMA FiledRemuxFound ==
  ASSUME Shape, Undisturbed, Complete, row # None, RemuxFound
  PROVE  Undisturbed' /\ Complete'
<1>1. /\ recovery = "expired" /\ recovery' = "save" /\ found \in Row
      /\ UNCHANGED <<row, tasks, captured>>
  BY DEF RemuxFound, Step, Shape, Typed, Found
<1>2. /\ \A u \in Task : at[u] \notin Working
      /\ row.status \in {"recording", "stopped"} /\ found.file = row.file /\ found.hls = row.hls
  BY <1>1 DEF Undisturbed
<1>3. CASE UNCHANGED disk
  <2>1. found' = [found EXCEPT !.status = "interrupted"] \/ (found'.file = found.file /\
      segs' = None)
    BY <1>1, <1>3 DEF RemuxFound, Row
  <2>2. found'.file = found.file /\ (found'.hls = found.hls \/ segs' = None)
    BY <1>1, <2>1 DEF Row
  <2>3. Undisturbed'
    BY <1>1, <1>2, <2>2 DEF Undisturbed, tasks, Working
  <2>4. Complete'
    BY <1>1, <1>3, CompleteKept DEF tasks
  <2>5. QED  BY <2>3, <2>4
<1>4. CASE ~UNCHANGED disk
  <2>1. /\ found.file # None /\ segs \notin {None, {}}
        /\ mkv' = [mkv EXCEPT ![found.file] = segs] /\ segs' = None
        /\ found' = [found EXCEPT !.status = "interrupted", !.hls = FALSE]
    BY <1>4 DEF RemuxFound
  <2>2. found'.file = found.file /\ found.file \in Path
    BY <1>1, <2>1 DEF Row
  <2>3. Undisturbed'
    BY <1>1, <1>2, <2>1, <2>2 DEF Undisturbed, tasks, Working
  <2>4. Kempt'
    BY <1>1, <1>2, <2>1, <2>2 DEF Complete, Kempt, Shape, Typed
  <2>5. \A u \in Task : Careful(u)'
    BY <1>1, <1>2 DEF Careful, Working, Recorded, tasks
  <2>6. QED  BY <2>3, <2>4, <2>5 DEF Complete
<1>5. QED  BY <1>3, <1>4

LEMMA FiledSaveFound ==
  ASSUME Shape, Undisturbed, Complete, row # None, SaveFound
  PROVE  Undisturbed' /\ Complete'
<1>1. /\ recovery = "save" /\ recovery' = "upcoming" /\ found \in Row /\ row' = Saved(found)
      /\ UNCHANGED <<tasks, disk, captured>>
  BY DEF SaveFound, Step, Shape, Typed, Found
<1>2. /\ \A u \in Task : at[u] \notin Working
      /\ found.file = row.file /\ (found.hls = row.hls \/ segs = None)
  BY <1>1 DEF Undisturbed
<1>3. row'.file = row.file /\ (row'.hls = row.hls \/ segs = None)
  BY <1>1, <1>2 DEF Saved, Row
<1>4. Undisturbed'
  BY <1>1, <1>2 DEF Undisturbed, tasks, Working
<1>5. Kempt'
  BY <1>1, <1>3 DEF Complete, Kempt, disk
<1>6. \A u \in Task : Careful(u)'
  BY <1>1, <1>2 DEF Careful, Working, Recorded, tasks
<1>7. QED  BY <1>4, <1>5, <1>6 DEF Complete

LEMMA FiledRecovery ==
  ASSUME Shape, Undisturbed, Complete, row # None, Without(Treated)', Recovers
  PROVE  Undisturbed' /\ Complete'
<1>1. ASSUME Skip \/ Upcoming PROVE Undisturbed' /\ Complete'
  <2>1. UNCHANGED <<row, tasks, disk, captured>> /\ recovery' \in {"upcoming", "idle"}
    BY <1>1 DEF Skip, Upcoming, Step
  <2>2. QED  BY <2>1, UndisturbedKept, CompleteKept DEF tasks, disk
<1>2. QED  BY <1>1, FiledBegin, FiledResume, FiledRemuxFound, FiledSaveFound DEF Recovers

\* Everything else but a deletion. A task that dies leaves its files as they are.
LEMMA FiledOthers ==
  ASSUME Shape, Undisturbed, Complete, row # None, row' # None, Others
  PROVE  Undisturbed' /\ Complete'
<1>1. ASSUME Tick \/ Stopping \/ \E l \in Lock : Lapses(l) PROVE Undisturbed' /\ Complete'
  <2>1. UNCHANGED <<row, tasks, disk, rec, captured>>
    BY <1>1 DEF Tick, Stopping, Lapses, rest
  <2>2. QED  BY <2>1, UndisturbedKept, CompleteKept DEF tasks, disk, rec
<1>2. ASSUME Boot \/ OtherRestarts PROVE Undisturbed' /\ Complete'
  <2>1. /\ UNCHANGED <<row, tasks, disk, captured>>
        /\ recovery' \in {"expired", "save"} => recovery' = recovery /\ found' = found
    BY <1>2 DEF Boot, OtherRestarts, Asks, Step
  <2>2. QED  BY <2>1, UndisturbedKept, CompleteKept DEF tasks, disk
<1>3. ASSUME BeatFires PROVE Undisturbed' /\ Complete'
  <2>1. UNCHANGED <<row, disk, rec, captured>> /\ Dispatch(2)
    BY <1>3 DEF BeatFires
  <2>2. \A u \in Task : /\ at'[u] = at[u] \/ at'[u] = "queued"
                        /\ job'[u].file = job[u].file /\ job'[u].take = job[u].take
    BY <2>1, DispatchKeeps DEF Shape, Typed
  <2>3. QED  BY <2>1, <2>2, UndisturbedKept, CompleteKept DEF disk, rec, Working, Recorded
<1>4. ASSUME Stop \/ Extend PROVE Undisturbed' /\ Complete'
  <2>1. UNCHANGED <<tasks, disk, rec, captured>>
    BY <1>4 DEF Stop, Extend
  <2>2. /\ row.status \in {"recording", "stopped"} => row'.status \in {"recording", "stopped"}
        /\ row'.file = row.file /\ row'.hls = row.hls
    BY <1>4 DEF Stop, Extend, Set, Shape, Typed, Row
  <2>3. QED  BY <2>1, <2>2, UndisturbedKept, CompleteKept DEF tasks, disk, rec
<1>5. ASSUME NEW all \in BOOLEAN, Dies(all) PROVE Undisturbed' /\ Complete'
  <2>1. /\ UNCHANGED <<row, disk, captured>>
        /\ recovery' \in {"expired", "save"} => recovery' = recovery /\ found' = found
    BY <1>5 DEF Dies, rec
  <2>2. \A u \in Task : at'[u] = "over" \/ (at'[u] = at[u] /\ job'[u] = job[u])
    BY <1>5 DEF Dies, Shape, Typed, Where
  <2>3. QED  BY <2>1, <2>2, UndisturbedKept, CompleteKept DEF disk, Working, Recorded
<1>6. ASSUME Destroy \/ RemoveFiles PROVE FALSE
  BY <1>6 DEF Destroy, RemoveFiles, Shape, Found
<1>7. QED  BY <1>1, <1>2, <1>3, <1>4, <1>5, <1>6 DEF Others

\* What a deletion leaves. A run that finds no row any more removes what is left, and
\* none begins to remux.
LEMMA RemovedRun ==
  ASSUME Removed, Alone, Typed, Found, Where, Kept, NEW t \in Task, Runs(t) \/
      Segment(t) \/ Poll(t) \/ Outage(t)
  PROVE  Removed'
<1> USE DEF Removed, Alone, Without, Treated, Kept, Locked, Where, Goto, Over, tasks, disk,
    rec, rest, Typed
<1>1. ASSUME Guard(t) PROVE Removed'
  BY <1>1 DEF Guard
<1>2. ASSUME Prep(t) PROVE Removed'
  BY <1>2 DEF Prep
<1>3. ASSUME Prime(t) PROVE Removed'
  BY <1>3 DEF Prime
<1>4. ASSUME Open(t) PROVE Removed'
  BY <1>4 DEF Open
<1>5. ASSUME CaptureFails(t) PROVE Removed'
  BY <1>5 DEF CaptureFails
<1>6. ASSUME EndCapture(t) PROVE Removed'
  BY <1>6 DEF EndCapture
<1>7. ASSUME Shutdown(t) PROVE Removed'
  BY <1>7 DEF Shutdown
<1>8. ASSUME Finish(t) PROVE Removed'
  BY <1>8 DEF Finish
<1>9. ASSUME Remux(t) PROVE Removed'
  BY <1>9 DEF Remux
<1>10. ASSUME Remuxed(t) PROVE Removed'
  BY <1>10 DEF Remuxed
<1>11. ASSUME RemoveDir(t) PROVE Removed'
  BY <1>11 DEF RemoveDir
<1>12. ASSUME ClearDir(t) PROVE Removed'
  BY <1>12 DEF ClearDir
<1>13. ASSUME Final(t) PROVE Removed'
  BY <1>13 DEF Final
<1>14. ASSUME SaveFinal(t) PROVE Removed'
  BY <1>14 DEF SaveFinal, Note
<1>15. ASSUME Release(t) PROVE Removed'
  BY <1>15 DEF Release, Note
<1>16. ASSUME Segment(t) PROVE Removed'
  BY <1>16 DEF Segment
<1>17. ASSUME Poll(t) PROVE Removed'
  BY <1>17 DEF Poll
<1>18. ASSUME Outage(t) PROVE Removed'
  BY <1>18 DEF Outage
<1>19. QED  BY <1>1, <1>2, <1>3, <1>4, <1>5, <1>6, <1>7, <1>8, <1>9, <1>10, <1>11, <1>12,
    <1>13, <1>14, <1>15, <1>16, <1>17, <1>18 DEF Runs

\* No recovery takes up what is deleted.
LEMMA RemovedRecovery ==
  ASSUME Removed, Alone, Typed, Found, Where, Kept, Recovers
  PROVE  Removed'
<1> USE DEF Removed, Alone, Without, Treated, Kept, Locked, Where, Goto, Over, tasks, disk,
    rec, rest, Typed, Found
<1>1. ASSUME Begin PROVE Removed'
  BY <1>1 DEF Begin, Note, Step, Is
<1>2. ASSUME Skip PROVE Removed'
  BY <1>2 DEF Skip, Note, Step
<1>3. ASSUME Resume PROVE Removed'
  BY <1>3 DEF Resume, Dispatch, Step
<1>4. ASSUME RemuxFound PROVE Removed'
  BY <1>4 DEF RemuxFound, Step
<1>5. ASSUME SaveFound PROVE Removed'
  BY <1>5 DEF SaveFound, Step
<1>6. ASSUME Upcoming PROVE Removed'
  BY <1>6 DEF Upcoming, Step
<1>7. QED  BY <1>1, <1>2, <1>3, <1>4, <1>5, <1>6 DEF Recovers

\* The deletion knows of the one MKV and of the directory.
LEMMA RemovedDestroy ==
  ASSUME Filed, Destroy
  PROVE  Removed'
<1> SUFFICES ASSUME Without(Treated \cup {"unfinished"})' PROVE
      /\ \A t \in Task : at'[t] \notin {"remux", "remuxing"}
      /\ recovery' # "expired"
      /\ \A p \in Path : mkv'[p] # {} => doomed' # None /\ p = doomed'.file
      /\ (doomed' # None /\ doomed'.hls) \/ segs' = None
  BY DEF Removed
<1>1. row # None /\ doomed' = row /\ UNCHANGED <<tasks, disk, rec>>
  BY DEF Destroy
<1>2. Without(Treated) /\ (\A t \in Task : at[t] \notin {"remux", "remuxing"}) /\
    recovery # "expired"
  BY DEF Destroy, Note, Without
<1>3. Kempt
  BY <1>1, <1>2 DEF Filed, Complete
<1>4. QED  BY <1>1, <1>2, <1>3 DEF Kempt, tasks, disk, rec

LEMMA RemovedOthers ==
  ASSUME Removed, Alone, Typed, Found, Where, Filed, Kept, Others
  PROVE  Removed'
<1> USE DEF Removed, Alone, Without, Treated, Kept, Locked, Where, Goto, Over, tasks, disk,
    rec, rest, Typed, Found
<1>1. ASSUME Tick PROVE Removed'
  BY <1>1 DEF Tick
<1>2. ASSUME BeatFires PROVE Removed'
  BY <1>2 DEF BeatFires, Dispatch
<1>3. ASSUME Stop PROVE Removed'
  BY <1>3 DEF Stop
<1>4. ASSUME Extend PROVE Removed'
  BY <1>4 DEF Extend
<1>5. ASSUME RemoveFiles PROVE Removed'
  BY <1>5 DEF RemoveFiles
<1>6. ASSUME NEW l \in Lock, Lapses(l) PROVE Removed'
  BY <1>6 DEF Lapses
<1>7. ASSUME Stopping PROVE Removed'
  BY <1>7 DEF Stopping
<1>8. ASSUME NEW all \in BOOLEAN, Dies(all) PROVE Removed'
  BY <1>8 DEF Dies, Note, Lost, Living
<1>9. ASSUME Boot PROVE Removed'
  BY <1>9 DEF Boot, Asks, Note, Step
<1>10. ASSUME OtherRestarts PROVE Removed'
  BY <1>10 DEF OtherRestarts, Asks, Note, Step
<1>11. ASSUME Destroy PROVE Removed'
  BY <1>11, RemovedDestroy
<1>12. QED  BY <1>11, <1>1, <1>2, <1>3, <1>4, <1>5, <1>6, <1>7, <1>8, <1>9, <1>10 DEF Others

LEMMA FilesInit == Init => FilesInv
<1> SUFFICES ASSUME Init PROVE FilesInv
  OBVIOUS
<1>0. 2 \in 2..MaxTime /\ {0, 1} \subseteq 0..MaxTime
  OBVIOUS
<1> USE DEF Init
<1>1. Alone
  BY InitInv DEF RecordingInv
<1>2. row \in Row
  BY <1>0 DEF Row, Status
<1>3. Typed
  <2>1. now \in 0..MaxTime
    BY <1>0
  <2>2. job \in [Task -> Job]
    BY Empty
  <2>3. Where
    BY DEF Where, Place
  <2>4. mkv \in [Path -> SUBSET Task] /\ segs \in (SUBSET Task) \cup {None} /\
      captured \in SUBSET Task
    OBVIOUS
  <2>5. QED  BY <1>2, <2>1, <2>2, <2>3, <2>4 DEF Typed
<1>4. Shape
  BY <1>3 DEF Shape, Ready, Found
<1>5. Filed
  BY <1>2 DEF Filed, Undisturbed, Complete, Kempt, Careful, Working, Recorded
<1>6. Removed
  BY <1>2 DEF Removed
<1>7. QED  BY <1>1, <1>4, <1>5, <1>6 DEF FilesInv

LEMMA FilesNext == FilesInv /\ [Next]_vars => FilesInv'
<1> SUFFICES ASSUME FilesInv, [Next]_vars PROVE FilesInv'
  OBVIOUS
<1> USE DEF FilesInv
<1>1. RecordingInv'
  BY NextInv DEF RecordingInv, Shape, Typed
<1>2. Where' /\ Alone'
  BY <1>1 DEF RecordingInv
<1>3. CASE Next
  <2>1. flaws \subseteq flaws'
    BY <1>3, FlawsGrow
  <2>2. ASSUME Shape', Kept, row # None => Filed', Removed' PROVE FilesInv'
    BY <1>2, <2>2 DEF Filed, Kept
  <2>3. Without(Treated)' => Without(Treated)
    BY <2>1 DEF Without, Treated
  <2>4. ASSUME NEW t \in Task, Runs(t) \/ Segment(t) \/ Poll(t) \/ Outage(t) PROVE FilesInv'
    <3>1. Shape' /\ Kept
      BY <1>2, <2>4, ShapeRun
    <3>2. row # None => Filed'
      BY <2>3, <2>4, <3>1, FiledRun DEF Filed, Kept
    <3>3. Removed'
      BY <2>4, <3>1, RemovedRun DEF Shape, Typed
    <3>4. QED  BY <2>2, <3>1, <3>2, <3>3
  <2>5. CASE Recovers
    <3>1. Shape' /\ Kept
      BY <1>2, <2>5, ShapeRecovery
    <3>2. row # None => Filed'
      BY <2>3, <2>5, <3>1, FiledRecovery DEF Filed, Kept
    <3>3. Removed'
      BY <2>5, <3>1, RemovedRecovery DEF Shape, Typed
    <3>4. QED  BY <2>2, <3>1, <3>2, <3>3
  <2>6. CASE Others
    <3>1. Shape' /\ (Kept \/ Destroy)
      BY <1>2, <2>6, ShapeOthers
    <3>2. row = None => row' = None
      BY <2>6, <3>1 DEF Kept, Destroy
    <3>3. Filed'
      BY <2>3, <2>6, <3>2, FiledOthers DEF Filed
    <3>4. Removed'
      BY <2>6, <3>1, RemovedOthers, RemovedDestroy DEF Shape, Typed
    <3>5. QED  BY <1>2, <3>1, <3>3, <3>4
  <2>7. QED  BY <1>3, <2>4, <2>5, <2>6 DEF Next, Others
<1>4. CASE UNCHANGED vars
  BY <1>2, <1>4 DEF vars, tasks, disk, rec, rest, Shape, Typed, Ready, Found, Where, Filed,
      Undisturbed,
    Complete, Kempt, Careful, Removed, Without
<1>5. QED  BY <1>3, <1>4

\* Nothing that was captured is lost, through outages, failed remuxes, stops, crashes and
\* restarts at any step, unless a recovery met a task at work, a run changed the file,
\* a save undid another's or a lock was deleted for another (tasks.py: the remux of
\* run_recording and of recover_recordings_on_startup removes the directory only when
\* the MKV is there).
THEOREM NothingIsLost == Spec => []NothingLost
<1>1. FilesInv => NothingLost
  BY DEF FilesInv, Filed, Complete, Kempt, NothingLost, Reached, Treated, Shape, Typed
<1>2. QED  BY <1>1, FilesInit, FilesNext, PTL DEF Spec

\* When a recording was deleted and all that ran is over, no segment and no MKV of it is
\* left, unless one of the flaws has happened (api_views.py: destroy).
THEOREM DeletionLeavesNothing == Spec => []DeletedLeavesNothing
<1>1. FilesInv => DeletedLeavesNothing
  BY DEF FilesInv, Removed, DeletedLeavesNothing, Treated, Without, Shape, Typed
<1>2. QED  BY <1>1, FilesInit, FilesNext, PTL DEF Spec

(***************************************************************************)
(* Who has the recording in hand                                            *)
(***************************************************************************)
\* A run has it; or a recovery is to come, is asked for, or has found it.
Taken == \E t \in Task : at[t] \in Recorded
Awaited ==
  \/ worker = "down"
  \/ recovery \in {"asked", "expired", "save"}
  \/ recovery = "active" /\ found.status \notin {"completed", "stopped"}

\* What is "recording" is in somebody's hands, from where a run or a recovery ends it.
Attended == Is("recording") /\ flaws = {} => Taken \/ Awaited

\* A recording has begun once its hour is there; nothing is sent or found before.
Begun ==
  \/ now >= 1
  \/ /\ ~Is("recording")
     /\ recovery \notin {"active", "expired", "save"}
     /\ \A t \in Task : at[t] = "none"

\* Who prepares has found another status, and who is about to end has set one. A run that
\* captures finds its directory, and what will be saved is the end of the recording.
Heed ==
  /\ Is("recording") => Taken \/ Awaited
  /\ Is("recording") => \A t \in Task : at[t] \notin {"prep", "prime"}
  /\ Is("recording") /\ SomeLives => Taken
  /\ \A t \in Task : at[t] = "capture" => segs # None
  /\ \A t \in Task :
       at[t] = "save" => job[t].seen.status \in {"stopped", "completed", "interrupted"}
  /\ recovery = "save" => found.status = "interrupted"

HandsInv == FilesInv /\ Begun /\ (row # None /\ flaws = {} => Heed)

\* A run gives the recording up only with another status, or to a recovery.
LEMMA HeedRun ==
  ASSUME Shape, Undisturbed, row # None, row' # None, Heed, flaws = {}, flaws' = {},
         NEW t \in Task, Runs(t) \/ Segment(t) \/ Poll(t) \/ Outage(t)
  PROVE  Heed'
<1> USE DEF Heed, Awaited, Taken, Is, SomeLives, Living, Recorded, Place, rec, rest, disk, tasks
<1>0. Where /\ job \in [Task -> Job] /\ row \in Row
  BY DEF Shape, Typed
<1>a. Over(t) => /\ at'[t] = "over"
                 /\ \A u \in Task : u # t => at'[u] = at[u] /\ job'[u] = job[u]
  BY <1>0, OverKeeps
<1>b. \A l : Goto(t, l) => at'[t] = l /\ \A u \in Task : u # t => at'[u] = at[u]
  BY <1>0, GotoKeeps
<1>c. at[t] \in Working => /\ \A u \in Task : u # t => at[u] \notin Working
                           /\ recovery \notin {"expired", "save"}
  BY WorksAlone
<1>d. Working = {"prep", "prime", "open", "capture", "finish", "remux", "remuxing", "wait",
                 "clear", "final", "save"}
  BY DEF Working
<1>1. ASSUME Guard(t) PROVE Heed'
  BY <1>0, <1>1, <1>a, <1>b DEF Guard
<1>2. ASSUME Prep(t) PROVE Heed'
  BY <1>0, <1>2, <1>a, <1>b, <1>c, <1>d DEF Prep
<1>3. ASSUME Prime(t) PROVE Heed'
  BY <1>0, <1>3, <1>a, <1>b, <1>c, <1>d DEF Prime, Note
<1>4. ASSUME Open(t) PROVE Heed'
  BY <1>0, <1>4, <1>a, <1>b, <1>c, <1>d DEF Open
<1>5. ASSUME CaptureFails(t) PROVE Heed'
  BY <1>0, <1>5 DEF CaptureFails
<1>6. ASSUME EndCapture(t) PROVE Heed'
  BY <1>0, <1>6, <1>b, <1>c, <1>d DEF EndCapture
<1>7. ASSUME Shutdown(t) PROVE Heed'
  <2>1. row'.status = "interrupted"
    BY <1>0, <1>7 DEF Shutdown, Set, Row
  <2>2. at[t] = "capture" /\ Over(t) /\ UNCHANGED <<segs, recovery, found>>
    BY <1>7 DEF Shutdown
  <2>3. QED  BY <2>1, <2>2, <1>a
<1>8. ASSUME Finish(t) PROVE Heed'
  BY <1>0, <1>8, <1>b, <1>c, <1>d DEF Finish
<1>9. ASSUME Remux(t) PROVE Heed'
  BY <1>0, <1>9, <1>b, <1>c, <1>d DEF Remux
<1>10. ASSUME Remuxed(t) PROVE Heed'
  BY <1>0, <1>10, <1>b, <1>c, <1>d DEF Remuxed
<1>11. ASSUME RemoveDir(t) PROVE Heed'
  BY <1>0, <1>11, <1>b, <1>c, <1>d DEF RemoveDir
<1>12. ASSUME ClearDir(t) PROVE Heed'
  BY <1>0, <1>12, <1>b, <1>c, <1>d, Rows DEF ClearDir
<1>13. ASSUME Final(t) PROVE Heed'
  <2>1. [row EXCEPT !.status = Outcome(t)] \in Row /\
        [row EXCEPT !.status = Outcome(t)].status \in {"stopped", "completed", "interrupted"}
    <3>1. Outcome(t) \in {"stopped", "completed", "interrupted"}
      BY DEF Outcome
    <3>2. QED  BY <1>0, <3>1 DEF Row, Status
  <2>2. /\ job' = [job EXCEPT ![t].seen = [row EXCEPT !.status = Outcome(t)]]
        /\ at[t] = "final" /\ Goto(t, "save")
        /\ UNCHANGED <<row, segs, recovery, found, worker>>
    BY <1>13 DEF Final
  <2>3. job'[t].seen.status \in {"stopped", "completed", "interrupted"}
    BY <1>0, <2>1, <2>2, Jobs
  <2>4. \A u \in Task : u # t => job'[u] = job[u]
    BY <1>0, <2>2
  <2>5. QED  BY <2>2, <2>3, <2>4, <1>b, <1>c, <1>d
<1>14. ASSUME SaveFinal(t) PROVE Heed'
  <2>1. /\ at[t] = "save" /\ Goto(t, "release") /\ row' = Saved(job[t].seen)
        /\ UNCHANGED <<job, segs, recovery, found, worker>>
    BY <1>14 DEF SaveFinal
  <2>2. job[t].seen \in Row
    BY <1>0, <2>1, Jobs DEF Shape, Ready
  <2>3. row'.status \in {"stopped", "completed", "interrupted"}
    BY <1>0, <2>1, <2>2, Rows DEF Saved
  <2>4. QED  BY <2>1, <2>3, <1>b, <1>c, <1>d
<1>15. ASSUME Release(t) PROVE Heed'
  BY <1>0, <1>15, <1>a, <1>c, <1>d DEF Release, Note
<1>16. ASSUME Segment(t) PROVE Heed'
  <2>1. segs' # None
    BY <1>16 DEF Segment, Shape, Typed
  <2>2. QED  BY <1>16, <2>1 DEF Segment
<1>17. ASSUME Poll(t) PROVE Heed'
  BY <1>0, <1>17, <1>c, <1>d DEF Poll
<1>18. ASSUME Outage(t) PROVE Heed'
  BY <1>0, <1>18, <1>b, <1>c, <1>d DEF Outage
<1>19. QED  BY <1>1, <1>2, <1>3, <1>4, <1>5, <1>6, <1>7, <1>8, <1>9, <1>10, <1>11,
       <1>12, <1>13, <1>14, <1>15, <1>16, <1>17, <1>18 DEF Runs

\* A recovery takes the recording up again, or ends it.
LEMMA HeedRecovery ==
  ASSUME Shape, Undisturbed, row # None, row' # None, Heed, Begun, flaws = {}, flaws' = {}, Recovers
  PROVE  Heed'
<1> USE DEF Heed, Awaited, Taken, Is, SomeLives, Living, Recorded, Place, rec, rest, disk, tasks
<1>0. Where /\ job \in [Task -> Job] /\ row \in Row /\ found \in Row \cup {None} /\ now \in Int
      /\ row.end \in Int
  BY Rows DEF Shape, Typed
<1>1. ASSUME Begin PROVE Heed'
  BY <1>0, <1>1 DEF Begin, Note, Step, Begun
<1>2. ASSUME Skip PROVE Heed'
  BY <1>0, <1>2 DEF Skip, Skips, Note, Step
<1>3. ASSUME Resume PROVE Heed'
  <2>1. found \in Row /\ found.end \in 2..MaxTime
    BY <1>0, <1>3, Rows DEF Resume, Shape, Found
  <2>2. /\ row' = Saved([found EXCEPT !.status = "interrupted"])
        /\ Dispatch(found.end) /\ UNCHANGED segs /\ recovery' = "upcoming"
    BY <1>3 DEF Resume, Step
  <2>3. row'.status = "interrupted"
    <3>1. [found EXCEPT !.status = "interrupted"] \in Row /\
          [found EXCEPT !.status = "interrupted"].status = "interrupted"
      BY <2>1 DEF Row, Status
    <3>2. QED  BY <1>0, <2>2, <3>1, Rows DEF Saved
  <2>4. \A u \in Task : (at'[u] = at[u] \/ at'[u] = "queued") /\ job'[u].seen = job[u].seen
    BY <1>0, <2>1, <2>2, DispatchKeeps
  <2>5. QED  BY <2>2, <2>3, <2>4
<1>4. ASSUME RemuxFound PROVE Heed'
  <2>1. found \in Row
    BY <1>0, <1>4 DEF RemuxFound, Shape, Found
  <2>2. found'.status = "interrupted"
    BY <1>4, <2>1 DEF RemuxFound, Row, Status
  <2>3. recovery = "expired" /\ recovery' = "save" /\ UNCHANGED <<row, at, job>>
    BY <1>4 DEF RemuxFound, Step
  <2>4. \A u \in Task : at[u] # "capture"
    BY <2>3 DEF Undisturbed, Working
  <2>5. QED  BY <2>2, <2>3, <2>4
<1>5. ASSUME SaveFound PROVE Heed'
  BY <1>0, <1>5, Rows DEF SaveFound, Step, Found, Shape, Saved
<1>6. ASSUME Upcoming PROVE Heed'
  BY <1>0, <1>6 DEF Upcoming, Step
<1>7. QED  BY <1>1, <1>2, <1>3, <1>4, <1>5, <1>6 DEF Recovers

\* A worker that dies leaves its recording to the recovery of the next.
LEMMA HeedOthers ==
  ASSUME Shape, row # None, row' # None, Heed, flaws = {}, flaws' = {}, Others
  PROVE  Heed'
<1> USE DEF Heed, Awaited, Taken, Is, SomeLives, Living, Recorded, Place, rec, rest, disk, tasks
<1>0. Where /\ job \in [Task -> Job] /\ row \in Row /\ 2 \in 2..MaxTime
  BY DEF Shape, Typed
<1>1. ASSUME Tick PROVE Heed'
  BY <1>1 DEF Tick
<1>2. ASSUME BeatFires PROVE Heed'
  <2>1. \A u \in Task : (at'[u] = at[u] \/ at'[u] = "queued") /\ job'[u].seen = job[u].seen
    BY <1>0, <1>2, DispatchKeeps DEF BeatFires
  <2>2. UNCHANGED <<row, segs, recovery, found, worker>>
    BY <1>2 DEF BeatFires
  <2>3. PICK t \in Task : at[t] = "none" /\ at' = [at EXCEPT ![t] = "queued"]
    BY <1>2 DEF BeatFires, Dispatch, Goto
  <2>4. Taken => Taken'
    BY <1>0, <2>3 DEF Where
  <2>5. QED  BY <2>1, <2>2, <2>4
<1>3. ASSUME Stop PROVE Heed'
  <2>1. row' = [row EXCEPT !.status = "stopped"] /\ UNCHANGED <<at, job, segs, recovery, found>>
    BY <1>3 DEF Stop, Set
  <2>2. row'.status = "stopped"
    BY <1>0, <2>1 DEF Row
  <2>3. QED  BY <2>1, <2>2
<1>4. ASSUME Extend PROVE Heed'
  BY <1>0, <1>4 DEF Extend, Row
<1>5. ASSUME RemoveFiles PROVE Heed'
  BY <1>5 DEF RemoveFiles, Shape, Found
<1>6. ASSUME NEW l \in Lock, Lapses(l) PROVE Heed'
  BY <1>6 DEF Lapses
<1>7. ASSUME Stopping PROVE Heed'
  BY <1>7 DEF Stopping
<1>8. ASSUME NEW all \in BOOLEAN, Dies(all) PROVE Heed'
  BY <1>0, <1>8 DEF Dies, Note, Lost, Where
<1>9. ASSUME Boot PROVE Heed'
  BY <1>9 DEF Boot, Asks, Note, Step
<1>10. ASSUME OtherRestarts PROVE Heed'
  BY <1>10 DEF OtherRestarts, Asks, Note, Step
<1>11. ASSUME Destroy PROVE Heed'
  BY <1>11 DEF Destroy
<1>12. QED  BY <1>11, <1>1, <1>2, <1>3, <1>4, <1>5, <1>6, <1>7, <1>8, <1>9, <1>10 DEF Others

\* The hour comes before a run is sent, and before a recovery finds one.
LEMMA BegunKept == Shape /\ Where' /\ Begun /\ Next => Begun'
<1> SUFFICES ASSUME Shape, Where', Begun, Next PROVE Begun'
  OBVIOUS
<1> USE DEF Is, rest, rec, tasks
<1>0. now \in Int /\ Where
  BY DEF Shape, Typed
<1>1. now' \in Int /\ now' >= now
  <2>1. ASSUME NEW t \in Task, Runs(t) \/ Segment(t) \/ Poll(t) \/ Outage(t) PROVE now' = now
    BY <2>1 DEF Runs, Guard, Prep, Prime, Open, CaptureFails, EndCapture, Shutdown, Finish,
        Remux, Remuxed, RemoveDir, ClearDir, Final, SaveFinal, Release, Segment, Poll, Outage
  <2>2. ASSUME Recovers PROVE now' = now
    BY <2>2 DEF Recovers, Begin, Skip, Resume, RemuxFound, SaveFound, Upcoming
  <2>3. ASSUME Others PROVE now' = now \/ now' = now + 1
    BY <2>3 DEF Others, Tick, BeatFires, Stop, Extend, Destroy, RemoveFiles, Lapses, Stopping,
        Dies, Boot, OtherRestarts
  <2>4. QED  BY <1>0, <2>1, <2>2, <2>3 DEF Next, Others
<1>2. CASE now >= 1
  BY <1>0, <1>1, <1>2 DEF Begun
<1>3. CASE ~(now >= 1)
  <2>0. /\ ~Is("recording") /\ recovery \notin {"active", "expired", "save"}
        /\ \A t \in Task : at[t] = "none"
    BY <1>3 DEF Begun
  <2>1. ASSUME NEW t \in Task, Runs(t) \/ Segment(t) \/ Poll(t) \/ Outage(t) PROVE FALSE
    BY <2>0, <2>1 DEF Runs, Guard, Prep, Prime, Open, CaptureFails, EndCapture, Shutdown,
        Finish, Remux, Remuxed, RemoveDir, ClearDir, Final, SaveFinal, Release, Segment, Poll,
        Outage
  <2>2. ASSUME Recovers PROVE Begun'
    BY <1>3, <2>0, <2>2 DEF Recovers, Begin, Skip, Resume, RemuxFound, SaveFound, Upcoming,
        Step, Begun
  <2>3. ASSUME Tick \/ RemoveFiles \/ Stopping \/ \E l \in Lock : Lapses(l) PROVE Begun'
    BY <2>0, <2>3 DEF Tick, RemoveFiles, Stopping, Lapses, Begun
  <2>4. ASSUME Stop \/ Extend \/ Destroy PROVE Begun'
    BY <2>0, <2>4 DEF Stop, Set, Extend, Destroy, Begun, Shape, Typed, Row
  <2>5. ASSUME Boot \/ OtherRestarts \/ \E all \in BOOLEAN : Dies(all) PROVE Begun'
    BY <2>0, <2>5 DEF Boot, OtherRestarts, Asks, Step, Dies, Lost, Living, Begun
  <2>6. ASSUME BeatFires PROVE FALSE
    BY <1>3, <2>6 DEF BeatFires
  <2>7. QED  BY <2>1, <2>2, <2>3, <2>4, <2>5, <2>6 DEF Next
<1>4. QED  BY <1>2, <1>3

\* Nothing is recording yet.
LEMMA HandsInit == Init => HandsInv
<1> SUFFICES ASSUME Init PROVE HandsInv
  OBVIOUS
<1>1. FilesInv
  BY FilesInit
<1>2. Begun
  <2>1. CASE now = 1
    BY <2>1 DEF Begun
  <2>2. CASE now = 0
    <3>1. row.status = "" /\ recovery = "idle"
      BY DEF Init
    <3>2. \A t \in Task : at[t] = "none"
      <4>1. now # 1
        BY <2>2
      <4>2. at = [t \in Task |-> IF t = 1 /\ now = 1 THEN "queued" ELSE "none"]
        BY DEF Init
      <4>3. QED  BY <4>1, <4>2, Zenon
    <3>3. QED  BY <3>1, <3>2 DEF Begun, Is
  <2>3. QED  BY <2>1, <2>2 DEF Init
<1>3. row # None => Heed
  BY DEF Init, Heed, Is
<1>4. QED  BY <1>1, <1>2, <1>3 DEF HandsInv

\* Every step leaves the recording in somebody's hands.
LEMMA HandsNext == HandsInv /\ [Next]_vars => HandsInv'
<1> SUFFICES ASSUME HandsInv, [Next]_vars PROVE HandsInv'
  OBVIOUS
<1>1. FilesInv /\ FilesInv'
  BY FilesNext DEF HandsInv
<1>2. Shape /\ Shape' /\ Where'
  BY <1>1 DEF FilesInv, Shape, Typed
<1>3. CASE Next
  <2>1. Begun /\ Begun'
    BY <1>2, <1>3, BegunKept DEF HandsInv
  <2>2. SUFFICES ASSUME row' # None, flaws' = {} PROVE Heed'
    BY <1>1, <2>1 DEF HandsInv
  <2>3. flaws = {}
    BY <1>3, <2>2, FlawsGrow
  <2>4. row # None
    BY <1>2, <1>3, <2>2, ShapeRun, ShapeRecovery, ShapeOthers DEF Next, Others, Kept, Destroy
  <2>5. Heed /\ Undisturbed
    BY <1>1, <2>3, <2>4 DEF HandsInv, FilesInv, Filed, Without
  <2>6. ASSUME NEW t \in Task, Runs(t) \/ Segment(t) \/ Poll(t) \/ Outage(t) PROVE Heed'
    BY <1>2, <2>2, <2>3, <2>4, <2>5, <2>6, HeedRun
  <2>7. CASE Recovers
    BY <1>2, <2>1, <2>2, <2>3, <2>4, <2>5, <2>7, HeedRecovery
  <2>8. CASE Others
    BY <1>2, <2>2, <2>3, <2>4, <2>5, <2>8, HeedOthers
  <2>9. QED  BY <1>3, <2>6, <2>7, <2>8 DEF Next, Others
<1>4. CASE UNCHANGED vars
  BY <1>1, <1>4 DEF vars, tasks, disk, rec, rest, HandsInv, Begun, Heed, Taken, Awaited, Is,
      SomeLives
<1>5. QED  BY <1>3, <1>4

\* The state part of EndsAtLast, for any number of runs and restarts: a recording with the
\* status "recording" is never left to nobody. A run of the task has it, or a recovery is
\* to come, is asked for or has found it, unless one of the flaws has happened: their
\* list is complete (tasks.py: run_recording, recover_recordings_on_startup; celery.py:
\* on_worker_ready).
THEOREM NeverForsaken == Spec => []Attended
<1>1. HandsInv => Attended
  BY DEF HandsInv, Heed, Attended, Is
<1>2. QED  BY <1>1, HandsInit, HandsNext, PTL DEF Spec
=============================================================================
