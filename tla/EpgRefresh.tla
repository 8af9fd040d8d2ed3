----------------------------- MODULE EpgRefresh -----------------------------
(* The programme guide of one XMLTV source (apps/epg/tasks.py): the refresh  *)
(* of the whole source, the parse of one guide that a channel has just been  *)
(* given, and the build of the byte offset index, as Celery tasks that run   *)
(* at once in several workers. They keep out of each other's way with task   *)
(* locks (core/utils.py) and a counter of running parses; one that must wait *)
(* puts itself back on the queue with a countdown.                           *)
(*                                                                           *)
(* A file is the number of the provider's edition it holds, and every        *)
(* edition has programmes for every guide. The rows of a guide are the       *)
(* editions its programmes come from: more than one when two transactions    *)
(* added theirs. A transaction is its DELETEs, which see what is committed,  *)
(* and its commit, which removes what they saw and adds the new rows         *)
(* (PostgreSQL's READ COMMITTED).                                            *)
EXTENDS Integers, FiniteSets

CONSTANTS
  Guide,        \* the EPGData rows of the source
  Worker,       \* Celery worker processes
  None,
  Lapsing,      \* task locks whose renewer may come too late
  MaxEdition,   \* bound: editions of the provider
  MaxRefreshes, \* bound: refreshes that are asked for
  MaxBuilds,    \* bound: index builds that a look at the guide asks for
  MaxMaps,      \* [Guide -> Nat], bound: how often each guide is given to a channel
  MaxTrouble    \* bound: downloads that fail, workers that die, locks that lapse

ASSUME EpgAssumption ==
  /\ Lapsing \subseteq {"refresh", "file"} \cup Guide
  /\ None \notin {"refresh", "index"} \cup Guide /\ \A S \in SUBSET Guide : None # S
  /\ {"refresh", "index", "file"} \cap Guide = {}
  /\ MaxEdition \in Nat \ {0} /\ MaxRefreshes \in Nat /\ MaxBuilds \in Nat
  /\ MaxMaps \in [Guide -> Nat] /\ MaxTrouble \in Nat

VARIABLES
  locks,        \* task locks that are set: refresh_epg_data, epg_source_file, parse_epg_programs
  count,        \* epg_source_tvg_parse: parses in progress
  queue,        \* [Job -> Nat]: messages of each task, waiting or counting down
  edition,      \* the provider's newest edition that was downloaded
  file,         \* edition of the XML file on disk, 0 when there is none
  index,        \* edition the stored offsets point into, or None
  failed,       \* BOOLEAN: the status of the source is an error
  mapped,       \* guides that a channel has now
  rows,         \* [Guide -> SUBSET edition]: ProgramData
  at, job,      \* of each worker: place, and the task it runs or None
  read,         \* of each worker: the edition it holds (downloaded, parsed or scanned)
  ids,          \* of each worker: mapped_epg_ids of its bulk parse, or None
  unmapped,     \* of each worker: unmapped_epg_ids of its orphan cleanup
  gone,         \* of each worker: [Guide -> SUBSET edition] its DELETEs took
  refreshes, builds, maps, trouble      \* counters of the bounds

source == <<edition, file, index, failed>>
guides == <<mapped, rows>>
task == <<read, ids, unmapped, gone>>
counts == <<refreshes, builds, maps, trouble>>
guideVars == <<locks, count, queue, edition, file, index, failed, mapped, rows, at, job, read,
          ids, unmapped, gone, refreshes, builds, maps, trouble>>

Job == {"refresh", "index"} \cup Guide
Lock == {"refresh", "file"} \cup Guide
Edition == 1 .. MaxEdition

\* Places at which a task holds the lock of the source's refresh, of its file,
\* and of a guide.
Refreshing == {"invalidate", "count", "lock", "download", "store", "snapshot", "read",
               "reopen", "delete", "orphans", "commit", "late", "unlock", "release"}
WithFile == {"download", "store", "snapshot", "read", "reopen", "delete", "orphans", "commit",
             "late", "scan", "save", "unlock"}
Parsing == {"check", "open", "download", "store", "reopen", "delete", "commit", "unlock"}
Place == {"away", "incr", "lock", "decr", "zero"} \cup Refreshing \cup WithFile \cup Parsing

Holds(w, l) ==
  CASE l = "refresh" -> job[w] = "refresh" /\ at[w] \in Refreshing
    [] l = "file" -> job[w] \in {"refresh", "index"} /\ at[w] \in WithFile
    [] OTHER -> job[w] = l /\ at[w] \in Parsing
Held(l) == \E w \in Worker : Holds(w, l)

NoRows == [g \in Guide |-> {}]

GuideInit ==
  /\ mapped \in SUBSET Guide
  /\ rows = [g \in Guide |-> IF g \in mapped THEN {1} ELSE {}]
  /\ locks = {} /\ count = 0 /\ queue = [j \in Job |-> 0]
  /\ edition = 1 /\ file \in {0, 1} /\ failed = FALSE
  /\ index = None
  /\ at = [w \in Worker |-> "away"]
  /\ job = [w \in Worker |-> None]
  /\ read = [w \in Worker |-> 0]
  /\ ids = [w \in Worker |-> None]
  /\ unmapped = [w \in Worker |-> {}]
  /\ gone = [w \in Worker |-> NoRows]
  /\ refreshes = 0 /\ builds = 0 /\ trouble = 0
  /\ maps = [g \in Guide |-> 0]

(* ------------------------------- requests -------------------------------- *)

\* The schedule or a person asks for a refresh.
AskRefresh ==
  /\ refreshes < MaxRefreshes /\ refreshes' = refreshes + 1
  /\ queue' = [queue EXCEPT !["refresh"] = @ + 1]
  /\ UNCHANGED <<locks, count, source, guides, at, job, task, builds, maps, trouble>>

\* A channel is given guide g: the post_save receivers queue its parse.
Map(g) ==
  /\ g \notin mapped /\ maps[g] < MaxMaps[g]
  /\ mapped' = mapped \cup {g} /\ maps' = [maps EXCEPT ![g] = @ + 1]
  /\ queue' = [queue EXCEPT ![g] = @ + 1]
  /\ UNCHANGED <<locks, count, source, rows, at, job, task, refreshes, builds, trouble>>

\* The last channel that had guide g gets another or none.
Unmap(g) ==
  /\ g \in mapped /\ mapped' = mapped \ {g}
  /\ UNCHANGED <<locks, count, queue, source, rows, at, job, task, counts>>

\* find_current_program_for_tvg_id finds a file and no index.
AskIndex ==
  /\ file # 0 /\ index = None /\ builds < MaxBuilds /\ builds' = builds + 1
  /\ queue' = [queue EXCEPT !["index"] = @ + 1]
  /\ UNCHANGED <<locks, count, source, guides, at, job, task, refreshes, maps, trouble>>

(* ---------------------------- steps of a task ----------------------------- *)

GoTo(w, place) == at' = [at EXCEPT ![w] = place]

\* The task of w is over.
Ends(w) ==
  /\ GoTo(w, "away") /\ job' = [job EXCEPT ![w] = None]
  /\ read' = [read EXCEPT ![w] = 0] /\ ids' = [ids EXCEPT ![w] = None]
  /\ unmapped' = [unmapped EXCEPT ![w] = {}] /\ gone' = [gone EXCEPT ![w] = NoRows]

\* Worker w takes a message of task j from the queue.
Takes(w, j, place) ==
  /\ at[w] = "away" /\ queue[j] > 0
  /\ queue' = [queue EXCEPT ![j] = @ - 1]
  /\ IF place = "away" THEN UNCHANGED <<at, job>>
     ELSE GoTo(w, place) /\ job' = [job EXCEPT ![w] = j]

\* refresh_epg_data: a refresh that runs already makes this one unnecessary.
TakeRefresh(w) ==
  /\ Takes(w, "refresh", IF "refresh" \in locks THEN "away" ELSE "invalidate")
  /\ locks' = locks \cup {"refresh"}
  /\ UNCHANGED <<count, source, guides, task, counts>>

\* Mutant: a parse that meets a refresh is not put back.
TakeParseOnce(w, g) ==
  /\ Takes(w, g, IF "refresh" \in locks THEN "away" ELSE "incr")
  /\ UNCHANGED <<locks, count, source, guides, task, counts>>

\* parse_programs_for_tvg_id while no refresh runs; otherwise it is deferred, and
\* the message stays on the queue.
TakeParse(w, g) ==
  /\ "refresh" \notin locks /\ Takes(w, g, "incr")
  /\ UNCHANGED <<locks, count, source, guides, task, counts>>

\* build_programme_index_task, deferred likewise while the file is in use.
TakeIndex(w) ==
  /\ "file" \notin locks /\ Takes(w, "index", "scan")
  /\ locks' = locks \cup {"file"}
  /\ UNCHANGED <<count, source, guides, task, counts>>

(* ------------------------- refresh_epg_data_impl -------------------------- *)

At(w, j, place) == job[w] = j /\ at[w] = place

Invalidate(w) ==
  /\ At(w, "refresh", "invalidate") /\ GoTo(w, "count") /\ index' = None
  /\ UNCHANGED <<locks, count, queue, edition, file, failed, guides, job, task, counts>>

\* A refresh that is deferred is put back on the queue before it releases its lock.
Defers(w) == GoTo(w, "release") /\ queue' = [queue EXCEPT !["refresh"] = @ + 1]

CheckCount(w) ==
  /\ At(w, "refresh", "count")
  /\ IF count > 0 THEN Defers(w) ELSE GoTo(w, "lock") /\ UNCHANGED queue
  /\ UNCHANGED <<locks, count, source, guides, job, task, counts>>

LockFile(w) ==
  /\ At(w, "refresh", "lock") /\ locks' = locks \cup {"file"}
  /\ IF "file" \in locks THEN Defers(w) ELSE GoTo(w, "download") /\ UNCHANGED queue
  /\ UNCHANGED <<count, source, guides, job, task, counts>>

\* fetch_xmltv has the edition of the day in a temporary file, and removes the old file.
Download(w) ==
  /\ at[w] = "download" /\ GoTo(w, "store")
  /\ edition' \in {edition, edition + 1} \cap Edition
  /\ read' = [read EXCEPT ![w] = edition'] /\ file' = 0
  /\ UNCHANGED <<locks, count, queue, index, failed, guides, job, ids, unmapped, gone,
                 counts>>

\* The task gives up, and the source says why.
Fails(w) == GoTo(w, "unlock") /\ failed' = TRUE /\ ids' = [ids EXCEPT ![w] = None]

DownloadFails(w) ==
  /\ at[w] = "download" /\ trouble < MaxTrouble /\ trouble' = trouble + 1
  /\ Fails(w)
  /\ UNCHANGED <<locks, count, queue, edition, file, index, guides, job, read, unmapped,
                 gone, refreshes, builds, maps>>

\* The file gets its name. A refresh goes on to its channels; a parse, and a
\* refresh that missed the file later, to its programmes.
Store(w) ==
  /\ at[w] = "store" /\ file' = read[w] /\ failed' = FALSE
  /\ GoTo(w, IF job[w] = "refresh" /\ ids[w] = None THEN "snapshot" ELSE "reopen")
  /\ UNCHANGED <<locks, count, queue, edition, index, guides, job, task, counts>>

\* The file that was fetched because it was missing may be missing again.
Reopen(w) ==
  /\ at[w] = "reopen"
  /\ IF file = 0 THEN Fails(w) /\ UNCHANGED read
     ELSE /\ GoTo(w, "delete") /\ read' = [read EXCEPT ![w] = file]
          /\ UNCHANGED <<failed, ids>>
  /\ UNCHANGED <<locks, count, queue, edition, file, index, guides, job, unmapped, gone,
                 counts>>

\* parse_programs_for_source: nothing to do when no channel has a guide of the source.
Snapshot(w) ==
  /\ At(w, "refresh", "snapshot") /\ failed' = FALSE
  /\ ids' = [ids EXCEPT ![w] = mapped]
  /\ GoTo(w, IF mapped = {} THEN "unlock" ELSE "read")
  /\ UNCHANGED <<locks, count, queue, edition, file, index, guides, job, read, unmapped,
                 gone, counts>>

ReadFile(w) ==
  /\ At(w, "refresh", "read")
  /\ IF file = 0 THEN GoTo(w, "download") /\ UNCHANGED read
     ELSE GoTo(w, "delete") /\ read' = [read EXCEPT ![w] = file]
  /\ UNCHANGED <<locks, count, queue, source, guides, job, ids, unmapped, gone, counts>>

\* _swap_staged_epg_programs: the old rows of the guides that were parsed, then
\* those of the guides that have no channel now.
DeleteReplaced(w) ==
  /\ At(w, "refresh", "delete") /\ GoTo(w, "orphans")
  /\ gone' = [gone EXCEPT ![w] = [g \in Guide |-> IF g \in ids[w] THEN rows[g] ELSE {}]]
  /\ unmapped' = [unmapped EXCEPT ![w] = Guide \ mapped]
  /\ UNCHANGED <<locks, count, queue, source, guides, job, read, ids, counts>>

DeleteOrphans(w) ==
  /\ At(w, "refresh", "orphans") /\ GoTo(w, "commit")
  /\ gone' = [gone EXCEPT ![w] =
                [g \in Guide |-> IF g \in unmapped[w] THEN @[g] \cup rows[g] ELSE @[g]]]
  /\ UNCHANGED <<locks, count, queue, source, guides, job, read, ids, unmapped, counts>>

Commits(w, added) ==
  rows' = [g \in Guide |-> (rows[g] \ gone[w][g]) \cup (IF g \in added THEN {read[w]} ELSE {})]

CommitSwap(w) ==
  /\ At(w, "refresh", "commit") /\ GoTo(w, "late") /\ Commits(w, ids[w]) /\ failed' = FALSE
  /\ UNCHANGED <<locks, count, queue, edition, file, index, mapped, job, task, counts>>

\* _dispatch_late_mapped_epg_parses.
DispatchLate(w) ==
  /\ At(w, "refresh", "late") /\ GoTo(w, "unlock")
  /\ queue' = [j \in Job |-> queue[j] + (IF j \in mapped \ ids[w] THEN 1 ELSE 0)]
  /\ UNCHANGED <<locks, count, source, guides, job, task, counts>>

\* The file lock is released; a refresh that went well asks for an index.
UnlockFile(w) ==
  /\ At(w, "refresh", "unlock") /\ GoTo(w, "release")
  /\ locks' = locks \ {"file"}
  /\ queue' = IF ids[w] = None THEN queue ELSE [queue EXCEPT !["index"] = @ + 1]
  /\ UNCHANGED <<count, source, guides, job, task, counts>>

UnlockRefresh(w) ==
  /\ At(w, "refresh", "release") /\ Ends(w)
  /\ locks' = locks \ {"refresh"}
  /\ UNCHANGED <<count, queue, source, guides, counts>>

(* ----------------------- parse_programs_for_tvg_id ------------------------ *)

Incr(w) ==
  /\ at[w] = "incr" /\ GoTo(w, "lock") /\ count' = count + 1
  /\ UNCHANGED <<locks, queue, source, guides, job, task, counts>>

\* A guide that is being parsed is not parsed twice.
LockParse(w) ==
  /\ job[w] \in Guide /\ at[w] = "lock" /\ locks' = locks \cup {job[w]}
  /\ GoTo(w, IF job[w] \in locks THEN "decr" ELSE "check")
  /\ UNCHANGED <<count, queue, source, guides, job, task, counts>>

\* Mutant: the early return is outside of the try that counts the parse off.
CheckMappedReturns(w) ==
  /\ at[w] = "check"
  /\ IF job[w] \in mapped THEN GoTo(w, "open") /\ UNCHANGED <<job, task>> ELSE Ends(w)
  /\ UNCHANGED <<locks, count, queue, source, guides, counts>>

\* Without force, a guide that has no channel is left as it is.
CheckMapped(w) ==
  /\ at[w] = "check" /\ GoTo(w, IF job[w] \in mapped THEN "open" ELSE "unlock")
  /\ UNCHANGED <<locks, count, queue, source, guides, job, task, counts>>

\* A file that is missing is fetched, without its lock.
OpenFile(w) ==
  /\ at[w] = "open"
  /\ IF file = 0 THEN GoTo(w, "download") /\ UNCHANGED read
     ELSE GoTo(w, "delete") /\ read' = [read EXCEPT ![w] = file]
  /\ UNCHANGED <<locks, count, queue, source, guides, job, ids, unmapped, gone, counts>>

DeleteOld(w) ==
  /\ job[w] \in Guide /\ at[w] = "delete" /\ GoTo(w, "commit")
  /\ gone' = [gone EXCEPT ![w][job[w]] = rows[job[w]]]
  /\ UNCHANGED <<locks, count, queue, source, guides, job, read, ids, unmapped, counts>>

CommitParse(w) ==
  /\ job[w] \in Guide /\ at[w] = "commit" /\ GoTo(w, "unlock") /\ Commits(w, {job[w]})
  /\ UNCHANGED <<locks, count, queue, source, mapped, job, task, counts>>

UnlockParse(w) ==
  /\ job[w] \in Guide /\ at[w] = "unlock" /\ GoTo(w, "decr") /\ locks' = locks \ {job[w]}
  /\ UNCHANGED <<count, queue, source, guides, job, task, counts>>

\* Mutant: DEL only at zero.
DecrAtZero(w) ==
  /\ at[w] = "decr" /\ count' = count - 1
  /\ IF count' = 0 THEN GoTo(w, "zero") /\ UNCHANGED <<job, task>> ELSE Ends(w)
  /\ UNCHANGED <<locks, queue, source, guides, counts>>

\* DECR, and DEL when it answers zero or less.
Decr(w) ==
  /\ at[w] = "decr" /\ count' = count - 1
  /\ IF count' <= 0 THEN GoTo(w, "zero") /\ UNCHANGED <<job, task>> ELSE Ends(w)
  /\ UNCHANGED <<locks, queue, source, guides, counts>>

Zero(w) ==
  /\ at[w] = "zero" /\ Ends(w) /\ count' = 0
  /\ UNCHANGED <<locks, queue, source, guides, counts>>

(* ----------------------- build_programme_index_task ----------------------- *)

Scan(w) ==
  /\ at[w] = "scan" /\ read' = [read EXCEPT ![w] = file]
  /\ GoTo(w, IF file = 0 THEN "unlock" ELSE "save")
  /\ UNCHANGED <<locks, count, queue, source, guides, job, ids, unmapped, gone, counts>>

SaveIndex(w) ==
  /\ at[w] = "save" /\ GoTo(w, "unlock") /\ index' = read[w]
  /\ UNCHANGED <<locks, count, queue, edition, file, failed, guides, job, task, counts>>

UnlockIndex(w) ==
  /\ At(w, "index", "unlock") /\ Ends(w) /\ locks' = locks \ {"file"}
  /\ UNCHANGED <<count, queue, source, guides, counts>>

(* -------------------------------- trouble --------------------------------- *)

\* The worker of a refresh or of a build dies: its message is acknowledged
\* already, its locks stay, an open transaction is rolled back.
Dies(w) ==
  /\ job[w] \in {"refresh", "index"} /\ trouble < MaxTrouble /\ trouble' = trouble + 1
  /\ Ends(w)
  /\ UNCHANGED <<locks, count, queue, source, guides, refreshes, builds, maps>>

\* Nobody renews the lock of a task that died.
Expires(l) ==
  /\ l \in locks /\ ~Held(l) /\ locks' = locks \ {l}
  /\ UNCHANGED <<count, queue, source, guides, at, job, task, counts>>

\* The thread that renews a lock comes too late; the task goes on.
Lapses(l) ==
  /\ l \in locks \cap Lapsing /\ Held(l) /\ trouble < MaxTrouble /\ trouble' = trouble + 1
  /\ locks' = locks \ {l}
  /\ UNCHANGED <<count, queue, source, guides, at, job, task, refreshes, builds, maps>>

(* ----------------------------- specification ------------------------------ *)

Take(w) == TakeRefresh(w) \/ TakeIndex(w) \/ \E g \in Guide : TakeParse(w, g)

Refreshes(w) ==
  \/ Invalidate(w) \/ CheckCount(w) \/ LockFile(w) \/ Download(w) \/ Store(w) \/ Reopen(w)
  \/ Snapshot(w) \/ ReadFile(w) \/ DeleteReplaced(w) \/ DeleteOrphans(w) \/ CommitSwap(w)
  \/ DispatchLate(w) \/ UnlockFile(w) \/ UnlockRefresh(w)

Parses(w) ==
  \/ Incr(w) \/ LockParse(w) \/ CheckMapped(w) \/ OpenFile(w) \/ DeleteOld(w)
  \/ CommitParse(w) \/ UnlockParse(w) \/ Decr(w) \/ Zero(w)

Builds(w) == Scan(w) \/ SaveIndex(w) \/ UnlockIndex(w)

GuideNext ==
  \/ AskRefresh \/ AskIndex
  \/ \E g \in Guide : Map(g) \/ Unmap(g)
  \/ \E w \in Worker : Take(w) \/ Refreshes(w) \/ Parses(w) \/ Builds(w) \/ DownloadFails(w)
                       \/ Dies(w)
  \/ \E l \in Lock : Expires(l) \/ Lapses(l)

GuideSpec == GuideInit /\ [][GuideNext]_guideVars

\* A task that runs goes on, a message is taken when its countdown is over, and
\* a lock that nobody renews expires.
FairGuideSpec ==
  /\ GuideSpec
  /\ \A w \in Worker : WF_guideVars(Refreshes(w) \/ Parses(w) \/ Builds(w))
  /\ \A j \in Job : WF_guideVars(\E w \in Worker :
       IF j = "refresh" THEN TakeRefresh(w)
       ELSE IF j = "index" THEN TakeIndex(w) ELSE TakeParse(w, j))
  /\ \A l \in Lock : WF_guideVars(Expires(l))

(* ------------------------------- properties ------------------------------- *)

\* The types of the state. A counter that is deleted too often is 0, never less
\* when no parse is between its DECR and its DEL.
GuideTypeOK ==
  /\ locks \subseteq Lock
  /\ count \in -Cardinality(Worker) .. Cardinality(Worker)
  /\ count < 0 => \E w \in Worker : at[w] = "zero"
  /\ queue \in [Job -> Nat]
  /\ edition \in Edition /\ file \in 0 .. edition /\ index \in Edition \cup {None}
  /\ failed \in BOOLEAN
  /\ mapped \subseteq Guide /\ rows \in [Guide -> SUBSET Edition]
  /\ at \in [Worker -> Place] /\ job \in [Worker -> Job \cup {None}]
  /\ read \in [Worker -> 0 .. edition] /\ ids \in [Worker -> (SUBSET Guide) \cup {None}]
  /\ unmapped \in [Worker -> SUBSET Guide]
  /\ gone \in [Worker -> [Guide -> SUBSET Edition]]

\* A guide that a channel is given gets its programmes, however its parse, a
\* refresh and a build meet, although a refresh dies half way or a lock of the
\* file or of the guide lapses under its task, unless the file cannot be had and
\* the source says so.
MappedFilled ==
  \A g \in Guide :
    (queue[g] > 0 /\ g \in mapped) ~> (rows[g] # {} \/ g \notin mapped \/ failed)

\* Every refresh that is asked for comes to an end: parses, builds and refreshes
\* that put each other off do not do so for ever.
RefreshesEnd ==
  queue["refresh"] > 0 ~>
    (queue["refresh"] = 0 /\ \A w \in Worker : job[w] # "refresh")
=============================================================================
