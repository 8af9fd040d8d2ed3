-------------------------- MODULE StreamAssignment --------------------------
(* Which stream and provider profile a live session plays, and who gives its *)
(* slot back: get_stream and release_stream of Channel and of Stream         *)
(* (apps/channels/models.py), as stream_ts starts a session and stop_channel *)
(* ends it, from several workers.                                            *)
(*                                                                           *)
(* A session is a channel, or the preview of one stream. The assignment is   *)
(* in two Redis keys: channel_stream:{id} and stream_profile:{stream}, with  *)
(* a copy in the session's metadata hash. A preview writes channel_stream    *)
(* under the id of its STREAM, in the same name space as channel ids.        *)
(* Reserving and releasing a slot are atomic here: ConnectionPool shows that *)
(* the counters of a profile are a semaphore.                                *)
EXTENDS Integers, FiniteSets

CONSTANTS
  Worker,       \* uWSGI workers, each busy with one request or one stop
  Channel,      \* ids of Channel rows
  Stream,       \* ids of Stream rows; ids of channels and of streams overlap
  Preview,      \* SUBSET Stream: the streams that are previewed
  Profile,
  StreamsOf,    \* [Channel -> SUBSET Stream]
  ProfilesOf,   \* [Stream -> SUBSET Profile]: the profiles of its account
  MaxStreams,   \* [Profile -> Nat \ {0}]
  MaxGranted,   \* bound of the ghost granted, to either side
  None

\* live: its state is one of those in which the proxy runs, INITIALIZING to ACTIVE.
Metadata == [stream_id : Stream \cup {None}, m3u_profile : Profile \cup {None}, live : BOOLEAN]

ASSUME AssignmentAssumption ==
  /\ Preview \subseteq Stream
  /\ StreamsOf \in [Channel -> SUBSET Stream]
  /\ ProfilesOf \in [Stream -> SUBSET Profile]
  /\ MaxStreams \in [Profile -> Nat \ {0}]
  /\ MaxGranted \in Nat \ {0}
  /\ None \notin Stream \cup Profile \cup Worker \cup Metadata
  /\ Channel \cup Preview # {}

Session == ({"channel"} \X Channel) \cup ({"preview"} \X Preview)
IsChannel(s) == s[1] = "channel"
Id(s) == s[2]

VARIABLES
  channel_stream,   \* [Channel \cup Stream -> Stream \cup {None}]
  stream_profile,   \* [Stream -> Profile \cup {None}]
  metadata,         \* [Session -> the hash live:channel:{uuid}:metadata, or None]
  owner,            \* [Session -> Worker \cup {None}]
  stopping,         \* [Session -> BOOLEAN]: the key live:channel:{uuid}:stopping
  slots,            \* [Profile -> Int]: profile_connections
  pc, ses, stream, profile, reserved, then,   \* of each worker
  granted,          \* slots counted for a session and not released by it (ghost)
  crossed           \* SUBSET Session: two workers were busy with it at once (ghost)

keys == <<channel_stream, stream_profile>>
live == <<metadata, owner, stopping>>
pool == <<slots, granted>>
vars == <<channel_stream, stream_profile, metadata, owner, stopping, slots,
          pc, ses, stream, profile, reserved, then, granted, crossed>>

PC == {"idle", "get_stream", "drop_stale", "choose", "set_profile", "read_back",
       "initialize", "copy", "find", "find_copy", "forget_stream", "get_profile", "forget_profile", "get_copy",
       "release", "forget_copy", "orphan", "clean"}

Goto(w, l) == pc' = [pc EXCEPT ![w] = l]
Set(f, x, v) == [f EXCEPT ![x] = v]

Live(s) == metadata[s] # None /\ metadata[s].live
Field(s, f) == IF metadata[s] = None THEN None ELSE metadata[s][f]
\* HSET of the values that are there; it creates the hash when there is none.
Stored(s, t, p, running) ==
  LET or(v, f) == IF v # None THEN v ELSE Field(s, f)
  IN  Set(metadata, s, [stream_id |-> or(t, "stream_id"), m3u_profile |-> or(p, "m3u_profile"),
                        live |-> running])

\* Profiles may be full, of streams that are not modelled (films, catch-up).
Init ==
  /\ channel_stream = [i \in Channel \cup Stream |-> None]
  /\ stream_profile = [s \in Stream |-> None]
  /\ metadata = [s \in Session |-> None]
  /\ owner = [s \in Session |-> None]
  /\ stopping = [s \in Session |-> FALSE]
  /\ \E taken \in SUBSET Profile : slots = [p \in Profile |-> IF p \in taken THEN MaxStreams[p] ELSE 0]
  /\ pc = [w \in Worker |-> "idle"]
  /\ ses \in [Worker -> {CHOOSE s \in Session : TRUE}]
  /\ stream = [w \in Worker |-> None]
  /\ profile = [w \in Worker |-> None]
  /\ reserved = [w \in Worker |-> FALSE]
  /\ then = [w \in Worker |-> "clean"]
  /\ granted = [s \in Session |-> [p \in Profile |-> 0]]
  /\ crossed = {}

\* The slot of p is counted for, or released by, session s. release_profile_slot
\* does not go below zero.
Grant(s, p) ==
  /\ slots' = Set(slots, p, slots[p] + 1)
  /\ granted' = [granted EXCEPT ![s][p] = IF @ < MaxGranted THEN @ + 1 ELSE @]
GiveBack(s, p) ==
  /\ slots' = IF slots[p] > 0 THEN Set(slots, p, slots[p] - 1) ELSE slots
  /\ granted' = [granted EXCEPT ![s][p] = IF @ > -MaxGranted THEN @ - 1 ELSE @]

Rest(w) ==
  /\ Goto(w, "idle")
  /\ ses' = Set(ses, w, CHOOSE s \in Session : TRUE)
  /\ stream' = Set(stream, w, None)
  /\ profile' = Set(profile, w, None)
  /\ reserved' = Set(reserved, w, FALSE)
  /\ then' = Set(then, w, "clean")

(***************************************************************************)
(* Starting: stream_ts                                                      *)
(***************************************************************************)
\* _channel_setup_needed, the checks for a teardown and try_acquire_ownership.
Claim(w, s) ==
  /\ pc[w] = "idle"
  /\ metadata[s] = None /\ ~stopping[s] /\ owner[s] = None
  /\ owner' = Set(owner, s, w)
  /\ ses' = Set(ses, w, s)
  /\ Goto(w, "get_stream")
  /\ UNCHANGED <<keys, metadata, stopping, pool, stream, profile, reserved, then>>

\* check_if_channel_exists, of any request for s: an ownership lock without metadata
\* is taken for a leftover, and everything of s is cleaned.
CleanOrphanedKeys(w, s) ==
  /\ pc[w] = "idle"
  /\ metadata[s] = None /\ ~stopping[s] /\ owner[s] # None
  /\ ses' = Set(ses, w, s)
  /\ Goto(w, "find")
  /\ UNCHANGED <<keys, live, pool, stream, profile, reserved, then>>

\* What get_stream finds: a Channel its channel_stream, a Stream itself.
Assigned(s) == IF IsChannel(s) THEN channel_stream[Id(s)] ELSE Id(s)
HasProfile(s) == Assigned(s) # None /\ stream_profile[Assigned(s)] # None

\* _stream_assignment_is_reusable: while the proxy is active, and while its profile
\* is known and no metadata is written yet.
Reusable(s) == Live(s) \/ (metadata[s] = None /\ HasProfile(s))

Reuse(w) ==
  /\ pc[w] = "get_stream"
  /\ HasProfile(ses[w])
  /\ IsChannel(ses[w]) => Reusable(ses[w])
  /\ stream' = Set(stream, w, Assigned(ses[w]))
  /\ profile' = Set(profile, w, stream_profile[Assigned(ses[w])])
  /\ Goto(w, "read_back")
  /\ UNCHANGED <<keys, live, pool, ses, reserved, then>>

\* _release_stale_stream_assignment: the profile from its key or from the copy.
FindStale(w) ==
  /\ pc[w] = "get_stream"
  /\ IsChannel(ses[w])
  /\ Assigned(ses[w]) # None /\ ~Reusable(ses[w])
  /\ stream' = Set(stream, w, Assigned(ses[w]))
  /\ profile' = Set(profile, w, IF HasProfile(ses[w]) THEN stream_profile[Assigned(ses[w])]
                                ELSE Field(ses[w], "m3u_profile"))
  /\ Goto(w, "drop_stale")
  /\ UNCHANGED <<keys, live, pool, ses, reserved, then>>

\* release_profile_slot, if the profile is known, and DEL of both keys.
DropStale(w) ==
  /\ pc[w] = "drop_stale"
  /\ IF profile[w] = None THEN UNCHANGED pool ELSE GiveBack(ses[w], profile[w])
  /\ channel_stream' = Set(channel_stream, Id(ses[w]), None)
  /\ stream_profile' = Set(stream_profile, stream[w], None)
  /\ stream' = Set(stream, w, None)
  /\ profile' = Set(profile, w, None)
  /\ Goto(w, "choose")
  /\ UNCHANGED <<live, ses, reserved, then>>

\* Nothing is assigned, or what is assigned is active and has lost its profile.
StartFresh(w) ==
  /\ pc[w] = "get_stream"
  /\ ~HasProfile(ses[w])
  /\ IsChannel(ses[w]) => Assigned(ses[w]) = None \/ Reusable(ses[w])
  /\ Goto(w, "choose")
  /\ UNCHANGED <<keys, live, pool, ses, stream, profile, reserved, then>>

StreamsFor(s) == IF IsChannel(s) THEN StreamsOf[Id(s)] ELSE {Id(s)}
Candidates(s) == {c \in StreamsFor(s) \X Profile : c[2] \in ProfilesOf[c[1]]}

\* Mutants of Assign: the reservation's answer is ignored; the assignment is
\* stored under the id of the stream.
AssignUnchecked(w, t, p) ==
  /\ pc[w] = "choose"
  /\ <<t, p>> \in Candidates(ses[w])
  /\ Grant(ses[w], p)
  /\ channel_stream' = Set(channel_stream, Id(ses[w]), t)
  /\ stream' = Set(stream, w, t)
  /\ profile' = Set(profile, w, p)
  /\ reserved' = Set(reserved, w, TRUE)
  /\ Goto(w, "set_profile")
  /\ UNCHANGED <<stream_profile, live, ses, then>>
AssignUnderStream(w, t, p) ==
  /\ pc[w] = "choose"
  /\ <<t, p>> \in Candidates(ses[w])
  /\ slots[p] < MaxStreams[p]
  /\ Grant(ses[w], p)
  /\ channel_stream' = Set(channel_stream, t, t)
  /\ stream' = Set(stream, w, t)
  /\ profile' = Set(profile, w, p)
  /\ reserved' = Set(reserved, w, TRUE)
  /\ Goto(w, "set_profile")
  /\ UNCHANGED <<stream_profile, live, ses, then>>

\* The first profile with a free slot, in an order that is the user's. SET of
\* channel_stream, for a preview under the id of the stream.
Assign(w, t, p) ==
  /\ pc[w] = "choose"
  /\ <<t, p>> \in Candidates(ses[w])
  /\ slots[p] < MaxStreams[p]
  /\ Grant(ses[w], p)
  /\ channel_stream' = Set(channel_stream, Id(ses[w]), t)
  /\ stream' = Set(stream, w, t)
  /\ profile' = Set(profile, w, p)
  /\ reserved' = Set(reserved, w, TRUE)
  /\ Goto(w, "set_profile")
  /\ UNCHANGED <<stream_profile, live, ses, then>>

\* All full: release_ownership(signal_stopping=False), and a 503.
NoSlot(w) ==
  /\ pc[w] = "choose"
  /\ \A c \in Candidates(ses[w]) : slots[c[2]] >= MaxStreams[c[2]]
  /\ owner' = IF owner[ses[w]] = w THEN Set(owner, ses[w], None) ELSE owner
  /\ Rest(w)
  /\ UNCHANGED <<keys, metadata, stopping, pool>>

SetProfile(w) ==
  /\ pc[w] = "set_profile"
  /\ stream_profile' = Set(stream_profile, stream[w], profile[w])
  /\ Goto(w, "read_back")
  /\ UNCHANGED <<channel_stream, live, pool, ses, stream, profile, reserved, then>>

\* stream_ts reads the assignment from Redis again.
ReadBack(w) ==
  /\ pc[w] = "read_back"
  /\ LET t == channel_stream[Id(ses[w])] IN
       /\ stream' = Set(stream, w, t)
       /\ profile' = Set(profile, w, IF t = None THEN None ELSE stream_profile[t])
  /\ Goto(w, "initialize")
  /\ UNCHANGED <<keys, live, pool, ses, reserved, then>>

\* initialize_channel: the stream id first, then, unless the channel runs already or
\* another worker owns it (this one follows), the ownership and a live state.
Initialize(w) ==
  /\ pc[w] = "initialize"
  /\ ~stopping[ses[w]]
  /\ LET s == ses[w]
         follow == Live(s) \/ owner[s] \notin {None, w} IN
       /\ owner' = IF follow THEN owner ELSE Set(owner, s, w)
       /\ metadata' = IF follow /\ stream[w] = None THEN metadata
                      ELSE Stored(s, stream[w], None, Live(s) \/ ~follow)
  /\ Goto(w, "copy")
  /\ UNCHANGED <<keys, stopping, pool, ses, stream, profile, reserved, then>>

\* HSET of STREAM_ID and M3U_PROFILE after it, and of names, so always a hash.
Copy(w) ==
  /\ pc[w] = "copy"
  /\ metadata' = Stored(ses[w], stream[w], profile[w], Live(ses[w]))
  /\ Rest(w)
  /\ UNCHANGED <<keys, owner, stopping, pool>>

\* Mutant of GiveUp: what the request reserved stays reserved.
GiveUpWithSlot(w) ==
  /\ pc[w] = "initialize"
  /\ stream' = Set(stream, w, None)
  /\ profile' = Set(profile, w, None)
  /\ then' = Set(then, w, "abort")
  /\ Goto(w, "clean")
  /\ UNCHANGED <<keys, live, pool, ses, reserved>>

\* No URL, a redirect, or a teardown that began meanwhile: the request releases
\* what it reserved, and starts nothing.
GiveUp(w) ==
  /\ pc[w] = "initialize"
  /\ stream' = Set(stream, w, None)
  /\ profile' = Set(profile, w, None)
  /\ then' = Set(then, w, "abort")
  /\ Goto(w, IF reserved[w] THEN "find" ELSE "clean")
  /\ UNCHANGED <<keys, live, pool, ses, reserved>>

(***************************************************************************)
(* Ending: stop_channel, and release_stream as its first part               *)
(***************************************************************************)
\* mark_channel_stopping, then stop_channel. The workers told by its broadcast, the
\* disconnect of the last client and the API each stop the channel so.
Stop(w, s) ==
  /\ pc[w] = "idle"
  /\ metadata[s] # None
  /\ stopping' = Set(stopping, s, TRUE)
  /\ metadata' = [metadata EXCEPT ![s].live = FALSE]
  /\ ses' = Set(ses, w, s)
  /\ Goto(w, "find")
  /\ UNCHANGED <<keys, owner, pool, stream, profile, reserved, then>>

\* Channel: GET channel_stream. Stream.release_stream knows its stream.
Find(w) ==
  /\ pc[w] = "find"
  /\ LET s == ses[w]
         t == Assigned(s) IN
       /\ stream' = Set(stream, w, t)
       /\ Goto(w, CASE ~IsChannel(s) -> "get_profile"
                    [] IsChannel(s) /\ t = None -> "find_copy"
                    [] OTHER -> "forget_stream")
  /\ UNCHANGED <<keys, live, pool, ses, profile, reserved, then>>

Copied(w, f) == Field(ses[w], f)
Failed(w) == IF then[w] = "clean" THEN "orphan" ELSE "clean"

\* No channel_stream: both fields of the copy are needed.
FindCopy(w) ==
  /\ pc[w] = "find_copy"
  /\ IF Copied(w, "stream_id") # None /\ Copied(w, "m3u_profile") # None
     THEN /\ stream' = Set(stream, w, Copied(w, "stream_id"))
          /\ profile' = Set(profile, w, Copied(w, "m3u_profile"))
          /\ Goto(w, "forget_copy")
     ELSE Goto(w, Failed(w)) /\ UNCHANGED <<stream, profile>>
  /\ UNCHANGED <<keys, live, pool, ses, reserved, then>>

ForgetStream(w) ==
  /\ pc[w] = "forget_stream"
  /\ channel_stream' = Set(channel_stream, Id(ses[w]), None)
  /\ Goto(w, "get_profile")
  /\ UNCHANGED <<stream_profile, live, pool, ses, stream, profile, reserved, then>>

GetProfile(w) ==
  /\ pc[w] = "get_profile"
  /\ profile' = Set(profile, w, stream_profile[stream[w]])
  /\ Goto(w, CASE stream_profile[stream[w]] # None -> "forget_profile"
               [] IsChannel(ses[w]) /\ stream_profile[stream[w]] = None -> "get_copy"
               [] OTHER -> Failed(w))
  /\ UNCHANGED <<keys, live, pool, ses, stream, reserved, then>>

\* Mutant of ForgetProfile: stream_profile is kept.
KeepProfile(w) ==
  /\ pc[w] = "forget_profile"
  /\ Goto(w, "release")
  /\ UNCHANGED <<keys, live, pool, ses, stream, profile, reserved, then>>

ForgetProfile(w) ==
  /\ pc[w] = "forget_profile"
  /\ stream_profile' = Set(stream_profile, stream[w], None)
  /\ Goto(w, "release")
  /\ UNCHANGED <<channel_stream, live, pool, ses, stream, profile, reserved, then>>

\* stream_profile is gone: fall back on the copy.
GetCopy(w) ==
  /\ pc[w] = "get_copy"
  /\ profile' = Set(profile, w, Copied(w, "m3u_profile"))
  /\ Goto(w, IF Copied(w, "m3u_profile") # None THEN "release" ELSE Failed(w))
  /\ UNCHANGED <<keys, live, pool, ses, stream, reserved, then>>

\* release_profile_slot, then HDEL of the copy (a Channel's).
Release(w) ==
  /\ pc[w] = "release"
  /\ GiveBack(ses[w], profile[w])
  /\ profile' = Set(profile, w, None)
  /\ Goto(w, IF IsChannel(ses[w]) THEN "forget_copy" ELSE "clean")
  /\ UNCHANGED <<keys, live, ses, stream, reserved, then>>

Erased(s) == IF metadata[s] = None THEN metadata
             ELSE [metadata EXCEPT ![s].stream_id = None, ![s].m3u_profile = None]

\* HDEL after the slot was released, or, when the profile came from the copy, DEL
\* of the keys and HDEL before it is.
ForgetCopy(w) ==
  /\ pc[w] = "forget_copy"
  /\ metadata' = Erased(ses[w])
  /\ IF profile[w] = None
     THEN /\ UNCHANGED keys
          /\ Goto(w, "clean")
     ELSE /\ channel_stream' = Set(channel_stream, Id(ses[w]), None)
          /\ stream_profile' = Set(stream_profile, stream[w], None)
          /\ Goto(w, "release")
  /\ UNCHANGED <<owner, stopping, pool, ses, stream, profile, reserved, then>>

\* _release_profile_slot_from_redis_metadata, when release_stream found nothing.
ReleaseOrphan(w) ==
  /\ pc[w] = "orphan"
  /\ LET p == Copied(w, "m3u_profile") IN
       IF p = None THEN UNCHANGED <<stream_profile, metadata, pool>>
       ELSE /\ stream_profile' = IF Copied(w, "stream_id") = None THEN stream_profile
                                 ELSE Set(stream_profile, Copied(w, "stream_id"), None)
            /\ metadata' = Erased(ses[w])
            /\ GiveBack(ses[w], p)
  /\ Goto(w, "clean")
  /\ UNCHANGED <<channel_stream, owner, stopping, ses, stream, profile, reserved, then>>

\* _clean_redis_keys deletes live:channel:{uuid}:*: metadata, owner and stopping.
\* A rejected request only gives its ownership back.
Clean(w) ==
  /\ pc[w] = "clean"
  /\ LET s == ses[w] IN
       IF then[w] = "clean"
       THEN /\ metadata' = Set(metadata, s, None)
            /\ owner' = Set(owner, s, None)
            /\ stopping' = Set(stopping, s, FALSE)
       ELSE /\ owner' = IF owner[s] = w THEN Set(owner, s, None) ELSE owner
            /\ UNCHANGED <<metadata, stopping>>
  /\ Rest(w)
  /\ UNCHANGED <<keys, pool>>

Start(w) ==
  \/ \E s \in Session : Claim(w, s)
  \/ \E s \in Session : CleanOrphanedKeys(w, s)
  \/ Reuse(w)
  \/ FindStale(w)
  \/ DropStale(w)
  \/ StartFresh(w)
  \/ \E t \in Stream, p \in Profile : Assign(w, t, p)
  \/ NoSlot(w)
  \/ SetProfile(w)
  \/ ReadBack(w)
  \/ Initialize(w)
  \/ Copy(w)
  \/ GiveUp(w)

End(w) ==
  \/ \E s \in Session : Stop(w, s)
  \/ Find(w)
  \/ FindCopy(w)
  \/ ForgetStream(w)
  \/ GetProfile(w)
  \/ ForgetProfile(w)
  \/ GetCopy(w)
  \/ Release(w)
  \/ ForgetCopy(w)
  \/ ReleaseOrphan(w)
  \/ Clean(w)

\* Is worker w in a start or a stop of s?
Busy(w, s) == pc[w] # "idle" /\ ses[w] = s

Next ==
  /\ \E w \in Worker : Start(w) \/ End(w)
  /\ crossed' = crossed \cup {s \in Session : \E w, v \in Worker : w # v /\ Busy(w, s)' /\ Busy(v, s)'}

Spec == Init /\ [][Next]_vars
-----------------------------------------------------------------------------
\* The shape of the state; no profile counts more slots than it has.
TypeOK ==
  /\ channel_stream \in [Channel \cup Stream -> Stream \cup {None}]
  /\ stream_profile \in [Stream -> Profile \cup {None}]
  /\ metadata \in [Session -> Metadata \cup {None}]
  /\ owner \in [Session -> Worker \cup {None}]
  /\ stopping \in [Session -> BOOLEAN]
  /\ \A p \in Profile : slots[p] \in 0..MaxStreams[p]
  /\ pc \in [Worker -> PC]
  /\ ses \in [Worker -> Session]
  /\ stream \in [Worker -> Stream \cup {None}]
  /\ profile \in [Worker -> Profile \cup {None}]
  /\ granted \in [Session -> [Profile -> -MaxGranted..MaxGranted]]

\* "Clear metadata fields so duplicate release_stream() calls won't find them and
\* DECR again": no session gives back more slots of a profile than it was granted,
\* unless two workers were busy with it at once.
NoDoubleRelease == \A s \in Session \ crossed, p \in Profile : granted[s][p] >= 0

Quiet(s) ==
  /\ metadata[s] = None /\ owner[s] = None
  /\ \A w \in Worker : pc[w] = "idle" \/ ses[w] # s

\* A session that has ended has given back every slot it was granted, unless two
\* workers were busy with it at once.
EndedHoldsNothing == \A s \in Session \ crossed : Quiet(s) => \A p \in Profile : granted[s][p] = 0

\* A channel plays only streams that are assigned to it.
PlaysOwnStream ==
  \A c \in Channel : Field(<<"channel", c>>, "stream_id") \in StreamsOf[c] \cup {None}
=============================================================================
