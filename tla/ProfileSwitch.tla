---------------------------- MODULE ProfileSwitch ----------------------------
(* A running channel moves to another stream (StreamManager._try_next_stream *)
(* and update_url) while other requests reserve and release: the slots move  *)
(* by move_credential_slot_on_profile_switch and update_stream_profile, on   *)
(* top of the reservations and releases of ConnectionPool.                   *)
(*                                                                           *)
(* upstream[c] is the profile whose provider URL the channel really pulls;   *)
(* prof[c] is the profile its slot is counted on (stream_profile:{stream}).  *)
EXTENDS ConnectionPool

CONSTANTS
  Account,      \* [Profile -> the M3U account the profile belongs to]
  Rank,         \* [Profile -> Nat]: the order profiles are tried in, default first
  Fingerprint   \* [Profile -> the login it uses, whether or not it is pooled]

VARIABLES
  target,       \* profile_id of the chosen alternate, the one to be counted
  url,          \* m3u_profile_id of get_stream_info_for_switch, the one in the URL
  upstream,     \* the profile whose URL is pulled
  had_count     \* old_count > 0 in update_stream_profile

switching == <<target, url, upstream, had_count>>
switchVars == <<vars, switching>>

SwitchPC == {"pick_url", "move", "take_login", "undo_take", "remember_take",
             "restore_login", "undo_restore", "remember_restore", "read_old", "move_count"}

SwitchInit ==
  /\ Init
  /\ target = [c \in Conn |-> NoProfile]
  /\ url = [c \in Conn |-> NoProfile]
  /\ upstream = [c \in Conn |-> NoProfile]
  /\ had_count = [c \in Conn |-> FALSE]

(***************************************************************************)
(* Choosing: pool_has_capacity_for_profile reads the counters, and takes    *)
(* nothing.                                                                  *)
(***************************************************************************)
HasCapacity(p) ==
  \/ ~Limited(p)
  \/ /\ profile_connections[p] < MaxStreams[p]
     /\ Pooled(p) => /\ LoginOf[p] # NoLogin
                     /\ server_group_connections[LoginOf[p]] < MaxStreams[p]

\* profile_available_for_channel_switch: not checked for the profile it is on.
Available(c, p) == p = prof[c] \/ HasCapacity(p)

FirstAvailable(c, a, p) ==
  /\ Account[p] = a /\ Available(c, p)
  /\ \A q \in Profile : Account[q] = a /\ Available(c, q) => Rank[p] <= Rank[q]

\* get_alternate_streams: a stream of account a, with its first available profile.
PickAlternate(c, p) ==
  /\ pc[c] = "open"
  /\ FirstAvailable(c, Account[p], p)
  /\ target' = [target EXCEPT ![c] = p]
  /\ Goto(c, "pick_url")
  /\ UNCHANGED <<counters, local, url, upstream, had_count>>

\* get_stream_info_for_switch chooses a profile of that account again.
PickUrl(c, p) ==
  /\ pc[c] = "pick_url"
  /\ FirstAvailable(c, Account[target[c]], p)
  /\ url' = [url EXCEPT ![c] = p]
  /\ Goto(c, "move")
  /\ UNCHANGED <<counters, local, target, upstream, had_count>>

NoUrl(c) ==
  /\ pc[c] = "pick_url"
  /\ ~ \E p \in Profile : FirstAvailable(c, Account[target[c]], p)
  /\ target' = [target EXCEPT ![c] = NoProfile]
  /\ Goto(c, "open")
  /\ UNCHANGED <<counters, local, url, upstream, had_count>>

\* update_url goes on to the new URL whether or not update_stream_profile succeeded.
Reconnect(c) ==
  /\ upstream' = [upstream EXCEPT ![c] = url[c]]
  /\ target' = [target EXCEPT ![c] = NoProfile]
  /\ url' = [url EXCEPT ![c] = NoProfile]
  /\ Goto(c, "open")

(***************************************************************************)
(* The SET 0 of _safe_decr, in a release or in a move: with switches a login *)
(* can be released once too often. It may erase the INCR of another request. *)
(***************************************************************************)
ZeroLogin(c) ==
  /\ pc[c] = "zero_login"
  /\ server_group_connections' = [server_group_connections EXCEPT ![key[c]] = 0]
  /\ Goto(c, "forget")
  /\ UNCHANGED <<profile_connections, credential_release, local>>

(***************************************************************************)
(* update_stream_profile and move_credential_slot_on_profile_switch         *)
(***************************************************************************)
SameProfile(c) ==
  /\ pc[c] = "move"
  /\ target[c] = prof[c]
  /\ Reconnect(c)
  /\ UNCHANGED <<counters, local, had_count>>

\* The same provider login: its slot stays where it is, its key as well.
BeginMove(c) ==
  /\ pc[c] = "move"
  /\ target[c] # prof[c]
  /\ Goto(c, IF Fingerprint[target[c]] = Fingerprint[prof[c]] THEN "read_old" ELSE "read_key")
  /\ UNCHANGED <<counters, local, switching>>

\* _release_credential_slot_by_profile_id for the old login.
ReleaseOldLogin(c) ==
  /\ target[c] # NoProfile
  /\ \/ ReadReleaseKey(c, "take_login")
     \/ DecrementLogin(c)
     \/ ZeroLogin(c)
     \/ ForgetKey(c, "take_login")
  /\ UNCHANGED switching

\* _reserve_server_group_slot_for_profile for the new login.
TakeLogin(c, held) ==
  /\ pc[c] = "take_login"
  /\ LET p == target[c] IN
       \/ /\ ~Pooled(p)
          /\ Goto(c, "read_old")
          /\ UNCHANGED server_group_connections
       \/ /\ Pooled(p) /\ LoginOf[p] = NoLogin
          /\ Goto(c, "restore_login")
          /\ UNCHANGED server_group_connections
       \/ /\ Pooled(p) /\ LoginOf[p] # NoLogin
          /\ server_group_connections' = Bump(server_group_connections, LoginOf[p], 1)
          /\ Goto(c, IF server_group_connections[LoginOf[p]] + 1 <= MaxStreams[p] - held
                     THEN "remember_take" ELSE "undo_take")
  /\ UNCHANGED <<profile_connections, credential_release, local, switching>>

UndoTake(c) ==
  /\ pc[c] = "undo_take"
  /\ server_group_connections' = Bump(server_group_connections, LoginOf[target[c]], -1)
  /\ Goto(c, "restore_login")
  /\ UNCHANGED <<profile_connections, credential_release, local, switching>>

\* Mutant of RememberTake: the key of the new login is kept for the old profile.
RememberTakeUnderOld(c) ==
  /\ pc[c] = "remember_take"
  /\ credential_release' = [credential_release EXCEPT ![prof[c]] = LoginOf[target[c]]]
  /\ Goto(c, "read_old")
  /\ UNCHANGED <<profile_connections, server_group_connections, local, switching>>

RememberTake(c) ==
  /\ pc[c] = "remember_take"
  /\ credential_release' = [credential_release EXCEPT ![target[c]] = LoginOf[target[c]]]
  /\ Goto(c, "read_old")
  /\ UNCHANGED <<profile_connections, server_group_connections, local, switching>>

\* The new login is full: take the old one's slot again, without the holds, and
\* give the switch up. Another request may have taken it in between.
RestoreLogin(c) ==
  /\ pc[c] = "restore_login"
  /\ LET l == LoginOf[prof[c]] IN
       \/ /\ ~Pooled(prof[c]) \/ l = NoLogin
          /\ Reconnect(c)
          /\ UNCHANGED server_group_connections
       \/ /\ Pooled(prof[c]) /\ l # NoLogin
          /\ server_group_connections' = Bump(server_group_connections, l, 1)
          /\ Goto(c, IF server_group_connections[l] + 1 <= MaxStreams[prof[c]]
                     THEN "remember_restore" ELSE "undo_restore")
          /\ UNCHANGED <<target, url, upstream>>
  /\ UNCHANGED <<profile_connections, credential_release, local, had_count>>

UndoRestore(c) ==
  /\ pc[c] = "undo_restore"
  /\ server_group_connections' = Bump(server_group_connections, LoginOf[prof[c]], -1)
  /\ Reconnect(c)
  /\ UNCHANGED <<profile_connections, credential_release, local, had_count>>

RememberRestore(c) ==
  /\ pc[c] = "remember_restore"
  /\ credential_release' = [credential_release EXCEPT ![prof[c]] = LoginOf[prof[c]]]
  /\ Reconnect(c)
  /\ UNCHANGED <<profile_connections, server_group_connections, local, had_count>>

ReadOldCount(c) ==
  /\ pc[c] = "read_old"
  /\ had_count' = [had_count EXCEPT ![c] = profile_connections[prof[c]] > 0]
  /\ Goto(c, "move_count")
  /\ UNCHANGED <<counters, local, target, url, upstream>>

\* Mutant of MoveCount: the old profile is not counted down.
MoveCountUp(c) ==
  /\ pc[c] = "move_count"
  /\ profile_connections' = Bump(profile_connections, target[c], 1)
  /\ prof' = [prof EXCEPT ![c] = target[c]]
  /\ had_count' = [had_count EXCEPT ![c] = FALSE]
  /\ Reconnect(c)
  /\ UNCHANGED <<server_group_connections, credential_release, trial, key>>

\* One MULTI: DECR of the old profile if its count was positive, INCR of the new.
MoveCount(c) ==
  /\ pc[c] = "move_count"
  /\ profile_connections' =
       LET left == IF had_count[c] THEN Bump(profile_connections, prof[c], -1)
                   ELSE profile_connections
       IN  Bump(left, target[c], 1)
  /\ prof' = [prof EXCEPT ![c] = target[c]]
  /\ had_count' = [had_count EXCEPT ![c] = FALSE]
  /\ Reconnect(c)
  /\ UNCHANGED <<server_group_connections, credential_release, trial, key>>

Choose(c) ==
  \/ \E p \in Profile : PickAlternate(c, p)
  \/ \E p \in Profile : PickUrl(c, p)
  \/ NoUrl(c)

Move(c) ==
  \/ SameProfile(c)
  \/ BeginMove(c)
  \/ ReleaseOldLogin(c)
  \/ \E held \in 0..MaxHeld : TakeLogin(c, held)
  \/ UndoTake(c)
  \/ RememberTake(c)
  \/ RestoreLogin(c)
  \/ UndoRestore(c)
  \/ RememberRestore(c)
  \/ ReadOldCount(c)
  \/ MoveCount(c)

\* A stream is pulled from the profile it was opened on, until it moves or ends.
Opened(c) ==
  upstream' = [upstream EXCEPT ![c] = CASE pc'[c] = "open" /\ pc[c] # "open" -> prof'[c]
                                        [] pc'[c] = "read_key" -> NoProfile
                                        [] OTHER -> @]

PoolStep(c) ==
  /\ target[c] = NoProfile
  /\ Reserve(c) \/ Release(c) \/ ZeroLogin(c)
  /\ Opened(c)
  /\ UNCHANGED <<target, url, had_count>>

SwitchNext == \E c \in Conn : PoolStep(c) \/ Choose(c) \/ Move(c)

SwitchSpec == SwitchInit /\ [][SwitchNext]_switchVars
-----------------------------------------------------------------------------
\* The shape of the state; a release key names the login of its own profile, and a
\* channel in the middle of a switch knows where it is going.
SwitchTypeOK ==
  /\ profile_connections \in [Profile -> Int]
  /\ server_group_connections \in [Login -> Int]
  /\ pc \in [Conn -> PC \cup SwitchPC]
  /\ \A f \in {prof, target, url, upstream} : f \in [Conn -> Profile \cup {NoProfile}]
  /\ \A p \in Profile : credential_release[p] \in {NoLogin, LoginOf[p]}
  /\ \A c \in Conn : pc[c] \in SwitchPC => target[c] # NoProfile

\* Through any number of switches, the counter of a limited profile is the number
\* of requests whose slot is on it: a switch that fails half way moves nothing.
SwitchCounterExact ==
  \A p \in Profile : Limited(p) => profile_connections[p] = Cardinality(Counted(p))
=============================================================================
