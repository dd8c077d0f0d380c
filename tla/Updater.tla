------------------------------ MODULE Updater ------------------------------
(***************************************************************************)
(* The updater of the core (internal/update): checks, by the loop and by   *)
(* the page, that list the releases and record the newest one as an offer; *)
(* and Apply, which lists them again, downloads, verifies and swaps the    *)
(* binary, and then restarts the core.                                     *)
(*                                                                         *)
(* A release is its version; the maturity of its tag and whether it has    *)
(* what an installation needs are constants.                               *)
(***************************************************************************)
EXTENDS Integers

CONSTANTS
  Versions,          \* the releases, later ones greater
  Rank, Floor,       \* releaseRank of a version; channelFloor of a channel
  Channels,
  Installable,       \* the releases with an archive for this platform, checksums, and a signature if needed
  Checkers, Appliers, \* who runs Check: the loop and requests; requests to apply
  None,              \* no version
  MaxReleases,       \* bound: releases published meanwhile
  MaxSwitches,       \* bound: changes of the channel
  MaxStops           \* bound: restarts that no update asks for

ASSUME VersionsAssumption ==
  /\ Versions \subseteq Nat /\ None \notin Versions /\ Installable \subseteq Versions
  /\ Rank \in [Versions -> -1..3] /\ Floor \in [Channels -> 0..3]

VARIABLES
  feed,      \* the releases on GitHub
  running,   \* Service.current
  disk,      \* the version at the executable's path; None after a rollback that failed
  channel,   \* Service.cfg
  status,    \* the cached result: latest, and whether it is offered
  check,     \* each Check: its step and what it works with
  applying,  \* the single-flight guard
  apply,     \* each Apply
  restart,   \* triggerRestart was called
  used       \* how much of each bound is used

uvs == <<feed, running, disk, channel, status, check, applying, apply, restart, used>>

NoCheck == [pc |-> "idle", feed |-> {}, to |-> None]
NoApply == [pc |-> "idle", feed |-> {}, to |-> None]
Unknown == [latest |-> None, available |-> FALSE]

\* applicableVersion(), and the newest of those.
Applicable(S, c) == {v \in S : Rank[v] >= Floor[c]}
Newest(S) ==
  LET tops == {v \in S : \A w \in S : w <= v}
  IN IF tops = {} THEN None ELSE CHOOSE v \in tops : TRUE

Newer(v) == v # None /\ v > running

UInit ==
  /\ feed \in SUBSET Versions /\ running \in feed /\ disk = running
  /\ channel \in Channels /\ status = Unknown
  /\ check = [c \in Checkers |-> NoCheck]
  /\ applying = FALSE /\ apply = [r \in Appliers |-> NoApply]
  /\ restart = FALSE
  /\ used = [releases |-> 0, switches |-> 0, stops |-> 0]

-----------------------------------------------------------------------------
(* Check                                                                   *)

Begin(c) ==
  /\ check[c].pc = "idle" /\ ~restart
  /\ check' = [check EXCEPT ![c].pc = "asks"]
  /\ UNCHANGED <<feed, running, disk, channel, status, applying, apply, restart, used>>

\* fetchReleases() lists what there is.
Listed(c) ==
  /\ check[c].pc = "asks"
  /\ check' = [check EXCEPT ![c] = [@ EXCEPT !.pc = "listed", !.feed = feed]]
  /\ UNCHANGED <<feed, running, disk, channel, status, applying, apply, restart, used>>

\* The channel is read after the releases; without one that applies the check fails.
Resolved(c) ==
  /\ check[c].pc = "listed"
  /\ check' = [check EXCEPT ![c] = [pc |-> "resolved", feed |-> {},
                                    to |-> Newest(Applicable(@.feed, channel))]]
  /\ UNCHANGED <<feed, running, disk, channel, status, applying, apply, restart, used>>

\* A failure keeps the result of the last check.
CheckFails(c) ==
  /\ check[c].pc = "asks" \/ (check[c].pc = "resolved" /\ check[c].to = None)
  /\ check' = [check EXCEPT ![c] = NoCheck]
  /\ UNCHANGED <<feed, running, disk, channel, status, applying, apply, restart, used>>

Recorded(c) ==
  /\ check[c].pc = "resolved" /\ check[c].to # None
  /\ status' = [latest |-> check[c].to, available |-> check[c].to \in Installable /\ Newer(check[c].to)]
  /\ check' = [check EXCEPT ![c] = NoCheck]
  /\ UNCHANGED <<feed, running, disk, channel, applying, apply, restart, used>>

-----------------------------------------------------------------------------
(* Apply                                                                   *)

\* CompareAndSwap; who comes second is told of a conflict.
ApplyStart(r) ==
  /\ apply[r].pc = "idle" /\ ~restart /\ ~applying
  /\ applying' = TRUE
  /\ apply' = [apply EXCEPT ![r].pc = "asks"]
  /\ UNCHANGED <<feed, running, disk, channel, status, check, restart, used>>

ApplyListed(r) ==
  /\ apply[r].pc = "asks"
  /\ apply' = [apply EXCEPT ![r] = [@ EXCEPT !.pc = "listed", !.feed = feed]]
  /\ UNCHANGED <<feed, running, disk, channel, status, check, applying, restart, used>>

\* resolveLatest(), newer than what runs, and with an asset for this platform.
ApplyResolved(r) ==
  /\ apply[r].pc = "listed"
  /\ LET v == Newest(Applicable(apply[r].feed, channel))
     IN /\ Newer(v) /\ v \in Installable
        /\ apply' = [apply EXCEPT ![r] = [pc |-> "download", feed |-> {}, to |-> v]]
  /\ UNCHANGED <<feed, running, disk, channel, status, check, applying, restart, used>>

\* The deferred reset, and the answer.
Refused(r) ==
  /\ applying' = FALSE
  /\ apply' = [apply EXCEPT ![r] = NoApply]
  /\ UNCHANGED <<feed, running, channel, status, check, restart, used>>

ApplyRefused(r) ==
  /\ apply[r].pc = "listed"
  /\ LET v == Newest(Applicable(apply[r].feed, channel)) IN ~(Newer(v) /\ v \in Installable)
  /\ Refused(r) /\ UNCHANGED disk

\* A request that fails or is cut off, a checksum or a signature that is wrong.
ApplyFails(r) ==
  /\ apply[r].pc \in {"asks", "download"}
  /\ Refused(r) /\ UNCHANGED disk

Verified(r) ==
  /\ apply[r].pc = "download"
  /\ apply' = [apply EXCEPT ![r].pc = "swap"]
  /\ UNCHANGED <<feed, running, disk, channel, status, check, applying, restart, used>>

\* Slip: resets the guard also on success.
SwappedFree(r) ==
  /\ apply[r].pc = "swap" /\ disk # None
  /\ disk' = apply[r].to /\ applying' = FALSE
  /\ apply' = [apply EXCEPT ![r].pc = "done"]
  /\ UNCHANGED <<feed, running, channel, status, check, restart, used>>

\* selfupdate.Apply(); on success the guard stays set.
Swapped(r) ==
  /\ apply[r].pc = "swap" /\ disk # None
  /\ disk' = apply[r].to
  /\ apply' = [apply EXCEPT ![r].pc = "done"]
  /\ UNCHANGED <<feed, running, channel, status, check, applying, restart, used>>

\* The swap fails, and is undone or leaves no binary.
SwapFails(r) ==
  /\ apply[r].pc = "swap" /\ disk' \in {disk, None}
  /\ Refused(r)

\* ApplyUpdate() answers and triggers the restart, also of a page that has gone.
Answered(r) ==
  /\ apply[r].pc = "done"
  /\ apply' = [apply EXCEPT ![r] = NoApply] /\ restart' = TRUE
  /\ UNCHANGED <<feed, running, disk, channel, status, check, applying, used>>

-----------------------------------------------------------------------------
(* Around it                                                               *)

\* The new image of the process, or the next start of the core; there is none without a binary.
Relaunched ==
  /\ disk # None
  /\ running' = disk /\ status' = Unknown
  /\ check' = [c \in Checkers |-> NoCheck]
  /\ applying' = FALSE /\ apply' = [r \in Appliers |-> NoApply] /\ restart' = FALSE
  /\ UNCHANGED <<feed, disk, channel>>

Relaunch == restart /\ Relaunched /\ UNCHANGED used

\* POST /config/restart, a stop or a crash, at any moment.
Stop ==
  /\ used.stops < MaxStops /\ Relaunched
  /\ used' = [used EXCEPT !.stops = @ + 1]

\* Service.Reload: the cached status stays.
SetChannel(c) ==
  /\ c # channel /\ used.switches < MaxSwitches
  /\ channel' = c /\ used' = [used EXCEPT !.switches = @ + 1]
  /\ UNCHANGED <<feed, running, disk, status, check, applying, apply, restart>>

Released(v) ==
  /\ v \notin feed /\ used.releases < MaxReleases
  /\ feed' = feed \cup {v} /\ used' = [used EXCEPT !.releases = @ + 1]
  /\ UNCHANGED <<running, disk, channel, status, check, applying, apply, restart>>

Checking(c) == Begin(c) \/ Listed(c) \/ Resolved(c) \/ CheckFails(c) \/ Recorded(c)
Applying(r) == ApplyListed(r) \/ ApplyResolved(r) \/ ApplyRefused(r) \/ ApplyFails(r) \/ Verified(r)
               \/ Swapped(r) \/ SwapFails(r) \/ Answered(r)

UNext ==
  \/ \E c \in Checkers : Checking(c)
  \/ \E r \in Appliers : ApplyStart(r) \/ Applying(r)
  \/ Relaunch \/ Stop
  \/ (\E c \in Channels : SetChannel(c)) \/ (\E v \in Versions : Released(v))

USpec == UInit /\ [][UNext]_uvs

-----------------------------------------------------------------------------
(* Properties                                                              *)

\* The binary is only ever replaced by a newer one, also when another release came out, the channel
\* changed or a second request arrived since the page asked (apply.go: the guard stays set).
NeverOlder == [][disk' # disk => disk' = None \/ disk' > disk]_disk

\* The guard is set only while a request applies or the restart is due ...
GuardOwned == applying => restart \/ \E r \in Appliers : apply[r].pc # "idle"

\* ... and a binary that was put in place has a restart coming, also when the page has gone.
ApplyOwned ==
  /\ GuardOwned
  /\ disk \notin {running, None} => restart \/ \E r \in Appliers : apply[r].pc = "done"

\* The state the other properties are about.
UpdaterTypeOK ==
  /\ feed \in SUBSET Versions /\ running \in Versions /\ disk \in Versions \cup {None}
  /\ channel \in Channels /\ applying \in BOOLEAN /\ restart \in BOOLEAN
  /\ status \in [latest : Versions \cup {None}, available : BOOLEAN]
  /\ check \in [Checkers -> [pc : {"idle", "asks", "listed", "resolved"}, feed : SUBSET Versions,
                             to : Versions \cup {None}]]
  /\ apply \in [Appliers -> [pc : {"idle", "asks", "listed", "download", "swap", "done"},
                            feed : SUBSET Versions, to : Versions \cup {None}]]
  /\ used \in [releases : Nat, switches : Nat, stops : Nat]

-----------------------------------------------------------------------------
(* Why NeverOlder holds                                                    *)

Active(r) == apply[r].pc # "idle"

\* One Apply at a time, and none after a swap until the process has ended: the guard that the swap
\* leaves set is what keeps the comparison with the running version one with the binary on disk.
GuardInv ==
  /\ \A r \in Appliers : Active(r) => applying
  /\ \A r, q \in Appliers : Active(r) /\ Active(q) => r = q
  /\ \A r \in Appliers : apply[r].pc \in {"download", "swap"} => apply[r].to \in Versions /\ apply[r].to > running
  /\ disk \notin {running, None} =>
       applying /\ \A r \in Appliers : apply[r].pc \in {"idle", "done"}
=============================================================================
