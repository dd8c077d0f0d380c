------------------------------ MODULE Settings ------------------------------
(***************************************************************************)
(* The configuration manager (internal/config): the settings file, the     *)
(* layers above and below it, and PATCH and RESET, which validate, save,   *)
(* and reload the services under one mutex.                                *)
(***************************************************************************)
EXTENDS Integers, FiniteSets

CONSTANTS
  Keys, Values,
  Channel,          \* app.update.channel, whose default is the build's
  Pinned,           \* the keys with restart=true
  Internal,         \* the keys that only an edit of the file can change
  Hidden,           \* the keys that the page does not show
  Allowed,          \* what the schema admits of a key
  Base,             \* baseDefaults(): of every key but the channel
  Builds,           \* versions of the binary
  DefaultChannel,   \* update.DefaultChannel()
  Environments,     \* the PIXIVBIU_* variables, as layers
  Invalid,          \* the configurations that a validator refuses
  Services,         \* who registered a reload hook: 1 to Services
  Fallible,         \* the hooks that may fail
  MaxChanges,       \* bound: patches and resets
  MaxStarts         \* bound: starts of the core

Layers == UNION {[S -> Values] : S \in SUBSET Keys}
Config == [Keys -> Values]

ASSUME KeysAssumption ==
  /\ Channel \in Keys \ (Pinned \cup Internal) /\ {Pinned, Internal, Hidden} \subseteq SUBSET Keys
  /\ Base \in [Keys \ {Channel} -> Values] /\ DefaultChannel \in [Builds -> Values]
  /\ Allowed \in [Keys -> SUBSET Values]
ASSUME ServicesAssumption == Services \in Nat \ {0} /\ Fallible \subseteq 1..Services
ASSUME EnvironmentsAssumption == Environments \subseteq Layers /\ Invalid \subseteq Config
\* No validator looks at the channel.
ASSUME ChannelAssumption ==
  \A c \in Config, v \in Values : c \in Invalid <=> [c EXCEPT ![Channel] = v] \in Invalid

VARIABLES
  alive,     \* the core runs
  build, env,
  saved,     \* settings.json
  live,      \* Manager.effView
  began,     \* Manager.effSnap: what the core started with
  change,    \* the PATCH or RESET that holds the mutex
  applied,   \* the configuration each service works with
  refused,   \* the services whose last reload failed
  chosen,    \* history: what the user has set and not reset
  uses       \* how much of each bound is used

stvars == <<alive, build, env, saved, live, began, change, applied, refused, chosen, uses>>

NoKeys == [k \in {} |-> k]

\* defaults()
Default(b, k) == IF k = Channel THEN DefaultChannel[b] ELSE Base[k]

\* snapshotEffective(), buildKoanf(): the defaults, under the file, under the environment.
Meant(b, f, k)  == IF k \in DOMAIN f THEN f[k] ELSE Default(b, k)
Merged(b, f, e) == [k \in Keys |-> IF k \in DOMAIN e THEN e[k] ELSE Meant(b, f, k)]

\* The layer f without the keys of S, and with those of p.
Without(f, S) == [k \in DOMAIN f \ S |-> f[k]]
With(f, p)    == [k \in DOMAIN f \cup DOMAIN p |-> IF k \in DOMAIN p THEN p[k] ELSE f[k]]

\* Slip: compares with the defaults of the running build.
PrunedLive(f) == Without(f, {k \in DOMAIN f : f[k] = Default(build, k)})

\* pruneAgainstDefaults(): the channel has no static default and is never pruned.
Pruned(f) == Without(f, {k \in DOMAIN f \ {Channel} : f[k] = Base[k]})

\* A snapshot of the configuration works from start to restart in its pinned keys.
Effective(l) == [k \in Keys |-> IF k \in Pinned THEN began[k] ELSE l[k]]

NoChange == [pc |-> "none", file |-> NoKeys, as |-> NoKeys, next |-> 0, to |-> NoKeys]

-----------------------------------------------------------------------------
(* Patch, Reset: under the mutex                                           *)

\* What validateAndPersist() accepts goes to the file: f, of which the user set or kept `as`.
Accepts(f, as) ==
  /\ change.pc = "none" /\ uses.changes < MaxChanges
  /\ Merged(build, f, env) \notin Invalid
  /\ change' = [pc |-> "save", file |-> Pruned(f), as |-> as, next |-> 1, to |-> Merged(build, f, env)]
  /\ uses' = [uses EXCEPT !.changes = @ + 1]
  /\ UNCHANGED <<alive, build, env, saved, live, began, applied, refused, chosen>>

\* Values of the schema's range, for keys that the API may set; a masked value leaves its key out.
Patch(p) ==
  /\ alive /\ DOMAIN p \cap Internal = {} /\ \A k \in DOMAIN p : p[k] \in Allowed[k]
  /\ Accepts(With(saved, p), With(chosen, p))

ResetKeys(S) ==
  /\ alive /\ S # {} /\ S \cap Internal = {}
  /\ Accepts(Without(saved, S), Without(chosen, S))

ResetAll ==
  /\ alive
  /\ LET S == Keys \ (Internal \cup Hidden) IN Accepts(Without(saved, S), Without(chosen, S))

Save ==
  /\ change.pc = "save"
  /\ saved' = change.file /\ chosen' = change.as
  /\ change' = [change EXCEPT !.pc = "swap"]
  /\ UNCHANGED <<alive, build, env, live, began, applied, refused, uses>>

SaveFails ==
  /\ change.pc = "save" /\ change' = NoChange
  /\ UNCHANGED <<alive, build, env, saved, live, began, applied, refused, chosen, uses>>

\* applyLive(): the snapshot, then the hooks in the order of their registration.
Swap ==
  /\ change.pc = "swap"
  /\ live' = Merged(build, change.file, env)
  /\ change' = [change EXCEPT !.pc = "hooks"]
  /\ UNCHANGED <<alive, build, env, saved, began, applied, refused, chosen, uses>>

\* A service takes over what it can change while it runs.
HookDone(s) ==
  /\ change.pc = "hooks" /\ change.next = s
  /\ applied' = [applied EXCEPT ![s] = Effective(change.to)]
  /\ refused' = refused \ {s}
  /\ change' = [change EXCEPT !.next = s + 1]
  /\ UNCHANGED <<alive, build, env, saved, live, began, chosen, uses>>

\* It logs the error and works on with what it had.
HookFails(s) ==
  /\ s \in Fallible /\ change.pc = "hooks" /\ change.next = s
  /\ Effective(change.to) # applied[s]
  /\ refused' = refused \cup {s}
  /\ change' = [change EXCEPT !.next = s + 1]
  /\ UNCHANGED <<alive, build, env, saved, live, began, applied, chosen, uses>>

\* buildView() for the answer, and the unlocking.
Return ==
  /\ change.pc = "hooks" /\ change.next = Services + 1
  /\ change' = NoChange
  /\ UNCHANGED <<alive, build, env, saved, live, began, applied, refused, chosen, uses>>

\* GET reads the file and the snapshot, and takes no lock.
View == alive /\ UNCHANGED stvars

-----------------------------------------------------------------------------
(* The process                                                             *)

\* A stop, a restart or a crash, at any moment.
Ends ==
  /\ alive /\ uses.starts < MaxStarts
  /\ alive' = FALSE /\ change' = NoChange
  /\ UNCHANGED <<build, env, saved, live, began, applied, refused, chosen, uses>>

\* NewManager(), and the services made from its snapshot; what a validator refuses does not start.
Starts(b, e) ==
  /\ ~alive /\ Merged(b, saved, e) \notin Invalid
  /\ alive' = TRUE /\ build' = b /\ env' = e
  /\ live' = Merged(b, saved, e) /\ began' = Merged(b, saved, e)
  /\ applied' = [s \in 1..Services |-> Merged(b, saved, e)] /\ refused' = {}
  /\ uses' = [uses EXCEPT !.starts = @ + 1]
  /\ UNCHANGED <<saved, change, chosen>>

-----------------------------------------------------------------------------
\* A start over a file that was edited by hand, or none.
SInit ==
  /\ alive = TRUE /\ build \in Builds /\ env \in Environments
  /\ saved \in {f \in Layers : DOMAIN f \subseteq Internal} /\ chosen = saved
  /\ \A b \in Builds : Merged(b, saved, env) \notin Invalid
  /\ live = Merged(build, saved, env) /\ began = live
  /\ applied = [s \in 1..Services |-> live] /\ refused = {}
  /\ change = NoChange
  /\ uses = [changes |-> 0, starts |-> 0]

Changes ==
  \/ \E p \in Layers \ {NoKeys} : Patch(p)
  \/ ResetAll \/ \E S \in SUBSET Keys : ResetKeys(S)
  \/ Save \/ SaveFails \/ Swap \/ Return
  \/ \E s \in 1..Services : HookDone(s) \/ HookFails(s)

SNext == Changes \/ View \/ Ends \/ \E b \in Builds, e \in Environments : Starts(b, e)

SSpec == SInit /\ [][SNext]_stvars

-----------------------------------------------------------------------------
(* Properties                                                              *)

\* When no change is in progress, what the manager holds is what the file says, and every service
\* works with that, its pinned keys apart, unless its last reload failed: whatever was refused, was
\* not saved, or was cut off by a restart (manager.go: validateAndPersist, applyLive).
SettingsInStep ==
  alive /\ change.pc = "none" =>
    /\ live = Merged(build, saved, env)
    /\ \A s \in 1..Services \ refused : applied[s] = Effective(live)

\* Pruning loses no choice: under every build, also one with another default channel, the file means
\* what the user set and did not reset (manager.go: pruneAgainstDefaults).
SameChoice(f, g) == \A b \in Builds, k \in Keys : Meant(b, f, k) = Meant(b, g, k)
ChoiceKept == SameChoice(saved, chosen)

\* What was saved starts again, at any moment and as whichever build, in the environment it was saved
\* under (manager.go: runValidators in NewManager and validateAndPersist).
BootsAgain == \A b \in Builds : Merged(b, saved, env) \notin Invalid

\* The three together: between two changes the memory and the services say what the file says, and at
\* every moment the file says what the user chose, and can be started from.
SettingsHold == SettingsInStep /\ ChoiceKept /\ BootsAgain

\* The state the other properties are about.
SettingsTypeOK ==
  /\ alive \in BOOLEAN /\ build \in Builds /\ env \in Environments
  /\ {saved, chosen} \subseteq Layers /\ {live, began} \subseteq Config
  /\ change \in [pc : {"none", "save", "swap", "hooks"}, file : Layers, as : Layers,
                  next : 0..Services + 1, to : Config \cup {NoKeys}]
  /\ change.pc # "none" => change.to \in Config
  /\ applied \in [1..Services -> Config] /\ refused \subseteq 1..Services
  /\ uses \in [changes : Nat, starts : Nat]

-----------------------------------------------------------------------------
(* Why they hold                                                           *)

\* What the change that holds the mutex is about to do, and how far its hooks have come.
ChangeInv ==
  /\ change.pc # "none" =>
       /\ alive /\ change.to = Merged(build, change.file, env)
       /\ SameChoice(change.file, change.as)
       /\ \A b \in Builds : Merged(b, change.file, env) \notin Invalid
  /\ change.pc \in {"save", "swap"} => change.next = 1
  /\ change.pc \in {"swap", "hooks"} => saved = change.file
  /\ alive /\ change.pc \in {"none", "save"} => live = Merged(build, saved, env)
  /\ change.pc = "hooks" => live = change.to
  /\ alive => \A s \in 1..Services \ refused :
                (change.pc = "hooks" => s < change.next) => applied[s] = Effective(live)

SettingsInv == ChangeInv /\ ChoiceKept /\ BootsAgain
=============================================================================
