--------------------------- MODULE SelectionBatch ---------------------------
(***************************************************************************)
(* Selecting illustrations of a list and downloading them at once          *)
(* (selection-state.ts, selection-context.tsx).  A batch runs on while the *)
(* list changes, is left or makes place for another one.                   *)
(***************************************************************************)
EXTENDS Integers, FiniteSets

CONSTANTS
  Illusts, Lists,
  Shown,     \* the sets of illustrations a list can show
  Workers,   \* requests of a batch at a time
  MaxBatch   \* bound: batches started

ASSUME ShownAssumption == Shown \subseteq SUBSET Illusts

VARIABLES
  identity,                   \* the list shown
  visible, enabled,
  mode, selected,
  pending,                    \* the selection is locked: the batch's progress is shown
  result,                     \* the outcome of a batch is shown
  batch,                      \* the batch that holds the lock, or 0
  batches,                    \* the batches that run
  started, alive              \* alive: the provider is mounted

selvars == <<identity, visible, enabled, mode, selected, pending, result, batch, batches, started,
           alive>>

SInit ==
  /\ identity \in Lists /\ visible \in Shown /\ enabled = TRUE
  /\ mode = FALSE /\ selected = {} /\ pending = FALSE /\ result = FALSE
  /\ batch = 0 /\ batches = {} /\ started = 0 /\ alive = TRUE

\* revision++: no batch of an earlier revision writes the selection.
Outdated == {[b EXCEPT !.fresh = FALSE] : b \in batches}

\* Slip: a list that takes over leaves the lock of the last one where it is.
KeepsLock(reset) == pending
Locked(reset) == pending /\ ~reset

\* configure(), on every render: a list that is loading keeps the last IDs of the same list.
Configure(list, shown, usable) ==
  LET changed == list # identity
      ids     == IF usable THEN shown ELSE IF changed THEN {} ELSE visible
      kept    == selected \cap ids
      pruned  == kept # selected
      reset   == changed \/ (usable /\ ids = {})
      left    == pruned /\ kept = {}
  IN
  /\ changed \/ pruned \/ (reset /\ mode) \/ ids # visible \/ usable # enabled
  /\ identity' = list /\ visible' = ids /\ enabled' = usable
  /\ batch' = IF reset THEN 0 ELSE batch
  /\ batches' = IF reset \/ left THEN Outdated ELSE batches
  /\ selected' = IF reset THEN {} ELSE kept
  /\ mode' = (mode /\ ~reset /\ ~left)
  /\ pending' = Locked(reset)
  /\ result' = (result /\ ~reset /\ ~pruned)
  /\ UNCHANGED <<started, alive>>

Exit ==
  /\ batches' = Outdated
  /\ mode' = FALSE /\ selected' = {} /\ result' = FALSE
  /\ UNCHANGED <<identity, visible, enabled, pending, batch, started, alive>>

Editable == enabled /\ ~pending /\ visible # {}

Select(ids, on) ==
  /\ batches' = Outdated
  /\ selected' = ids /\ mode' = on /\ result' = FALSE
  /\ UNCHANGED <<identity, visible, enabled, pending, batch, started, alive>>

Toggle(i) ==
  /\ Editable /\ i \in visible
  /\ LET ids == IF i \in selected THEN selected \ {i} ELSE selected \cup {i} IN
     Select(ids, ids # {})

ToggleAll == Editable /\ Select(IF selected # {} THEN {} ELSE visible, TRUE)

DismissResult ==
  /\ result /\ result' = FALSE
  /\ UNCHANGED <<identity, visible, enabled, mode, selected, pending, batch, batches, started,
                 alive>>

\* download(): as many requests as there are workers go out at once.
DownloadSelected ==
  /\ Editable /\ selected # {} /\ alive /\ started < MaxBatch
  /\ started' = started + 1 /\ batch' = started'
  /\ pending' = TRUE /\ result' = FALSE
  /\ \E first \in SUBSET selected :
       /\ Cardinality(first) = IF Cardinality(selected) < Workers THEN Cardinality(selected)
                               ELSE Workers
       /\ batches' = batches \cup {[id |-> started', todo |-> selected \ first, sent |-> first,
                                    failed |-> {}, fresh |-> TRUE]}
  /\ UNCHANGED <<identity, visible, enabled, mode, selected, alive>>

\* A worker whose request is answered takes the next illustration.
Answered(b, i) ==
  /\ i \in b.sent
  /\ \E next \in SUBSET b.todo, bad \in BOOLEAN :
       /\ Cardinality(next) = IF alive /\ b.todo # {} THEN 1 ELSE 0
       /\ batches' = (batches \ {b}) \cup
            {[b EXCEPT !.sent = (@ \ {i}) \cup next, !.todo = @ \ next,
                       !.failed = IF alive /\ bad THEN @ \cup {i} ELSE @]}
  /\ UNCHANGED <<identity, visible, enabled, mode, selected, pending, result, batch, started, alive>>

\* Slip: the batch that holds the lock writes the selection, whatever was done to it since.
OwnsLoosely(b) == batch = b.id /\ alive
OwnsSelection(b) == batch = b.id /\ b.fresh /\ alive

\* The last worker is done: what failed stays selected.
Finish(b) ==
  /\ b.sent = {}
  /\ batches' = batches \ {b}
  /\ IF OwnsSelection(b)
     THEN selected' = b.failed \cap visible /\ mode' = (selected' # {}) /\ result' = TRUE
     ELSE UNCHANGED <<selected, mode, result>>
  /\ IF batch = b.id THEN batch' = 0 /\ pending' = FALSE ELSE UNCHANGED <<batch, pending>>
  /\ UNCHANGED <<identity, visible, enabled, started, alive>>

Unmount ==
  /\ alive /\ alive' = FALSE
  /\ UNCHANGED <<identity, visible, enabled, mode, selected, pending, result, batch, batches,
                 started>>

BatchStep == \E b \in batches : Finish(b) \/ \E i \in b.sent : Answered(b, i)

SNext ==
  \/ \E l \in Lists, shown \in Shown, usable \in BOOLEAN : Configure(l, shown, usable)
  \/ \E i \in Illusts : Toggle(i)
  \/ Exit \/ ToggleAll \/ DismissResult \/ DownloadSelected \/ Unmount
  \/ BatchStep

SSpec == SInit /\ [][SNext]_selvars /\ WF_selvars(BatchStep)

-----------------------------------------------------------------------------
\* A locked selection has a batch on its way that will unlock it, whichever list takes over
\* and however the requests end: the lock is never left behind (selection-state.ts).
LockHeld == pending => \E b \in batches : b.id = batch

\* While a batch holds the lock nothing brings the selection mode back that the user or the
\* list has ended: neither a batch of before nor the one that runs (selection-state.ts,
\* ownsSelection()).
ModeStaysLeft == [][~mode /\ mode' => ~pending]_selvars
=============================================================================
