--------------------------- MODULE DownloadManager ---------------------------
(***************************************************************************)
(* The download manager of the Go core (internal/download): jobs made of   *)
(* tasks, a bounded queue fed by sender goroutines, a pool of workers that *)
(* download, convert and describe each task's file, the handlers of the    *)
(* HTTP API that submit, cancel and remove jobs while the workers run, the *)
(* files on disk, and the job index that is persisted for the next boot.   *)
(*                                                                         *)
(* One action is one critical section of Manager.mu together with the      *)
(* local work around it; a step that writes the index takes its snapshot   *)
(* and writes it at once, which is what saveMu gives.  A definition marked *)
(* "Slip" is a wrong variant of the one after it, never part of Next.      *)
(***************************************************************************)
EXTENDS Integers, Sequences, FiniteSets

CONSTANTS
  Jobs,         \* job IDs that Submit may hand out, each used once
  Tasks,        \* task IDs
  Workers,      \* the pool: max(1, max_concurrent) workers
  JobOf,        \* JobOf[t]: the job task t belongs to
  Rank,         \* Rank[t]: place of t in the walk over SortedJobs and its tasks
  Name,         \* Name[t]: output stem rendered from the templates
  Ugoira,       \* jobs that download a frame zip and convert it
  WithMeta,     \* jobs submitted with save_metadata on
  MediaExt,     \* MediaExt[j]: extension of the finished media of job j
  Zip,          \* the extension of a ugoira's intermediate archive
  BootSender,   \* the sender goroutine of Start; every other one is its job
  User,         \* owner of a file the manager did not write
  None,         \* no task, no status
  MaxRetries,   \* download.retry.max
  QSize,        \* capacity of the queue channel
  MaxSuffix,    \* bound: collision suffixes tried, 9999 in the code
  MaxCrashes,   \* bound: how often the process dies without warning
  MaxStops,     \* bound: how often it is asked to stop or restart
  MaxEdits,     \* bound: how often the user touches the output directory
  Cancellable,  \* the jobs the user may cancel
  Removable     \* the jobs the user may remove from the list

ASSUME PoolAssumption ==
  /\ IsFiniteSet(Tasks)
  /\ JobOf \in [Tasks -> Jobs]
  /\ Rank \in [Tasks -> Nat]
  /\ \A t, u \in Tasks : Rank[t] = Rank[u] => t = u
  /\ Ugoira \subseteq Jobs /\ WithMeta \subseteq Jobs
  /\ Cancellable \subseteq Jobs /\ Removable \subseteq Jobs
  /\ BootSender \notin Jobs
  /\ None \notin Tasks /\ User \notin Tasks

ASSUME BoundAssumption ==
  /\ MaxRetries \in Nat /\ MaxSuffix \in Nat /\ QSize \in Nat \ {0}
  /\ MaxCrashes \in Nat /\ MaxStops \in Nat /\ MaxEdits \in Nat

VARIABLES
  up,        \* the process runs and Start has finished
  stopping,  \* the workers' context is cancelled
  index,     \* the jobs in Manager.jobs
  jobStatus, \* Job.Status
  task,      \* the Task records
  queue,     \* the queue channel
  sending,   \* sending[g]: what sender goroutine g has still to send
  wk,        \* the workers: program counter and locals
  submit,    \* progress of Submit for each job ID
  cancel,    \* progress of Cancel for each job
  removing,  \* the Remove and RemoveTerminal calls in progress
  disk,      \* the output directory: path -> who wrote the file there
  store,     \* the persisted index
  taskNews,  \* the last event published about each task
  jobNews,   \* the last event published about each job
  acked,     \* history: jobs whose Cancel has returned to the user
  used       \* how much of the bounds is used up

vars == <<up, stopping, index, jobStatus, task, queue, sending, wk, submit,
          cancel, removing, disk, store, taskNews, jobNews, acked, used>>

memory   == <<index, jobStatus, task>>
channels == <<queue, sending>>
handlers == <<submit, cancel, removing>>
news     == <<taskNews, jobNews>>
history  == <<acked, used>>
process  == <<up, stopping>>

-----------------------------------------------------------------------------
(* Statuses.                                                               *)

Terminal == {"completed", "failed", "cancelled"}
Status   == {"queued", "running"} \cup Terminal

TasksOf(j) == {t \in Tasks : JobOf[t] = j}
Has(tk, j, s) == \E t \in TasksOf(j) : tk[t].status = s

\* A job fails only once none of its tasks can still run.
Aggregate(tk, j) ==
  IF TasksOf(j) = {} THEN "queued"
  ELSE IF Has(tk, j, "cancelled") THEN "cancelled"
  ELSE IF Has(tk, j, "failed") /\ ~Has(tk, j, "running") /\ ~Has(tk, j, "queued")
       THEN "failed"
  ELSE IF Has(tk, j, "running") THEN "running"
  ELSE IF Has(tk, j, "queued")  THEN "queued"
  ELSE "completed"

\* Slip: no look at the status found under the lock.
SettledAnyway(tk, s) == [tk EXCEPT !.status = s]

\* transitionTaskTerminalLocked: a terminal task refuses the write.
Settled(tk, s) == IF tk.status \in Terminal THEN tk ELSE [tk EXCEPT !.status = s]

\* Slip: shutdown leaves the task as it is.
ResolveUserOnly(tk) == IF stopping THEN tk ELSE Settled(tk, "cancelled")

\* A cancelled context means shutdown (retry at next boot) or a user's Cancel.
ResolveCancelled(tk) == Settled(tk, IF stopping THEN "queued" ELSE "cancelled")

-----------------------------------------------------------------------------
(* Output paths: a stem (name and collision suffixes), an extension, and   *)
(* whether it is the JSON sidecar of that media file.                      *)

FirstExt(j) == IF j \in Ugoira THEN Zip ELSE MediaExt[j]
Path(t, suffix, ext) == <<Name[t], suffix, ext, FALSE>>

FilePath(t, tk)  == Path(t, tk.suffix, tk.ext)
FinalPath(t, tk) == Path(t, tk.suffix, MediaExt[JobOf[t]])
ZipPath(t, tk)   == Path(t, tk.suffix, Zip)
MetaPath(t, tk)  == <<Name[t], tk.suffix, MediaExt[JobOf[t]], TRUE>>

\* Every path a task will write to, or has written to.
Claims(t, tk) ==
  {FilePath(t, tk), FinalPath(t, tk)}
    \cup (IF JobOf[t] \in WithMeta THEN {MetaPath(t, tk)} ELSE {})

\* Slip: siblings that completed keep their files.
WrittenByUnfinished(ts, tk) ==
  {FilePath(t, tk[t]) : t \in {u \in ts : tk[u].wrote /\ tk[u].status # "completed"}}
    \cup {MetaPath(t, tk[t]) : t \in {u \in ts : tk[u].wroteMeta /\ tk[u].status # "completed"}}

WrittenPaths(ts, tk) ==
  {FilePath(t, tk[t]) : t \in {u \in ts : tk[u].wrote}}
    \cup {MetaPath(t, tk[t]) : t \in {u \in ts : tk[u].wroteMeta}}

Live(t) == JobOf[t] \in index /\ task[t].status \notin Terminal

\* Slips: the output of a conversion, and a task that waits, reserve nothing.
ReservedFiles == {FilePath(t, task[t]) : t \in {u \in Tasks : Live(u)}}
ReservedByRunning ==
  UNION {Claims(t, task[t]) : t \in {u \in Tasks : Live(u) /\ task[u].status = "running"}}

ReservedPaths == UNION {Claims(t, task[t]) : t \in {u \in Tasks : Live(u)}}

Suffixed(s, n) == IF n = 0 THEN s ELSE Append(s, n)
Moved(tk, n) == [tk EXCEPT !.suffix = Suffixed(@, n)]

Free(t, tk, n, taken) == Claims(t, Moved(tk, n)) \cap taken = {}

\* resolveJobCollisionsLocked walks the tasks in order; each unwritten one takes
\* the lowest suffix whose paths are neither on disk, nor reserved, nor claimed
\* by a task earlier in the walk.  A task that wrote its file keeps its paths.
ResolvedBy(pick, moved, kept, tk, reserved) ==
  \A t \in moved :
    LET placed(u) == IF u \in moved THEN Moved(tk[u], pick[u]) ELSE tk[u]
        earlier == {u \in moved \cup kept : Rank[u] < Rank[t]}
        taken == DOMAIN disk \cup reserved \cup UNION {Claims(u, placed(u)) : u \in earlier}
    IN /\ Free(t, tk[t], pick[t], taken)
       /\ \A n \in 0..(pick[t] - 1) : ~Free(t, tk[t], n, taken)

-----------------------------------------------------------------------------
(* The file system and the store.                                          *)

Written(p, who) == [q \in DOMAIN disk \cup {p} |-> IF q = p THEN who ELSE disk[q]]
Without(ps) == [q \in DOMAIN disk \ ps |-> disk[q]]

Blank(t) == [status |-> "queued", suffix |-> <<>>, ext |-> FirstExt(JobOf[t]),
             wrote |-> FALSE, wroteMeta |-> FALSE]

\* Slip: only open jobs are worth a restart.
SnapshotOpen(js, tk) ==
  [jobs |-> {j \in js : Aggregate(tk, j) \notin Terminal},
   task |-> [t \in Tasks |-> IF JobOf[t] \in js THEN tk[t] ELSE Blank(t)]]

\* The index as persist() snapshots and saves it; it says nothing of other jobs.
Snapshot(js, tk) ==
  [jobs |-> js, task |-> [t \in Tasks |-> IF JobOf[t] \in js THEN tk[t] ELSE Blank(t)]]
Persist == store' = Snapshot(index', task')

\* The tasks of S in walk order.
Walks(S) == {s \in [1..Cardinality(S) -> S] :
               \A a, b \in DOMAIN s : a < b => Rank[s[a]] < Rank[s[b]]}

-----------------------------------------------------------------------------
IdleWorker == [pc |-> "idle", task |-> None, tries |-> 0, result |-> None,
               doomed |-> {}, news |-> None]
NoCancel == [pc |-> "no", doomed |-> {}, tasks |-> {}, news |-> None]
Senders  == Jobs \cup {BootSender}

Init ==
  /\ up = TRUE /\ stopping = FALSE
  /\ index = {}
  /\ jobStatus = [j \in Jobs |-> "queued"]
  /\ task = [t \in Tasks |-> Blank(t)]
  /\ queue = <<>>
  /\ sending = [g \in Senders |-> <<>>]
  /\ wk = [w \in Workers |-> IdleWorker]
  /\ submit = [j \in Jobs |-> "new"]
  /\ cancel = [j \in Jobs |-> NoCancel]
  /\ removing = {}
  /\ disk = [p \in {} |-> User]
  /\ store = [jobs |-> {}, task |-> [t \in Tasks |-> Blank(t)]]
  /\ taskNews = [t \in Tasks |-> None]
  /\ jobNews = [j \in Jobs |-> None]
  /\ acked = {}
  /\ used = [crashes |-> 0, stops |-> 0, edits |-> 0]

-----------------------------------------------------------------------------
(* Submit, up to the insertion under the lock, then the rest of it.        *)

SubmitInsert(j) ==
  /\ up /\ submit[j] = "new" /\ TasksOf(j) # {}
  /\ \E pick \in [TasksOf(j) -> 0..MaxSuffix] :
       /\ ResolvedBy(pick, TasksOf(j), {}, task, ReservedPaths)
       /\ task' = [t \in Tasks |-> IF t \in TasksOf(j) THEN Moved(task[t], pick[t])
                                                      ELSE task[t]]
  /\ index' = index \cup {j}
  /\ submit' = [submit EXCEPT ![j] = "inserted"]
  /\ UNCHANGED <<process, jobStatus, channels, wk, cancel, removing, disk, store, news, history>>

\* persist, publish job.queued, and start the sender goroutine.
SubmitFinish(j) ==
  /\ up /\ submit[j] = "inserted"
  /\ submit' = [submit EXCEPT ![j] = "done"]
  /\ jobNews' = [jobNews EXCEPT ![j] = "queued"]
  /\ \E s \in Walks(TasksOf(j)) : sending' = [sending EXCEPT ![j] = s]
  /\ UNCHANGED <<process, memory, queue, wk, cancel, removing, disk, taskNews, history>>
  /\ Persist

\* Slips: the place in the list is not advanced; a full queue drops the task.
SendKeeps(g) ==
  /\ up /\ sending[g] # <<>> /\ Len(queue) < QSize
  /\ queue' = Append(queue, Head(sending[g]))
  /\ UNCHANGED <<process, memory, sending, wk, handlers, disk, store, news, history>>
SendOrDrop(g) ==
  /\ up /\ sending[g] # <<>>
  /\ queue' = IF Len(queue) < QSize THEN Append(queue, Head(sending[g])) ELSE queue
  /\ sending' = [sending EXCEPT ![g] = Tail(@)]
  /\ UNCHANGED <<process, memory, wk, handlers, disk, store, news, history>>

\* enqueueAsync: one blocking send of goroutine g.
Send(g) ==
  /\ up /\ sending[g] # <<>> /\ Len(queue) < QSize
  /\ queue' = Append(queue, Head(sending[g]))
  /\ sending' = [sending EXCEPT ![g] = Tail(@)]
  /\ UNCHANGED <<process, memory, wk, handlers, disk, store, news, history>>

\* Slip: the send does not select on the context too.
SendOnly(g) == stopping /\ Send(g)

SendAbort(g) ==
  /\ up /\ stopping /\ sending[g] # <<>>
  /\ sending' = [sending EXCEPT ![g] = <<>>]
  /\ UNCHANGED <<process, memory, queue, wk, handlers, disk, store, news, history>>

-----------------------------------------------------------------------------
(* Cancel: the critical section, then persist, then the deletions and the  *)
(* events it computed in that section.                                     *)

CancelLock(j) ==
  /\ up /\ j \in index \cap Cancellable /\ jobStatus[j] \notin Terminal
  /\ LET hit == {t \in TasksOf(j) : task[t].status \notin Terminal}
         tk  == [t \in Tasks |-> IF t \in hit THEN Settled(task[t], "cancelled") ELSE task[t]]
         now == Aggregate(tk, j)
     IN /\ task' = tk
        /\ jobStatus' = [jobStatus EXCEPT ![j] = now]
        /\ cancel' = [cancel EXCEPT ![j] =
             [pc |-> "persist", tasks |-> hit,
              doomed |-> IF now # jobStatus[j] /\ now \in {"failed", "cancelled"}
                         THEN WrittenPaths(TasksOf(j), tk) ELSE {},
              news |-> IF now # jobStatus[j] THEN now ELSE None]]
  /\ UNCHANGED <<process, index, channels, wk, submit, removing, disk, store, news, history>>

\* Slip: Cancel leaves the saving to the worker.
CancelUnsaved(j) ==
  /\ up /\ cancel[j].pc = "persist"
  /\ cancel' = [cancel EXCEPT ![j].pc = "clean"]
  /\ UNCHANGED <<process, memory, channels, wk, submit, removing, disk, store, news, history>>

CancelPersist(j) ==
  /\ up /\ cancel[j].pc = "persist"
  /\ cancel' = [cancel EXCEPT ![j].pc = "clean"]
  /\ UNCHANGED <<process, memory, channels, wk, submit, removing, disk, news, history>>
  /\ Persist

CancelFinish(j) ==
  /\ up /\ cancel[j].pc = "clean"
  /\ disk' = Without(cancel[j].doomed)
  /\ taskNews' = [t \in Tasks |-> IF t \in cancel[j].tasks THEN "cancelled" ELSE taskNews[t]]
  /\ jobNews' = IF cancel[j].news = None THEN jobNews
                ELSE [jobNews EXCEPT ![j] = cancel[j].news]
  /\ acked' = IF cancel[j].tasks = {} THEN acked ELSE acked \cup {j}
  /\ cancel' = [cancel EXCEPT ![j] = NoCancel]
  /\ UNCHANGED <<process, memory, channels, wk, submit, removing, store, used>>

-----------------------------------------------------------------------------
(* Remove one terminal job, or RemoveTerminal all those of some statuses.  *)

Drop(js) ==
  /\ js # {}
  /\ index' = index \ js
  /\ removing' = removing \cup {js}
  /\ UNCHANGED <<process, jobStatus, task, channels, wk, submit, cancel, disk, store, news, history>>

Remove(j) == up /\ j \in index \cap Removable /\ jobStatus[j] \in Terminal /\ Drop({j})

RemoveTerminal(allowed) ==
  /\ up /\ Removable = Jobs
  /\ Drop({j \in index : jobStatus[j] \in allowed})

RemoveFinish(js) ==
  /\ up /\ js \in removing
  /\ removing' = removing \ {js}
  /\ jobNews' = [j \in Jobs |-> IF j \in js THEN "deleted" ELSE jobNews[j]]
  /\ UNCHANGED <<process, memory, channels, wk, submit, cancel, disk, taskNews, history>>
  /\ Persist

-----------------------------------------------------------------------------
(* The workers.  T(w) is the task a worker holds, J(w) its job.            *)

At(w, l) == up /\ wk[w].pc = l
T(w) == wk[w].task
J(w) == JobOf[T(w)]
Rec(w) == task[T(w)]

Goto(w, l) == wk' = [wk EXCEPT ![w].pc = l]

ToEnd(w) == wk' = [wk EXCEPT ![w] = [IdleWorker EXCEPT !.pc = "finalize", !.task = T(w)]]
SetTask(w, rec) == task' = [task EXCEPT ![T(w)] = rec]

\* Cancel cancels the context of the task it settles, in the same critical section.
CtxDone(w) == stopping \/ Rec(w).status = "cancelled"
PostProcess(w) == J(w) \in Ugoira \cup WithMeta

\* What a worker may change without the lock: its own program counter.
Elsewhere == <<process, index, jobStatus, channels, handlers, news, history>>

\* leaseTask; a task that was cancelled while queued is dropped here.
Lease(w) ==
  /\ At(w, "idle") /\ ~stopping /\ queue # <<>>
  /\ LET t == Head(queue)
         j == JobOf[t]
     IN IF task[t].status \in Terminal
        THEN UNCHANGED <<jobStatus, task, wk>>
        ELSE /\ task' = [task EXCEPT ![t].status = "running"]
             /\ jobStatus' = IF j \in index THEN [jobStatus EXCEPT ![j] = "running"] ELSE jobStatus
             /\ wk' = [wk EXCEPT ![w] = [IdleWorker EXCEPT !.pc = "leased", !.task = t,
                  !.news = IF j \in index /\ jobStatus[j] # "running" THEN "running" ELSE None]]
  /\ queue' = Tail(queue)
  /\ UNCHANGED <<process, index, sending, handlers, disk, store, news, history>>

AnnounceStart(w) ==
  /\ At(w, "leased")
  /\ taskNews' = [taskNews EXCEPT ![T(w)] = "running"]
  /\ jobNews' = IF wk[w].news = None THEN jobNews ELSE [jobNews EXCEPT ![J(w)] = wk[w].news]
  /\ wk' = [wk EXCEPT ![w].pc = "reuse", ![w].news = None]
  /\ UNCHANGED <<process, memory, channels, handlers, disk, store, history>>

\* Where executeTask goes with media that is not yet the whole result.  A plain image
\* is settled by the step that records its file, so it is never found owned and open.
AfterMedia(w) == IF J(w) \in Ugoira THEN "convert" ELSE "meta"

\* reuseMedia: nothing owned, or the owned file is gone; a ugoira falls back to its zip.
ReuseNothing(w) ==
  /\ At(w, "reuse")
  /\ \/ ~Rec(w).wrote /\ UNCHANGED task
     \/ /\ Rec(w).wrote /\ FilePath(T(w), Rec(w)) \notin DOMAIN disk
        /\ \/ J(w) \notin Ugoira
           \/ Rec(w).ext = Zip
           \/ ZipPath(T(w), Rec(w)) \notin DOMAIN disk
        /\ SetTask(w, [Rec(w) EXCEPT !.wrote = FALSE, !.ext = FirstExt(J(w))])
  /\ wk' = [wk EXCEPT ![w].pc = "fetch", ![w].tries = 1]
  /\ UNCHANGED <<Elsewhere, disk, store>>

ReuseOwned(w) ==
  /\ At(w, "reuse") /\ Rec(w).wrote /\ FilePath(T(w), Rec(w)) \in DOMAIN disk
  /\ Goto(w, AfterMedia(w))
  /\ UNCHANGED <<Elsewhere, task, disk, store>>

\* The owned file cannot be examined, or the place of the archive of a lost conversion is taken.
ReuseFails(w) ==
  /\ At(w, "reuse") /\ Rec(w).wrote
  /\ SetTask(w, Settled(Rec(w), "failed"))
  /\ ToEnd(w)
  /\ UNCHANGED <<Elsewhere, disk, store>>

\* httpDownload: the last read saw a live context and the end of the body.
FetchBody(w) ==
  /\ At(w, "fetch") /\ ~CtxDone(w)
  /\ Goto(w, "received")
  /\ UNCHANGED <<Elsewhere, task, disk, store>>

\* From there nothing looks at the context again: close, rename over FilePath.
FetchRename(w) ==
  /\ At(w, "received")
  /\ disk' = Written(FilePath(T(w), Rec(w)), T(w))
  /\ Goto(w, "renamed")
  /\ UNCHANGED <<Elsewhere, task, store>>

FetchRetry(w) ==
  /\ At(w, "fetch") \/ At(w, "received")
  /\ wk[w].tries <= MaxRetries
  /\ Goto(w, "backoff")
  /\ UNCHANGED <<Elsewhere, task, disk, store>>

\* An error that is not retryable, or the retries are exhausted.
FetchFail(w) ==
  /\ At(w, "fetch") \/ At(w, "received")
  /\ SetTask(w, Settled(Rec(w), "failed"))
  /\ ToEnd(w)
  /\ UNCHANGED <<Elsewhere, disk, store>>

\* Slip: the attempt is not counted.
BackoffUncounted(w) ==
  /\ At(w, "backoff")
  /\ Goto(w, "fetch")
  /\ UNCHANGED <<Elsewhere, task, disk, store>>

Backoff(w) ==
  /\ At(w, "backoff")
  /\ wk' = [wk EXCEPT ![w].pc = "fetch", ![w].tries = @ + 1]
  /\ UNCHANGED <<Elsewhere, task, disk, store>>

\* context.Canceled, from the transfer, the backoff or the decoding of the zip.
Interrupted(w) ==
  /\ \E l \in {"fetch", "backoff", "encode"} : At(w, l)
  /\ CtxDone(w)
  /\ SetTask(w, ResolveCancelled(Rec(w)))
  /\ ToEnd(w)
  /\ UNCHANGED <<Elsewhere, disk, store>>

\* The critical section after the rename.  Work that goes on with the file
\* persists its ownership first; a task that Cancel settled gives the file up.
Commit(w) ==
  /\ At(w, "renamed")
  /\ UNCHANGED <<Elsewhere, disk>>
  /\ LET own == [Rec(w) EXCEPT !.wrote = TRUE]
     IN IF own.status \in Terminal
        THEN SetTask(w, own) /\ Goto(w, "drop") /\ UNCHANGED store
        ELSE IF PostProcess(w)
        THEN SetTask(w, own) /\ Goto(w, AfterMedia(w)) /\ Persist
        ELSE SetTask(w, Settled(own, "completed")) /\ ToEnd(w) /\ UNCHANGED store

\* Cancel won the lock: os.Remove of the path the task has by now.
DropFile(w) ==
  /\ At(w, "drop")
  /\ disk' = Without({FilePath(T(w), Rec(w))})
  /\ ToEnd(w)
  /\ UNCHANGED <<Elsewhere, task, store>>

\* runUgoiraPostProcessing; format "none" and an earlier conversion need no work.
ConvertBegin(w) ==
  /\ At(w, "convert")
  /\ IF Rec(w).status \in Terminal THEN ToEnd(w)
     ELSE Goto(w, IF Rec(w).ext = MediaExt[J(w)] THEN "accept" ELSE "encode")
  /\ UNCHANGED <<Elsewhere, task, disk, store>>

\* os.Create of the output, over whatever is there, and the first frames.
EncodeCreate(w) ==
  /\ At(w, "encode")
  /\ disk' = Written(FinalPath(T(w), Rec(w)), T(w))
  /\ Goto(w, "encoding")
  /\ UNCHANGED <<Elsewhere, task, store>>

\* A zip that cannot be read, or a bad frame before the output exists.
DecodeFail(w) ==
  /\ At(w, "encode")
  /\ SetTask(w, Settled(Rec(w), "failed"))
  /\ ToEnd(w)
  /\ UNCHANGED <<Elsewhere, disk, store>>

\* The encoder fails or sees the context: the output is removed before the lock.
EncodeAbort(w) ==
  /\ At(w, "encoding")
  /\ disk' = Without({FinalPath(T(w), Rec(w))})
  /\ \/ SetTask(w, Settled(Rec(w), "failed"))
     \/ CtxDone(w) /\ SetTask(w, ResolveCancelled(Rec(w)))
  /\ ToEnd(w)
  /\ UNCHANGED <<Elsewhere, store>>

\* The last look at the context, then the archive goes.
EncodeDone(w) ==
  /\ At(w, "encoding") /\ ~CtxDone(w)
  /\ disk' = Without({FilePath(T(w), Rec(w))})
  /\ Goto(w, "encoded")
  /\ UNCHANGED <<Elsewhere, task, store>>

EncodeSwap(w) ==
  /\ At(w, "encoded")
  /\ SetTask(w, [Rec(w) EXCEPT !.ext = MediaExt[J(w)]])
  /\ Goto(w, "accept")
  /\ UNCHANGED <<Elsewhere, disk, store>>

Accept(w) ==
  /\ At(w, "accept")
  /\ UNCHANGED <<Elsewhere, disk>>
  /\ IF Rec(w).status \in Terminal
     THEN UNCHANGED <<task, store>> /\ Goto(w, "drop")
     ELSE IF J(w) \in WithMeta
     THEN UNCHANGED task /\ Goto(w, "meta") /\ Persist
     ELSE SetTask(w, Settled(Rec(w), "completed")) /\ ToEnd(w) /\ UNCHANGED store

\* runMetadata, up to writeMetadata's check of the context.
MetaBegin(w) ==
  /\ At(w, "meta")
  /\ IF Rec(w).status # "running" THEN ToEnd(w)
     ELSE IF stopping THEN wk' = [wk EXCEPT ![w].pc = "wrote", ![w].result = "cancelled"]
     ELSE Goto(w, "write")
  /\ UNCHANGED <<Elsewhere, task, disk, store>>

\* writeMetadata adopts its own earlier export, never another file.
MetaWrite(w) ==
  /\ At(w, "write")
  /\ LET p == MetaPath(T(w), Rec(w))
     IN \E r \in {"ok", "error", "cancelled"} :
          /\ wk' = [wk EXCEPT ![w].pc = "wrote", ![w].result = r]
          /\ CASE r = "ok" -> (p \in DOMAIN disk => disk[p] = T(w)) /\ disk' = Written(p, T(w))
               [] r = "error" -> disk' = disk
               [] r = "cancelled" -> CtxDone(w) /\ disk' = disk
  /\ UNCHANGED <<Elsewhere, task, store>>

\* Slip: a sidecar that could not be written is claimed too.
RecordedAlways(tk, r) == IF r = "cancelled" THEN tk ELSE [tk EXCEPT !.wroteMeta = TRUE]

\* A conflicting file is not claimed; an interrupted write changes no claim.
Recorded(tk, r) == IF r = "cancelled" THEN tk ELSE [tk EXCEPT !.wroteMeta = (r = "ok")]

\* finishMetadata: the write counts even when cancellation won meanwhile.
MetaFinish(w) ==
  /\ At(w, "wrote")
  /\ LET r   == wk[w].result
         own == Recorded(Rec(w), r)
         fin == IF r = "cancelled" \/ CtxDone(w) THEN ResolveCancelled(own)
                ELSE Settled(own, IF r = "ok" THEN "completed" ELSE "failed")
         gone == WrittenPaths({T(w)}, [task EXCEPT ![T(w)] = fin])
     IN /\ SetTask(w, fin)
        /\ wk' = [wk EXCEPT ![w].pc = "metaClean", ![w].result = None,
                            ![w].doomed = IF fin.status = "cancelled" THEN gone ELSE {}]
  /\ UNCHANGED <<Elsewhere, disk, store>>

MetaClean(w) ==
  /\ At(w, "metaClean")
  /\ disk' = Without(wk[w].doomed)
  /\ ToEnd(w)
  /\ UNCHANGED <<Elsewhere, task, store>>

\* Slip: a cancelled task is taken to have been announced by Cancel.
AnnounceUncancelled(w) ==
  taskNews' = IF Rec(w).status \in {"completed", "failed"}
              THEN [taskNews EXCEPT ![T(w)] = Rec(w).status] ELSE taskNews

AnnounceEnd(w) ==
  taskNews' = IF Rec(w).status \in Terminal
              THEN [taskNews EXCEPT ![T(w)] = Rec(w).status] ELSE taskNews

\* Slip: the job is not looked at again.
FinalizeTaskOnly(w) ==
  /\ At(w, "finalize")
  /\ AnnounceEnd(w)
  /\ wk' = [wk EXCEPT ![w] = IdleWorker]
  /\ UNCHANGED <<process, memory, channels, handlers, disk, jobNews, history>>
  /\ Persist

\* finalizeTask: persist and publish the task's end.
FinalizeTask(w) ==
  /\ At(w, "finalize")
  /\ AnnounceEnd(w)
  /\ Goto(w, "aggregate")
  /\ UNCHANGED <<process, memory, channels, handlers, disk, jobNews, history>>
  /\ Persist

\* finalizeTask, second half: transitionJobLocked, and persist if it changed.
FinalizeJob(w) ==
  /\ At(w, "aggregate")
  /\ UNCHANGED <<process, index, task, channels, handlers, disk, news, history>>
  /\ LET old == jobStatus[J(w)]
         now == Aggregate(task, J(w))
     IN /\ jobStatus' = [jobStatus EXCEPT ![J(w)] = now]
        /\ IF now = old
           THEN wk' = [wk EXCEPT ![w] = IdleWorker] /\ UNCHANGED store
           ELSE /\ wk' = [wk EXCEPT ![w] = [IdleWorker EXCEPT !.pc = "settle", !.task = T(w),
                     !.news = now,
                     !.doomed = IF now \in {"failed", "cancelled"}
                                THEN WrittenPaths(TasksOf(J(w)), task) ELSE {}]]
                /\ Persist

\* finalizeTask, last part: delete what the failed job wrote, publish the job.
FinishTask(w) ==
  /\ At(w, "settle")
  /\ disk' = Without(wk[w].doomed)
  /\ jobNews' = [jobNews EXCEPT ![J(w)] = wk[w].news]
  /\ wk' = [wk EXCEPT ![w] = IdleWorker]
  /\ UNCHANGED <<process, memory, channels, handlers, store, taskNews, history>>

\* runWorker returns once its context is cancelled.
WorkerExit(w) ==
  /\ At(w, "idle") /\ stopping
  /\ Goto(w, "exited")
  /\ UNCHANGED <<Elsewhere, task, disk, store>>

ImageStep(w) ==
  \/ ReuseNothing(w) \/ ReuseOwned(w) \/ ReuseFails(w)
  \/ FetchBody(w) \/ FetchRename(w) \/ FetchRetry(w) \/ FetchFail(w) \/ Backoff(w) \/ Interrupted(w)
  \/ Commit(w) \/ DropFile(w)
UgoiraStep(w) ==
  \/ ConvertBegin(w) \/ EncodeCreate(w) \/ DecodeFail(w) \/ EncodeAbort(w)
  \/ EncodeDone(w) \/ EncodeSwap(w) \/ Accept(w)
MetaStep(w) == MetaBegin(w) \/ MetaWrite(w) \/ MetaFinish(w) \/ MetaClean(w)
QueueStep(w) ==
  \/ Lease(w) \/ AnnounceStart(w)
  \/ FinalizeTask(w) \/ FinalizeJob(w) \/ FinishTask(w) \/ WorkerExit(w)

WorkerStep(w) == QueueStep(w) \/ ImageStep(w) \/ UgoiraStep(w) \/ MetaStep(w)

-----------------------------------------------------------------------------
(* The process: signal or restart request, orderly shutdown, crash, boot.  *)

\* The context Start derived from main's is cancelled; handlers still drain.
Stop ==
  /\ up /\ ~stopping /\ used.stops < MaxStops
  /\ stopping' = TRUE
  /\ used' = [used EXCEPT !.stops = @ + 1]
  /\ UNCHANGED <<up, memory, channels, wk, handlers, disk, store, news, acked>>

HandlersDone ==
  /\ removing = {}
  /\ \A j \in Jobs : submit[j] # "inserted" /\ cancel[j] = NoCancel

\* What is left of the process: files, the index, and what clients were told.
Gone ==
  /\ up' = FALSE /\ stopping' = FALSE
  /\ index' = {}
  /\ jobStatus' = [j \in Jobs |-> "queued"]
  /\ task' = [t \in Tasks |-> Blank(t)]
  /\ queue' = <<>>
  /\ sending' = [g \in Senders |-> <<>>]
  /\ wk' = [w \in Workers |-> IdleWorker]
  /\ submit' = [j \in Jobs |-> IF submit[j] = "new" THEN "new" ELSE "done"]
  /\ cancel' = [j \in Jobs |-> NoCancel]
  /\ removing' = {}
  /\ taskNews' = [t \in Tasks |-> None]
  /\ jobNews' = [j \in Jobs |-> None]

\* Shutdown: the pool and the senders have drained; one last persist.  Handlers that
\* outlive the drain's deadline end with the process, as in a crash.
Shutdown ==
  /\ up /\ stopping
  /\ \A w \in Workers : wk[w].pc = "exited"
  /\ \A g \in Senders : sending[g] = <<>>
  /\ \/ HandlersDone /\ UNCHANGED used
     \/ /\ ~HandlersDone /\ used.crashes < MaxCrashes
        /\ used' = [used EXCEPT !.crashes = @ + 1]
  /\ store' = Snapshot(index, task)
  /\ Gone
  /\ UNCHANGED <<disk, acked>>

Crash ==
  /\ up /\ used.crashes < MaxCrashes
  /\ used' = [used EXCEPT !.crashes = @ + 1]
  /\ Gone
  /\ UNCHANGED <<disk, store, acked>>

\* Slip: a task found running is left so.
LoadedAsIs(t) == store.task[t]

\* A worker that was interrupted by the end of the process starts over.
Loaded(t) == IF store.task[t].status = "running"
             THEN [store.task[t] EXCEPT !.status = "queued"] ELSE store.task[t]

\* NewManager and Start: load, reset running tasks, resolve collisions in walk
\* order from an empty reservation set, persist, re-enqueue.
Boot ==
  /\ ~up /\ up' = TRUE
  /\ index' = store.jobs
  /\ LET loaded == [t \in Tasks |-> Loaded(t)]
         known == {t \in Tasks : JobOf[t] \in store.jobs}
         todo  == {t \in known : loaded[t].status \notin Terminal}
         moved == {t \in todo : ~loaded[t].wrote /\ ~loaded[t].wroteMeta}
     IN /\ \E pick \in [moved -> 0..MaxSuffix] :
             /\ ResolvedBy(pick, moved, todo \ moved, loaded, {})
             /\ task' = [t \in Tasks |-> IF t \in moved THEN Moved(loaded[t], pick[t])
                                         ELSE loaded[t]]
        /\ \E s \in Walks(todo) : sending' = [sending EXCEPT ![BootSender] = s]
        /\ jobStatus' = [j \in Jobs |-> IF j \in store.jobs THEN Aggregate(loaded, j) ELSE "queued"]
  /\ UNCHANGED <<stopping, queue, wk, handlers, disk, news, history>>
  /\ Persist

\* The output directory is the user's: files come and go under the manager.
UserDeletes(p) ==
  /\ used.edits < MaxEdits /\ p \in DOMAIN disk
  /\ disk' = Without({p})
  /\ used' = [used EXCEPT !.edits = @ + 1]
  /\ UNCHANGED <<process, memory, channels, wk, handlers, store, news, acked>>

\* A file placed under a task at work is outside what writeMetadata supports.
UserPlaces(p) ==
  /\ used.edits < MaxEdits /\ p \notin DOMAIN disk
  /\ \A w \in Workers : wk[w].task # None => p \notin Claims(T(w), Rec(w)) \cup {ZipPath(T(w), Rec(w))}
  /\ \A j \in Jobs : p \notin cancel[j].doomed
  /\ disk' = Written(p, User)
  /\ used' = [used EXCEPT !.edits = @ + 1]
  /\ UNCHANGED <<process, memory, channels, wk, handlers, store, news, acked>>

-----------------------------------------------------------------------------
\* Nothing in flight: the server waits for its next request, or is switched off.
Resting ==
  \/ ~up
  \/ /\ \A w \in Workers : wk[w].pc = "idle"
     /\ queue = <<>> /\ \A g \in Senders : sending[g] = <<>>
     /\ HandlersDone

Rest == Resting /\ UNCHANGED vars

HandlerStep ==
  \/ \E j \in Jobs : SubmitInsert(j) \/ CancelLock(j) \/ Remove(j)
  \/ \E allowed \in SUBSET Terminal : RemoveTerminal(allowed)
HandlerEnd ==
  \/ \E j \in Jobs : SubmitFinish(j) \/ CancelPersist(j) \/ CancelFinish(j)
  \/ \E js \in removing : RemoveFinish(js)
SenderStep == \E g \in Senders : Send(g) \/ SendAbort(g)
ProcessStep == Stop \/ Shutdown \/ Crash \/ Boot
UserStep ==
  \/ \E p \in DOMAIN disk : UserDeletes(p)
  \/ \E t \in Tasks : \E p \in Claims(t, task[t]) \cup {ZipPath(t, task[t])} : UserPlaces(p)

Next ==
  \/ HandlerStep \/ HandlerEnd \/ SenderStep
  \/ \E w \in Workers : WorkerStep(w)
  \/ ProcessStep \/ UserStep \/ Rest

Spec == Init /\ [][Next]_vars

\* Goroutines are scheduled; a transfer ends, by the HTTP client's timeout if need be,
\* and so do a backoff and an encoding.  Nobody has to submit, cancel, stop or boot.
Fairness ==
  /\ \A w \in Workers : WF_vars(WorkerStep(w))
  /\ \A g \in Senders : WF_vars(Send(g) \/ SendAbort(g))
  /\ \A j \in Jobs : WF_vars(SubmitFinish(j)) /\ WF_vars(CancelPersist(j) \/ CancelFinish(j))
  /\ WF_vars(\E js \in removing : RemoveFinish(js))
  /\ WF_vars(Shutdown)

FairSpec == Spec /\ Fairness
=============================================================================
