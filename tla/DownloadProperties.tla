------------------------- MODULE DownloadProperties -------------------------
(***************************************************************************)
(* What the download manager promises: see DownloadManager for the state.  *)
(***************************************************************************)
EXTENDS DownloadManager

Stages == {"idle", "leased", "reuse", "fetch", "received", "backoff", "renamed", "drop",
           "convert", "encode", "encoding", "encoded", "accept", "meta", "write", "wrote",
           "metaClean", "finalize", "aggregate", "settle", "exited"}
Exts  == {Zip} \cup {MediaExt[j] : j \in Jobs}
Names == {Name[t] : t \in Tasks}
Paths == Names \X Seq(Nat) \X Exts \X BOOLEAN
News  == Status \cup {None, "deleted"}

TaskRecords == [status : Status, suffix : Seq(Nat), ext : Exts,
                wrote : BOOLEAN, wroteMeta : BOOLEAN]
Locals == [pc : Stages, task : Tasks \cup {None}, tries : Nat,
           result : {None, "ok", "error", "cancelled"}, doomed : SUBSET Paths, news : News]
Cancels == [pc : {"no", "persist", "clean"}, doomed : SUBSET Paths,
            tasks : SUBSET Tasks, news : News]

\* Type invariant: the shape of every variable.
TypeOK ==
  /\ up \in BOOLEAN /\ stopping \in BOOLEAN
  /\ index \subseteq Jobs
  /\ jobStatus \in [Jobs -> Status]
  /\ task \in [Tasks -> TaskRecords]
  /\ queue \in Seq(Tasks)
  /\ sending \in [Senders -> Seq(Tasks)]
  /\ wk \in [Workers -> Locals]
  /\ \A w \in Workers : wk[w].pc \notin {"idle", "exited"} => wk[w].task \in Tasks
  /\ submit \in [Jobs -> {"new", "inserted", "done"}]
  /\ cancel \in [Jobs -> Cancels]
  /\ removing \subseteq SUBSET Jobs
  /\ DOMAIN disk \subseteq Paths
  /\ \A p \in DOMAIN disk : disk[p] \in Tasks \cup {User}
  /\ store \in [jobs : SUBSET Jobs, task : [Tasks -> TaskRecords]]
  /\ taskNews \in [Tasks -> News]
  /\ jobNews \in [Jobs -> News]
  /\ acked \subseteq Jobs
  /\ used \in [crashes : Nat, stops : Nat, edits : Nat]

-----------------------------------------------------------------------------
Holds(w, t)  == wk[w].task = t /\ wk[w].pc # "settle"
Untouched(j) == \A w \in Workers : \A t \in TasksOf(j) : wk[w].task # t

InSender(t) == \E g \in Senders : \E i \in DOMAIN sending[g] : sending[g][i] = t
InQueue(t)  == \E i \in DOMAIN queue : queue[i] = t
InHand(t)   == \E w \in Workers : Holds(w, t)

QueueOnce  == \A i, k \in DOMAIN queue : queue[i] = queue[k] => i = k
SenderOnce == \A g, h \in Senders : \A i \in DOMAIN sending[g], k \in DOMAIN sending[h] :
                sending[g][i] = sending[h][k] => g = h /\ i = k

\* A task is on its way at most once: no two workers ever hold it, and nobody
\* holds it while it is still queued or to be sent.  Two workers on one task would
\* rename over, convert and delete the same files (enqueueAsync, leaseTask, Start).
NeverTwice ==
  /\ QueueOnce /\ SenderOnce
  /\ \A t \in Tasks : \A v, w \in Workers : Holds(v, t) /\ Holds(w, t) => v = w
  /\ \A t \in Tasks : ~(InSender(t) /\ InQueue(t)) /\ ~(InQueue(t) /\ InHand(t))
                      /\ ~(InSender(t) /\ InHand(t))

\* No task is stranded: while the pool works, a task that is not settled is being
\* submitted, sent, queued or executed, and one shown as running has a worker.
\* A worker that returned with its task unsettled would leave it so forever.
NoStrandedTask ==
  /\ up /\ ~stopping => \A t \in Tasks : Live(t) =>
       submit[JobOf[t]] = "inserted" \/ InSender(t) \/ InQueue(t) \/ InHand(t)
  /\ up => \A t \in Tasks : Live(t) /\ task[t].status = "running" => InHand(t)

\* Once the workers are through with a job, its status is the aggregate of its
\* tasks: the last finalizeTask or the Cancel that overtook it saw them all.
JobStatusSettles ==
  up => \A j \in index :
    (\A w \in Workers : \A t \in TasksOf(j) : ~Holds(w, t)) => jobStatus[j] = Aggregate(task, j)

\* Tasks that can still write never share a path, their intermediate and sidecar
\* files included (reservedPathsLocked, resolveJobCollisionsLocked).
LivePathsDisjoint ==
  \A t, u \in Tasks : t # u /\ Live(t) /\ Live(u) => Claims(t, task[t]) \cap Claims(u, task[u]) = {}

\* Nobody touched the output directory, and the process did not die.
Undisturbed == used.crashes = 0 /\ used.edits = 0

\* A sidecar that was written before a restart is given up when it cannot be read again.
Tracked(p) == ~p[4] \/ used.stops = 0

\* Jobs are transactional: when a failed or cancelled job has come to rest, no file
\* any of its tasks wrote is left, whoever finished, failed or was interrupted where.
\* (A crash between a write and its record may leave one: the code says so.)
TransactionalCleanup ==
  Undisturbed =>
    \A j \in index : jobStatus[j] \in {"failed", "cancelled"} /\ Untouched(j) /\ cancel[j] = NoCancel
      => \A p \in DOMAIN disk : Tracked(p) => disk[p] \notin TasksOf(j)

\* The files of a completed job stay on disk until the user deletes them, whatever
\* other jobs of the same name do (Manager.Remove's contract).
CompletedFilesStay ==
  up /\ used.edits = 0 =>
    \A j \in index : jobStatus[j] = "completed" =>
      \A t \in TasksOf(j) : \A p \in Claims(t, task[t]) : p \in DOMAIN disk /\ disk[p] = t

\* What a task believes it owns is its own: after any crash or restart the media
\* that reuseMedia will adopt was written by this very task.
OwnedMediaIsMine ==
  used.edits = 0 =>
    \A t \in Tasks : Live(t) /\ task[t].wrote /\ FilePath(t, task[t]) \in DOMAIN disk
      => disk[FilePath(t, task[t])] = t

\* A sidecar the user put where a task is about to write its own is neither
\* overwritten nor cleaned up, however the task ends, is interrupted or restarted
\* (writeMetadata, finishMetadata, Task.WroteMeta).  With a second edit the user
\* could replace the very sidecar the task wrote: such a file is taken for its own.
ForeignSidecarKept ==
  [][\A p \in DOMAIN disk : p[4] /\ disk[p] = User /\ used.edits = 1 =>
       used'.edits = 2 \/ (p \in DOMAIN disk' /\ disk'[p] = User)]_vars

\* The last thing clients hear of a settled task is how it ended, although leaseTask,
\* Cancel and finalizeTask publish after the lock is released.
LastTaskNews ==
  up /\ used.crashes = 0 /\ used.stops = 0 =>
    \A t \in Tasks : JobOf[t] \in index /\ task[t].status \in Terminal /\ cancel[JobOf[t]] = NoCancel
                     /\ (\A w \in Workers : wk[w].task # t \/ wk[w].pc \in {"aggregate", "settle"})
      => taskNews[t] = task[t].status

\* No client is left showing a settled job as running: the event that says so is
\* never the last one about it.  The clients never recompute a job's status.
NoStaleRunning ==
  up => \A j \in index : jobStatus[j] \in Terminal /\ Untouched(j) /\ cancel[j] = NoCancel
          => jobNews[j] # "running"

\* Once Cancel has returned, no crash or restart brings the job back to work.
CancelDurable ==
  \A j \in acked : j \in store.jobs => \A t \in TasksOf(j) : store.task[t].status \in Terminal

\* In the index on disk a settled task stays as it settled: no worker's or handler's
\* later snapshot, and no restart, re-opens it or changes how it ended.
StoredSettledForever ==
  [][\A t \in Tasks : JobOf[t] \in store.jobs \cap store'.jobs /\ store.task[t].status \in Terminal
       => store'.task[t].status = store.task[t].status]_vars

\* After orderly shutdowns, whatever was at work as they came, the index on disk has no task
\* recorded as running, and it has every job that was submitted and that nobody may remove: no
\* later save, and no boot, has lost one.
NoneLeftRunning ==
  ~up /\ used.crashes = 0 =>
    \A t \in Tasks : JobOf[t] \in store.jobs => store.task[t].status # "running"
HasSubmitted(js) == \A j \in Jobs \ Removable : submit[j] # "new" => j \in js
NoneForgotten == ~up /\ used.crashes = 0 => HasSubmitted(store.jobs)
DrainedStore == NoneLeftRunning /\ NoneForgotten

\* A job, however its tasks fail, retry or are cancelled, ends and is reported ended.
JobsSettle ==
  \A j \in Jobs : (j \in index) ~> (j \notin index \/ jobStatus[j] \in Terminal)

\* A requested shutdown completes: a full queue, a waiting sender or a retry in its
\* backoff cannot hold the process.
ShutdownCompletes == stopping ~> ~up

-----------------------------------------------------------------------------
(* Why CancelDurable and StoredSettledForever hold: an inductive invariant *)
(* over the memory, the index on disk and the Cancel calls in progress.    *)

SettledInMemory(t) == task[t].status \in Terminal
SettledOnDisk(t)   == store.task[t].status \in Terminal

\* An ID that Submit has not handed out is known to nobody.
FreshJobs ==
  \A j \in Jobs : submit[j] = "new" =>
    j \notin index /\ j \notin store.jobs /\ j \notin acked /\ cancel[j].pc = "no"

\* A process that is down has no memory and no calls in progress.
DownIsEmpty == ~up => index = {} /\ \A j \in Jobs : cancel[j].pc = "no"

\* Where the index says how a task settled, the memory agrees.
MemoryAgrees ==
  \A t \in Tasks : JobOf[t] \in index /\ JobOf[t] \in store.jobs /\ SettledOnDisk(t)
    => task[t].status = store.task[t].status

\* A job under Cancel, or whose Cancel has returned, has no open task in memory ...
CancelSettlesMemory ==
  \A t \in Tasks : JobOf[t] \in index /\ (JobOf[t] \in acked \/ cancel[JobOf[t]].pc # "no")
    => SettledInMemory(t)

\* ... and none on disk, once Cancel has saved.
CancelSettlesDisk ==
  \A t \in Tasks : JobOf[t] \in store.jobs /\ (JobOf[t] \in acked \/ cancel[JobOf[t]].pc = "clean")
    => SettledOnDisk(t)

\* How a task settled is the same in memory and on disk as far as both know of it, and
\* stays so through Cancel, saves, crashes and boots.
SettleInv ==
  TypeOK /\ FreshJobs /\ DownIsEmpty /\ MemoryAgrees /\ CancelSettlesMemory /\ CancelSettlesDisk

-----------------------------------------------------------------------------
(* Why NeverTwice holds: a task enters a sender only when its Submit ends  *)
(* or the process boots, and at either moment it is nowhere else.          *)

Carries(w, t) == wk[w].task = t
Nowhere(t) == ~InSender(t) /\ ~InQueue(t) /\ \A w \in Workers : ~Carries(w, t)

WorkerOnce == \A v, w \in Workers : \A t \in Tasks : Carries(v, t) /\ Carries(w, t) => v = w
Apart == \A t \in Tasks :
  /\ ~(InSender(t) /\ InQueue(t))
  /\ \A w \in Workers : Carries(w, t) => ~InSender(t) /\ ~InQueue(t)
Unsent == \A t \in Tasks : submit[JobOf[t]] # "done" => Nowhere(t)
DownIsIdle == ~up => (\A t \in Tasks : Nowhere(t)) /\ \A j \in Jobs : submit[j] # "inserted"

\* A task is at most at one place of one of its three kinds, at none before its job has
\* been handed to a sender, and at none, nor being submitted, while the process is down.
OnceInv == QueueOnce /\ SenderOnce /\ WorkerOnce /\ Apart /\ Unsent /\ DownIsIdle

-----------------------------------------------------------------------------
(* Why NoStrandedTask, NoneLeftRunning and JobStatusSettles hold: what a   *)
(* worker at each stage says of its task, and where an open task waits.    *)

\* From leaseTask to the critical section that settles the task; and the way out after it.
Working == {"leased", "reuse", "fetch", "received", "backoff", "renamed", "convert", "encode",
            "encoding", "encoded", "accept", "meta", "write", "wrote"}
Ending  == {"metaClean", "finalize", "aggregate", "settle"}

\* A worker executes a running task, or one that Cancel settled under it; it is on its way out
\* with a task that is settled, or left for the next boot.
InStage(w) == wk[w].task \in Tasks =>
  \/ wk[w].pc \in Working /\ Rec(w).status \in {"running"} \cup Terminal
  \/ wk[w].pc = "drop" /\ Rec(w).status \in Terminal
  \/ wk[w].pc \in Ending /\ (Rec(w).status \in Terminal \/ (stopping /\ Rec(w).status = "queued"))

\* A running task has its worker; a queued one is on its way to one, until the shutdown.
HasPlace(t) ==
  \/ task[t].status = "running" /\ \E w \in Workers : Carries(w, t) /\ wk[w].pc \in Working
  \/ task[t].status = "queued" /\ (stopping \/ submit[JobOf[t]] = "inserted" \/ InSender(t) \/ InQueue(t))
Placed == up => \A t \in Tasks : Live(t) => HasPlace(t)

\* Nobody has touched the tasks of a job that was not submitted yet, its sender has nothing to
\* send before its Submit ends, and the index on disk tells nothing of a job it does not hold.
Untold ==
  /\ \A j \in Jobs : submit[j] = "new" => jobStatus[j] = "queued"
  /\ \A j \in Jobs : submit[j] # "done" => sending[j] = <<>>
  /\ \A t \in Tasks : submit[JobOf[t]] = "new" => task[t].status = "queued"
  /\ \A t \in Tasks : JobOf[t] \notin store.jobs => store.task[t].status = "queued"

\* No open task is ever without a worker or a place in a queue, and no job that rests has
\* another status than its tasks, in memory; no running task is left on disk by a shutdown.
PlaceInv ==
  (\A w \in Workers : InStage(w)) /\ Placed /\ Untold /\ JobStatusSettles /\ NoneLeftRunning

\* Why NoneForgotten holds: the process, while it runs, and then the index on disk know the jobs.
IndexInv == used.crashes = 0 => HasSubmitted(IF up THEN index ELSE store.jobs)

-----------------------------------------------------------------------------
(* Why LastTaskNews holds: who still owes the clients the end of a task.   *)

\* The worker that has it announces it in finalizeTask; a Cancel in progress does so for the
\* tasks that it settled.
WorkerOwes(t) == \E w \in Workers : Carries(w, t) /\ wk[w].pc \notin {"aggregate", "settle"}
CancelOwes(t) == t \in cancel[JobOf[t]].tasks

\* As long as nobody asked the process to stop and it did not die.
Unbroken == up /\ used.crashes = 0 /\ used.stops = 0
EndIsTold == Unbroken => \A t \in Tasks : JobOf[t] \in index /\ task[t].status \in Terminal
  => taskNews[t] = task[t].status \/ WorkerOwes(t) \/ CancelOwes(t)

\* What Cancel settled stays cancelled, and so does its job, which a second Cancel then refuses.
CancelHolds == \A j \in Jobs :
  /\ cancel[j].pc = "no" => cancel[j].tasks = {}
  /\ \A t \in cancel[j].tasks : JobOf[t] = j /\ task[t].status = "cancelled"
  /\ cancel[j].tasks # {} => jobStatus[j] = "cancelled"
EndsAreUsed == (~up \/ stopping) => used.crashes # 0 \/ used.stops # 0

\* Every settled task was announced as it ended, or somebody is about to.
ToldInv == EndIsTold /\ CancelHolds /\ EndsAreUsed

-----------------------------------------------------------------------------
(* Why TransactionalCleanup holds: every file is in its task's record, or  *)
(* in the hands of a worker that will record or delete it.                 *)

Ended(j) == jobStatus[j] \in {"failed", "cancelled"}
Labelled(p, t) == p \in DOMAIN disk /\ disk[p] = t
Owns(t, tk, p) == (tk.wrote /\ p = FilePath(t, tk)) \/ (tk.wroteMeta /\ p = MetaPath(t, tk))

\* What worker w has on disk that its task's record does not tell yet.
Making(w, p) ==
  \/ wk[w].pc = "renamed" /\ p = FilePath(T(w), Rec(w))
  \/ wk[w].pc \in {"encoding", "encoded"} /\ p = FinalPath(T(w), Rec(w))
  \/ wk[w].pc = "wrote" /\ wk[w].result = "ok" /\ p = MetaPath(T(w), Rec(w))

\* What a worker whose task was cancelled is going to delete.
Deletes(w, p) ==
  \/ Making(w, p)
  \/ wk[w].pc \in {"drop", "accept"} /\ p = FilePath(T(w), Rec(w))
  \/ wk[w].pc = "metaClean" /\ p \in wk[w].doomed

\* A file is recorded as its task's, or the task's worker has still to record it.
Accounted == up => \A t \in Tasks, p \in DOMAIN disk :
  JobOf[t] \in index /\ disk[p] = t /\ Tracked(p) =>
    Owns(t, task[t], p) \/ \E w \in Workers : Carries(w, t) /\ Making(w, p)

\* What an ended job has on disk somebody is about to delete.
DeletedFor(j, t, p) ==
  \/ p \in cancel[j].doomed
  \/ \E w \in Workers : Carries(w, t) /\ Deletes(w, p)
  \/ \E w \in Workers : wk[w].task \in TasksOf(j) /\ wk[w].pc = "settle" /\ p \in wk[w].doomed
Owed == up => \A t \in Tasks, p \in DOMAIN disk :
  JobOf[t] \in index /\ Ended(JobOf[t]) /\ disk[p] = t /\ Tracked(p) => DeletedFor(JobOf[t], t, p)

\* The same of the index on disk while the process is down.
AtRest == ~up => \A t \in Tasks, p \in DOMAIN disk :
  JobOf[t] \in store.jobs /\ disk[p] = t /\ Tracked(p) =>
    Owns(t, store.task[t], p) /\ Aggregate(store.task, JobOf[t]) \notin {"failed", "cancelled"}

\* A conversion starts from an archive that the task owns, and ends without it.
Converting(w) ==
  /\ wk[w].pc \in {"convert", "encode", "encoding", "encoded"} => Rec(w).wrote
  /\ wk[w].pc \in {"encode", "encoding", "encoded"} => Rec(w).ext # MediaExt[J(w)]
  /\ wk[w].pc = "encoded" => ~Labelled(FilePath(T(w), Rec(w)), T(w))

\* Until the first stop a task writes its sidecar once.
FirstSidecar == used.stops = 0 => \A t \in Tasks : task[t].wroteMeta =>
  task[t].status \in Terminal /\ \A w \in Workers : Carries(w, t) => wk[w].pc \notin Working

\* Only a Cancel settles a task under its worker, and it settles all tasks of the job.
OnlyCancelled(w) ==
  /\ wk[w].pc \in Working /\ Rec(w).status \in Terminal => Rec(w).status = "cancelled"
  /\ wk[w].pc = "wrote" /\ wk[w].result = "cancelled" => CtxDone(w)
Together(js, tk) == \A t, u \in Tasks :
  JobOf[t] = JobOf[u] /\ JobOf[t] \in js /\ tk[t].status = "cancelled" => tk[u].status \in Terminal
EndedJobs == \A t \in Tasks : JobOf[t] \in index /\ Ended(JobOf[t]) => task[t].status \in Terminal

\* How tasks and jobs end.
EndInv ==
  /\ \A w \in Workers : wk[w].task \in Tasks => OnlyCancelled(w)
  /\ Together(index, task) /\ Together(store.jobs, store.task) /\ EndedJobs

\* A task that was not submitted yet has no file.
Unwritten == \A t \in Tasks : submit[JobOf[t]] = "new" => \A p \in DOMAIN disk : disk[p] # t

\* As long as the process ends in order, there is no file that nobody knows of, and none of an
\* ended job that nobody is about to delete.
FilesInv ==
  /\ \A w \in Workers : wk[w].task \in Tasks => Converting(w)
  /\ FirstSidecar /\ Unwritten /\ Accounted /\ Owed /\ AtRest
CleanInv == Undisturbed => FilesInv
-----------------------------------------------------------------------------
(* Why LivePathsDisjoint, OwnedMediaIsMine and CompletedFilesStay hold as  *)
(* long as nobody cancelled a task, edited the directory or crashed.       *)

\* Nor has a Cancel settled a task that was still open.
Calm == Undisturbed /\ acked = {} /\ \A j \in Jobs : cancel[j].tasks = {}

\* A job that has ended stays as its tasks ended it; one that was removed while a worker was on
\* its way out had ended; and every open task on its way is one of a job in the list.
JobInv ==
  /\ \A j \in Jobs : jobStatus[j] \in Terminal => jobStatus[j] = Aggregate(task, j)
  /\ \A w \in Workers : wk[w].task \in Tasks /\ J(w) \notin index => jobStatus[J(w)] \in Terminal
  /\ \A t \in Tasks : task[t].status \notin Terminal /\ (submit[JobOf[t]] = "inserted" \/ ~Nowhere(t))
       => JobOf[t] \in index

Open(js, tk, t) == JobOf[t] \in js /\ tk[t].status \notin Terminal
Whole(t, rec) == rec.wrote /\ rec.ext = MediaExt[JobOf[t]] /\ (JobOf[t] \in WithMeta => rec.wroteMeta)

\* What the records tk of the tasks of the jobs js say of their files: a completed task has all
\* of them, an open one with media has more to do, and a sidecar comes after its media.
Records(js, tk) == \A t \in Tasks : JobOf[t] \in js =>
  /\ tk[t].ext \in {FirstExt(JobOf[t]), MediaExt[JobOf[t]]}
  /\ tk[t].status # "cancelled"
  /\ tk[t].status = "completed" => Whole(t, tk[t])
  /\ Open(js, tk, t) /\ tk[t].wrote => JobOf[t] \in Ugoira \cup WithMeta
  /\ \A p \in DOMAIN disk : disk[p] = t /\ p[4] => tk[t].wrote

\* Open tasks share no path, and what is at their paths is their own.
Separate(js, tk) == \A t, u \in Tasks : t # u /\ Open(js, tk, t) /\ Open(js, tk, u)
  => Claims(t, tk[t]) \cap Claims(u, tk[u]) = {}
Mine(js, tk) == \A t \in Tasks : Open(js, tk, t)
  => \A p \in Claims(t, tk[t]) \cap DOMAIN disk : disk[p] = t
PathsOf(js, tk) == Records(js, tk) /\ Separate(js, tk) /\ Mine(js, tk)

\* What a task of a job that has not failed owns is on disk, but for the archive of a conversion
\* that has just been encoded.
Encoded(t, p) == \E w \in Workers : Carries(w, t) /\ wk[w].pc = "encoded" /\ p = FilePath(t, task[t])
Stored == \A t \in Tasks : JobOf[t] \in index /\ jobStatus[JobOf[t]] # "failed"
  => \A p \in WrittenPaths({t}, task) : Labelled(p, t) \/ Encoded(t, p)
StoredAtRest == \A t \in Tasks : JobOf[t] \in store.jobs /\ Aggregate(store.task, JobOf[t]) # "failed"
  => \A p \in WrittenPaths({t}, store.task) : Labelled(p, t)

\* A worker at each stage has on disk what it has made, and nothing to delete.
AtWork(w) == wk[w].task \in Tasks =>
  /\ wk[w].pc # "drop"
  /\ wk[w].pc = "metaClean" => wk[w].doomed = {}
  /\ wk[w].pc \in {"accept", "meta", "write", "wrote"} => Rec(w).wrote /\ Rec(w).ext = MediaExt[J(w)]
  /\ wk[w].pc \in {"meta", "write", "wrote"} => J(w) \in WithMeta
  /\ wk[w].pc = "renamed" => Labelled(FilePath(T(w), Rec(w)), T(w))
  /\ wk[w].pc \in {"encoding", "encoded"} => Labelled(FinalPath(T(w), Rec(w)), T(w))
  /\ wk[w].pc = "wrote" /\ wk[w].result = "ok" => Labelled(MetaPath(T(w), Rec(w)), T(w))

\* Only one is about to delete a failed job's files, and they are that job's.
Condemns(w) == wk[w].task \in Tasks /\ wk[w].pc = "settle" /\ wk[w].doomed # {}
Condemned(j, ps) == jobStatus[j] = "failed" /\ \A p \in ps : p \in DOMAIN disk /\ disk[p] \in TasksOf(j)
OneSettles ==
  /\ \A j \in Jobs : cancel[j].pc = "no" => cancel[j].doomed = {}
  /\ \A j \in Jobs : cancel[j].doomed # {} =>
       Condemned(j, cancel[j].doomed) /\ \A w \in Workers : Condemns(w) => J(w) # j
  /\ \A w \in Workers : Condemns(w) =>
       Condemned(J(w), wk[w].doomed) /\ \A v \in Workers : Condemns(v) /\ J(v) = J(w) => v = w

\* A task that was not submitted, or that the index on disk does not hold, is as it was made.
Unrecorded ==
  /\ \A t \in Tasks : submit[JobOf[t]] = "new" => task[t] = Blank(t)
  /\ \A t \in Tasks : JobOf[t] \notin store.jobs => store.task[t] = Blank(t)

PathParts ==
  /\ \A t \in Tasks : task[t].status # "cancelled"
  /\ PathsOf(index, task) /\ Stored /\ (\A w \in Workers : AtWork(w)) /\ OneSettles
PathInv == Calm => PathParts /\ (~up => PathsOf(store.jobs, store.task) /\ StoredAtRest)

-----------------------------------------------------------------------------
(* Why ForeignSidecarKept holds as long as nobody cancelled a task and     *)
(* the process did not crash.                                              *)

\* Nor has a Cancel settled a task that was still open; the user may have edited the directory.
Spared == used.crashes = 0 /\ acked = {} /\ \A j \in Jobs : cancel[j].tasks = {}
NoneCancelled ==
  /\ \A t \in Tasks : task[t].status # "cancelled" /\ store.task[t].status # "cancelled"
  /\ \A w \in Workers : wk[w].task \in Tasks /\ wk[w].pc = "metaClean" => wk[w].doomed = {}

\* The record says that the task wrote its sidecar, at p.
Sidecar(t, rec, p) == rec.wroteMeta /\ p = MetaPath(t, rec)

\* No record of a job that may still fail claims p, nobody is about to delete it or to record it.
Unclaimed(p) ==
  /\ \A t \in Tasks : JobOf[t] \in index /\ jobStatus[JobOf[t]] # "failed" => ~Sidecar(t, task[t], p)
  /\ ~up => \A t \in Tasks : JobOf[t] \in store.jobs /\ Aggregate(store.task, JobOf[t]) # "failed"
              => ~Sidecar(t, store.task[t], p)
  /\ \A w \in Workers : wk[w].task \in Tasks =>
       /\ wk[w].pc = "settle" => p \notin wk[w].doomed
       /\ wk[w].pc = "wrote" /\ wk[w].result = "ok" => p # MetaPath(T(w), Rec(w))
  /\ \A j \in Jobs : p \notin cancel[j].doomed

\* The file the user placed with the first edit is none that a task has recorded.
ForeignInv ==
  /\ used.edits = 0 => \A p \in DOMAIN disk : disk[p] # User
  /\ Spared => NoneCancelled
  /\ Spared /\ used.edits = 1 => \A p \in DOMAIN disk : disk[p] = User /\ p[4] => Unclaimed(p)
-----------------------------------------------------------------------------
(* Why LivePathsDisjoint holds until the first restart, also when jobs are *)
(* cancelled and the user edits the output directory.                      *)

\* The process that runs is the first one, and nobody has asked it to stop.
FirstRun == used.crashes = 0 /\ used.stops = 0

\* The record of a task before its media: no file yet, the extension it started with.
NoMedia(t) == ~task[t].wrote /\ task[t].ext = FirstExt(JobOf[t])

\* Only a boot leases a task that has media: reuseMedia finds nothing to fall back from, so that
\* the paths a task claims only ever become fewer.
FirstInv == FirstRun =>
  /\ Separate(index, task)
  /\ \A t \in Tasks : task[t].status = "queued" => NoMedia(t)
  /\ \A w \in Workers : wk[w].task \in Tasks /\ wk[w].pc \in {"leased", "reuse"} => NoMedia(T(w))
=============================================================================
