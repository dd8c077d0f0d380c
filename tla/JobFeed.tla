------------------------------- MODULE JobFeed -------------------------------
(***************************************************************************)
(* What the web client's copies of the download jobs follow: the core's    *)
(* jobs of one illustration, the lists it answers with and the event       *)
(* stream that tells of their changes.  The core is modelled from what the *)
(* client sees of it.                                                      *)
(***************************************************************************)
EXTENDS Integers, Sequences, FiniteSets

CONSTANTS
  OldLevels, \* how far the first job may be when the page opens
  NJobs,     \* bound: jobs of the illustration, numbered in order of submission
  MaxNow,    \* bound: changes of the jobs and gaps in the stream
  MaxResync  \* bound: times the stream is lost for longer than the core remembers

ASSUME FeedAssumption == OldLevels \subseteq 0 .. 5 /\ NJobs \in Nat

VARIABLES
  lvl,     \* lvl[j]: how far job j is
  now,     \* changes so far
  live,    \* the stream is open on the core's side
  feed,    \* what it has sent that the client has not handled
  resyncs

fvars == <<lvl, now, live, feed, resyncs>>

Jobs  == 1 .. NJobs
Steps == <<"queued", "started", "task", "ended", "deleted">>
Statuses == {"queued", "running", "ended"}

\* A job as the API shows it: its status, whether its task is done, and updated_at, which
\* grows with its level.
StatusAt(l) == CASE l = 1 -> "queued" [] l \in {2, 3} -> "running" [] OTHER -> "ended"
View(j) == [job |-> j, status |-> StatusAt(lvl[j]), task |-> lvl[j] >= 3, upd |-> lvl[j]]

\* No job, and an answer that is not there yet.
None    == [job |-> 0]
Pending == {None}

Active(l) == l \in 1 .. 3
Listed(levels) == {View(j) : j \in {i \in Jobs : lvl[i] \in levels}}
ActiveList == Listed(1 .. 3)
RecentList == Listed({4})

FInit ==
  /\ \E l \in OldLevels : lvl = [j \in Jobs |-> IF j = 1 THEN l ELSE 0]
  /\ now = 0
  /\ live = FALSE /\ feed = <<>> /\ resyncs = 0

Event(kind, j) == [kind |-> kind, job |-> j]
Sent(events)   == IF live THEN feed \o events ELSE feed

\* A change with its events, that of its task and its own when the job is cancelled before the task
\* is done. The core sends them after the change; who sees it earlier asks once more when they come.
Change(j, level) ==
  /\ now + resyncs < MaxNow
  /\ now' = now + 1
  /\ lvl' = [lvl EXCEPT ![j] = level]
  /\ feed' = Sent(IF level = lvl[j] + 1 THEN <<Event(Steps[level], j)>>
                  ELSE <<Event("task", j), Event("ended", j)>>)
  /\ UNCHANGED <<live, resyncs>>

\* An illustration has one active job; a submission joins it.
Create(j) ==
  /\ lvl[j] = 0 /\ \A i \in Jobs : IF i < j THEN lvl[i] >= 4 ELSE lvl[i] = 0
  /\ Change(j, 1)
Goes(j)   == lvl[j] \in 1 .. 4 /\ Change(j, lvl[j] + 1)
Cancel(j) == lvl[j] \in 1 .. 2 /\ Change(j, 4)
JobStep   == \E j \in Jobs : Create(j) \/ Goes(j) \/ Cancel(j)

Connect == live' = TRUE /\ feed' = <<[kind |-> "open"]>> /\ UNCHANGED <<lvl, now, resyncs>>
Hangup  == live' = FALSE /\ feed' = <<>> /\ UNCHANGED <<lvl, now, resyncs>>

\* The browser reconnects after the core has forgotten the last event it heard.
Resync ==
  /\ live /\ resyncs < MaxResync /\ now + resyncs < MaxNow
  /\ \A i \in DOMAIN feed : feed[i].kind # "open"
  /\ resyncs' = resyncs + 1
  /\ feed' = <<[kind |-> "resync"]>>
  /\ UNCHANGED <<lvl, now, live>>

Take == feed # <<>> /\ feed' = Tail(feed) /\ UNCHANGED <<lvl, now, live, resyncs>>
=============================================================================
