--------------------------- MODULE DownloadMirror ---------------------------
(***************************************************************************)
(* The job the web client shows for an illustration                        *)
(* (download-state-provider.tsx, download-store.ts,                        *)
(* scoped-submissions.ts): adopted from two list requests at sign-in and   *)
(* when the stream opens, kept up to date by events, and owned by a        *)
(* session that may end while any request is on its way.                   *)
(***************************************************************************)
EXTENDS JobFeed, SequencesExt

CONSTANT MaxSession  \* bound: sessions of the page, the loading one first

VARIABLES
  session,    \* sessionRef: the sessions, numbered in the order React commits them
  user,       \* its user: one that signed in, or none
  effects,    \* the session whose passive effects have run
  streaming,  \* authenticated, as the stream's effect last saw it
  connected,  \* onopen was called since
  entry,      \* the store's job of the illustration, and the session that asked for it
  fetches,    \* the refreshes on their way
  refreshing, \* refreshingRef
  lookups,    \* getDownload() calls on their way
  posts,      \* submissions on their way
  requests    \* the session of the submission that others are coalesced with

mirror == <<session, user, effects, streaming, connected, entry, fetches, refreshing, lookups,
            posts, requests>>
mvars  == <<fvars, mirror>>

Users == {"anon", "signed-in"}
SignedIn(u) == u = "signed-in"

MInit ==
  /\ FInit
  /\ session = 1 /\ user = "loading" /\ effects = 1
  /\ streaming = FALSE /\ connected = FALSE /\ entry = None
  /\ fetches = <<>> /\ refreshing = 0 /\ lookups = {}
  /\ posts = <<>> /\ requests = 0

-----------------------------------------------------------------------------
(* Sessions                                                                *)

\* A status with another user is rendered, be it another account: the layout effect makes it
\* current and forgets the submissions of the last one.  The effects of the last render have
\* run by then.
Become(u) ==
  /\ session < MaxSession /\ effects = session /\ (user = u => SignedIn(u))
  /\ session' = session + 1 /\ user' = u
  /\ requests' = 0
  /\ UNCHANGED <<fvars, effects, streaming, connected, entry, fetches, refreshing, lookups, posts>>

Foreign(r) == r.session # session

\* refresh(): calls in one session are coalesced while one is on its way.
RefreshJobs ==
  IF SignedIn(user) /\ refreshing # session
  THEN /\ refreshing' = session
       /\ fetches' = Append(fetches, [session |-> session, active |-> Pending, recent |-> Pending])
  ELSE UNCHANGED <<refreshing, fetches>>

\* The passive effects of the session: the store is emptied and filled again, the stream
\* follows whether somebody is signed in.
Effects ==
  /\ effects # session
  /\ effects' = session
  /\ entry' = None
  /\ RefreshJobs
  /\ streaming' = SignedIn(user)
  /\ IF streaming = SignedIn(user) THEN UNCHANGED <<fvars, connected>>
     ELSE Hangup /\ connected' = FALSE
  /\ UNCHANGED <<session, user, lookups, posts, requests>>

\* The core accepts the stream.
Accepted ==
  /\ streaming /\ ~live /\ Connect
  /\ UNCHANGED mirror

-----------------------------------------------------------------------------
(* Snapshots                                                               *)

\* The core answers one of the two requests; one that fails counts as empty.
ServeList(i) ==
  /\ \E fails \in BOOLEAN :
       \/ /\ fetches[i].active = Pending
          /\ fetches' = [fetches EXCEPT ![i].active = IF fails THEN {} ELSE ActiveList]
       \/ /\ fetches[i].recent = Pending
          /\ fetches' = [fetches EXCEPT ![i].recent = IF fails THEN {} ELSE RecentList]
  /\ UNCHANGED <<fvars, session, user, effects, streaming, connected, entry, refreshing, lookups,
                 posts, requests>>

\* insert(): of several jobs of the illustration the one updated last is kept.
Older(v, w) == v.job < w.job \/ (v.job = w.job /\ v.upd <= w.upd)
Newest(jobs) == IF jobs = {} THEN None ELSE CHOOSE v \in jobs : \A w \in jobs : Older(w, v)

From(v, r) == IF v = None THEN None
              ELSE [job |-> v.job, status |-> v.status, task |-> v.task, from |-> r.session]

\* finally: only the refresh that others are coalesced with does.
Frees(f) == IF refreshing = f.session THEN 0 ELSE refreshing

\* Both lists are there: a session that is still current adopts them.
Adopt(i) ==
  LET f == fetches[i] IN
  /\ Pending \notin {f.active, f.recent}
  /\ fetches' = RemoveAt(fetches, i)
  /\ refreshing' = Frees(f)
  /\ entry' = IF Foreign(f) THEN entry ELSE From(Newest(f.active \cup f.recent), f)
  /\ UNCHANGED <<fvars, session, user, effects, streaming, connected, lookups, posts, requests>>

-----------------------------------------------------------------------------
(* Events                                                                  *)

\* applyDownloadEvent(): an event of another job than the tracked one is passed over.
Patched(e) ==
  IF entry.job # e.job THEN entry
  ELSE CASE e.kind = "started" -> [entry EXCEPT !.status = "running"]
         [] e.kind = "task"    -> [entry EXCEPT !.task = TRUE]
         [] e.kind = "ended"   -> [entry EXCEPT !.status = "ended"]
         [] e.kind = "deleted" -> None
         [] OTHER              -> entry

HearJob(e) ==
  /\ entry' = Patched(e)
  /\ lookups' = IF e.kind = "queued" /\ entry.job # e.job
                THEN lookups \cup {[job |-> e.job, session |-> session, got |-> None]}
                ELSE lookups
  /\ UNCHANGED <<connected, fetches, refreshing>>

\* The stream opens for the first time since it was set up, or tells of a gap.
HearAgain(e) ==
  /\ connected' = TRUE
  /\ IF e.kind = "open" /\ connected THEN UNCHANGED <<fetches, refreshing>> ELSE RefreshJobs
  /\ UNCHANGED <<entry, lookups>>

Hear ==
  /\ Take
  /\ LET e == Head(feed) IN IF e.kind \in {"open", "resync"} THEN HearAgain(e) ELSE HearJob(e)
  /\ UNCHANGED <<session, user, effects, streaming, posts, requests>>

\* getDownload(): the core's answer, and its arrival.
ServeLookup(g) ==
  /\ g.got = None /\ lvl[g.job] \in 1 .. 4
  /\ lookups' = (lookups \ {g}) \cup {[g EXCEPT !.got = View(g.job)]}
  /\ UNCHANGED <<fvars, session, user, effects, streaming, connected, entry, fetches, refreshing,
                 posts, requests>>

\* Slip: whoever is signed in adopts the answer.
AdoptAny(g) == TRUE
Adoptable(g) == ~Foreign(g)

\* The answer arrives, or the call fails.
FinishLookup(g) ==
  /\ lookups' = lookups \ {g}
  /\ entry' = IF g.got # None /\ Adoptable(g) THEN From(g.got, g) ELSE entry
  /\ UNCHANGED <<fvars, session, user, effects, streaming, connected, fetches, refreshing, posts,
                 requests>>

\* The sweep of ended jobs.
Sweep ==
  /\ entry # None /\ entry.status = "ended"
  /\ entry' = None
  /\ UNCHANGED <<fvars, session, user, effects, streaming, connected, fetches, refreshing,
                 lookups, posts, requests>>

-----------------------------------------------------------------------------
(* Submissions                                                             *)

\* trigger() and submit(): a control that shows an active job does nothing, and clicks on
\* several controls share a request.
Click ==
  /\ SignedIn(user) /\ requests = 0
  /\ entry # None => entry.status = "ended"
  /\ requests' = session
  /\ posts' = Append(posts, [session |-> session, sent |-> FALSE, got |-> None])
  /\ UNCHANGED <<fvars, session, user, effects, streaming, connected, entry, fetches, refreshing,
                 lookups>>

\* finally: a submission makes way for another one only if it is the one shared.
Forgets(p) == IF requests = p.session THEN 0 ELSE requests

\* The request goes out if the session is still the same.
Send(i) ==
  LET p == posts[i] IN
  /\ ~p.sent
  /\ IF Foreign(p) THEN posts' = RemoveAt(posts, i) /\ requests' = Forgets(p)
     ELSE posts' = [posts EXCEPT ![i].sent = TRUE] /\ UNCHANGED requests
  /\ UNCHANGED <<fvars, session, user, effects, streaming, connected, entry, fetches, refreshing,
                 lookups>>

\* The core creates a job or answers with the active one.
ServePost(i) ==
  /\ posts[i].sent /\ posts[i].got = None
  /\ \E j \in Jobs :
       /\ \/ Create(j)
          \/ Active(lvl[j]) /\ UNCHANGED fvars
       /\ posts' = [posts EXCEPT ![i].got = View(j)']
  /\ UNCHANGED <<session, user, effects, streaming, connected, entry, fetches, refreshing,
                 lookups, requests>>

\* So for a submission.
FinishPost(i) ==
  LET p == posts[i] IN
  /\ p.sent
  /\ posts' = RemoveAt(posts, i) /\ requests' = Forgets(p)
  /\ entry' = IF p.got # None /\ ~Foreign(p) THEN From(p.got, p) ELSE entry
  /\ UNCHANGED <<fvars, session, user, effects, streaming, connected, fetches, refreshing,
                 lookups>>

-----------------------------------------------------------------------------
CoreSide == (JobStep \/ Resync) /\ UNCHANGED mirror

MNext ==
  \/ \E u \in Users : Become(u)
  \/ Effects \/ Accepted \/ Hear \/ Sweep \/ Click \/ CoreSide
  \/ \E i \in DOMAIN fetches : ServeList(i) \/ Adopt(i)
  \/ \E g \in lookups : ServeLookup(g) \/ FinishLookup(g)
  \/ \E i \in DOMAIN posts : Send(i) \/ ServePost(i) \/ FinishPost(i)

MSpec == MInit /\ [][MNext]_mvars
=============================================================================
