---------------------------- MODULE WebProperties ----------------------------
(***************************************************************************)
(* What the parts of the web client promise.                               *)
(***************************************************************************)
EXTENDS WebClient

\* The job a page shows was asked for by its own session, or by the one whose effects have not
\* been replaced yet; and in one session at most one submission and one refresh are on their
\* way, however the sessions and the answers overlap (download-state-provider.tsx,
\* scoped-submissions.ts).
NoForeignEntries == entry # None => entry.from \in {effects, session}
OfThisSession(rs) == {i \in DOMAIN rs : rs[i].session = session}
OnePost    == Cardinality({i \in OfThisSession(posts) : posts[i].sent}) <= 1
OneRefresh == Cardinality(OfThisSession(fetches)) <= 1
SessionScoped == NoForeignEntries /\ OnePost /\ OneRefresh

\* When every event is handled and every answer that counts has arrived, the downloads page
\* shows the jobs of its filter as the core has them (use-downloads-page.ts: the epoch of a
\* refetch and the debounce).
StatusOf(rows) == {<<r.job, r.status>> : r \in rows}
PageFollows ==
  (heardOpen /\ feed = <<>> /\ ~timer /\ asked = {} /\ ~missed)
    => StatusOf(items) = StatusOf(Rows(filter))

\* Once a mutation and the requests around it have ended and the last refetch succeeded, the
\* cached detail is what Pixiv has, also after a request whose answer was lost
\* (use-illust-bookmark.ts: onError and onSettled).
Quiet == mut = NoMut /\ fetch = "none" /\ writer.run = "idle"
CacheConverges == Quiet /\ ~stale /\ detail # "unknown" => detail = saved

\* The last of several selections of tags made in a row is the one Pixiv has when all is
\* written (bookmark-tag-writer.ts).
LastChoiceWins == Quiet /\ chosen # "none" => TagsOf(saved) = chosen

\* What the pager offers agrees with what was learned: of a list that has not changed it never
\* offers a page past the end nor ends it early; the page shown has a next one exactly if it
\* said so; and an end that it shows is one that a page has shown, however often the list
\* changed: the last page said it is the last, or the one after it was empty (pagination.ts,
\* advanceFrontier()).
NeverPast ==
  changes = 0 /\ ~dangles =>
    Merged.knownMax <= AtLeast(real, 1) /\ LastPage \in {NoEnd, AtLeast(real, 1)}
Agrees ==
  ~Walking =>
    CASE Observed = "more"  -> Upper > page /\ LastPage # page
      [] Observed = "last"  -> Upper = page /\ LastPage = page
      [] Observed = "empty" -> Upper <= AtLeast(1, page - 1)
      [] OTHER              -> TRUE
EndSeen ==
  LastPage # NoEnd /\ ~Walking =>
    \/ cache[LastPage] = "last"
    \/ \E p \in PageNos : p \in {LastPage + 1, 1} /\ AtLeast(1, p - 1) = LastPage /\ cache[p] = "empty"
PagerHonest == NeverPast /\ Agrees /\ EndSeen

\* The walk to a bookmark page ends (user-page.tsx).
WalkSettles == <>[](~Walking)

\* When what was sent and read has arrived, the page shows the update as the shell has it, and
\* no spinner or overlay stays behind; a page whose read failed does so from the first snapshot
\* that it is sent (desktop-update-state.ts, update-provider.tsx).
PanelFollows ==
  sent = <<>> /\ (reading = Arrived \/ (reading = Failed /\ shown # NoNews)) =>
    /\ shown.state = snap /\ shown.ready = uready
    /\ checks \/ (checking => snap = "checking")
    /\ applying <=> snap \in {"preparing-install", "installing"}

\* The page of the current URL is the one on display and no page is kept twice; it is as it was
\* left: its data was not collected while it was hidden, the scroller stands where that page had
\* it, a page kept behind has the offset it was left at, and the sidebar leads back to the view
\* that is kept (keep-alive-outlet.tsx, lru.ts, section-memory.tsx).
OnDisplay ==
  /\ KeyOf(here) = NoKey <=> Displayed(kept) = NoPage
  /\ \A e \in kept : e.hiddenAt = Showing <=> e.key = KeyOf(here)
  /\ \A e, f \in kept : e.key = f.key => e = f
  /\ tracked = Displayed(kept) /\ Cardinality(kept) <= MaxKept
ReturnsAsLeft ==
  /\ \A e \in kept \ Hidden(kept) : e.id \in data /\ (moved \/ top = offsets[e.id])
  /\ \A e \in Hidden(kept) : left[e.id] \in {Unsure, offsets[e.id]}
  /\ \A s \in Sections, e \in kept : urls[s] # NoPlace /\ e.key = KeyOf(urls[s]) => e.loc = urls[s]
KeptAsLeft == OnDisplay /\ ReturnsAsLeft
=============================================================================
