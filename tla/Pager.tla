-------------------------------- MODULE Pager --------------------------------
(***************************************************************************)
(* Numbered pages over lists that only say whether they go on              *)
(* (pagination.ts, page-frontier.ts, and the pages that use them): what    *)
(* has been learned of a list, the pager made of it, and the walk to a     *)
(* bookmark page whose cursor is not known yet (user-page.tsx).            *)
(***************************************************************************)
EXTENDS Integers, FiniteSets, FiniteSetsExt

CONSTANTS
  NPages,     \* bound: pages of the list
  MaxMove,    \* bound: navigations and refreshes by the user
  MaxChange,  \* bound: changes of the list
  Dangling    \* whether the last page's continuation can point at nothing

ASSUME PagerAssumption == NPages \in Nat /\ Dangling \in BOOLEAN

VARIABLES
  real, dangles,  \* the list: its pages, and whether the last one claims another
  cursor,         \* it is paged by cursors; otherwise by offsets
  hint,           \* the profile's total, for offsets
  page,           \* the page of the URL
  frontier,
  cache,          \* what the fetched pages said
  noted,          \* the observation the effect has recorded
  hovered,        \* pages being fetched because the user points at them
  moves, changes

list  == <<real, dangles, cursor, hint>>
gvars == <<list, page, frontier, cache, noted, hovered, moves, changes>>

PageNos == 1 .. NPages + 1
NoEnd   == 0  \* no ceiling, no last page, no hint
InitialFrontier == [knownMax |-> 1, ceiling |-> NoEnd, cursors |-> {}]

\* What a page says (pageOutcome).
Outcome(p) ==
  IF p < real \/ (p = real /\ dangles) THEN "more" ELSE IF p = real THEN "last" ELSE "empty"

AtMost(a, b) == IF a < b THEN a ELSE b
AtLeast(a, b) == IF a < b THEN b ELSE a

Truncate(f, known, end) ==
  [knownMax |-> known, ceiling |-> end, cursors |-> {p \in f.cursors : p <= known}]

\* Slip: an empty page is taken for the end itself.
EndAt(p) == p
\* The list ends before an empty page.
EndBefore(p) == AtLeast(1, p - 1)

\* A page at or past the old ceiling goes on: the list grew.
Raised(f, p) == IF f.ceiling <= p THEN NoEnd ELSE f.ceiling

\* advanceFrontier()
Advance(f, p, outcome) ==
  CASE outcome = "more"  -> [knownMax |-> AtLeast(f.knownMax, p + 1), ceiling |-> Raised(f, p),
                             cursors |-> IF cursor THEN f.cursors \cup {p + 1} ELSE {}]
    [] outcome = "last"  -> Truncate(f, p, p)
    [] outcome = "empty" -> LET end == EndBefore(p) IN
                            Truncate(f, AtMost(f.knownMax, end),
                                     IF f.ceiling = NoEnd THEN end ELSE AtMost(f.ceiling, end))

\* The walk fetches the last page whose cursor is known until the requested one is.
CursorFrontier == Max({1} \cup frontier.cursors)
FetchPage == IF cursor THEN AtMost(page, CursorFrontier) ELSE page
Walking   == FetchPage # page
Observed  == cache[FetchPage]

\* pagerStateOf(), pagerUpper()
Merged == IF Walking \/ Observed = "none" THEN frontier ELSE Advance(frontier, page, Observed)
LastPage ==
  IF Merged.ceiling # NoEnd /\ Merged.ceiling <= Merged.knownMax THEN Merged.knownMax ELSE NoEnd
Capped ==
  IF hint = NoEnd \/ Merged.ceiling = NoEnd THEN hint ELSE AtMost(hint, Merged.ceiling)
Upper == IF LastPage # NoEnd THEN LastPage ELSE AtLeast(Merged.knownMax, Capped)

GInit ==
  /\ real \in 0 .. NPages /\ dangles \in {FALSE, Dangling /\ real > 0}
  /\ cursor \in BOOLEAN /\ hint \in IF cursor THEN {NoEnd} ELSE 0 .. NPages + 1
  /\ page \in PageNos
  /\ frontier = InitialFrontier /\ cache = [p \in PageNos |-> "none"] /\ noted = <<>>
  /\ hovered = {} /\ moves = 0 /\ changes = 0

-----------------------------------------------------------------------------
\* React runs the effects of a render before the next one.
EffectsRan == Observed # "none" => noted = <<FetchPage, Observed>>

\* Every change of what is observed is rendered, and its effect is to run.
Remembered(observation) ==
  IF FetchPage' = FetchPage /\ Observed' = Observed THEN observation ELSE <<>>

\* A click on the pager; the first page may come from a link.
Go(p) ==
  /\ EffectsRan
  /\ moves < MaxMove /\ moves' = moves + 1
  /\ p # page /\ p <= Upper
  /\ page' = p
  /\ UNCHANGED <<list, frontier, cache, hovered, changes>>
  /\ noted' = Remembered(noted)

\* The page's refresh: resetNumberedList() and the first page again.
StartOver ==
  /\ EffectsRan
  /\ moves < MaxMove /\ moves' = moves + 1
  /\ page' = 1 /\ frontier' = InitialFrontier /\ noted' = <<>> /\ hovered' = {}
  /\ cache' = [p \in PageNos |-> "none"]
  /\ UNCHANGED <<list, changes>>

\* onPageIntent(): the user points at a page of the pager, which is fetched ahead or read from
\* the cache; what it says is recorded whatever page is shown by then.
Point(p) ==
  /\ EffectsRan
  /\ Observed # "none" /\ ~Walking
  /\ p # page /\ p <= Upper /\ (cursor => p <= CursorFrontier)
  /\ \/ hovered' = hovered \cup {p} /\ UNCHANGED frontier
     \/ cache[p] # "none" /\ frontier' = Advance(frontier, p, cache[p]) /\ UNCHANGED hovered
  /\ UNCHANGED <<list, page, cache, moves, changes>>
  /\ noted' = Remembered(noted)

Pointed(p) ==
  /\ hovered' = hovered \ {p}
  /\ \/ /\ cache' = [cache EXCEPT ![p] = Outcome(p)]
        /\ frontier' = Advance(frontier, p, Outcome(p))
     \/ UNCHANGED <<cache, frontier>>  \* the request failed
  /\ UNCHANGED <<list, page, moves, changes>>
  /\ noted' = Remembered(noted)

PageFetched ==
  /\ Observed = "none"
  /\ cache' = [cache EXCEPT ![FetchPage] = Outcome(FetchPage)]
  /\ noted' = <<>>
  /\ UNCHANGED <<list, page, frontier, hovered, moves, changes>>

\* A cached page that is outdated is fetched again behind what is shown.
Revalidated ==
  /\ Observed \notin {"none", Outcome(FetchPage)}
  /\ cache' = [cache EXCEPT ![FetchPage] = Outcome(FetchPage)]
  /\ noted' = <<>>
  /\ UNCHANGED <<list, page, frontier, hovered, moves, changes>>

\* The walk came to an end: the URL follows it back.
WalkEnded == Walking /\ Observed \notin {"none", "more"}
Clamped   == IF WalkEnded THEN FetchPage ELSE page

\* The effects after a render: useRecordPage() and the clamp.
Recorded ==
  /\ Observed # "none" /\ noted # <<FetchPage, Observed>>
  /\ frontier' = Advance(frontier, FetchPage, Observed)
  /\ page' = Clamped
  /\ UNCHANGED <<list, cache, hovered, moves, changes>>
  /\ noted' = Remembered(<<FetchPage, Observed>>)

ListChanges ==
  /\ changes < MaxChange /\ changes' = changes + 1
  /\ real' \in (0 .. NPages) \ {real} /\ dangles' = (dangles /\ real' > 0)
  /\ UNCHANGED <<cursor, hint, page, frontier, cache, noted, hovered, moves>>

GNext ==
  \/ \E p \in PageNos : Go(p) \/ Point(p)
  \/ \E p \in hovered : Pointed(p)
  \/ StartOver \/ PageFetched \/ Revalidated \/ Recorded \/ ListChanges

GSpec == GInit /\ [][GNext]_gvars /\ WF_gvars(PageFetched) /\ WF_gvars(Recorded) /\ SF_gvars(Revalidated)
=============================================================================
