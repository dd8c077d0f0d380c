------------------------------- MODULE KeptPages -------------------------------
(***************************************************************************)
(* The pages the web client keeps mounted behind the one on display        *)
(* (app/keep-alive), their places in the one scroller they share, the data *)
(* they read again when they return (lib/query/client.ts), and the sidebar *)
(* that leads back to where a section was left (section-memory.tsx,        *)
(* nav.tsx).  A navigation is one step: React renders, commits and runs    *)
(* the layout effects before the next event.                               *)
(***************************************************************************)
EXTENDS Integers, FiniteSets, FiniteSetsExt

CONSTANTS
  Places,                   \* URLs, without the parameters of overlays
  PathOf, SectionAt,        \* the path of a URL, and the sidebar section it belongs to
  Sections, NoSection,
  Personal,                 \* the sections that share the user's own path
  Landing,                  \* the landing view of a section
  Redirects,                \* URLs that are never kept
  MaxKept, IdleTtl, GcTime, \* KEEP_ALIVE_MAX, KEEP_ALIVE_IDLE_TTL, QUERY_GC_TIME
  MaxTime, MaxGo            \* bounds: the clock; navigations and scrolls

\* A section is told by the path; only the user's own path is in several.
ASSUME KeptAssumption ==
  /\ PathOf \in [Places -> STRING] /\ SectionAt \in [Places -> Sections \cup {NoSection}]
  /\ Landing \in [Sections -> Places] /\ \A s \in Sections : SectionAt[Landing[s]] = s
  /\ "" \notin Places /\ NoSection \notin Sections /\ Personal \subseteq Sections
  /\ \A p, q \in Places : PathOf[p] = PathOf[q] =>
       SectionAt[p] = SectionAt[q] \/ {SectionAt[p], SectionAt[q]} \subseteq Personal
  /\ Redirects \subseteq Places /\ MaxKept \in Nat \ {0}
  /\ IdleTtl \in Nat /\ GcTime \in Nat /\ IdleTtl < GcTime

VARIABLES
  kept,       \* KeepAliveState.entries
  here,       \* KeepAliveState.location
  made,       \* KeepAliveState.nextSeq
  offsets,    \* positions: the saved offset of each page
  tracked,    \* trackedId: whose offset the scroller's is
  top, moved, \* the scroller: its offset, and whether its scroll event is still due
  urls,       \* the last URL of each section
  data,       \* the pages whose queries are still cached
  left,       \* history: the offset a page was left at, or Unsure
  time, goes

kvars == <<kept, here, made, offsets, tracked, top, moved, urls, data, left, time, goes>>

Showing == -1  \* hiddenAt of the page on display
NoPage  == 0
NoPlace == ""
Unsure  == -1  \* the scroll event came too late to be counted for the page

-----------------------------------------------------------------------------
(* nextKeepAliveState()                                                    *)

NoKey == <<"", NoSection>>

\* Slip: the user's own pages share one instance.
PathKey(p) == IF p \in Redirects THEN NoKey ELSE <<PathOf[p], NoSection>>

\* instanceKeyOf()
KeyOf(p) ==
  IF p \in Redirects THEN NoKey
  ELSE <<PathOf[p], IF SectionAt[p] \in Personal THEN SectionAt[p] ELSE NoSection>>

Hidden(es) == {e \in es : e.hiddenAt # Showing}
Stamped(k) == {IF e.key # k /\ e.hiddenAt = Showing THEN [e EXCEPT !.hiddenAt = time] ELSE e : e \in kept}
Alive(es)  == {e \in es : e.hiddenAt = Showing \/ time - e.hiddenAt <= IdleTtl}

Entered(es, k, p) ==
  IF k = NoKey THEN es
  ELSE IF \E e \in es : e.key = k
  THEN {IF e.key = k THEN [e EXCEPT !.loc = p, !.hiddenAt = Showing] ELSE e : e \in es}
  ELSE es \cup {[id |-> made, key |-> k, loc |-> p, hiddenAt |-> Showing]}

\* Of the pages hidden first the oldest goes; a navigation adds one page at most.
Oldest(es) ==
  LET since == Min({e.hiddenAt : e \in Hidden(es)})
  IN Min({e.id : e \in {h \in es : h.hiddenAt = since}})
Trimmed(es) ==
  IF Cardinality(es) > MaxKept /\ Hidden(es) # {} THEN {e \in es : e.id # Oldest(es)} ELSE es

NextKept(p) == Trimmed(Entered(Alive(Stamped(KeyOf(p))), KeyOf(p), p))

Ids(es)    == {e.id : e \in es}
Displayed(es) == IF \A e \in es : e.hiddenAt # Showing THEN NoPage
              ELSE (CHOOSE e \in es : e.hiddenAt = Showing).id

-----------------------------------------------------------------------------
\* KeepAliveOutlet and the section memory as they mount at p.
First(p) == IF KeyOf(p) = NoKey THEN {}
            ELSE {[id |-> 1, key |-> KeyOf(p), loc |-> p, hiddenAt |-> Showing]}
Unmoved(p)    == [i \in Ids(First(p)) |-> 0]
FirstUrls(p)  == [s \in Sections |-> IF s = SectionAt[p] THEN p ELSE NoPlace]

KInit ==
  \E p \in Places :
    /\ here = p /\ made = 2 /\ kept = First(p) /\ urls = FirstUrls(p)
    /\ tracked = Displayed(First(p)) /\ top = 0 /\ moved = FALSE
    /\ offsets = Unmoved(p) /\ left = Unmoved(p) /\ data = Ids(First(p))
    /\ time = 0 /\ goes = 0

Does == goes < MaxGo /\ goes' = goes + 1

\* The layout effect: the offsets of pages that are gone are dropped, and a page that is shown
\* anew gets its own back.
Resumes(a, reset) == ~reset /\ tracked = a /\ a # NoPage
OffsetOf(i)       == IF i \in DOMAIN offsets THEN offsets[i] ELSE 0
Placed(a, reset)  == IF reset \/ a = NoPage THEN 0 ELSE OffsetOf(a)

Scrolls(a, live, reset) ==
  IF Resumes(a, reset)
  THEN /\ offsets' = [i \in DOMAIN offsets \cap live |-> offsets[i]]
       /\ UNCHANGED <<tracked, top>>
  ELSE /\ tracked' = a /\ top' = Placed(a, reset)
       /\ offsets' = [i \in (DOMAIN offsets \cap live) \cup ({a} \ {NoPage}) |->
                        IF i = a THEN Placed(a, reset) ELSE offsets[i]]

Leaves(live, a) ==
  left' = [i \in live |-> IF i = tracked /\ i # a THEN IF moved THEN Unsure ELSE top
                          ELSE IF i \in DOMAIN left THEN left[i] ELSE 0]

Navigate(p, reset) ==
  LET live == Ids(NextKept(p))
      a    == Displayed(NextKept(p))
  IN /\ Does
     /\ kept' = NextKept(p) /\ here' = p
     /\ made' = IF made \in live THEN made + 1 ELSE made
     /\ Scrolls(a, live, reset) /\ Leaves(live, a)
     /\ data' = (data \cap live) \cup (live \ Ids(kept))
     /\ urls' = IF SectionAt[p] = NoSection THEN urls ELSE [urls EXCEPT ![SectionAt[p]] = p]
     /\ UNCHANGED <<moved, time>>

\* A link, the browser's Back or Forward, or a redirect.
Follow(p) == Navigate(p, FALSE)

\* The scroller moves at once; its event comes later and counts for the page tracked then. The event
\* that a restored offset fires writes that same offset and is left out.
ScrollTo(x) ==
  /\ Does /\ x # top
  /\ top' = x /\ moved' = TRUE
  /\ UNCHANGED <<kept, here, made, offsets, tracked, urls, data, left, time>>

Scrolled ==
  /\ moved /\ moved' = FALSE
  /\ offsets' = IF tracked = NoPage THEN offsets
                ELSE [i \in DOMAIN offsets \cup {tracked} |-> IF i = tracked THEN top ELSE offsets[i]]
  /\ UNCHANGED <<kept, here, made, tracked, top, urls, data, left, time, goes>>

\* An item of the sidebar: back to where its section was left; from there a step at a time
\* to the landing view and to its top.
Sidebar(s) ==
  IF SectionAt[here] # s THEN Navigate(IF urls[s] = NoPlace THEN Landing[s] ELSE urls[s], FALSE)
  ELSE IF here # Landing[s] THEN Navigate(Landing[s], TRUE)
  ELSE ScrollTo(0)

\* A hidden page observes no query: what it read is collected in the end.
Collect(e) ==
  /\ e.hiddenAt # Showing /\ time - e.hiddenAt >= GcTime
  /\ data' = data \ {e.id}
  /\ UNCHANGED <<kept, here, made, offsets, tracked, top, moved, urls, left, time, goes>>

\* Another account: the outlet and the section memory are keyed by it.
SwitchAccount(p) ==
  /\ Does
  /\ here' = p /\ made' = 2 /\ kept' = First(p) /\ urls' = FirstUrls(p)
  /\ tracked' = Displayed(First(p)) /\ top' = 0 /\ moved' = FALSE
  /\ offsets' = Unmoved(p) /\ left' = Unmoved(p) /\ data' = Ids(First(p))
  /\ UNCHANGED time

Tick ==
  /\ time < MaxTime /\ time' = time + 1
  /\ UNCHANGED <<kept, here, made, offsets, tracked, top, moved, urls, data, left, goes>>

KNext ==
  \/ \E p \in Places \ {here} : Follow(p)
  \/ \E s \in Sections : Sidebar(s)
  \/ \E e \in kept : Collect(e)
  \/ \E x \in {0, 1} : ScrollTo(x)
  \/ \E p \in Places : SwitchAccount(p)
  \/ Scrolled \/ Tick

KSpec == KInit /\ [][KNext]_kvars
=============================================================================
