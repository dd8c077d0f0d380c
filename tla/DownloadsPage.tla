---------------------------- MODULE DownloadsPage ----------------------------
(***************************************************************************)
(* The downloads page (use-downloads-page.ts): a list of jobs it asks for  *)
(* again, a moment after the last job event, when the stream opens or      *)
(* tells of a gap, and when the filter changes.                            *)
(***************************************************************************)
EXTENDS JobFeed

VARIABLES
  filter,     \* the statuses and the page asked for
  heardOpen,  \* connected
  asked,      \* the lists asked for; "current" holds the newest epoch
  timer,      \* the debounced refetch
  items, missed \* what the page shows; the last list asked for failed

jobsPage == <<filter, heardOpen, asked, timer, items, missed>>
pvars    == <<fvars, jobsPage>>

Filters == {"all", "active"}
Rows(f) == IF f = "all" THEN ActiveList \cup RecentList ELSE ActiveList

\* Slip: the answer to a request that was overtaken is shown as well.
AnyEpoch(r) == TRUE
NewestEpoch(r) == r.current

\* refetch(): only the newest request counts.
Refetched(f) == {[r EXCEPT !.current = FALSE] : r \in asked}
                  \cup {[filter |-> f, current |-> TRUE, got |-> Pending]}

PInit ==
  /\ FInit
  /\ filter = "all" /\ heardOpen = FALSE /\ timer = FALSE
  /\ asked = {[filter |-> "all", current |-> TRUE, got |-> Pending]}
  /\ items = {} /\ missed = TRUE

Choose(f) ==
  /\ f # filter
  /\ filter' = f
  /\ asked' = Refetched(f)
  /\ timer' = FALSE
  /\ UNCHANGED <<fvars, heardOpen, items, missed>>

StreamOpens == ~live /\ Connect /\ UNCHANGED jobsPage

\* Task events patch the task of a row, which its status does not depend on.
PatchRows(e) ==
  {IF r.job = e.job /\ e.kind = "task" THEN [r EXCEPT !.task = TRUE] ELSE r : r \in items}

\* The listeners of the page.
Listen ==
  /\ Take
  /\ LET e == Head(feed) IN
     /\ heardOpen' = (heardOpen \/ e.kind = "open")
     /\ asked' = IF e.kind = "resync" \/ (e.kind = "open" /\ ~heardOpen)
                 THEN Refetched(filter) ELSE asked
     /\ timer' = (timer \/ e.kind \notin {"open", "resync", "task"})
     /\ items' = IF e.kind = "task" THEN PatchRows(e) ELSE items
  /\ UNCHANGED <<filter, missed>>

Fire ==
  /\ timer /\ timer' = FALSE
  /\ asked' = Refetched(filter)
  /\ UNCHANGED <<fvars, filter, heardOpen, items, missed>>

\* The core's answer, and its arrival.
ServeRows(r) ==
  /\ r.got = Pending
  /\ asked' = (asked \ {r}) \cup {[r EXCEPT !.got = Rows(r.filter)]}
  /\ UNCHANGED <<fvars, filter, heardOpen, timer, items, missed>>

ShowRows(r) ==
  /\ asked' = asked \ {r}
  /\ IF ~NewestEpoch(r) THEN UNCHANGED <<items, missed>>
     ELSE \/ r.got # Pending /\ items' = r.got /\ missed' = FALSE
          \/ missed' = TRUE /\ UNCHANGED items
  /\ UNCHANGED <<fvars, filter, heardOpen, timer>>

PNext ==
  \/ \E f \in Filters : Choose(f)
  \/ StreamOpens \/ Listen \/ Fire
  \/ \E r \in asked : ServeRows(r) \/ ShowRows(r)
  \/ (JobStep \/ Resync) /\ UNCHANGED jobsPage

PSpec == PInit /\ [][PNext]_pvars
=============================================================================
