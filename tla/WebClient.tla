------------------------------ MODULE WebClient ------------------------------
(***************************************************************************)
(* The stateful parts of the web client side by side.  They hold no state  *)
(* in common, so one part at a time is taken through its steps while the   *)
(* others rest: what holds of each part then holds of all of them.         *)
(***************************************************************************)
EXTENDS DownloadMirror, DownloadsPage, SelectionBatch, BookmarkEdit, Pager, UpdatePanel, ViewerStage, KeptPages

VARIABLE part  \* the part that moves

wvars == <<part, fvars, mirror, jobsPage, selvars, bvars, gvars, nvars, xvars, kvars>>

Parts == {"mirror", "downloads", "selection", "bookmark", "pager", "update", "viewer", "kept"}

\* The parts that rest are all in one state.
Resting ==
  /\ part \in {"mirror", "downloads"} \/ lvl[1] = CHOOSE l \in OldLevels : TRUE
  /\ part = "selection" \/ (visible = {} /\ identity = CHOOSE l \in Lists : TRUE)
  /\ part = "bookmark" \/ saved = "off"
  /\ part = "pager" \/ (real = 0 /\ hint = NoEnd /\ cursor /\ page = 1)
  /\ part = "kept" \/ here = CHOOSE p \in Redirects : TRUE
  /\ part = "viewer" \/ pages = CHOOSE v \in Versions : TRUE

WInit ==
  /\ part \in Parts
  /\ MInit /\ PInit /\ SInit /\ BInit /\ GInit /\ NInit /\ XInit /\ KInit
  /\ Resting

Mirror    == part = "mirror" /\ MNext /\ UNCHANGED <<part, jobsPage, selvars, bvars, gvars, nvars, xvars, kvars>>
Downloads == part = "downloads" /\ PNext
             /\ UNCHANGED <<part, mirror, selvars, bvars, gvars, nvars, xvars, kvars>>
Selection == part = "selection" /\ SNext
             /\ UNCHANGED <<part, fvars, mirror, jobsPage, bvars, gvars, nvars, xvars, kvars>>
Bookmark  == part = "bookmark" /\ BNext
             /\ UNCHANGED <<part, fvars, mirror, jobsPage, selvars, gvars, nvars, xvars, kvars>>
Numbered  == part = "pager" /\ GNext
             /\ UNCHANGED <<part, fvars, mirror, jobsPage, selvars, bvars, nvars, xvars, kvars>>
Panel     == part = "update" /\ NNext
             /\ UNCHANGED <<part, fvars, mirror, jobsPage, selvars, bvars, gvars, xvars, kvars>>
Viewer    == part = "viewer" /\ XNext
             /\ UNCHANGED <<part, fvars, mirror, jobsPage, selvars, bvars, gvars, nvars, kvars>>
Kept      == part = "kept" /\ KNext
             /\ UNCHANGED <<part, fvars, mirror, jobsPage, selvars, bvars, gvars, nvars, xvars>>

WNext == Mirror \/ Downloads \/ Selection \/ Bookmark \/ Numbered \/ Panel \/ Viewer \/ Kept

WSpec == WInit /\ [][WNext]_wvars

\* The requests of the numbered lists are answered and the effects run; an outdated page is
\* fetched again whenever it is the one shown.
Fairness ==
  /\ WF_gvars(part = "pager" /\ PageFetched) /\ WF_gvars(part = "pager" /\ Recorded)
  /\ SF_gvars(part = "pager" /\ Revalidated)

FairWSpec == WSpec /\ Fairness
=============================================================================
