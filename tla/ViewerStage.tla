----------------------------- MODULE ViewerStage -----------------------------
(***************************************************************************)
(* The stage of the illustration viewer: the page asked for, the frame on  *)
(* display, and the candidate that takes its place once it is decoded      *)
(* (stage-transition.ts, illust-stage.tsx, image-readiness.ts).  The       *)
(* reducer's state runs ahead of the frames React has mounted.             *)
(***************************************************************************)
EXTENDS Integers, Sequences

CONSTANTS
  Sources, NoSource,  \* image URLs; the empty one is among them
  Versions,           \* the pages a work can have, before and after its metadata is refreshed
  MaxTurn             \* bound: pages turned, retries and refreshes

ASSUME VersionsAssumption == NoSource \in Sources /\ Versions \subseteq Seq(Sources) \ {<<>>}

VARIABLES
  pages,   \* the sources of the work's pages
  synced,  \* the effect that selects the active page has run since they changed
  stage,   \* the reducer's state
  images,  \* the images of the mounted frames
  turns

xvars == <<pages, synced, stage, images, turns>>

NoFrame == [index |-> 0, src |-> NoSource, id |-> 0]
Same(a, b) == a.index = b.index /\ a.src = b.src

Target(ps, i) == [index |-> i, src |-> ps[i]]
\* clampViewerPage()
Clamp(i, total) == IF i > total THEN total ELSE i

-----------------------------------------------------------------------------
(* The reducer                                                             *)

NextId(s) == s.generation + 1

Prepare(s, t) ==
  IF s.displayed # NoFrame /\ Same(s.displayed, t)
  THEN [s EXCEPT !.target = t, !.candidate = NoFrame, !.phase = "idle"]
  ELSE [s EXCEPT !.target = t, !.generation = NextId(s), !.phase = "loading",
                 !.candidate = [index |-> t.index, src |-> t.src, id |-> NextId(s)]]

SelectPage(s, t) == IF Same(s.target, t) THEN s ELSE Prepare(s, t)
Retried(s)   == IF s.phase = "error" THEN Prepare(s, s.target) ELSE s

\* Slip: whichever image is ready ends the loading.
AnyCounts(s, id) == s.phase = "loading"
Counts(s, id) == s.candidate.id = id /\ s.phase = "loading"

Ready(s, id)  == IF Counts(s, id)
                 THEN [s EXCEPT !.displayed = s.candidate, !.candidate = NoFrame, !.phase = "idle"]
                 ELSE s
Fail(s, id)   == IF Counts(s, id) THEN [s EXCEPT !.phase = "error"] ELSE s

XInit ==
  /\ pages \in Versions /\ synced = TRUE /\ turns = 0
  /\ stage = Prepare([target |-> Target(pages, 1), displayed |-> NoFrame, candidate |-> NoFrame,
                      phase |-> "idle", generation |-> 0], Target(pages, 1))
  /\ images = [f \in {} |-> "none"]

-----------------------------------------------------------------------------
(* React mounts the frames of the state, keyed by their ids; a frame that  *)
(* goes away takes its subscription with it.                               *)

Frames   == {stage.displayed.id, stage.candidate.id} \ {0}
Rendered == DOMAIN images = Frames
\* The new frame is the candidate; without a source it has no image (PximgImage).
Mounted  == IF stage.candidate.src = NoSource THEN "none" ELSE "waiting"

Commit ==
  /\ ~Rendered
  /\ images' = [f \in Frames |-> IF f \in DOMAIN images THEN images[f] ELSE Mounted]
  /\ UNCHANGED <<pages, synced, stage, turns>>

\* What the user does meets the committed state, with its effects run.
Turns == Rendered /\ synced /\ turns < MaxTurn /\ turns' = turns + 1

\* go(): an arrow, an arrow key or a thumbnail.
TurnTo(i) ==
  /\ Turns
  /\ stage' = SelectPage(stage, Target(pages, i))
  /\ UNCHANGED <<pages, synced, images>>

Retry ==
  /\ Turns /\ stage.phase = "error"
  /\ stage' = Retried(stage)
  /\ UNCHANGED <<pages, synced, images>>

\* The metadata of the work is fetched again; the effect follows.
Refreshed ==
  /\ Turns
  /\ pages' \in Versions
  /\ synced' = FALSE
  /\ UNCHANGED <<stage, images>>

Reselect ==
  /\ Rendered /\ ~synced /\ synced' = TRUE
  /\ stage' = SelectPage(stage, Target(pages, Clamp(stage.target.index, Len(pages))))
  /\ UNCHANGED <<pages, images, turns>>

\* A candidate without a source has no image to wait for.
NothingToLoad ==
  /\ Rendered /\ stage.phase = "loading" /\ stage.candidate.src = NoSource
  /\ stage' = Fail(stage, stage.candidate.id)
  /\ UNCHANGED <<pages, synced, images, turns>>

-----------------------------------------------------------------------------
(* The images                                                              *)

Loaded(f) ==
  /\ images[f] = "waiting"
  /\ images' = [images EXCEPT ![f] = "decoding"]
  /\ UNCHANGED <<pages, synced, stage, turns>>

Decoded(f) ==
  /\ images[f] = "decoding"
  /\ images' = [images EXCEPT ![f] = "ready"]
  /\ stage' = Ready(stage, f)
  /\ UNCHANGED <<pages, synced, turns>>

Broken(f) ==
  /\ images[f] \in {"waiting", "decoding"}
  /\ images' = [images EXCEPT ![f] = "failed"]
  /\ stage' = Fail(stage, f)
  /\ UNCHANGED <<pages, synced, turns>>

XNext ==
  \/ \E i \in DOMAIN pages : TurnTo(i)
  \/ \E f \in DOMAIN images : Loaded(f) \/ Decoded(f) \/ Broken(f)
  \/ Commit \/ Retry \/ Refreshed \/ Reselect \/ NothingToLoad

XSpec == XInit /\ [][XNext]_xvars

-----------------------------------------------------------------------------
\* The frame on display has been decoded, and superseded candidates never change it; when
\* nothing loads it is the page asked for; what loads is that page and can still end, and what
\* failed did fail; and once the effects have run the page asked for is one of the work's
\* (stage-transition.ts: "Superseded candidates can never change the displayed image").
ShowsDecoded == stage.displayed # NoFrame =>
  stage.displayed.id \in DOMAIN images /\ images[stage.displayed.id] = "ready"
IdleIsShown  == stage.phase = "idle" => stage.candidate = NoFrame /\ stage.displayed # NoFrame
                                        /\ Same(stage.displayed, stage.target)
LoadsTarget  == stage.phase = "loading" =>
  /\ stage.candidate # NoFrame /\ Same(stage.candidate, stage.target)
  /\ stage.candidate.id \in DOMAIN images =>
       images[stage.candidate.id] \in {"waiting", "decoding"} \/ stage.candidate.src = NoSource
FailedTarget == stage.phase = "error" =>
  /\ stage.candidate # NoFrame /\ Same(stage.candidate, stage.target)
  /\ stage.candidate.id \in DOMAIN images
  /\ stage.candidate.src = NoSource \/ images[stage.candidate.id] = "failed"
OfTheWork    == synced => stage.target.index \in DOMAIN pages /\ stage.target = Target(pages, stage.target.index)
StageHonest  == ShowsDecoded /\ IdleIsShown /\ LoadsTarget /\ FailedTarget /\ OfTheWork
=============================================================================
