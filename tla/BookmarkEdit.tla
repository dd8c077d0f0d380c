---------------------------- MODULE BookmarkEdit ----------------------------
(***************************************************************************)
(* The bookmark of an illustration in an open editor: the cached detail    *)
(* and its refetches, the mutation with its optimistic write               *)
(* (use-illust-bookmark.ts), and the tag writer that saves one selection   *)
(* at a time (bookmark-tag-writer.ts, use-bookmark-editor.ts).             *)
(***************************************************************************)
EXTENDS Integers

CONSTANTS
  TagSets, NoTags,  \* selections of tags; the empty one is among them
  MaxAct            \* bound: what the user does, refetches of the browser, new sessions

ASSUME TagsAssumption ==
  NoTags \in TagSets /\ TagSets \cap {"off", "unknown", "none", "asked"} = {}

VARIABLES
  saved,      \* Pixiv's answer: "off", or the tags of the bookmark
  detail,     \* the cached detail, or "unknown"
  stale,      \* the last refetch failed
  fetch,      \* the query's request: "none", "asked", or what it was answered
  mut,        \* the mutation
  writer,     \* the tag writer
  selection, tagSaving,  \* the editor's state
  chosen,     \* the last selection made on a true detail, unless something else was done since
  acts

bvars == <<saved, detail, stale, fetch, mut, writer, selection, tagSaving, chosen, acts>>

Marks == TagSets \cup {"off"}
TagsOf(d) == IF d \in TagSets THEN d ELSE NoTags

NoMut    == [stage |-> "none"]
NoWriter == [run |-> "idle", ready |-> FALSE, confirmed |-> NoTags, queued |-> "none"]

BInit ==
  /\ saved \in Marks /\ detail = "unknown" /\ stale = FALSE /\ fetch = "asked"
  /\ mut = NoMut /\ writer = NoWriter
  /\ selection = NoTags /\ tagSaving = FALSE /\ chosen = "none" /\ acts = 0

Act == acts < MaxAct /\ acts' = acts + 1

-----------------------------------------------------------------------------
(* The query                                                               *)

RefetchDetail ==
  /\ Act /\ fetch = "none"
  /\ fetch' = "asked"
  /\ UNCHANGED <<saved, detail, stale, mut, writer, selection, tagSaving, chosen>>

ServeDetail ==
  /\ fetch = "asked" /\ fetch' = saved
  /\ UNCHANGED <<saved, detail, stale, mut, writer, selection, tagSaving, chosen, acts>>

DetailFetched ==
  /\ fetch' = "none"
  /\ \/ fetch \in Marks /\ detail' = fetch /\ stale' = FALSE
     \/ fetch # "none" /\ stale' = TRUE /\ UNCHANGED detail
  /\ UNCHANGED <<saved, mut, writer, selection, tagSaving, chosen, acts>>

-----------------------------------------------------------------------------
(* The mutation                                                            *)

\* submit(): refused while another one of the account is running.  onMutate first waits until the
\* queries are cancelled.
Submits(mark, of) ==
  mut' = [stage |-> "cancel", mark |-> mark, of |-> of, before |-> "unknown", ok |-> FALSE]

\* The button of the card and of the viewer; in the editor only while nothing is written.
ToggleBookmark ==
  /\ Act /\ mut = NoMut
  /\ detail # "unknown"
  /\ Submits(IF detail = "off" THEN NoTags ELSE "off", "user")
  /\ chosen' = "none"
  /\ UNCHANGED <<saved, detail, stale, fetch, writer, selection, tagSaving>>

\* Slip: a failed mutation changes nothing, so only one that succeeds asks again.
AsksIfSaved(m) == m.ok
AsksAgain(m) == TRUE

\* onMutate: the snapshot and the optimistic write.
Optimistic ==
  /\ mut.stage = "cancel"
  /\ mut' = [mut EXCEPT !.stage = "sent", !.before = detail]
  /\ detail' = mut.mark /\ fetch' = "none"
  /\ UNCHANGED <<saved, stale, writer, selection, tagSaving, chosen, acts>>

\* Pixiv does what it is asked, or not, and the answer arrives, or not.
ServeMutation ==
  /\ mut.stage = "sent"
  /\ \E does, tells \in BOOLEAN :
       /\ saved' = IF does THEN mut.mark ELSE saved
       /\ mut' = [mut EXCEPT !.stage = "done", !.ok = does /\ tells]
  /\ UNCHANGED <<detail, stale, fetch, writer, selection, tagSaving, chosen, acts>>

\* The writer learns how its save ended.
Ended(w, ok) ==
  IF ok THEN [w EXCEPT !.run = "loop", !.confirmed = mut.mark]
  ELSE [w EXCEPT !.run = "after", !.queued = "none"]

\* onSuccess writes a removal again and leaves what onMutate wrote of the rest, of which neither the
\* button nor the tag writer sends both the tags and the restriction; onError restores the snapshot.
\* Then the detail is asked for again.
Settle ==
  /\ mut.stage = "done" /\ mut' = NoMut
  /\ detail' = IF mut.ok THEN IF mut.mark = "off" THEN "off" ELSE detail
               ELSE IF mut.before = "unknown" THEN detail ELSE mut.before
  /\ fetch' = IF AsksAgain(mut) THEN "asked" ELSE fetch
  /\ IF mut.of = "writer"
     THEN /\ writer' = Ended(writer, mut.ok)
          /\ selection' = IF mut.ok THEN selection ELSE writer.confirmed
     ELSE UNCHANGED <<writer, selection>>
  /\ chosen' = IF mut.ok THEN chosen ELSE "none"
  /\ UNCHANGED <<saved, stale, tagSaving, acts>>

\* Another session: its own detail and a new editor.  Its keys are its own, so that a mutation the old
\* one leaves neither holds up the new one's nor finds its detail; the request is aborted, and what
\* the callbacks of it would do is not done for another generation.
Switch ==
  /\ Act
  /\ saved' \in Marks /\ detail' = "unknown" /\ stale' = FALSE /\ fetch' = "asked"
  /\ mut' = NoMut
  /\ writer' = NoWriter /\ selection' = NoTags /\ tagSaving' = FALSE /\ chosen' = "none"

-----------------------------------------------------------------------------
(* The tag writer                                                          *)

WPending(w) == w.run # "idle" \/ w.queued # "none"

\* The editor creates the writer when the detail is there, and keeps it in step when nothing
\* is written.
Synchronize ==
  /\ ~WPending(writer) /\ mut = NoMut /\ detail # "unknown" /\ ~tagSaving
  /\ writer.ready \/ (fetch = "none" /\ ~stale)
  /\ writer' = [writer EXCEPT !.ready = TRUE, !.confirmed = TagsOf(detail)]
  /\ writer' # writer
  /\ selection' = IF writer.ready THEN TagsOf(detail) ELSE selection
  /\ UNCHANGED <<saved, detail, stale, fetch, mut, tagSaving, chosen, acts>>

\* change(): the latest selection waits while a write is running.
ChangeTags(tags) ==
  /\ Act /\ writer.ready
  /\ mut = NoMut \/ WPending(writer)
  /\ LET w == IF WPending(writer) THEN writer ELSE [writer EXCEPT !.confirmed = TagsOf(detail)] IN
     writer' = [w EXCEPT !.queued = tags, !.run = IF @ = "idle" THEN "loop" ELSE @]
  /\ selection' = tags /\ tagSaving' = TRUE
  /\ chosen' = IF (IF WPending(writer) THEN chosen # "none" ELSE detail = saved) THEN tags ELSE "none"
  /\ UNCHANGED <<saved, detail, stale, fetch, mut>>

\* flush(): the next selection is written, unless it is the one confirmed or another mutation
\* is running.
Flush ==
  /\ writer.run = "loop"
  /\ LET next == writer.queued IN
     IF next = "none"
     THEN writer' = [writer EXCEPT !.run = "after"] /\ UNCHANGED <<mut, selection, chosen>>
     ELSE IF next = writer.confirmed
     THEN writer' = [writer EXCEPT !.queued = "none"] /\ UNCHANGED <<mut, selection, chosen>>
     ELSE IF mut # NoMut
     THEN /\ writer' = [writer EXCEPT !.queued = "none", !.run = "after"]
          /\ selection' = writer.confirmed /\ chosen' = "none"
          /\ UNCHANGED mut
     ELSE /\ writer' = [writer EXCEPT !.queued = "none", !.run = "saving"]
          /\ Submits(next, "writer")
          /\ UNCHANGED <<selection, chosen>>
  /\ UNCHANGED <<saved, detail, stale, fetch, tagSaving, acts>>

\* Slip: a writer that stops does not look whether it was given something meanwhile.
StopsBlindly(w) == "idle"
Stops(w) == IF w.queued # "none" THEN "loop" ELSE "idle"

\* finally
After ==
  /\ writer.run = "after"
  /\ writer' = [writer EXCEPT !.run = Stops(writer)]
  /\ tagSaving' = (writer'.run # "idle")
  /\ UNCHANGED <<saved, detail, stale, fetch, mut, selection, chosen, acts>>

-----------------------------------------------------------------------------
BNext ==
  \/ RefetchDetail \/ ServeDetail \/ DetailFetched
  \/ ToggleBookmark \/ Optimistic \/ ServeMutation \/ Settle \/ Switch
  \/ Synchronize \/ Flush \/ After
  \/ \E tags \in TagSets : ChangeTags(tags)

BSpec == BInit /\ [][BNext]_bvars
=============================================================================
