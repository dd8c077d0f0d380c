----------------------------- MODULE UpdatePanel -----------------------------
(***************************************************************************)
(* What the page of a shell with two-phase updates knows of them           *)
(* (update-provider.tsx, desktop-update-state.ts): snapshots that are sent *)
(* or read, the calls the user makes, and the consent to a restart that    *)
(* ends downloads.  Composed with the controller of the shell; how the     *)
(* shell quits is in Desktop.                                              *)
(***************************************************************************)
EXTENDS UpdateController, Integers, Sequences

CONSTANT MaxNews  \* bound: snapshots sent, and reloads of the page

VARIABLES
  news,      \* snapshots the controller has published
  sent,      \* those on their way to the page, oldest first
  reading,   \* read(): asked, its answer on its way, arrived, or failed
  shown,     \* the snapshot the page holds, numbered -1 while it has none
  checking, applying,
  busy,      \* applyingRef
  call,      \* what apply() or restart() waits for
  checks,    \* checkNow() waits
  prompt     \* the restart dialog is open

panel == <<news, sent, reading, shown, checking, applying, busy, call, checks, prompt>>
nvars == <<uvars, panel>>

NoNews   == [n |-> -1, state |-> "rest", ready |-> FALSE]
Asked    == [NoNews EXCEPT !.n = -2]
Arrived  == [NoNews EXCEPT !.n = -3]
Failed   == [NoNews EXCEPT !.n = -4]
Snapshot == [n |-> news, state |-> snap, ready |-> uready]

NInit ==
  /\ UpdInit
  /\ news = 0 /\ sent = <<>> /\ reading = Asked /\ shown = NoNews
  /\ checking = FALSE /\ applying = FALSE /\ busy = FALSE /\ call = "none" /\ checks = FALSE
  /\ prompt = FALSE

\* publish(): a snapshot is sent, also when all that is new in it is an error, progress or notes.
Published == news < MaxNews /\ news' = news + 1 /\ sent' = Append(sent, Snapshot')
Told == Published \/ (<<snap, uready>>' = <<snap, uready>> /\ UNCHANGED <<news, sent>>)

ControllerStep ==
  /\ \/ \E ok \in BOOLEAN : CheckVerifies(ok) \/ InstallVerifies(ok)
     \/ Check  \* the check of the start
     \/ CheckFails \/ CheckFindsNone \/ CheckOffers
     \/ DownloadStarts \/ DownloadFails \/ Downloaded \/ DownloadVerified
     \/ InstallStarts \/ Rehydrated \/ InstallFails \/ HandOver \/ InstallerFails
     \/ UNCHANGED uvars  \* the progress of a download, notes that come late
  /\ Told
  /\ UNCHANGED <<reading, shown, checking, applying, busy, call, checks, prompt>>

-----------------------------------------------------------------------------
(* observeDesktopUpdates()                                                 *)

\* Slip: whatever arrives is taken.
AnyNews(s) == TRUE
Newer(s) == s.n > shown.n

Deliver(s) ==
  IF ~Newer(s) THEN UNCHANGED <<shown, checking, applying, busy>>
  ELSE /\ shown' = s
       /\ checking' = (s.state = "checking")
       /\ applying' = (s.state \in {"preparing-install", "installing"})
       /\ busy' \in IF s.state = "rest" THEN {busy, FALSE} ELSE {busy}  \* it may be an error

Heard ==
  /\ sent # <<>> /\ sent' = Tail(sent)
  /\ Deliver(Head(sent))
  /\ UNCHANGED <<uvars, news, reading, call, checks, prompt>>

ReadServed ==
  /\ reading = Asked /\ reading' = Snapshot
  /\ UNCHANGED <<uvars, news, sent, shown, checking, applying, busy, call, checks, prompt>>

ReadArrives ==
  /\ reading.n >= 0 /\ reading' = Arrived
  /\ Deliver(reading)
  /\ UNCHANGED <<uvars, news, sent, call, checks, prompt>>

\* A page that has heard nothing is told that it failed.
ReadFails ==
  /\ reading = Asked /\ reading' = Failed
  /\ checking' = (checking /\ shown # NoNews)
  /\ UNCHANGED <<uvars, news, sent, shown, applying, busy, call, checks, prompt>>

\* The page is loaded again: a new observer, and the answers to the old one are lost.
Reload ==
  /\ news < MaxNews /\ news' = news + 1
  /\ sent' = <<>> /\ reading' = Asked /\ shown' = NoNews
  /\ checking' = FALSE /\ applying' = FALSE /\ busy' = FALSE /\ call' = "none" /\ checks' = FALSE
  /\ prompt' = FALSE
  /\ UNCHANGED uvars

-----------------------------------------------------------------------------
(* checkNow(), apply(), restart()                                          *)

\* check() of the controller; while an operation is on its way it does nothing, or joins it, and
\* after a failed installation it does nothing.
CheckNow ==
  /\ ~checks /\ ~checking /\ ~applying /\ call = "none" /\ shown.state # "downloading"
  /\ checks' = TRUE /\ checking' = TRUE
  /\ IF ~blocked /\ ops = <<"idle", "idle", "idle">> /\ ~prepared THEN Check ELSE UNCHANGED uvars
  /\ Told
  /\ UNCHANGED <<reading, shown, applying, busy, call, prompt>>

CheckAnswered ==
  /\ checks /\ checkOp = "idle"
  /\ checks' = FALSE /\ checking' = FALSE
  /\ UNCHANGED <<uvars, news, sent, reading, shown, applying, busy, call, prompt>>

Acts(c) == busy' = TRUE /\ call' = c
Rests   == busy' = FALSE /\ call' = "none"

\* The button: a download, which is refused after a failed installation, or a count of the active
\* jobs before the restart.
Apply ==
  /\ ~busy /\ ~prompt /\ call = "none" /\ ~applying /\ ~checking
  /\ shown # NoNews /\ shown.state # "downloading"
  /\ IF shown.ready
     THEN Acts("count") /\ UNCHANGED uvars
     ELSE /\ Acts("download")
          /\ IF ~blocked /\ downOp = "idle" /\ instOp = "idle" /\ ~prepared THEN Download ELSE UNCHANGED uvars
  /\ Told
  /\ UNCHANGED <<reading, shown, checking, applying, checks, prompt>>

DownloadAnswered ==
  /\ call = "download" /\ downOp = "idle"
  /\ Rests
  /\ UNCHANGED <<uvars, news, sent, reading, shown, checking, applying, checks, prompt>>

\* restart(): the controller is called at once.
Restart ==
  /\ Acts("restart")
  /\ IF ~blocked /\ instOp = "idle" /\ ~prepared THEN Install ELSE UNCHANGED uvars

\* No job is active, or the user is asked: some are, or their number is not known.
Counted ==
  /\ call = "count"
  /\ \/ Restart /\ UNCHANGED prompt
     \/ prompt' = TRUE /\ Rests /\ UNCHANGED uvars
  /\ UNCHANGED <<news, sent, reading, shown, checking, applying, checks>>

Confirm ==
  /\ prompt /\ prompt' = FALSE
  /\ IF busy THEN UNCHANGED <<uvars, busy, call>> ELSE Restart
  /\ UNCHANGED <<news, sent, reading, shown, checking, applying, checks>>

CancelRestart ==
  /\ prompt /\ prompt' = FALSE
  /\ UNCHANGED <<uvars, news, sent, reading, shown, checking, applying, busy, call, checks>>

\* The call ends; one that failed takes the overlay away.
RestartAnswered ==
  /\ call = "restart" /\ instOp = "idle"
  /\ Rests
  /\ applying' = (applying /\ prepared)
  /\ UNCHANGED <<uvars, news, sent, reading, shown, checking, checks, prompt>>

NNext ==
  \/ ControllerStep \/ Heard \/ ReadServed \/ ReadArrives \/ ReadFails \/ Reload
  \/ CheckNow \/ CheckAnswered \/ Apply \/ DownloadAnswered \/ Counted \/ Confirm \/ CancelRestart
  \/ RestartAnswered

NSpec == NInit /\ [][NNext]_nvars
=============================================================================
