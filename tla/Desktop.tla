------------------------------- MODULE Desktop -------------------------------
(***************************************************************************)
(* The desktop shell (main.ts): one window, one core, and three ways to    *)
(* quit that share one prepareQuit(): the user's, the window's close where *)
(* that ends the application, and the installer's.                         *)
(***************************************************************************)
EXTENDS CoreSupervisor, UpdateController

VARIABLES
  darwin,     \* closing the window does not end the application
  window,     \* mainWindow
  page,       \* the document it shows
  quitting, quitReady,
  quitOp,     \* prepareQuit() is in flight
  quitPending, \* ordinaryQuitPending
  gone        \* the application has ended

shell == <<darwin, window, page, quitting, quitReady, quitOp, quitPending, gone>>
dvars == <<svars, uvars, shell>>

Pages == {"none", "starting", "ui", "failed"}

\* whenReady has run: the core is started behind the first window.
DInit ==
  /\ SupInit /\ UpdInit
  /\ darwin \in BOOLEAN
  /\ window = TRUE /\ page = "starting"
  /\ quitting = FALSE /\ quitReady = FALSE /\ quitOp = FALSE /\ quitPending = FALSE /\ gone = FALSE

\* Slip: the states are shown only while the first page is.
ShowOnce(s) == IF page = "starting" /\ s \in {"failed", "ready"} THEN
                 (IF s = "ready" THEN "ui" ELSE "failed") ELSE page
\* showCoreState(), called by every transition: the page of a quitting shell is left alone, and
\* so is the interface while its core restarts.
Show(s) ==
  CASE s = "failed"   -> "failed"
    [] s = "starting" -> "starting"
    [] s = "ready"    -> "ui"
    [] OTHER          -> page
Follow ==
  page' = IF state' # state /\ window /\ ~quitting THEN Show(state') ELSE page

calm == <<uvars, darwin, window, quitting, quitReady, quitOp, quitPending, gone>>

Timely    == ~gone /\ SupervisorStep /\ Follow /\ UNCHANGED calm
Closes    == ~gone /\ ProcClose /\ Follow /\ UNCHANGED calm
OfTheCore == ~gone /\ CoreStep /\ Follow /\ UNCHANGED calm

Updates ==
  /\ ~gone /\ UpdateStep
  /\ UNCHANGED <<svars, shell>>

\* The link of the failure page.
Retry ==
  /\ ~gone /\ window /\ page = "failed" /\ ~quitting
  /\ StartCall /\ Follow
  /\ UNCHANGED calm

-----------------------------------------------------------------------------
(* Quitting                                                                *)

\* prepareQuit(): one stop() for all who ask.
PrepareQuit ==
  IF quitReady \/ quitOp
  THEN UNCHANGED <<svars, quitting, quitOp>>
  ELSE quitting' = TRUE /\ quitOp' = TRUE /\ StopCall

\* What awaits a settled promise runs before the next event.
Settled == (instOp = "quit" => quitOp) /\ (quitPending => ~quitReady)

\* before-quit, of the menu or of a close: the shell leaves only when the core is stopped.
BeforeQuit ==
  /\ ~gone /\ BeginQuit
  /\ IF quitReady
     THEN gone' = TRUE /\ UNCHANGED <<svars, quitting, quitOp, quitPending>>
     ELSE PrepareQuit /\ quitPending' = TRUE /\ UNCHANGED gone
  /\ UNCHANGED <<darwin, window, page, quitReady>>

Quit == Settled /\ BeforeQuit

\* The close button.  Where it ends the application the window stays until the core is
\* stopped, and a second click adds nothing.
CloseWindow ==
  /\ ~gone /\ window /\ Settled
  /\ \/ /\ darwin
        /\ window' = FALSE /\ page' = "none"
        /\ UNCHANGED <<svars, uvars, darwin, quitting, quitReady, quitOp, quitPending, gone>>
     \/ /\ ~darwin /\ (quitReady \/ ~quitPending)
        /\ BeforeQuit

\* Slip: a failed stop leaves the shell quitting.
PrepareSettlesStuck(ok) ==
  /\ ~gone /\ quitOp /\ StopSettles(ok)
  /\ quitOp' = FALSE /\ quitReady' = ok
  /\ UNCHANGED <<uvars, page, quitting, quitPending, darwin, window, gone>>
\* The core stopped: quitReady; or it did not, and the shell is open again.
PrepareSettles(ok) ==
  /\ ~gone /\ quitOp
  /\ StopSettles(ok)
  /\ quitOp' = FALSE /\ quitReady' = ok
  /\ IF ok
     THEN UNCHANGED <<uvars, page, quitting, quitPending>>
     ELSE /\ quitting' = FALSE
          /\ page' = IF window THEN "failed" ELSE page
          /\ quitPending' = FALSE
          /\ IF quitPending THEN CancelQuit ELSE UNCHANGED uvars
  /\ UNCHANGED <<darwin, window, gone>>

\* prepareQuit().then(app.quit)
OrdinaryQuit == quitPending /\ quitReady /\ (instOp = "quit" => quitOp) /\ BeforeQuit

-----------------------------------------------------------------------------
(* The installer                                                           *)

PrepareInstall ==
  /\ ~gone /\ Rehydrated
  /\ PrepareQuit
  /\ UNCHANGED <<darwin, window, page, quitReady, quitPending, gone>>

InstallerTakesOver ==
  /\ ~gone /\ ~quitOp /\ quitReady
  /\ HandOver
  /\ UNCHANGED <<svars, shell>>

InstallGivesUp ==
  /\ ~gone /\ (instOp = "quit" => ~quitOp /\ (~quitReady \/ closing))
  /\ InstallFails
  /\ UNCHANGED <<svars, shell>>

\* resumeAfterFailedUpdate(): a new supervisor, the window if it was closed, and a new core.
InstallerBreaks ==
  /\ ~gone /\ InstallerFails
  /\ IF quitReady
     THEN /\ quitting' = FALSE /\ quitReady' = FALSE
          /\ window' = TRUE /\ page' = "starting"
          /\ att' = NoAttempt /\ port' = NoPid /\ state' = "starting"
          /\ launch' = "retire" /\ tries' = 0 /\ term' = "none" /\ stop' = "idle" /\ supQuit' = FALSE
          /\ UNCHANGED alive
     ELSE UNCHANGED <<svars, quitting, quitReady, window, page>>
  /\ UNCHANGED <<darwin, quitOp, quitPending, gone>>

-----------------------------------------------------------------------------
(* The window                                                              *)

\* createMainWindow()
OpenWindow ==
  /\ window' = TRUE
  /\ page' = IF state' = "failed" THEN "failed" ELSE IF port' # NoPid THEN "ui" ELSE "starting"

\* A second launch of the application shows the window of the first.
SecondInstance ==
  /\ ~gone /\ ~window /\ ~quitting
  /\ UNCHANGED svars /\ OpenWindow
  /\ UNCHANGED <<uvars, darwin, quitting, quitReady, quitOp, quitPending, gone>>

\* The dock icon also starts a core that is not there.
Activate ==
  /\ ~gone /\ darwin /\ ~window /\ ~quitting
  /\ StartCall /\ OpenWindow
  /\ UNCHANGED <<uvars, darwin, quitting, quitReady, quitOp, quitPending, gone>>

Ended == gone /\ UNCHANGED dvars

Internal ==
  \/ Timely \/ Closes \/ OfTheCore \/ Updates \/ OrdinaryQuit \/ InstallerTakesOver \/ InstallGivesUp
  \/ PrepareInstall \/ \E ok \in BOOLEAN : PrepareSettles(ok)

DNext ==
  \/ Internal
  \/ Retry \/ Quit \/ CloseWindow \/ InstallerBreaks \/ SecondInstance \/ Activate \/ Ended

DSpec == DInit /\ [][DNext]_dvars
=============================================================================
