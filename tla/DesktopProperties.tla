-------------------------- MODULE DesktopProperties --------------------------
(***************************************************************************)
(* What the desktop shell promises: to the data directory, to the window,  *)
(* to the installer and to the user who quits.                             *)
(***************************************************************************)
EXTENDS Desktop

Attempts == [pid : Pids \cup {NoPid}, handshake : BOOLEAN, listening : BOOLEAN,
             result : Results, closed : BOOLEAN, watched : BOOLEAN]

SupTypeOK ==
  /\ alive \subseteq Pids /\ att \in Attempts
  /\ state \in States /\ port \in Pids \cup {NoPid}
  /\ launch \in {"idle", "retire", "port", "ready", "clean"} /\ tries \in 0..(MaxTries - 1)
  /\ term \in {"none", "drain", "asked", "killed"}
  /\ stop \in {"idle", "await", "terminate", "done"} /\ supQuit \in BOOLEAN

UpdTypeOK ==
  /\ offer \in BOOLEAN /\ uready \in BOOLEAN /\ snap \in SnapStates
  /\ checkOp \in {"idle", "feed", "verify"}
  /\ downOp \in {"idle", "wait", "fetch", "verify"}
  /\ instOp \in {"idle", "wait", "verify", "rehydrate", "quit"}
  /\ prepared \in BOOLEAN /\ closing \in BOOLEAN /\ blocked \in BOOLEAN

ShellTypeOK ==
  /\ darwin \in BOOLEAN /\ window \in BOOLEAN /\ page \in Pages
  /\ quitting \in BOOLEAN /\ quitReady \in BOOLEAN /\ quitOp \in BOOLEAN
  /\ quitPending \in BOOLEAN /\ gone \in BOOLEAN

\* The state has the shape the code declares (core-supervisor.ts, update-controller.ts, main.ts).
DesktopTypeOK == SupTypeOK /\ UpdTypeOK /\ ShellTypeOK

\* One core at a time, and the shell lets go of the data directory only when none is left,
\* whatever exits, restart requests, retries and quits cross each other: the abstract lease is
\* implemented ("One window, one core", main.ts; "never leave it orphaned").
Lease == INSTANCE CoreLease WITH cores <- alive, held <- ~quitReady
OneCoreLease == Lease!LSpec

\* The installer replaces the files of a service that has stopped, and nothing can start one
\* under it: no process, no launch in flight (restartAndInstall after prepareQuit).
InstallerRunsAlone ==
  prepared => alive = {} /\ launch = "idle" /\ quitReady /\ uready

\* Outside a quit the window shows the state of the service: a failure with its retry link, the
\* interface of a ready one (showCoreState, createMainWindow, prepareQuit's catch).
ShownIsTrue ==
  window /\ ~quitting =>
    /\ state = "failed" => page = "failed"
    /\ state = "starting" => page = "starting"
    /\ state = "ready" => page = "ui"

\* The snapshot the page shows is backed by what runs: no progress without its operation, no
\* finished download without a verified file, also after a quit that was called off
\* (publish drops what happens while closing, cancelQuit makes up for it).
SnapshotBacked ==
  ~closing =>
    /\ snap = "checking" => checkOp # "idle"
    /\ snap = "downloading" => downOp # "idle"
    /\ snap = "preparing-install" => instOp # "idle"
    /\ snap = "installing" => prepared
    /\ snap = "downloaded" => uready

-----------------------------------------------------------------------------
\* Timers bound every wait of the supervisor; a process that exited closes its pipes; the feed
\* and the disk answer or fail.  Neither the user, nor the exit of a core, nor its readiness,
\* nor the installer is fair.
FairDSpec ==
  /\ DSpec
  /\ WF_dvars(Timely)
  /\ WF_dvars(Closes)
  /\ WF_dvars(\E ok \in BOOLEAN : PrepareSettles(ok))
  /\ WF_dvars(InstallerTakesOver \/ InstallGivesUp \/ OrdinaryQuit)

\* A user who quits is not kept waiting for ever: the application ends, or the stop failed and
\* the window is back in service.
QuitSettles == quitPending ~> (gone \/ ~quitting)

\* A launch comes to an end, whatever its child does.
LaunchSettles == (launch # "idle") ~> (launch = "idle")
=============================================================================
