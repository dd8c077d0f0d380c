-------------------------- MODULE UpdateController --------------------------
(***************************************************************************)
(* The in-app updates of the desktop shell (update-controller.ts over      *)
(* update-store.ts).  check(), download() and restartAndInstall() are      *)
(* single-flight and each await is a step.  Versions, notes and progress   *)
(* are left out: a check offers an update or not, and verifying a cached   *)
(* file says yes or no, so which file the store names is left out.         *)
(***************************************************************************)

VARIABLES
  offer,     \* info: the update the last check found
  uready,    \* ready: the cached file was verified for this offer
  snap,      \* the snapshot the page was sent last
  checkOp, downOp, instOp,  \* the await each operation is at
  prepared,  \* the installer owns the quit
  closing,   \* the user is quitting
  blocked    \* an installation failed in this process

uvars == <<offer, uready, snap, checkOp, downOp, instOp, prepared, closing, blocked>>
ops   == <<checkOp, downOp, instOp>>
quit  == <<prepared, closing, blocked>>

\* "rest" stands for idle, not-available, available and error: nothing is under way.
SnapStates == {"rest", "checking", "downloading", "downloaded", "preparing-install", "installing"}

UpdInit ==
  /\ offer = FALSE /\ uready = FALSE
  /\ snap = "rest"
  /\ checkOp = "idle" /\ downOp = "idle" /\ instOp = "idle"
  /\ prepared = FALSE /\ closing = FALSE /\ blocked = FALSE

\* publish(): nothing is sent while the application closes.
Publish(s) == snap' = IF closing THEN snap ELSE s

-----------------------------------------------------------------------------
(* check()                                                                 *)

Check ==
  /\ ~blocked /\ ops = <<"idle", "idle", "idle">> /\ ~prepared /\ ~closing
  /\ checkOp' = "feed" /\ uready' = FALSE
  /\ Publish("checking")
  /\ UNCHANGED <<offer, downOp, instOp, quit>>

CheckFails ==
  /\ checkOp # "idle"
  /\ checkOp' = "idle" /\ offer' = FALSE /\ uready' = FALSE
  /\ Publish("rest")
  /\ UNCHANGED <<downOp, instOp, quit>>

CheckFindsNone ==
  /\ checkOp = "feed" /\ ~closing
  /\ checkOp' = "idle" /\ offer' = FALSE /\ uready' = FALSE
  /\ Publish("rest")
  /\ UNCHANGED <<downOp, instOp, quit>>

CheckOffers ==
  /\ checkOp = "feed" /\ ~closing
  /\ checkOp' = "verify" /\ offer' = TRUE /\ uready' = FALSE
  /\ UNCHANGED <<snap, downOp, instOp, quit>>

\* A file cached by an earlier run is taken only if it is the offered one, intact.
CheckVerifies(ok) ==
  /\ checkOp = "verify"
  /\ checkOp' = "idle" /\ uready' = ok
  /\ Publish(IF ok THEN "downloaded" ELSE "rest")
  /\ UNCHANGED <<offer, downOp, instOp, quit>>

-----------------------------------------------------------------------------
(* download()                                                              *)

Download ==
  /\ ~blocked /\ downOp = "idle" /\ instOp = "idle" /\ ~prepared
  /\ downOp' = "wait"
  /\ UNCHANGED <<offer, uready, snap, checkOp, instOp, quit>>

DownloadStarts ==
  /\ downOp = "wait" /\ checkOp = "idle"
  /\ \/ /\ closing \/ ~offer
        /\ downOp' = "idle" /\ Publish("rest")
     \/ /\ ~closing /\ offer /\ uready
        /\ downOp' = "idle" /\ Publish("downloaded")
     \/ /\ ~closing /\ offer /\ ~uready
        /\ downOp' = "fetch" /\ Publish("downloading")
  /\ UNCHANGED <<offer, uready, checkOp, instOp, quit>>

DownloadFails ==
  /\ downOp \in {"fetch", "verify"}
  /\ downOp' = "idle" /\ uready' = FALSE
  /\ Publish("rest")
  /\ UNCHANGED <<offer, checkOp, instOp, quit>>

Downloaded ==
  /\ downOp = "fetch" /\ ~closing
  /\ downOp' = "verify"
  /\ UNCHANGED <<offer, uready, snap, checkOp, instOp, quit>>

DownloadVerified ==
  /\ downOp = "verify"
  /\ downOp' = "idle" /\ uready' = TRUE
  /\ Publish("downloaded")
  /\ UNCHANGED <<offer, checkOp, instOp, quit>>

-----------------------------------------------------------------------------
(* restartAndInstall()                                                     *)

Install ==
  /\ ~blocked /\ instOp = "idle" /\ ~prepared
  /\ instOp' = "wait"
  /\ UNCHANGED <<offer, uready, snap, checkOp, downOp, quit>>

\* A download that waits for the same check was called first and goes on first.
InstallStarts ==
  /\ instOp = "wait" /\ checkOp = "idle" /\ downOp # "wait"
  /\ \/ /\ closing \/ ~uready \/ ~offer
        /\ instOp' = "idle" /\ Publish("rest")
     \/ /\ ~closing /\ uready /\ offer
        /\ instOp' = "verify" /\ Publish("preparing-install")
  /\ UNCHANGED <<offer, uready, checkOp, downOp, quit>>

InstallVerifies(ok) ==
  /\ instOp = "verify"
  /\ IF ok
     THEN instOp' = "rehydrate" /\ UNCHANGED <<uready, snap>>
     ELSE instOp' = "idle" /\ uready' = FALSE /\ Publish("rest")
  /\ UNCHANGED <<offer, checkOp, downOp, quit>>

\* The library loaded the file again: the shell is asked to stop the core.
Rehydrated ==
  /\ instOp = "rehydrate" /\ ~closing
  /\ instOp' = "quit"
  /\ UNCHANGED <<offer, uready, snap, checkOp, downOp, quit>>

\* The library, the store or prepareQuit() failed, or the user quits meanwhile.
InstallFails ==
  /\ instOp \in {"rehydrate", "quit"}
  /\ instOp' = "idle"
  /\ Publish("rest")
  /\ UNCHANGED <<offer, uready, checkOp, downOp, quit>>

\* The core has stopped: the installer takes over.
HandOver ==
  /\ instOp = "quit" /\ ~closing
  /\ instOp' = "idle" /\ prepared' = TRUE
  /\ Publish("installing")
  /\ UNCHANGED <<offer, uready, checkOp, downOp, closing, blocked>>

\* The installer did not start, told at once or by a later "rest" of the driver: this process
\* installs nothing any more, and the shell resumes.
InstallerFails ==
  /\ prepared
  /\ prepared' = FALSE /\ blocked' = TRUE /\ uready' = FALSE
  /\ Publish("rest")
  /\ UNCHANGED <<offer, ops, closing>>

-----------------------------------------------------------------------------
(* The user's quit                                                         *)

BeginQuit ==
  /\ closing' = (closing \/ ~prepared)
  /\ UNCHANGED <<offer, uready, snap, ops, prepared, blocked>>

\* Slip: the snapshots dropped while closing are not made up for.
CancelQuitQuiet ==
  /\ closing' = FALSE
  /\ UNCHANGED <<offer, uready, snap, ops, prepared, blocked>>
CancelQuit ==
  /\ closing' = FALSE
  /\ snap' = IF ~closing \/ blocked THEN snap
             ELSE IF uready THEN "downloaded" ELSE "rest"
  /\ UNCHANGED <<offer, uready, ops, prepared, blocked>>

UpdateStep ==
  \/ \E ok \in BOOLEAN : CheckVerifies(ok) \/ InstallVerifies(ok)
  \/ Check \/ CheckFails \/ CheckFindsNone \/ CheckOffers
  \/ Download \/ DownloadStarts \/ DownloadFails \/ Downloaded \/ DownloadVerified
  \/ Install \/ InstallStarts
=============================================================================
