---------------------------- MODULE DesktopProofs ----------------------------
(***************************************************************************)
(* What holds of the shell for every set of process numbers: its type, the *)
(* lease of CoreLease, an installer that runs alone and a snapshot that    *)
(* what runs backs.  DownOp and InstOp exclude each other only through     *)
(* uready, and the lease needs the supervisor's awaits: hence CoreInv and  *)
(* OfferInv, which are inductive.                                          *)
(***************************************************************************)
EXTENDS DesktopProperties, TLAPS

-----------------------------------------------------------------------------
(* Types                                                                   *)

LEMMA UpdTypeStep ==
  ASSUME UpdTypeOK,
         UpdateStep \/ Rehydrated \/ HandOver \/ InstallFails \/ InstallerFails \/ BeginQuit \/ CancelQuit
  PROVE  UpdTypeOK'
  <1> USE DEF UpdTypeOK, Publish, SnapStates, quit, ops
  <1>1. ASSUME NEW ok \in BOOLEAN, CheckVerifies(ok) \/ InstallVerifies(ok) PROVE UpdTypeOK'
    BY <1>1 DEF CheckVerifies, InstallVerifies
  <1>2. CASE Check \/ CheckFails \/ CheckFindsNone \/ CheckOffers
    BY <1>2 DEF Check, CheckFails, CheckFindsNone, CheckOffers
  <1>3. CASE Download \/ DownloadStarts
    BY <1>3 DEF Download, DownloadStarts
  <1>4. CASE DownloadFails \/ Downloaded \/ DownloadVerified
    BY <1>4 DEF DownloadFails, Downloaded, DownloadVerified
  <1>5. CASE Install \/ InstallStarts
    BY <1>5 DEF Install, InstallStarts
  <1>6. CASE Rehydrated \/ HandOver \/ InstallFails
    BY <1>6 DEF Rehydrated, HandOver, InstallFails
  <1>7. CASE InstallerFails \/ BeginQuit \/ CancelQuit
    BY <1>7 DEF InstallerFails, BeginQuit, CancelQuit
  <1> QED
    BY <1>1, <1>2, <1>3, <1>4, <1>5, <1>6, <1>7 DEF UpdateStep

LEMMA AttemptType ==
  /\ NoAttempt \in Attempts
  /\ \A p \in Pids : [NoAttempt EXCEPT !.pid = p] \in Attempts
  /\ [NoAttempt EXCEPT !.result = "error", !.closed = TRUE] \in Attempts
  /\ \A a \in Attempts : /\ [a EXCEPT !.handshake = TRUE] \in Attempts
                         /\ [a EXCEPT !.listening = TRUE] \in Attempts
                         /\ [a EXCEPT !.watched = TRUE] \in Attempts
                         /\ [a EXCEPT !.closed = TRUE] \in Attempts
                         /\ \A c \in Results : [a EXCEPT !.result = c] \in Attempts
                         /\ a.pid \in Pids \cup {NoPid}
  BY DEF Attempts, NoAttempt, Results

LEMMA SupTypeStep ==
  ASSUME SupTypeOK,
         SupervisorStep \/ CoreStep \/ ProcClose \/ StartCall \/ StopCall
           \/ \E ok \in BOOLEAN : StopSettles(ok)
  PROVE  SupTypeOK'
  <1>a. 0 \in 0..(MaxTries - 1)
    BY DEF MaxTries
  <1> USE AttemptType, <1>a DEF SupTypeOK, States
  <1>1. ASSUME NEW ok \in BOOLEAN, Retired(ok) \/ Cleaned(ok) PROVE SupTypeOK'
    <2>1. CASE Retired(ok)
      BY <2>1 DEF Retired, Finish
    <2>2. CASE Cleaned(ok)
      <3>1. tries' \in 0..(MaxTries - 1)
        BY <2>2 DEF Cleaned, Finish, MaxTries
      <3> QED
        BY <2>2, <3>1 DEF Cleaned, Finish
    <2> QED
      BY <1>1, <2>1, <2>2
  <1>2. CASE \E p \in Pids : Spawn(p)
    BY <1>2 DEF Spawn
  <1>3. CASE PortFails \/ SpawnFails \/ NoSpawn
    BY <1>3 DEF PortFails, SpawnFails, NoSpawn, Finish
  <1>4. CASE NotReady
    BY <1>4 DEF NotReady
  <1>5. CASE KillCore \/ StopTerminates
    BY <1>5 DEF KillCore, StopTerminates
  <1>6. ASSUME NEW c \in Results, ProcExit(c) PROVE SupTypeOK'
    BY <1>6 DEF ProcExit
  <1>7. CASE Handshake \/ Listening
    BY <1>7 DEF Handshake, Listening
  <1>8. CASE Ready
    <2>1. att' \in Attempts /\ port' \in Pids \cup {NoPid}
      BY <1>8 DEF Ready
    <2> QED
      BY <1>8, <2>1 DEF Ready
  <1>9. CASE ProcClose
    <2>1. att' \in Attempts
      BY <1>9 DEF ProcClose
    <2> QED
      BY <1>9, <2>1 DEF ProcClose
  <1>10. CASE StartCall
    BY <1>10 DEF StartCall, BeginLaunch, svars
  <1>11. CASE StopCall
    BY <1>11 DEF StopCall, svars
  <1>12. CASE \E ok \in BOOLEAN : StopSettles(ok)
    BY <1>12 DEF StopSettles
  <1> QED
    BY <1>1, <1>2, <1>3, <1>4, <1>5, <1>6, <1>7, <1>8, <1>9, <1>10, <1>11, <1>12
       DEF SupervisorStep, CoreStep

LEMMA TypeStep == DesktopTypeOK /\ [DNext]_dvars => DesktopTypeOK'
  <1> SUFFICES ASSUME DesktopTypeOK, [DNext]_dvars PROVE DesktopTypeOK'
    OBVIOUS
  <1> USE DEF DesktopTypeOK
  <1>1. UNCHANGED svars => SupTypeOK'
    BY DEF SupTypeOK, svars
  <1>2. UNCHANGED uvars => UpdTypeOK'
    BY DEF UpdTypeOK, uvars
  <1>3. UNCHANGED shell => ShellTypeOK'
    BY DEF ShellTypeOK, shell
  <1>4. Follow => page' \in Pages
    BY DEF Follow, Show, Pages, ShellTypeOK
  <1>5. UNCHANGED calm /\ Follow => UpdTypeOK' /\ ShellTypeOK'
    BY <1>2, <1>4 DEF calm, ShellTypeOK
  <1>6. CASE Timely \/ Closes \/ OfTheCore \/ Retry
    BY <1>5, <1>6, SupTypeStep DEF Timely, Closes, OfTheCore, Retry
  <1>7. CASE Updates \/ InstallerTakesOver \/ InstallGivesUp
    BY <1>1, <1>3, <1>7, UpdTypeStep DEF Updates, InstallerTakesOver, InstallGivesUp
  <1>8. PrepareQuit => SupTypeOK' /\ quitting' \in BOOLEAN /\ quitOp' \in BOOLEAN
    BY <1>1, SupTypeStep DEF PrepareQuit, ShellTypeOK
  <1>9. BeforeQuit => DesktopTypeOK'
    BY <1>1, <1>8, UpdTypeStep DEF BeforeQuit, ShellTypeOK
  <1>10. CASE Quit \/ OrdinaryQuit
    BY <1>9, <1>10 DEF Quit, OrdinaryQuit
  <1>11. CASE CloseWindow
    BY <1>1, <1>2, <1>9, <1>11 DEF CloseWindow, ShellTypeOK, Pages
  <1>12. CASE PrepareInstall
    BY <1>8, <1>12, UpdTypeStep DEF PrepareInstall, ShellTypeOK
  <1>13. CASE \E ok \in BOOLEAN : PrepareSettles(ok)
    BY <1>2, <1>13, SupTypeStep, UpdTypeStep DEF PrepareSettles, ShellTypeOK, Pages
  <1>14. CASE InstallerBreaks
    <2>1. UpdTypeOK'
      BY <1>14, UpdTypeStep DEF InstallerBreaks
    <2>2. ShellTypeOK'
      BY <1>14 DEF InstallerBreaks, ShellTypeOK, Pages
    <2>3. SupTypeOK'
      <3>1. 0 \in 0..(MaxTries - 1)
        BY DEF MaxTries
      <3> QED
        BY <1>14, <3>1, AttemptType DEF InstallerBreaks, SupTypeOK, svars, States
    <2> QED
      BY <2>1, <2>2, <2>3
  <1>15. CASE SecondInstance \/ Activate
    BY <1>1, <1>2, <1>15, SupTypeStep DEF SecondInstance, Activate, OpenWindow, calm, ShellTypeOK, Pages
  <1>16. CASE Ended \/ UNCHANGED dvars
    BY <1>1, <1>2, <1>3, <1>16 DEF Ended, dvars
  <1> QED
    BY <1>6, <1>7, <1>10, <1>11, <1>12, <1>13, <1>14, <1>15, <1>16 DEF DNext, Internal

\* The state always has its shape.
THEOREM DesktopTypeCorrect == DSpec => []DesktopTypeOK
  <1>1. DInit => DesktopTypeOK
    <2> SUFFICES ASSUME DInit PROVE DesktopTypeOK
      OBVIOUS
    <2>1. 0 \in 0..(MaxTries - 1)
      BY DEF MaxTries
    <2>2. SupTypeOK
      BY <2>1, AttemptType DEF DInit, SupInit, SupTypeOK, States
    <2>3. UpdTypeOK /\ ShellTypeOK
      BY DEF DInit, UpdInit, UpdTypeOK, ShellTypeOK, SnapStates, Pages
    <2> QED
      BY <2>2, <2>3 DEF DesktopTypeOK
  <1> QED
    BY <1>1, TypeStep, PTL DEF DSpec

-----------------------------------------------------------------------------
(* The lease                                                               *)

\* What the awaits of the supervisor know of the process it remembers.
CoreInv ==
  /\ alive \subseteq {att.pid}
  /\ att.closed => Dead
  /\ Dead => alive = {}
  /\ term = "drain" => Dead
  /\ launch = "port" => alive = {} /\ term = "none"
  /\ launch = "retire" /\ term = "none" => alive = {}
  /\ stop = "terminate" /\ term = "none" => alive = {}
  /\ stop \in {"await", "terminate", "done"} => supQuit
  /\ stop \in {"terminate", "done"} => launch = "idle"
  /\ stop = "done" => alive = {}
  /\ quitReady => stop = "done"

\* An answer of terminate() that says yes is right.
LEMMA TerminatedIsTrue == ASSUME CoreInv, Terminated(TRUE) PROVE alive = {}
  BY DEF CoreInv, Terminated

\* With nothing attempted nothing runs.
LEMMA AbsentRunsNothing == ASSUME SupTypeOK, CoreInv, Absent PROVE alive = {}
  BY NoPidAssumption DEF SupTypeOK, CoreInv, Absent, NoAttempt

LEMMA SupervisorKeepsCore ==
  ASSUME SupTypeOK, CoreInv, UNCHANGED quitReady,
         SupervisorStep \/ CoreStep \/ ProcClose \/ StartCall \/ StopCall
  PROVE  CoreInv'
  <1> USE DEF CoreInv, Dead
  <1>1. ASSUME NEW ok \in BOOLEAN, Retired(ok) PROVE CoreInv'
    <2>1. ok => alive = {}
      BY <1>1, TerminatedIsTrue DEF Retired
    <2> QED
      BY <1>1, <2>1 DEF Retired, Finish
  <1>2. ASSUME NEW ok \in BOOLEAN, Cleaned(ok) PROVE CoreInv'
    BY <1>2 DEF Cleaned, Finish
  <1>3. ASSUME NEW p \in Pids, Spawn(p) PROVE CoreInv'
    <2>1. att' = [NoAttempt EXCEPT !.pid = p] /\ alive' = {p}
      BY <1>3 DEF Spawn
    <2>2. att'.pid = p /\ ~att'.closed /\ att'.result = "none"
      BY <2>1 DEF NoAttempt
    <2> QED
      BY <1>3, <2>1, <2>2 DEF Spawn
  <1>4. CASE SpawnFails
    <2>1. att'.closed /\ att'.result = "error"
      BY <1>4 DEF SpawnFails, NoAttempt
    <2> QED
      BY <1>4, <2>1 DEF SpawnFails
  <1>5. CASE PortFails \/ NoSpawn \/ NotReady \/ KillCore
    BY <1>5 DEF PortFails, NoSpawn, NotReady, KillCore, Finish
  <1>6. CASE StopTerminates
    BY <1>6, AbsentRunsNothing DEF StopTerminates
  <1>7. ASSUME NEW c \in Results, ProcExit(c) PROVE CoreInv'
    <2>1. alive' = {} /\ att'.result = c /\ c # "none" /\ att'.pid = att.pid
      BY <1>7 DEF ProcExit, SupTypeOK, Attempts
    <2> QED
      BY <1>7, <2>1 DEF ProcExit
  <1>8. CASE Handshake \/ Listening \/ Ready
    <2>1. att'.pid = att.pid /\ att'.closed = att.closed /\ att'.result = att.result
      BY <1>8 DEF Handshake, Listening, Ready, SupTypeOK, Attempts
    <2> QED
      BY <1>8, <2>1 DEF Handshake, Listening, Ready
  <1>9. CASE ProcClose
    <2>1. att'.pid = att.pid /\ att'.result = att.result
      BY <1>9 DEF ProcClose, SupTypeOK, Attempts
    <2> QED
      BY <1>9, <2>1 DEF ProcClose
  <1>10. CASE StartCall
    BY <1>10, AbsentRunsNothing DEF StartCall, StartsAfresh, BeginLaunch, svars
  <1>11. CASE StopCall
    BY <1>11 DEF StopCall, svars
  <1> QED
    BY <1>1, <1>2, <1>3, <1>4, <1>5, <1>6, <1>7, <1>8, <1>9, <1>10, <1>11 DEF SupervisorStep, CoreStep

LEMMA CoreStays == ASSUME CoreInv, UNCHANGED <<svars, quitReady>> PROVE CoreInv'
  BY DEF CoreInv, Dead, svars

\* Each step of the shell either leaves the core and the right to start one alone, or is one of
\* the supervisor's, the end of a stop, or the return from a failed installation.
LEMMA ShellSteps ==
  ASSUME [DNext]_dvars
  PROVE  \/ UNCHANGED <<svars, quitReady>>
         \/ /\ UNCHANGED quitReady
            /\ SupervisorStep \/ CoreStep \/ ProcClose \/ StartCall \/ StopCall
         \/ \E ok \in BOOLEAN : StopSettles(ok) /\ quitReady' = ok
         \/ InstallerBreaks /\ quitReady
  BY DEF DNext, Internal, Timely, Closes, OfTheCore, Updates, OrdinaryQuit, InstallerTakesOver,
         InstallGivesUp, PrepareInstall, PrepareSettles, Retry, Quit, CloseWindow, InstallerBreaks,
         SecondInstance, Activate, Ended, BeforeQuit, PrepareQuit, calm, dvars, shell

LEMMA StopKeepsCore ==
  ASSUME CoreInv, NEW ok \in BOOLEAN, StopSettles(ok), quitReady' = ok PROVE CoreInv'
  <1>1. ok => alive = {}
    BY TerminatedIsTrue DEF StopSettles, CoreInv
  <1> QED
    BY <1>1 DEF StopSettles, CoreInv, Dead

LEMMA ResumeKeepsCore == ASSUME CoreInv, InstallerBreaks, quitReady PROVE CoreInv'
  BY DEF CoreInv, Dead, InstallerBreaks, NoAttempt

LEMMA CoreStepInv == DesktopTypeOK /\ CoreInv /\ [DNext]_dvars => CoreInv'
  BY ShellSteps, CoreStays, SupervisorKeepsCore, StopKeepsCore, ResumeKeepsCore DEF DesktopTypeOK

LEMMA CoreInvariant == DSpec => []CoreInv
  <1>1. DInit => CoreInv
    BY DEF DInit, SupInit, CoreInv, Dead, NoAttempt
  <1> QED
    BY <1>1, CoreStepInv, DesktopTypeCorrect, PTL DEF DSpec

LEMMA LeaseStep ==
  DesktopTypeOK /\ CoreInv /\ [DNext]_dvars => [Lease!Start \/ Lease!End \/ Lease!LetGo \/ Lease!Resume]_(Lease!lease)
  <1> SUFFICES ASSUME DesktopTypeOK, CoreInv, [DNext]_dvars
               PROVE  \/ Lease!Start \/ Lease!End \/ Lease!LetGo \/ Lease!Resume
                      \/ UNCHANGED <<alive, quitReady>>
    BY DEF Lease!lease
  <1> USE DEF Lease!Start, Lease!End, Lease!LetGo, Lease!Resume
  <1>1. CASE UNCHANGED <<svars, quitReady>>
    BY <1>1 DEF svars
  <1>2. CASE UNCHANGED quitReady /\ (SupervisorStep \/ CoreStep \/ ProcClose \/ StartCall \/ StopCall)
    <2>1. ASSUME NEW p \in Pids, Spawn(p) PROVE Lease!Start
      BY <1>2, <2>1 DEF Spawn, CoreInv
    <2>2. ASSUME NEW c \in Results, ProcExit(c) PROVE Lease!End
      BY <1>2, <2>2 DEF ProcExit, CoreInv, Running
    <2>3. CASE StartCall \/ StopCall \/ ProcClose
      BY <1>2, <2>3 DEF StartCall, BeginLaunch, StopCall, ProcClose, svars
    <2>4. CASE CoreStep
      BY <1>2, <2>2, <2>4 DEF CoreStep, Handshake, Listening, Ready
    <2>5. CASE SupervisorStep
      BY <1>2, <2>1, <2>5 DEF SupervisorStep, Retired, Cleaned, PortFails, SpawnFails, NoSpawn, NotReady,
                              KillCore, StopTerminates
    <2> QED
      BY <1>2, <2>3, <2>4, <2>5
  <1>3. ASSUME NEW ok \in BOOLEAN, StopSettles(ok), quitReady' = ok
        PROVE  Lease!LetGo \/ UNCHANGED <<alive, quitReady>>
    <2>1. ok => alive = {}
      BY <1>3, TerminatedIsTrue DEF StopSettles, CoreInv
    <2>2. ~quitReady /\ UNCHANGED alive
      BY <1>3 DEF StopSettles, CoreInv
    <2>3. CASE ok
      BY <1>3, <2>1, <2>2, <2>3
    <2>4. CASE ~ok
      BY <1>3, <2>2, <2>4 DEF DesktopTypeOK, ShellTypeOK
    <2> QED
      BY <2>3, <2>4
  <1>4. CASE InstallerBreaks /\ quitReady
    BY <1>4 DEF InstallerBreaks
  <1> QED
    BY <1>1, <1>2, <1>3, <1>4, ShellSteps

\* The shell with its supervisor implements the lease: one core at a time, none when it lets go.
THEOREM LeaseImplemented == DSpec => OneCoreLease
  <1>1. DInit => Lease!LInit
    BY DEF DInit, SupInit, Lease!LInit
  <1> QED
    BY <1>1, LeaseStep, CoreInvariant, DesktopTypeCorrect, PTL DEF DSpec, OneCoreLease, Lease!LSpec

-----------------------------------------------------------------------------
(* The installer and the snapshot                                          *)

Late == instOp \in {"verify", "rehydrate", "quit"}

\* An offer that is ready excludes a check and a download, and an installation needs it ready.
OfferInv ==
  /\ checkOp # "idle" => ~uready
  /\ downOp \in {"fetch", "verify"} => ~uready /\ checkOp = "idle"
  /\ instOp = "wait" => ~prepared
  /\ Late => uready /\ checkOp = "idle" /\ downOp = "idle" /\ ~prepared
  /\ prepared => uready /\ ops = <<"idle", "idle", "idle">> /\ ~closing
  /\ blocked => snap = "rest" /\ ops = <<"idle", "idle", "idle">> /\ ~prepared
  /\ SnapshotBacked

LEMMA OfferStep ==
  ASSUME UpdTypeOK, OfferInv,
         UpdateStep \/ Rehydrated \/ HandOver \/ InstallFails \/ InstallerFails \/ BeginQuit \/ CancelQuit
  PROVE  OfferInv'
  <1> USE DEF OfferInv, Late, SnapshotBacked, Publish, ops, quit, UpdTypeOK
  <1>1. ASSUME NEW ok \in BOOLEAN, CheckVerifies(ok) \/ InstallVerifies(ok) PROVE OfferInv'
    BY <1>1 DEF CheckVerifies, InstallVerifies
  <1>2. CASE Check \/ CheckFails
    BY <1>2 DEF Check, CheckFails
  <1>3. CASE CheckFindsNone \/ CheckOffers
    BY <1>3 DEF CheckFindsNone, CheckOffers
  <1>4. CASE Download
    BY <1>4 DEF Download
  <1>5. CASE DownloadStarts
    BY <1>5 DEF DownloadStarts
  <1>6. CASE DownloadFails \/ Downloaded
    BY <1>6 DEF DownloadFails, Downloaded
  <1>7. CASE DownloadVerified
    BY <1>7 DEF DownloadVerified
  <1>8. CASE Install
    BY <1>8 DEF Install
  <1>9. CASE InstallStarts
    BY <1>9 DEF InstallStarts
  <1>10. CASE Rehydrated \/ InstallFails
    BY <1>10 DEF Rehydrated, InstallFails
  <1>11. CASE HandOver
    BY <1>11 DEF HandOver
  <1>12. CASE InstallerFails
    BY <1>12 DEF InstallerFails
  <1>13. CASE BeginQuit \/ CancelQuit
    BY <1>13 DEF BeginQuit, CancelQuit
  <1> QED
    BY <1>1, <1>2, <1>3, <1>4, <1>5, <1>6, <1>7, <1>8, <1>9, <1>10, <1>11, <1>12, <1>13 DEF UpdateStep

LEMMA UpdateSteps ==
  ASSUME [DNext]_dvars
  PROVE  \/ UNCHANGED uvars
         \/ UpdateStep \/ Rehydrated \/ HandOver \/ InstallFails \/ InstallerFails \/ BeginQuit \/ CancelQuit
  BY DEF DNext, Internal, Timely, Closes, OfTheCore, Updates, OrdinaryQuit, InstallerTakesOver,
         InstallGivesUp, PrepareInstall, PrepareSettles, Retry, Quit, CloseWindow, InstallerBreaks,
         SecondInstance, Activate, Ended, BeforeQuit, calm, dvars

LEMMA OfferInvariant == DSpec => []OfferInv
  <1>1. DInit => OfferInv
    BY DEF DInit, UpdInit, OfferInv, Late, SnapshotBacked, ops
  <1>2. UpdTypeOK /\ OfferInv /\ [DNext]_dvars => OfferInv'
    <2> SUFFICES ASSUME UpdTypeOK, OfferInv, [DNext]_dvars PROVE OfferInv'
      OBVIOUS
    <2>1. CASE UNCHANGED uvars
      BY <2>1 DEF OfferInv, Late, SnapshotBacked, ops, uvars
    <2> QED
      BY <2>1, OfferStep, UpdateSteps
  <1>3. DesktopTypeOK => UpdTypeOK
    BY DEF DesktopTypeOK
  <1> QED
    BY <1>1, <1>2, <1>3, DesktopTypeCorrect, PTL DEF DSpec

\* The snapshot the page shows is backed by what runs.
THEOREM SnapshotBackedAlways == DSpec => []SnapshotBacked
  <1>1. OfferInv => SnapshotBacked
    BY DEF OfferInv
  <1> QED
    BY <1>1, OfferInvariant, PTL

\* An installer that took over keeps the right to: only its failure gives quitReady back.
PreparedOwns == prepared => quitReady

LEMMA PreparedStep == CoreInv /\ OfferInv /\ PreparedOwns /\ [DNext]_dvars => PreparedOwns'
  <1> SUFFICES ASSUME CoreInv, OfferInv, PreparedOwns, [DNext]_dvars PROVE PreparedOwns'
    OBVIOUS
  <1> USE DEF PreparedOwns
  <1>1. CASE InstallerBreaks
    BY <1>1 DEF InstallerBreaks, InstallerFails
  <1>2. CASE \E ok \in BOOLEAN : PrepareSettles(ok)
    BY <1>2 DEF PrepareSettles, StopSettles, CoreInv, CancelQuit, uvars
  <1>3. CASE InstallerTakesOver
    BY <1>3 DEF InstallerTakesOver, shell
  <1>4. CASE UNCHANGED <<prepared, quitReady>>
    BY <1>4
  <1>5. ASSUME UpdateStep \/ Rehydrated \/ InstallFails PROVE UNCHANGED prepared
    BY <1>5 DEF UpdateStep, CheckVerifies, InstallVerifies, Check, CheckFails, CheckFindsNone, CheckOffers,
                Download, DownloadStarts, DownloadFails, Downloaded, DownloadVerified, Install,
                InstallStarts, Rehydrated, InstallFails, quit
  <1>6. CASE Updates \/ InstallGivesUp \/ PrepareInstall
    BY <1>5, <1>6 DEF Updates, InstallGivesUp, PrepareInstall, shell
  <1>7. BeforeQuit => UNCHANGED <<prepared, quitReady>>
    BY DEF BeforeQuit, BeginQuit
  <1>8. CASE Timely \/ Closes \/ OfTheCore \/ Retry \/ SecondInstance \/ Activate
    BY <1>8 DEF Timely, Closes, OfTheCore, Retry, SecondInstance, Activate, calm, uvars
  <1>9. CASE Quit \/ OrdinaryQuit \/ CloseWindow \/ Ended \/ UNCHANGED dvars
    BY <1>7, <1>9 DEF Quit, OrdinaryQuit, CloseWindow, Ended, dvars, uvars, shell
  <1> QED
    BY <1>1, <1>2, <1>3, <1>6, <1>8, <1>9 DEF DNext, Internal

\* The installer runs with no core and no launch beside it, on a verified file.
THEOREM InstallerAlone == DSpec => []InstallerRunsAlone
  <1>1. DInit => PreparedOwns
    BY DEF DInit, UpdInit, PreparedOwns
  <1>2. CoreInv /\ OfferInv /\ PreparedOwns => InstallerRunsAlone
    BY DEF CoreInv, OfferInv, PreparedOwns, InstallerRunsAlone
  <1> QED
    BY <1>1, <1>2, PreparedStep, CoreInvariant, OfferInvariant, PTL DEF DSpec

-----------------------------------------------------------------------------
(* The window                                                              *)

\* A supervisor that was not told to stop has a port exactly when its core is ready; one whose stop
\* failed rests; the shell is quitting while it waits for a stop; and the window agrees.
ShownInv ==
  /\ att.handshake => att.pid # NoPid
  /\ ~supQuit => (state = "ready" <=> port # NoPid)
  /\ supQuit /\ ~quitting => state = "failed" /\ launch = "idle"
  /\ quitOp => quitting /\ ~quitReady
  /\ ShownIsTrue

\* What a step of the supervisor does to what the window shows.
LEMMA SupervisorShows ==
  ASSUME DesktopTypeOK, CoreInv, ShownInv, UNCHANGED quitting,
         SupervisorStep \/ CoreStep \/ ProcClose \/ StartCall
  PROVE  /\ att'.handshake => att'.pid # NoPid
         /\ ~supQuit' => (state' = "ready" <=> port' # NoPid)
         /\ supQuit' /\ ~quitting' => state' = "failed" /\ launch' = "idle"
  <1> DEFINE Keeps == /\ att'.handshake => att'.pid # NoPid
                      /\ ~supQuit' => (state' = "ready" <=> port' # NoPid)
                      /\ supQuit' /\ ~quitting' => state' = "failed" /\ launch' = "idle"
  <1> USE DEF ShownInv
  <1>1. ASSUME NEW ok \in BOOLEAN, Retired(ok) \/ Cleaned(ok) PROVE Keeps
    BY <1>1 DEF Retired, Cleaned, Finish
  <1>2. CASE SpawnFails \/ \E p \in Pids : Spawn(p)
    <2>1. ~att'.handshake /\ UNCHANGED <<state, port, supQuit>> /\ ~supQuit
      BY <1>2 DEF SpawnFails, Spawn, NoAttempt
    <2> QED
      BY <2>1
  <1>3. CASE PortFails \/ NoSpawn \/ NotReady
    BY <1>3 DEF PortFails, NoSpawn, NotReady, Finish
  <1>4. CASE KillCore \/ StopTerminates
    BY <1>4 DEF KillCore, StopTerminates
  <1>5. ASSUME NEW c \in Results, ProcExit(c) PROVE Keeps
    BY <1>5 DEF ProcExit, DesktopTypeOK, SupTypeOK, Attempts
  <1>6. CASE Handshake
    <2>1. att.pid # NoPid
      BY <1>6, NoPidAssumption DEF Handshake, Running, DesktopTypeOK, SupTypeOK
    <2> QED
      BY <1>6, <2>1 DEF Handshake, DesktopTypeOK, SupTypeOK, Attempts
  <1>7. CASE Listening
    BY <1>7 DEF Listening, DesktopTypeOK, SupTypeOK, Attempts
  <1>8. CASE Ready
    BY <1>8 DEF Ready, DesktopTypeOK, SupTypeOK, Attempts
  <1>9. CASE ProcClose
    BY <1>9 DEF ProcClose, DesktopTypeOK, SupTypeOK, Attempts
  <1>10. CASE StartCall
    BY <1>10 DEF StartCall, StartsAfresh, BeginLaunch, svars
  <1> QED
    BY <1>1, <1>2, <1>3, <1>4, <1>5, <1>6, <1>7, <1>8, <1>9, <1>10 DEF SupervisorStep, CoreStep

\* A window that follows the state shows it.
LEMMA FollowShows == ASSUME ShownIsTrue, Follow, UNCHANGED <<window, quitting>> PROVE ShownIsTrue'
  BY DEF ShownIsTrue, Follow, Show

LEMMA FollowedStep ==
  ASSUME DesktopTypeOK, CoreInv, ShownInv, Timely \/ Closes \/ OfTheCore \/ Retry PROVE ShownInv'
  <1>1. /\ SupervisorStep \/ CoreStep \/ ProcClose \/ StartCall
        /\ Follow /\ UNCHANGED <<window, quitting, quitReady, quitOp>>
    BY DEF Timely, Closes, OfTheCore, Retry, calm
  <1>2. ShownIsTrue'
    BY <1>1, FollowShows DEF ShownInv
  <1> QED
    BY <1>1, <1>2, SupervisorShows DEF ShownInv

\* A step that leaves supervisor, window and quit alone.
LEMMA StillShown ==
  ASSUME ShownInv, UNCHANGED <<svars, window, page, quitting, quitReady, quitOp>> PROVE ShownInv'
  BY DEF ShownInv, ShownIsTrue, svars

\* From prepareQuit() on the window may show what it did.
LEMMA QuitBegins ==
  ASSUME ShownInv, PrepareQuit, UNCHANGED <<window, page, quitReady>> PROVE ShownInv'
  <1>1. CASE quitReady \/ quitOp
    BY <1>1, StillShown DEF PrepareQuit
  <1>2. CASE ~(quitReady \/ quitOp)
    <2>1. quitting' /\ StopCall
      BY <1>2 DEF PrepareQuit
    <2>2. att' = att /\ (~supQuit' => UNCHANGED <<supQuit, state, port>>)
      BY <2>1 DEF StopCall, svars
    <2> QED
      BY <1>2, <2>1, <2>2 DEF ShownInv, ShownIsTrue
  <1> QED
    BY <1>1, <1>2

LEMMA BeforeQuitShown == ASSUME ShownInv, BeforeQuit PROVE ShownInv'
  <1>1. CASE quitReady
    BY <1>1, StillShown DEF BeforeQuit
  <1>2. CASE ~quitReady
    BY <1>2, QuitBegins DEF BeforeQuit
  <1> QED
    BY <1>1, <1>2

\* A stop that failed brings the shell back, with the failure in its window.
LEMMA SettledShown == ASSUME CoreInv, ShownInv, NEW ok \in BOOLEAN, PrepareSettles(ok) PROVE ShownInv'
  <1>1. /\ quitOp /\ quitting /\ supQuit /\ launch = "idle"
        /\ UNCHANGED <<att, launch, supQuit, window>>
        /\ state' = (IF ok THEN "stopped" ELSE "failed") /\ ~quitOp'
    BY DEF PrepareSettles, StopSettles, CoreInv, ShownInv
  <1>2. CASE ok
    <2>1. quitting'
      BY <1>1, <1>2 DEF PrepareSettles
    <2> QED
      BY <1>1, <2>1 DEF ShownInv, ShownIsTrue
  <1>3. CASE ~ok
    <2>1. window => page' = "failed"
      BY <1>3 DEF PrepareSettles
    <2> QED
      BY <1>1, <1>3, <2>1 DEF ShownInv, ShownIsTrue
  <1> QED
    BY <1>2, <1>3

\* A window that opens shows what there is to show: with the service ready its port is known.
LEMMA OpenedShown ==
  ASSUME DesktopTypeOK, CoreInv, ShownInv, SecondInstance \/ Activate PROVE ShownInv'
  <1>1. OpenWindow /\ ~quitting /\ UNCHANGED <<quitting, quitReady, quitOp>>
    BY DEF SecondInstance, Activate
  <1>2. /\ att'.handshake => att'.pid # NoPid
        /\ ~supQuit' => (state' = "ready" <=> port' # NoPid)
        /\ supQuit' /\ ~quitting' => state' = "failed" /\ launch' = "idle"
    <2>1. CASE SecondInstance
      BY <2>1 DEF SecondInstance, ShownInv, svars
    <2>2. CASE Activate
      BY <1>1, <2>2, SupervisorShows DEF Activate
    <2> QED
      BY <2>1, <2>2
  <1>3. ShownIsTrue'
    <2>1. CASE supQuit'
      BY <1>1, <1>2, <2>1 DEF OpenWindow, ShownIsTrue
    <2>2. CASE ~supQuit'
      BY <1>1, <1>2, <2>2 DEF OpenWindow, ShownIsTrue
    <2> QED
      BY <2>1, <2>2
  <1> QED
    BY <1>1, <1>2, <1>3 DEF ShownInv

LEMMA ShownStep == DesktopTypeOK /\ CoreInv /\ ShownInv /\ [DNext]_dvars => ShownInv'
  <1> SUFFICES ASSUME DesktopTypeOK, CoreInv, ShownInv, [DNext]_dvars PROVE ShownInv'
    OBVIOUS
  <1>1. CASE Timely \/ Closes \/ OfTheCore \/ Retry
    BY <1>1, FollowedStep
  <1>2. CASE Updates \/ InstallerTakesOver \/ InstallGivesUp \/ Ended \/ UNCHANGED dvars
    BY <1>2, StillShown DEF Updates, InstallerTakesOver, InstallGivesUp, Ended, dvars, shell
  <1>3. CASE Quit \/ OrdinaryQuit
    BY <1>3, BeforeQuitShown DEF Quit, OrdinaryQuit
  <1>4. CASE CloseWindow
    <2>1. CASE BeforeQuit
      BY <2>1, BeforeQuitShown
    <2>2. CASE window' = FALSE /\ UNCHANGED <<svars, quitting, quitReady, quitOp>>
      BY <2>2 DEF ShownInv, ShownIsTrue, svars
    <2> QED
      BY <1>4, <2>1, <2>2 DEF CloseWindow
  <1>5. CASE PrepareInstall
    BY <1>5, QuitBegins DEF PrepareInstall
  <1>6. CASE \E ok \in BOOLEAN : PrepareSettles(ok)
    BY <1>6, SettledShown
  <1>7. CASE InstallerBreaks
    <2>1. CASE quitReady
      <3>1. ~att'.handshake
        BY <1>7, <2>1 DEF InstallerBreaks, NoAttempt
      <3> QED
        BY <1>7, <2>1, <3>1 DEF InstallerBreaks, ShownInv, ShownIsTrue
    <2>2. CASE ~quitReady
      BY <1>7, <2>2, StillShown DEF InstallerBreaks
    <2> QED
      BY <2>1, <2>2
  <1>8. CASE SecondInstance \/ Activate
    BY <1>8, OpenedShown
  <1> QED
    BY <1>1, <1>2, <1>3, <1>4, <1>5, <1>6, <1>7, <1>8 DEF DNext, Internal

\* Outside a quit the window shows the state of the service.
THEOREM ShownIsTrueAlways == DSpec => []ShownIsTrue
  <1>1. DInit => ShownInv
    BY DEF DInit, SupInit, ShownInv, ShownIsTrue, NoAttempt
  <1>2. ShownInv => ShownIsTrue
    BY DEF ShownInv
  <1> QED
    BY <1>1, <1>2, ShownStep, DesktopTypeCorrect, CoreInvariant, PTL DEF DSpec
=============================================================================
