--------------------------- MODULE CoreSupervisor ---------------------------
(***************************************************************************)
(* The shell's supervisor of the core process (core-supervisor.ts):        *)
(* start() is one launch of at most three tries, stop() is final, and both *)
(* end a child through terminate(): ask, wait, kill, wait.  Every await is *)
(* a step of its own, so the events of the child come in between.  Which   *)
(* failure is reported, and the diagnostics, are left out.                 *)
(***************************************************************************)
EXTENDS Naturals

CONSTANTS Pids, NoPid

ASSUME NoPidAssumption == NoPid \notin Pids

VARIABLES
  alive,    \* the core processes of the operating system
  att,      \* the attempt the supervisor remembers
  state,    \* what it reports
  port,     \* the core the page is served from
  launch,   \* the await start() is at
  tries,    \* its loop variable, 0 outside
  term,     \* the await of terminate(): "asked" and "killed" wait for a close
  stop,     \* the await of stop()
  supQuit   \* stop() was called

svars == <<alive, att, state, port, launch, tries, term, stop, supQuit>>

States  == {"starting", "ready", "restarting", "failed", "stopping", "stopped"}
Results == {"none", "error", "crash", "busy", "restart"}

MaxTries == 3

NoAttempt == [pid |-> NoPid, handshake |-> FALSE, listening |-> FALSE,
              result |-> "none", closed |-> FALSE, watched |-> FALSE]
Absent == att = NoAttempt
Dead   == att.result # "none"

\* A supervisor is started as soon as it is made.
SupInit ==
  /\ alive = {} /\ att = NoAttempt
  /\ state = "starting" /\ port = NoPid
  /\ launch = "retire" /\ tries = 0 /\ term = "none" /\ stop = "idle" /\ supQuit = FALSE

-----------------------------------------------------------------------------
(* start()                                                                 *)

\* A second start() while one is in flight shares it; after stop() it does nothing.
StartsAfresh == ~supQuit /\ state # "ready" /\ launch = "idle"

BeginLaunch ==
  /\ state' = IF state = "restarting" THEN "restarting" ELSE "starting"
  /\ launch' = "retire" /\ tries' = 0
  /\ term' = IF Absent THEN "none" ELSE IF Dead THEN "drain" ELSE "asked"
  /\ UNCHANGED <<alive, att, port, stop, supQuit>>

StartCall ==
  \/ StartsAfresh /\ BeginLaunch
  \/ ~StartsAfresh /\ UNCHANGED svars

Finish ==
  /\ launch' = "idle" /\ tries' = 0
  /\ port' = IF supQuit THEN port ELSE NoPid
  /\ state' = IF supQuit THEN state ELSE "failed"

\* Slip: the wait after the kill is not believed.
KillTrusted(ok) ==
  \/ term = "drain" /\ ok
  \/ term = "asked" /\ att.closed /\ ok
  \/ term = "killed" /\ ok
\* The answers of terminate(): a child whose exit was seen counts as stopped whether or not
\* its pipes closed in time; one that outlives the kill does not.
Terminated(ok) ==
  \/ term = "drain" /\ ok
  \/ term = "asked" /\ att.closed /\ ok
  \/ term = "killed" /\ ok = att.closed

\* launch() has the way free: nothing was started before, or it has ended.
Retired(ok) ==
  /\ launch = "retire"
  /\ \/ term = "none" /\ ok
     \/ term # "none" /\ Terminated(ok)
  /\ term' = "none"
  /\ IF ok THEN launch' = "port" /\ UNCHANGED <<state, port, tries>> ELSE Finish
  /\ UNCHANGED <<alive, att, stop, supQuit>>

PortFails ==
  /\ launch = "port"
  /\ Finish
  /\ UNCHANGED <<alive, att, term, stop, supQuit>>

\* findFreePort() came back: stop() may have been called meanwhile.
Spawn(p) ==
  /\ launch = "port" /\ ~supQuit /\ p \in Pids \ alive
  /\ alive' = alive \cup {p}
  /\ att' = [NoAttempt EXCEPT !.pid = p]
  /\ launch' = "ready"
  /\ UNCHANGED <<state, port, tries, term, stop, supQuit>>

SpawnFails ==
  /\ launch = "port" /\ ~supQuit
  /\ att' = [NoAttempt EXCEPT !.result = "error", !.closed = TRUE]
  /\ launch' = "ready"
  /\ UNCHANGED <<alive, state, port, tries, term, stop, supQuit>>

NoSpawn ==
  /\ launch = "port" /\ supQuit
  /\ launch' = "idle" /\ tries' = 0
  /\ UNCHANGED <<alive, att, state, port, term, stop, supQuit>>

\* The health check answers.
Ready ==
  /\ launch = "ready" /\ ~supQuit
  /\ att.handshake /\ att.listening /\ ~Dead
  /\ port' = att.pid /\ state' = "ready" /\ launch' = "idle" /\ tries' = 0
  /\ att' = [att EXCEPT !.watched = TRUE]
  /\ UNCHANGED <<alive, term, stop, supQuit>>

\* The child died, the deadline passed, or stop() was called.
NotReady ==
  /\ launch = "ready"
  /\ IF supQuit
     THEN launch' = "idle" /\ tries' = 0 /\ UNCHANGED term
     ELSE launch' = "clean" /\ term' = (IF Dead THEN "drain" ELSE "asked") /\ UNCHANGED tries
  /\ UNCHANGED <<alive, att, state, port, stop, supQuit>>

\* Only a core that spoke the protocol and found its port taken gets another try.
Cleaned(ok) ==
  /\ launch = "clean" /\ Terminated(ok)
  /\ IF ok /\ att.handshake /\ att.result = "busy" /\ tries + 1 < MaxTries /\ ~supQuit
     THEN launch' = "retire" /\ tries' = tries + 1 /\ term' = "drain" /\ UNCHANGED <<state, port>>
     ELSE Finish /\ term' = "none"
  /\ UNCHANGED <<alive, att, stop, supQuit>>

\* Slip: the kill waits for the exit it should cause.
KillLate ==
  /\ term = "asked" /\ ~att.closed /\ Dead
  /\ term' = "killed"
  /\ UNCHANGED <<alive, att, state, port, launch, tries, stop, supQuit>>
\* terminate(): the core did not go in time.
KillCore ==
  /\ term = "asked" /\ ~att.closed
  /\ term' = "killed"
  /\ UNCHANGED <<alive, att, state, port, launch, tries, stop, supQuit>>

-----------------------------------------------------------------------------
(* stop()                                                                  *)

StopCall ==
  IF stop = "idle"
  THEN /\ supQuit' = TRUE /\ port' = NoPid /\ state' = "stopping" /\ stop' = "await"
       /\ UNCHANGED <<alive, att, launch, tries, term>>
  ELSE UNCHANGED svars

\* Slip: stop() does not wait for the launch in flight.
StopRushes ==
  /\ stop = "await"
  /\ term' = IF Absent THEN "none" ELSE IF Dead THEN "drain" ELSE "asked"
  /\ stop' = "terminate"
  /\ UNCHANGED <<alive, att, state, port, launch, tries, supQuit>>
StopTerminates ==
  /\ stop = "await" /\ launch = "idle"
  /\ term' = IF Absent THEN "none" ELSE IF Dead THEN "drain" ELSE "asked"
  /\ stop' = "terminate"
  /\ UNCHANGED <<alive, att, state, port, launch, tries, supQuit>>

\* A stop that failed can be called again; quitting stays set.
StopSettles(ok) ==
  /\ stop = "terminate"
  /\ \/ term = "none" /\ ok
     \/ term # "none" /\ Terminated(ok)
  /\ term' = "none"
  /\ state' = IF ok THEN "stopped" ELSE "failed"
  /\ stop' = IF ok THEN "done" ELSE "idle"
  /\ UNCHANGED <<alive, att, port, launch, tries, supQuit>>

-----------------------------------------------------------------------------
(* The child                                                               *)

Running == att.pid \in alive

Handshake ==
  /\ Running /\ ~att.handshake
  /\ att' = [att EXCEPT !.handshake = TRUE]
  /\ UNCHANGED <<alive, state, port, launch, tries, term, stop, supQuit>>

Listening ==
  /\ Running /\ att.handshake /\ ~att.listening
  /\ att' = [att EXCEPT !.listening = TRUE]
  /\ UNCHANGED <<alive, state, port, launch, tries, term, stop, supQuit>>

\* The process ends by itself, because it was asked, or killed; "exit" is seen.
ProcExit(c) ==
  /\ Running /\ c \in Results \ {"none", "error"}
  /\ alive' = alive \ {att.pid}
  /\ att' = [att EXCEPT !.result = c]
  /\ UNCHANGED <<state, port, launch, tries, term, stop, supQuit>>

\* Its pipes close.  The close of a core that was ready is onExit's.
ProcClose ==
  /\ Dead /\ ~att.closed
  /\ att' = [att EXCEPT !.closed = TRUE]
  /\ IF att.watched /\ ~supQuit
     THEN /\ port' = NoPid
          /\ IF att.result = "restart" /\ att.handshake
             THEN state' = "restarting" /\ launch' = "retire" /\ tries' = 0 /\ term' = "drain"
             ELSE state' = "failed" /\ UNCHANGED <<launch, tries, term>>
     ELSE UNCHANGED <<port, state, launch, tries, term>>
  /\ UNCHANGED <<alive, stop, supQuit>>

\* What a timer, the kernel or an await bounds, and what is up to the core.
SupervisorStep ==
  \/ \E ok \in BOOLEAN : Retired(ok) \/ Cleaned(ok)
  \/ \E p \in Pids : Spawn(p)
  \/ PortFails \/ SpawnFails \/ NoSpawn \/ NotReady \/ KillCore \/ StopTerminates
CoreStep ==
  \/ \E c \in Results : ProcExit(c)
  \/ Handshake \/ Listening \/ Ready
=============================================================================
