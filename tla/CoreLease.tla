------------------------------ MODULE CoreLease ------------------------------
(***************************************************************************)
(* What the desktop shell promises about the local service it runs: the    *)
(* data directory has at most one core, and the shell lets go of it (to    *)
(* leave, or to hand over to an installer) only when no core is left.      *)
(***************************************************************************)
CONSTANT Pids

VARIABLES
  cores,  \* the core processes that run
  held    \* the shell owns the data directory

lease == <<cores, held>>

LInit == cores = {} /\ held = TRUE

Start  == held /\ cores = {} /\ (\E p \in Pids : cores' = {p}) /\ UNCHANGED held
End    == cores # {} /\ cores' = {} /\ UNCHANGED held
LetGo  == held /\ cores = {} /\ held' = FALSE /\ UNCHANGED cores
Resume == ~held /\ held' = TRUE /\ UNCHANGED cores

LSpec == LInit /\ [][Start \/ End \/ LetGo \/ Resume]_lease
=============================================================================
