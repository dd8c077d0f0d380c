------------------------------ MODULE MCClient ------------------------------
\* One browser tab that may connect twice.
EXTENDS EventClient, TLC
CONSTANTS c1, s1, s2, p1, p2

MCClientOf == [s \in Streams |-> c1]
MCWants    == c1 :> {"download"}
=============================================================================
