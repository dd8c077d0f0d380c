----------------------------- MODULE MCRestart -----------------------------
\* Two works of one name whose media end in .gif; the first gets a metadata sidecar.
EXTENDS DownloadProperties, TLC
CONSTANTS j1, j2, t1, t2, w1, w2

MCJobOf == t1 :> j1 @@ t2 :> j2
MCRank  == t2 :> 1 @@ t1 :> 2
MCName  == [t \in Tasks |-> "a"]
MCMediaExt == [j \in Jobs |-> "gif"]
=============================================================================
