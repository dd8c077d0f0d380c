------------------------------ MODULE MCCrash ------------------------------
\* An animation with a metadata sidecar and an image of another name.
EXTENDS DownloadProperties, TLC
CONSTANTS j1, j2, t1, t2, w1, w2

MCJobOf == t1 :> j1 @@ t2 :> j2
MCRank  == t2 :> 1 @@ t1 :> 2
MCName  == t1 :> "a" @@ t2 :> "b"
MCMediaExt == j1 :> "webp" @@ j2 :> "img"
=============================================================================
