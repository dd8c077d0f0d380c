------------------------------ MODULE MCEdits ------------------------------
\* An animation with a metadata sidecar, in a directory the user tidies.
EXTENDS DownloadProperties, TLC
CONSTANTS j1, t1, w1

MCJobOf == t1 :> j1
MCRank  == t1 :> 1
MCName  == t1 :> "a"
MCMediaExt == j1 :> "webp"
=============================================================================
