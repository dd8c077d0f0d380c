------------------------------- MODULE MCPool -------------------------------
\* Two submissions of one artwork: j1 has two pages, j2 one, and page a of j1 has
\* the same name as j2's file.
EXTENDS DownloadProperties, TLC
CONSTANTS j1, j2, t1, t2, t3, w1, w2

MCJobOf == t1 :> j1 @@ t2 :> j1 @@ t3 :> j2
MCRank  == t3 :> 1 @@ t1 :> 2 @@ t2 :> 3
MCName  == t1 :> "a" @@ t2 :> "b" @@ t3 :> "a"
MCMediaExt == [j \in Jobs |-> "img"]
=============================================================================
