-------------------------------- MODULE MCHub --------------------------------
\* One browser tab that asks for one of two topics and may connect twice; two accounts, one
\* request at a time.
EXTENDS CoreServices, TLC
CONSTANTS c1, s1, s2, p1, p2

MCClientOf == [s \in Streams |-> c1]
MCWants    == c1 :> {"download"}

\* Nothing tells publishers, or a client's requests, apart.
MCSymmetry == Permutations(Publishers) \cup Permutations(Streams)

-----------------------------------------------------------------------------
\* A small image and one of twice its size, which do not both fit.
MCImg(i) == <<i, "image">>
MCTmp(i) == <<i, "write">>
MCFiles  == Images \X {"image", "write"}

MCSize(f)  == IF f[1] = "big" THEN 2 ELSE 1
MCBytes    == [S \in SUBSET MCFiles |-> FoldSet(LAMBDA f, n : n + MCSize(f), 0, S)]

-----------------------------------------------------------------------------
\* The channel; the proxy, which works at once and whose value "bad" the validators refuse; a pinned
\* key that the page does not show; and a pinned one that only an edit of the file sets. As a channel,
\* "plain" is stable and "other" is beta, each the default of a build.
MCBase     == [k \in Keys \ {"channel"} |-> "plain"]
MCChannels == [b \in Builds |-> IF b = "beta" THEN "other" ELSE "plain"]
MCAllowed  == [k \in Keys |-> IF k = "proxy" THEN Values ELSE Values \ {"bad"}]
MCInvalid  == {c \in Config : c["proxy"] = "bad"}
MCProxied  == {NoKeys, [k \in {"proxy"} |-> "other"]}

-----------------------------------------------------------------------------
\* Two stable releases, a beta of the next one, and that one, which was published without an archive
\* for this platform.
MCRank  == [v \in Versions |-> IF v = 3 THEN 1 ELSE 3]
MCFloor == [c \in Channels |-> IF c = "beta" THEN 1 ELSE 3]
=============================================================================
