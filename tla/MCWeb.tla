-------------------------------- MODULE MCWeb --------------------------------
EXTENDS WebProperties

CONSTANTS i1, i2, i3

MCIllusts == {i1, i2, i3}
\* A work of two pages, and what a refresh can make of it: another image, a page less, a page
\* whose image has no URL.
MCVersions == {<<"a", "b">>, <<"c", "b">>, <<"a">>, <<"", "b">>}
MCShown   == {MCIllusts, {i1}, {}}
\* A page without parameters, a list with its second page, the user's own two sections, and a
\* path that only redirects.
MCPlaces   == {"home", "search", "page2", "self", "marks", "gone"}
MCPath     == [p \in MCPlaces |-> CASE p = "page2" -> "search" [] p = "marks" -> "self" [] OTHER -> p]
MCSections == {"home", "search", "self", "bookmark"}
MCSection  == [p \in MCPlaces |-> CASE p = "page2" -> "search" [] p = "marks" -> "bookmark"
                                     [] p = "gone" -> "" [] OTHER -> p]
MCLanding  == [s \in MCSections |-> IF s = "bookmark" THEN "marks" ELSE s]
=============================================================================
