---------------------------- MODULE MCPublication ----------------------------
(* Two files; one content is the beginning of another, and one is empty.      *)
EXTENDS Publication

CONSTANTS p1, p2
MCPaths == {p1, p2}
MCContents == {"short", "long", "blank"}
MCStream == [short |-> <<1>>, long |-> <<1, 2>>, blank |-> <<>>]
=============================================================================
