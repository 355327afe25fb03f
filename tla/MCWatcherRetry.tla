--------------------------- MODULE MCWatcherRetry ---------------------------
(* One source with two watched files; together with what an attempt captured, 
   more than the policy file keeps.                                           *)
EXTENDS WatcherRetry, TLC

CONSTANTS p1, p2
MCPaths == {p1, p2}
Symm == Permutations(MCPaths)
=============================================================================
