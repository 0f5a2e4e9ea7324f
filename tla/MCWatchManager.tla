-------------------------- MODULE MCWatchManager --------------------------
(* Three topics of two clusters, two callers, a cap below the topics.       *)
EXTENDS WatchManager, TLC

CONSTANTS k1, k2, k3, c1, c2, east, west

MCKeys == {k1, k2, k3}
MCCallers == {c1, c2}
MCClusters == {east, west}
MCClusterOf == k1 :> east @@ k2 :> east @@ k3 :> west

Symmetry == Permutations(MCCallers) \cup Permutations({k1, k2})
===========================================================================
