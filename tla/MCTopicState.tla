--------------------------- MODULE MCTopicState ---------------------------
(* One topic and two callers: enough for it to be left, reclaimed and taken *)
(* up again while the old loop still runs.                                  *)
EXTENDS TopicState, TLC

CONSTANTS k1, c1, c2, east

MCOneKey == {k1}
MCCallers == {c1, c2}
MCClusters == {east}
MCNone == {}
MCClusterOf == [k \in Keys |-> east]
===========================================================================
