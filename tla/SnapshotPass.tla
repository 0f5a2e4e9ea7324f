--------------------------- MODULE SnapshotPass ---------------------------
(***************************************************************************)
(* What the snapshot passes of a topic promise: one at a time, and a       *)
(* resync that found the topic busy is owed a replay of its own until one  *)
(* has started, or there is nothing listed to replay.                      *)
(***************************************************************************)
CONSTANTS Threads, Nobody

VARIABLES
    holder,  \* the thread whose pass is under way, or Nobody
    owed,    \* a resync is waiting for its replay
    topic    \* "none", "listing" or "listed": the topic's watch

vars == <<holder, owed, topic>>

Init ==
    /\ holder = Nobody
    /\ owed = FALSE
    /\ topic = "none"

Take(t) ==
    /\ holder = Nobody
    /\ holder' = t
    /\ UNCHANGED <<owed, topic>>

Give ==
    /\ holder # Nobody
    /\ holder' = Nobody
    /\ UNCHANGED <<owed, topic>>

Owe ==
    /\ holder # Nobody
    /\ owed' = TRUE
    /\ UNCHANGED <<holder, topic>>

Replay(t) ==
    /\ owed
    /\ holder = Nobody
    /\ holder' = t
    /\ owed' = FALSE
    /\ UNCHANGED topic

NothingToReplay ==
    /\ owed
    /\ topic # "listed"
    /\ owed' = FALSE
    /\ UNCHANGED <<holder, topic>>

TopicChanges ==
    /\ topic' \in {"none", "listing", "listed"}
    /\ UNCHANGED <<holder, owed>>

Next ==
    \/ \E t \in Threads : Take(t) \/ Replay(t)
    \/ Give
    \/ Owe
    \/ NothingToReplay
    \/ TopicChanges

Spec == Init /\ [][Next]_vars
===========================================================================
