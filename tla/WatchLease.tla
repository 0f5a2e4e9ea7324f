---------------------------- MODULE WatchLease ----------------------------
(***************************************************************************)
(* What the watch manager promises its callers, and no more: while somebody*)
(* holds a lease on a topic the topic has a watch; a watch nobody leases   *)
(* may go at any time.  Closing ends the promise.                          *)
(***************************************************************************)
CONSTANTS Topics, Holders

VARIABLES leases,  \* holder -> topics it has a lease on
          watched, \* topics with a watch
          open     \* the service has not been shut down

lvars == <<leases, watched, open>>

Leased(l) == {t \in Topics : \E h \in Holders : t \in l[h]}

Init ==
    /\ leases = [h \in Holders |-> {}]
    /\ watched = {}
    /\ open = TRUE

\* What a step may leave watched, given the leases after it.
Kept == open => Leased(leases') \subseteq watched'

Acquire(h, t) ==
    /\ t \notin leases[h]
    /\ leases' = [leases EXCEPT ![h] = @ \cup {t}]
    /\ t \in watched'
    /\ watched' \subseteq watched \cup {t}
    /\ Kept
    /\ UNCHANGED open

Release(h, t) ==
    /\ t \in leases[h]
    /\ leases' = [leases EXCEPT ![h] = @ \ {t}]
    /\ UNCHANGED <<watched, open>>

Reap ==
    /\ watched' \subseteq watched
    /\ Kept
    /\ UNCHANGED <<leases, open>>

Close ==
    /\ open' = FALSE
    /\ watched' = {}
    /\ UNCHANGED leases

Next ==
    \/ \E h \in Holders, t \in Topics : Acquire(h, t) \/ Release(h, t)
    \/ Reap
    \/ Close

Spec == Init /\ [][Next]_lvars
===========================================================================
