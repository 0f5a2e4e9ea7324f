----------------------------- MODULE MCDelivery ----------------------------
(***************************************************************************)
(* What stands between a topic's watch and its subscribers, for TLC: the   *)
(* passes that list and replay it (TopicPass), the passes that catch slow  *)
(* clients up (ResyncCoordinator), what is told of its health              *)
(* (TopicHealth), who holds its watch (WatchSubscription) and the batches  *)
(* its events leave in (EventBatcher).  They share no state: a behaviour   *)
(* is one of theirs, which says whose.                                     *)
(***************************************************************************)
EXTENDS TopicPass, ResyncCoordinator, TopicHealth, WatchSubscription,
        EventBatcher

CONSTANTS
    Machines,   \* whose behaviours a run explores
    o1, o2      \* an object, and one too large to share a frame

VARIABLE which
mcVars == <<which, vars, resyncVars, healthVars, subscriptionVars, batcherVars>>

MCSize == [o \in {o1, o2} |-> IF o = o1 THEN 1 ELSE 2]

MCInit ==
    /\ which \in Machines
    /\ Init /\ ResyncInit /\ HealthInit /\ SubscriptionInit /\ BatcherInit

MCNext ==
    /\ UNCHANGED which
    /\ \/ /\ which = "pass"
          /\ Next
          /\ UNCHANGED <<resyncVars, healthVars, subscriptionVars, batcherVars>>
       \/ /\ which = "resync"
          /\ ResyncNext
          /\ UNCHANGED <<vars, healthVars, subscriptionVars, batcherVars>>
       \/ /\ which = "health"
          /\ HealthNext
          /\ UNCHANGED <<vars, resyncVars, subscriptionVars, batcherVars>>
       \/ /\ which = "subscription"
          /\ SubscriptionNext
          /\ UNCHANGED <<vars, resyncVars, healthVars, batcherVars>>
       \/ /\ which = "batcher"
          /\ BatcherNext
          /\ UNCHANGED <<vars, resyncVars, healthVars, subscriptionVars>>

(* A component's fairness asks nothing of a behaviour it has no part in:    *)
(* no step it speaks of is enabled in the component's initial state.        *)
MCSpec ==
    /\ MCInit /\ [][MCNext]_mcVars
    /\ Fairness /\ ResyncFairness /\ HealthFairness /\ SubscriptionFairness

MCBatcherSpec == MCInit /\ [][MCNext]_mcVars /\ BatcherFairness

(***************************************************************************)
(* Nothing the delivery owes stays owed: a queued replay runs, subscribers *)
(* that stay are caught up and "desynced" does not stick, a topic that     *)
(* keeps failing is shown so, and a connection that is gone owns nothing.  *)
(***************************************************************************)
DeliveryGoesOn ==
    /\ QueuedReplayRuns
    /\ DropsAreMadeUp
    /\ DesyncClears
    /\ FailingIsShown
    /\ GoneOwnsNothing
===========================================================================
