---------------------------- MODULE TopicPass -----------------------------
(***************************************************************************)
(* The lock that serialises a topic's snapshot passes                      *)
(* (backend/internal/k8s/watcher/snapshot_lock.go, and the passes of       *)
(* service.go that take it), for one topic.                                *)
(*                                                                         *)
(* A pass object is found or made in the table under passMu, waited on     *)
(* through its channel without passMu, and leaves the table with its last  *)
(* reference, so a topic has a series of them.  A thread that sends to the *)
(* channel holds the topic; giving it up and dropping the reference are    *)
(* two steps, and anybody may come between them.                           *)
(***************************************************************************)
EXTENDS Integers, FiniteSets

CONSTANTS
    Threads,    \* goroutines that run snapshot passes
    Nobody,     \* no thread holds the topic
    MaxCalls,   \* bound on the calls of a behaviour
    MaxPasses   \* bound on its pass objects: 2 * MaxCalls are enough

ASSUME ThreadsAssumption == IsFiniteSet(Threads) /\ Nobody \notin Threads
ASSUME BoundsAssumption == MaxPasses \in Nat /\ MaxCalls \in Nat

VARIABLES
    pc,      \* thread -> where it is
    at,      \* thread -> the pass object it has a reference on, or 0
    refs,    \* pass object -> refs
    taken,   \* pass object -> its channel is full
    queued,  \* pass object -> replayQueued
    current, \* the object in s.passes, 0 when there is none
    made,    \* objects made so far
    calls,   \* calls so far
    topic    \* the topic's watch: none, its first list in flight, listed

vars == <<pc, at, refs, taken, queued, current, made, calls, topic>>

Passes == 1 .. MaxPasses

TopicPassTypeOK ==
    /\ pc \in [Threads -> {"idle", "waiting", "leaving", "holding", "freed",
                           "queuedReplay", "resync", "replay"}]
    /\ at \in [Threads -> Passes \cup {0}]
    /\ refs \in [Passes -> Nat]
    /\ taken \in [Passes -> BOOLEAN]
    /\ queued \in [Passes -> BOOLEAN]
    /\ current \in Passes \cup {0}
    /\ made \in 0 .. MaxPasses
    /\ calls \in Nat
    /\ topic \in {"none", "listing", "listed"}

Init ==
    /\ pc = [t \in Threads |-> "idle"]
    /\ at = [t \in Threads |-> 0]
    /\ refs = [p \in Passes |-> 0]
    /\ taken = [p \in Passes |-> FALSE]
    /\ queued = [p \in Passes |-> FALSE]
    /\ current = 0
    /\ made = 0
    /\ calls = 0
    /\ topic = "none"

---------------------------------------------------------------------------
(* passFor: the topic's pass, made when there is none, with a ref taken.    *)
PassFor == IF current # 0 THEN current ELSE made + 1

TakeRef(t) ==
    /\ current # 0 \/ made < MaxPasses
    /\ current' = PassFor
    /\ made' = IF current # 0 THEN made ELSE made + 1
    /\ at' = [at EXCEPT ![t] = PassFor]
    /\ refs' = [refs EXCEPT ![PassFor] = refs[PassFor] + 1]

(* releasePass: the ref is dropped, and the last one takes the pass off the *)
(* table.                                                                   *)
DropRef(t) ==
    LET p == at[t] IN
    /\ at' = [at EXCEPT ![t] = 0]
    /\ refs' = [refs EXCEPT ![p] = refs[p] - 1]
    /\ current' = IF refs[p] = 1 /\ current = p THEN 0 ELSE current
    /\ UNCHANGED made

Call ==
    /\ calls < MaxCalls
    /\ calls' = calls + 1

---------------------------------------------------------------------------
(* lockTopicPass, by a list, a subscriber's replay, a preload or a failed   *)
(* sync: a ref, then the channel, the end of ctx or the timeout.            *)
LockTopicPass(t) ==
    /\ pc[t] = "idle"
    /\ Call
    /\ pc' = [pc EXCEPT ![t] = "waiting"]
    /\ TakeRef(t)
    /\ UNCHANGED <<taken, queued, topic>>

Acquire(t) ==
    /\ pc[t] = "waiting"
    /\ ~taken[at[t]]
    /\ taken' = [taken EXCEPT ![at[t]] = TRUE]
    /\ pc' = [pc EXCEPT ![t] = "holding"]
    /\ UNCHANGED <<at, refs, queued, current, made, calls, topic>>

GiveUp(t) ==
    /\ pc[t] = "waiting"
    /\ pc' = [pc EXCEPT ![t] = "leaving"]
    /\ UNCHANGED <<at, refs, taken, queued, current, made, calls, topic>>

\* (mutation of Leave: one that did not get the topic clears its queue)
LeaveClearsQueue(t) ==
    /\ pc[t] = "leaving"
    /\ pc' = [pc EXCEPT ![t] = "idle"]
    /\ queued' = [queued EXCEPT ![at[t]] = FALSE]
    /\ DropRef(t)
    /\ UNCHANGED <<taken, calls, topic>>

Leave(t) ==
    /\ pc[t] = "leaving"
    /\ pc' = [pc EXCEPT ![t] = "idle"]
    /\ DropRef(t)
    /\ UNCHANGED <<taken, queued, calls, topic>>

(* holderUnlock: the channel is emptied, and then releasePass starts the    *)
(* replay queued behind this pass, which runs on here.                      *)
Unlock(t) ==
    /\ pc[t] = "holding"
    /\ taken' = [taken EXCEPT ![at[t]] = FALSE]
    /\ pc' = [pc EXCEPT ![t] = "freed"]
    /\ UNCHANGED <<at, refs, queued, current, made, calls, topic>>

\* (mutation of ReleaseHolder: the holder does not look at the queue)
ReleaseHolderBlind(t) ==
    /\ pc[t] = "freed"
    /\ pc' = [pc EXCEPT ![t] = "idle"]
    /\ DropRef(t)
    /\ UNCHANGED <<taken, queued, calls, topic>>

ReleaseHolder(t) ==
    /\ pc[t] = "freed"
    /\ pc' = [pc EXCEPT ![t] = IF queued[at[t]] THEN "queuedReplay" ELSE "idle"]
    /\ queued' = [queued EXCEPT ![at[t]] = FALSE]
    /\ DropRef(t)
    /\ UNCHANGED <<taken, calls, topic>>

(* Resync, once the first list is over and while there is a watch;          *)
(* otherwise it returns without touching the pass.                          *)
Resync(t) ==
    /\ pc[t] = "idle"
    /\ topic = "listed"
    /\ Call
    /\ pc' = [pc EXCEPT ![t] = "resync"]
    /\ UNCHANGED <<at, refs, taken, queued, current, made, topic>>

(* runQueuedReplay's checks: no watch left, or a list that sends its rows.  *)
RunQueuedReplay(t) ==
    /\ pc[t] = "queuedReplay"
    /\ pc' = [pc EXCEPT ![t] = IF topic = "listed" THEN "replay" ELSE "idle"]
    /\ UNCHANGED <<at, refs, taken, queued, current, made, calls, topic>>

(* tryLockTopicPassOrQueue.                                                 *)
TryLockOrQueue(t) ==
    /\ pc[t] \in {"resync", "replay"}
    /\ TakeRef(t)
    /\ \/ /\ ~taken[PassFor]
          /\ taken' = [taken EXCEPT ![PassFor] = TRUE]
          /\ pc' = [pc EXCEPT ![t] = "holding"]
          /\ UNCHANGED queued
       \/ /\ taken[PassFor]
          /\ queued' = [queued EXCEPT ![PassFor] = TRUE]
          /\ pc' = [pc EXCEPT ![t] = "leaving"]
          /\ UNCHANGED taken
    /\ UNCHANGED <<calls, topic>>

(* The watch comes, lists, goes (module TopicState has how).                *)
TopicChanges ==
    /\ topic' \in {"none", "listing", "listed"} \ {topic}
    /\ UNCHANGED <<pc, at, refs, taken, queued, current, made, calls>>

PassStep(t) ==
    \/ Leave(t)
    \/ Unlock(t)
    \/ ReleaseHolder(t)
    \/ RunQueuedReplay(t)
    \/ TryLockOrQueue(t)

Next ==
    \/ \E t \in Threads : LockTopicPass(t)
    \/ \E t \in Threads : Acquire(t)
    \/ \E t \in Threads : GiveUp(t)
    \/ \E t \in Threads : Leave(t)
    \/ \E t \in Threads : Unlock(t)
    \/ \E t \in Threads : ReleaseHolder(t)
    \/ \E t \in Threads : Resync(t)
    \/ \E t \in Threads : RunQueuedReplay(t)
    \/ \E t \in Threads : TryLockOrQueue(t)
    \/ TopicChanges

Spec == Init /\ [][Next]_vars

(***************************************************************************)
(* Passes end (each page and list call is bounded by a timeout) and        *)
(* goroutines run; a waiter gives up at its deadline, at the latest.       *)
(***************************************************************************)
Fairness ==
    \A t \in Threads : WF_vars(PassStep(t)) /\ WF_vars(Acquire(t) \/ GiveUp(t))

FairSpec == Spec /\ Fairness

---------------------------------------------------------------------------
Holds(t) == pc[t] = "holding"
HasRef(t) == pc[t] \in {"waiting", "leaving", "holding", "freed"}

(***************************************************************************)
(* Two snapshot passes of a topic never run at once: their pages, flushes  *)
(* and syncs do not interleave (the comment on topicPass), not even when   *)
(* the table's entry is deleted and made again between them.               *)
(***************************************************************************)
OnePassAtATime ==
    \A s, t \in Threads : Holds(s) /\ Holds(t) => s = t

(***************************************************************************)
(* A queued replay has somebody to start it: a holder, or one that has     *)
(* emptied the channel and not yet looked at the queue (the comment on     *)
(* tryLockTopicPassOrQueue: "a queued replay is never missed").            *)
(***************************************************************************)
QueuedReplayHasStarter ==
    \A p \in Passes : queued[p] =>
        \E t \in Threads : at[t] = p /\ pc[t] \in {"holding", "freed"}

(***************************************************************************)
(* The table forgets a pass exactly when nobody refers to it any more.     *)
(***************************************************************************)
Referrers(p) == {t \in Threads : at[t] = p}
TableHoldsLivePass ==
    \A p \in Passes :
        /\ refs[p] = Cardinality(Referrers(p))
        /\ p = current <=> Referrers(p) # {}

(***************************************************************************)
(* The passes implement SnapshotPass: one holder, and a resync that was    *)
(* queued stays owed until a replay starts or there is nothing to replay.  *)
(***************************************************************************)
Holder ==
    IF \E t \in Threads : Holds(t) THEN CHOOSE t \in Threads : Holds(t)
                                   ELSE Nobody
Owed ==
    \/ \E p \in Passes : queued[p]
    \/ \E t \in Threads : pc[t] \in {"queuedReplay", "replay"}

Promise == INSTANCE SnapshotPass WITH holder <- Holder, owed <- Owed
ImplementsSnapshotPass == Promise!Spec

(***************************************************************************)
(* A resync queued behind a pass gets its replay, or finds nothing to      *)
(* replay: once passes stop coming, the queue does not outlive them.       *)
(***************************************************************************)
QueuedReplayRuns == Owed ~> ~Owed

\* The three together: one pass at a time, none forgotten, none left over.
PassesAreSound == OnePassAtATime /\ QueuedReplayHasStarter /\ TableHoldsLivePass
=============================================================================
