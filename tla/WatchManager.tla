--------------------------- MODULE WatchManager ---------------------------
(***************************************************************************)
(* The reference-counted table of Kubernetes watches                       *)
(* (backend/internal/k8s/watcher/service.go, type WatchManager).           *)
(*                                                                         *)
(* Every method of the manager runs under m.mu, so it is one action; what  *)
(* runs after the unlock (the onCleanup callbacks) and what waits for a    *)
(* timer (the grace-period goroutines) are actions of their own.  A caller *)
(* (a subscription, or a reader that Retains a kind) holds a reference     *)
(* from its StartWatch to its StopWatch.                                   *)
(***************************************************************************)
EXTENDS Integers, FiniteSets

CONSTANTS
    Keys,        \* topics: "items:<cluster>:..."
    Callers,     \* who takes references
    Clusters,
    ClusterOf,   \* the cluster in a topic's name
    MaxWatches,  \* maxWatches; <= 0 disables the cap
    NoWatch,     \* no entry in the table
    MaxSeq       \* bound on activeSeq, so on the calls of a behaviour

ASSUME KeysAssumption == IsFiniteSet(Keys)
ASSUME CallersAssumption == IsFiniteSet(Callers)
ASSUME ClusterAssumption == ClusterOf \in [Keys -> Clusters]
ASSUME CapAssumption == MaxWatches \in Int
ASSUME SeqAssumption == MaxSeq \in Nat

(***************************************************************************)
(* A watchRef.  ctx identifies the context of the watch goroutine the      *)
(* entry stands for; contexts are numbered in the order they are created.  *)
(***************************************************************************)
WatchRef == [ctx : Nat, stopped : BOOLEAN, refCount : Nat,
             generation : Nat, lastActive : Nat]

ASSUME NoWatchAssumption == NoWatch \notin WatchRef

\* No pending cleanup (cleanup ids start at 1).
NoCleanup == 0

VARIABLES
    watches,         \* key -> watchRef, or NoWatch
    pendingCleanups, \* key -> id of its pending cleanup, or NoCleanup
    activeSeq,
    cleanupIDCounter,
    ctxCounter,      \* contexts created so far
    timers,          \* grace-period goroutines still waiting
    callbacks,       \* watches removed whose onCleanup has not run yet
    holds,           \* caller -> keys it holds a reference on
    down             \* Shutdown has run

vars == <<watches, pendingCleanups, activeSeq, cleanupIDCounter, ctxCounter,
          timers, callbacks, holds, down>>

Timer == [key : Keys, id : Nat, generation : Nat]
Removed == [key : Keys, ctx : Nat]

TypeOK ==
    /\ watches \in [Keys -> WatchRef \cup {NoWatch}]
    /\ pendingCleanups \in [Keys -> Nat]
    /\ activeSeq \in Nat
    /\ cleanupIDCounter \in Nat
    /\ ctxCounter \in Nat
    /\ timers \in SUBSET Timer
    /\ callbacks \in SUBSET Removed
    /\ holds \in [Callers -> SUBSET Keys]
    /\ down \in BOOLEAN

Init ==
    /\ watches = [k \in Keys |-> NoWatch]
    /\ pendingCleanups = [k \in Keys |-> NoCleanup]
    /\ activeSeq = 0
    /\ cleanupIDCounter = 0
    /\ ctxCounter = 0
    /\ timers = {}
    /\ callbacks = {}
    /\ holds = [c \in Callers |-> {}]
    /\ down = FALSE

---------------------------------------------------------------------------
Present(w) == {k \in Keys : w[k] # NoWatch}
\* (mutation of Idle: a watch with one reference counts as idle)
IdleOffByOne(w) == {k \in Present(w) : w[k].refCount <= 1}

Idle(w) == {k \in Present(w) : w[k].refCount <= 0}

HasWatch(k) == watches[k] # NoWatch
HoldersOf(k) == {c \in Callers : k \in holds[c]}

\* The watches of K leave the table, and with them their pending cleanups.
Drop(w, K) == [k \in Keys |-> IF k \in K THEN NoWatch ELSE w[k]]
CancelCleanups(K) ==
    [k \in Keys |-> IF k \in K THEN NoCleanup ELSE pendingCleanups[k]]
RemovedFrom(w, K) == {[key |-> k, ctx |-> w[k].ctx] : k \in K}

(***************************************************************************)
(* evictOverCapLocked: while there are more watches than the cap, the idle *)
(* one with the smallest lastActive goes.  lastActive is never shared, so  *)
(* the victims are the idle watches with fewer idle predecessors than the  *)
(* table is over its cap.                                                  *)
(***************************************************************************)
OverCap(w) ==
    IF MaxWatches <= 0 THEN 0 ELSE Cardinality(Present(w)) - MaxWatches
\* (mutation of Evicted: the most recently active goes first)
EvictedMostRecent(w) ==
    {k \in Idle(w) :
        Cardinality({j \in Idle(w) : w[j].lastActive > w[k].lastActive})
            < OverCap(w)}

Evicted(w) ==
    {k \in Idle(w) :
        Cardinality({j \in Idle(w) : w[j].lastActive < w[k].lastActive})
            < OverCap(w)}

\* (mutation of JoinWatch: the pending cleanup is not cancelled)
JoinKeepsCleanup(c, k) ==
    /\ HasWatch(k)
    /\ ~watches[k].stopped
    /\ watches' = [watches EXCEPT ![k] =
                    [@ EXCEPT !.refCount = watches[k].refCount + 1,
                              !.lastActive = activeSeq + 1]]
    /\ UNCHANGED <<pendingCleanups, ctxCounter, callbacks>>

(***************************************************************************)
(* StartWatch on a key whose watch is running: one more reference.         *)
(***************************************************************************)
JoinWatch(c, k) ==
    /\ HasWatch(k)
    /\ ~watches[k].stopped
    /\ watches' = [watches EXCEPT ![k] =
                    [@ EXCEPT !.refCount = watches[k].refCount + 1,
                              !.lastActive = activeSeq + 1]]
    /\ pendingCleanups' = CancelCleanups({k})
    /\ UNCHANGED <<ctxCounter, callbacks>>

(***************************************************************************)
(* StartWatch on a key whose watch gave up: a new watch takes over the     *)
(* entry and the references on it.                                         *)
(***************************************************************************)
RestartWatch(c, k) ==
    /\ HasWatch(k)
    /\ watches[k].stopped
    /\ watches' = [watches EXCEPT ![k] =
                    [@ EXCEPT !.ctx = ctxCounter + 1,
                              !.stopped = FALSE,
                              !.refCount = watches[k].refCount + 1,
                              !.generation = watches[k].generation + 1,
                              !.lastActive = activeSeq + 1]]
    /\ ctxCounter' = ctxCounter + 1
    /\ pendingCleanups' = CancelCleanups({k})
    /\ UNCHANGED callbacks

\* The entry StartWatch puts in the table for a key that has none.
FreshWatch == [ctx |-> ctxCounter + 1, stopped |-> FALSE, refCount |-> 1,
               generation |-> 1, lastActive |-> activeSeq + 1]

(***************************************************************************)
(* StartWatch on a key without a watch: a new entry, then eviction over    *)
(* the cap.  The evicted keys' callbacks run after the unlock.             *)
(***************************************************************************)
FirstWatch(c, k) ==
    /\ ~HasWatch(k)
    /\ LET w == [watches EXCEPT ![k] = FreshWatch]
       IN  /\ watches' = Drop(w, Evicted(w))
           /\ pendingCleanups' = CancelCleanups({k} \cup Evicted(w))
           /\ callbacks' = callbacks \cup RemovedFrom(w, Evicted(w))
    /\ ctxCounter' = ctxCounter + 1

StartWatch(c, k) ==
    /\ k \notin holds[c]
    /\ activeSeq < MaxSeq
    /\ JoinWatch(c, k) \/ RestartWatch(c, k) \/ FirstWatch(c, k)
    /\ activeSeq' = activeSeq + 1
    /\ holds' = [holds EXCEPT ![c] = @ \cup {k}]
    /\ UNCHANGED <<cleanupIDCounter, timers, down>>

(***************************************************************************)
(* StopWatch.  The reference that was the last one schedules the cleanup.  *)
(***************************************************************************)
ScheduleCleanup(k) ==
    /\ activeSeq' = activeSeq + 1
    /\ watches' = [watches EXCEPT ![k] =
                    [@ EXCEPT !.refCount = 0, !.lastActive = activeSeq + 1]]
    /\ cleanupIDCounter' = cleanupIDCounter + 1
    /\ pendingCleanups' = [pendingCleanups EXCEPT ![k] = cleanupIDCounter + 1]
    /\ timers' = timers \cup
         {[key |-> k, id |-> cleanupIDCounter + 1,
           generation |-> watches[k].generation]}

DropReference(k) ==
    IF ~HasWatch(k)
    THEN /\ pendingCleanups' = CancelCleanups({k})
         /\ UNCHANGED <<watches, activeSeq, cleanupIDCounter, timers>>
    ELSE IF watches[k].refCount = 1
    THEN ScheduleCleanup(k)
    ELSE /\ watches' = [watches EXCEPT ![k].refCount =
                          IF @ <= 0 THEN @ ELSE @ - 1]
         /\ UNCHANGED <<pendingCleanups, activeSeq, cleanupIDCounter, timers>>

StopWatch(c, k) ==
    /\ k \in holds[c]
    /\ DropReference(k)
    /\ holds' = [holds EXCEPT ![c] = @ \ {k}]
    /\ UNCHANGED <<ctxCounter, callbacks, down>>

(***************************************************************************)
(* A grace-period goroutine's timer fires.  Its cleanup may have been      *)
(* cancelled at any point before it got m.mu: it removes the watch only if *)
(* it is still the pending cleanup of an idle watch of its generation.     *)
(***************************************************************************)
CleanupDue(t) ==
    /\ HasWatch(t.key)
    /\ watches[t.key].refCount <= 0
    /\ watches[t.key].generation = t.generation

GraceExpired(t) ==
    /\ timers' = timers \ {t}
    /\ IF pendingCleanups[t.key] # t.id
       THEN UNCHANGED <<watches, pendingCleanups, callbacks>>
       ELSE /\ pendingCleanups' = CancelCleanups({t.key})
            /\ IF CleanupDue(t)
               THEN /\ watches' = Drop(watches, {t.key})
                    /\ callbacks' = callbacks \cup
                                      RemovedFrom(watches, {t.key})
               ELSE UNCHANGED <<watches, callbacks>>
    /\ UNCHANGED <<activeSeq, cleanupIDCounter, ctxCounter, holds, down>>

(***************************************************************************)
(* markStopped: the watch running under a context gives up.  The goroutine *)
(* of a watch that was removed or replaced may still get here: only the    *)
(* entry's own context marks it.                                           *)
(***************************************************************************)
MarkStopped(k, ctx) ==
    /\ HasWatch(k)
    /\ watches[k].ctx = ctx
    /\ ~watches[k].stopped
    /\ watches' = [watches EXCEPT ![k].stopped = TRUE]
    /\ UNCHANGED <<pendingCleanups, activeSeq, cleanupIDCounter, ctxCounter,
                   timers, callbacks, holds, down>>

(***************************************************************************)
(* StopAllPrefix: the cluster's idle watches go at once, without the       *)
(* onCleanup callback; every pending cleanup of the cluster is cancelled.  *)
(***************************************************************************)
KeysOfCluster(cl) == {k \in Keys : ClusterOf[k] = cl}

StoppedByPrefix(cl) == KeysOfCluster(cl) \cap Idle(watches)

StopAllPrefix(cl) ==
    /\ watches' = Drop(watches, StoppedByPrefix(cl))
    /\ pendingCleanups' = CancelCleanups(KeysOfCluster(cl))
    /\ UNCHANGED <<activeSeq, cleanupIDCounter, ctxCounter, timers, callbacks,
                   holds, down>>

\* CleanupIfNotWatching, as the onCleanup callback of a removed watch calls it.
RunCallback(r) ==
    /\ callbacks' = callbacks \ {r}
    /\ UNCHANGED <<watches, pendingCleanups, activeSeq, cleanupIDCounter,
                   ctxCounter, timers, holds, down>>

\* Shutdown: every watch and every pending cleanup is cancelled.
Shutdown ==
    /\ ~down
    /\ down' = TRUE
    /\ watches' = [k \in Keys |-> NoWatch]
    /\ pendingCleanups' = [k \in Keys |-> NoCleanup]
    /\ UNCHANGED <<activeSeq, cleanupIDCounter, ctxCounter, timers, callbacks,
                   holds>>

Next ==
    \/ \E c \in Callers, k \in Keys : StartWatch(c, k) \/ StopWatch(c, k)
    \/ \E t \in timers : GraceExpired(t)
    \/ \E k \in Keys, ctx \in 1..ctxCounter : MarkStopped(k, ctx)
    \/ \E cl \in Clusters : StopAllPrefix(cl)
    \/ \E r \in callbacks : RunCallback(r)
    \/ Shutdown

(***************************************************************************)
(* Timers fire and callbacks run; nobody has to call the manager.          *)
(***************************************************************************)
Fairness ==
    /\ WF_vars(\E t \in timers : GraceExpired(t))
    /\ WF_vars(\E r \in callbacks : RunCallback(r))

Spec == Init /\ [][Next]_vars /\ Fairness
---------------------------------------------------------------------------
(***************************************************************************)
(* What the manager promises.                                              *)
(***************************************************************************)

\* A watch somebody holds a reference on is in the table, with exactly as many
\* references as it has holders: no cleanup, eviction or tab close of another
\* caller takes it away, and none of its references is lost or counted twice.
RefsMatchHolders ==
    ~down => \A k \in Keys :
        IF HoldersOf(k) # {}
        THEN HasWatch(k) /\ watches[k].refCount = Cardinality(HoldersOf(k))
        ELSE HasWatch(k) => watches[k].refCount = 0

\* An idle watch always has its reclaim under way: a pending cleanup, whose
\* goroutine still waits and was started for the watch's present generation.
\* Nothing else ever removes an idle watch below the cap.
IdleWatchIsReclaimed ==
    \A k \in Idle(watches) :
        \E t \in timers : /\ t.key = k
                          /\ t.id = pendingCleanups[k]
                          /\ t.generation = watches[k].generation

\* A pending cleanup belongs to an idle watch: a watch taken up again, evicted
\* or stopped with its cluster leaves none behind to fire on its successor.
NoStrayCleanup ==
    \A k \in Keys : pendingCleanups[k] # NoCleanup => k \in Idle(watches)

\* The three together: references, watches and cleanups agree.
WatchesAreKept == RefsMatchHolders /\ IdleWatchIsReclaimed /\ NoStrayCleanup

\* A step that removes an idle watch to make room for a new one takes the
\* least recently active first, and stops at the cap.
TakesOldestFirst ==
    \A k \in Keys :
        (ctxCounter' # ctxCounter /\ k \in Idle(watches) /\ watches'[k] = NoWatch)
          => /\ Cardinality(Present(watches')) >= MaxWatches
             /\ \A j \in Idle(watches) :
                  watches[j].lastActive < watches[k].lastActive
                    => watches'[j] = NoWatch \/ watches'[j].refCount > 0

\* After a new watch is started the table is within its cap, unless every
\* watch in it is in use.
CapHolds ==
    (ctxCounter' # ctxCounter /\ Present(watches') # Present(watches) /\ MaxWatches > 0)
      => \/ Cardinality(Present(watches')) <= MaxWatches
         \/ Idle(watches') = {}

\* Both: making room evicts as little as it must, the oldest first.
EvictionIsLRU == [][TakesOldestFirst /\ CapHolds]_vars

\* An idle watch does not stay: it is taken up again or it is removed.
IdleWatchGoes ==
    \A k \in Keys : (k \in Idle(watches)) ~> (k \notin Idle(watches))

(***************************************************************************)
(* The manager implements the lease specification.                         *)
(***************************************************************************)
Lease == INSTANCE WatchLease
            WITH Topics <- Keys, Holders <- Callers, leases <- holds,
                 watched <- Present(watches), open <- ~down

\* Every behaviour of the manager is one the lease specification allows: no
\* cleanup, eviction, tab close or restart takes the watch of a held lease.
ImplementsLease == Lease!Spec
===========================================================================
