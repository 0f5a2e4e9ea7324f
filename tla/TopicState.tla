---------------------------- MODULE TopicState ----------------------------
(***************************************************************************)
(* What the watcher service keeps for each topic besides its watch: the    *)
(* cached rows and the state of the list in flight, filled by the topic's  *)
(* watch loop and cleared when the watch goes (service.go: watchResources, *)
(* runWatchLoop, watchLoop, broadcastPage, pendingSync, finishSync, the    *)
(* onCleanup callback and StopAllForCluster).                              *)
(*                                                                         *)
(* A watch's context is cancelled by the step that removes or replaces its *)
(* entry; its goroutine goes on until it next looks at the context, and a  *)
(* page is written in a later step than the look that allowed it.          *)
(***************************************************************************)
EXTENDS WatchManager

CONSTANTS
    Pages,            \* pages of a list; a topic's rows are told apart by page
    MaxPanicRestarts, \* maxPanicRestarts
    Released,         \* clusters a client may release (tab close)
    NoSync            \* no syncState entry

ASSUME PagesAssumption == Pages \in Nat \ {0}
ASSUME PanicAssumption == MaxPanicRestarts \in Nat \ {0}
ASSUME ReleasedAssumption == Released \subseteq Clusters

VARIABLES
    cache,    \* key -> rows, each <<context of the list it is from, page>>
    sync,     \* key -> syncStatus in syncState, or NoSync
    loops,    \* watch loop goroutines
    clearing  \* watches StopAllForCluster removed and has yet to clear up after

tvars == <<cache, sync, loops, clearing>>
allvars == <<vars, tvars>>

(***************************************************************************)
(* A loop: "start" until its goroutine runs, "loop" at the top of          *)
(* watchLoop, "listing" in fetchAndBroadcastListSync, "watching" after it. *)
(* checked: it found its context live and is about to write.               *)
(***************************************************************************)
LoopState == [key : Keys, ctx : Nat, pc : {"start", "loop", "listing", "watching"},
              checked : BOOLEAN, page : 0..Pages, restarts : 0..MaxPanicRestarts]
SyncStatus == [owner : Nat, done : BOOLEAN, failed : BOOLEAN]

ASSUME NoSyncAssumption == NoSync \notin SyncStatus

TopicTypeOK ==
    /\ TypeOK
    /\ cache \in [Keys -> SUBSET (Nat \X (1..Pages))]
    /\ sync \in [Keys -> SyncStatus \cup {NoSync}]
    /\ loops \subseteq LoopState
    /\ clearing \subseteq Removed

TopicInit ==
    /\ Init
    /\ cache = [k \in Keys |-> {}]
    /\ sync = [k \in Keys |-> NoSync]
    /\ loops = {}
    /\ clearing = {}

---------------------------------------------------------------------------
Cancelled(l) == HasWatch(l.key) => watches[l.key].ctx # l.ctx

\* pendingSync of a live context: an unfinished sync is taken over.
Pending(ctx) == [owner |-> ctx, done |-> FALSE, failed |-> FALSE]

\* (mutation of FinishSync: a finished list does not end its sync)
FinishNothing(k, ctx, failed) == sync

\* finishSync: only by its owner, only once.
FinishSync(k, ctx, failed) ==
    IF sync[k] # NoSync /\ sync[k].owner = ctx /\ ~sync[k].done
    THEN [sync EXCEPT ![k] = [@ EXCEPT !.done = TRUE, !.failed = failed]]
    ELSE sync

(***************************************************************************)
(* StartWatch.  A watch that is not running is started under the manager's *)
(* lock: watchResources clears the cache, makes the first list pending and *)
(* spawns the loop.                                                        *)
(***************************************************************************)
WatchResources(k) ==
    /\ cache' = [cache EXCEPT ![k] = {}]
    /\ sync' = [sync EXCEPT ![k] = Pending(ctxCounter')]
    /\ loops' = loops \cup {[key |-> k, ctx |-> ctxCounter', pc |-> "start",
                             checked |-> FALSE, page |-> 0, restarts |-> 0]}

Subscribe(c, k) ==
    /\ StartWatch(c, k)
    /\ IF ctxCounter' # ctxCounter
       THEN WatchResources(k)
       ELSE UNCHANGED <<cache, sync, loops>>
    /\ UNCHANGED clearing

Unsubscribe(c, k) == StopWatch(c, k) /\ UNCHANGED tvars
TimerFires(t) == GraceExpired(t) /\ UNCHANGED tvars
ServiceShutdown == Shutdown /\ UNCHANGED tvars

---------------------------------------------------------------------------
Become(l, m) == loops' = (loops \ {l}) \cup {m}

\* A stopped loop returns.  A list it was in ends with the context's error.
LoopExits(l) ==
    /\ Cancelled(l)
    /\ ~l.checked
    /\ loops' = loops \ {l}
    /\ sync' = IF l.pc \in {"start", "listing"}
               THEN FinishSync(l.key, l.ctx, TRUE) ELSE sync
    /\ UNCHANGED <<vars, cache, clearing>>

LoopStarts(l) ==
    /\ l.pc = "start"
    /\ ~Cancelled(l)
    /\ Become(l, [l EXCEPT !.pc = "loop"])
    /\ UNCHANGED <<vars, cache, sync, clearing>>

\* The list begins: pendingSync, or its finished successor.
ListBegins(l) ==
    /\ l.pc = "loop"
    /\ ~Cancelled(l)
    /\ sync' = [sync EXCEPT ![l.key] = Pending(l.ctx)]
    /\ Become(l, [l EXCEPT !.pc = "listing", !.page = 0])
    /\ UNCHANGED <<vars, cache, clearing>>

\* broadcastPage and handleResourceEventSimple look at the context ...
CheckContext(l) ==
    /\ l.pc = "watching" \/ (l.pc = "listing" /\ l.page < Pages)
    /\ ~l.checked
    /\ ~Cancelled(l)
    /\ Become(l, [l EXCEPT !.checked = TRUE])
    /\ UNCHANGED <<vars, cache, sync, clearing>>

\* ... and write to the cache.
WriteRows(l) ==
    /\ l.checked
    /\ IF l.pc = "listing"
       THEN /\ cache' = [cache EXCEPT ![l.key] = @ \cup {<<l.ctx, l.page + 1>>}]
            /\ Become(l, [l EXCEPT !.checked = FALSE, !.page = @ + 1])
       ELSE /\ \E p \in 1..Pages :
                 cache' = [cache EXCEPT ![l.key] = @ \cup {<<l.ctx, p>>}]
            /\ Become(l, [l EXCEPT !.checked = FALSE])
    /\ UNCHANGED <<vars, sync, clearing>>

\* Every page is out: the stale diff drops what the list does not hold.
ListCompletes(l) ==
    /\ l.pc = "listing" /\ l.page = Pages
    /\ ~Cancelled(l)
    /\ cache' = [cache EXCEPT ![l.key] = {r \in @ : r[1] = l.ctx}]
    /\ sync' = FinishSync(l.key, l.ctx, FALSE)
    /\ Become(l, [l EXCEPT !.pc = "watching", !.page = 0])
    /\ UNCHANGED <<vars, clearing>>

\* The list fails, or its client cannot be built; the loop backs off.
ListFails(l) ==
    /\ l.pc = "listing"
    /\ ~l.checked
    /\ ~Cancelled(l)
    /\ sync' = FinishSync(l.key, l.ctx, TRUE)
    /\ Become(l, [l EXCEPT !.pc = "loop", !.page = 0])
    /\ UNCHANGED <<vars, cache, clearing>>

\* The watch ends in a way that forces a relist (an expired resourceVersion,
\* a credential error, a changed client config).
WatchEnds(l) ==
    /\ l.pc = "watching"
    /\ ~l.checked
    /\ ~Cancelled(l)
    /\ Become(l, [l EXCEPT !.pc = "loop"])
    /\ UNCHANGED <<vars, cache, sync, clearing>>

\* Restarts counted against the limit: none if the loop ran for over a minute
\* before it panicked, which only one that got to its watch has.
RestartsSoFar(l) == IF l.pc = "watching" THEN {0, l.restarts} ELSE {l.restarts}

\* A panic: the loop starts over, its list's sync left pending.
LoopPanics(l) ==
    /\ l.pc \in {"loop", "listing", "watching"}
    /\ ~l.checked
    /\ ~Cancelled(l)
    /\ \E n \in RestartsSoFar(l) :
         /\ n + 1 < MaxPanicRestarts
         /\ Become(l, [l EXCEPT !.pc = "loop", !.page = 0, !.restarts = n + 1])
    /\ UNCHANGED <<vars, cache, sync, clearing>>

\* One panic too many: the sync ends as failed and the watch is marked stopped.
LoopGivesUp(l) ==
    /\ l.pc \in {"loop", "listing", "watching"}
    /\ ~l.checked
    /\ l.restarts + 1 = MaxPanicRestarts
    /\ MarkStopped(l.key, l.ctx)
    /\ sync' = [sync EXCEPT ![l.key] =
                  [owner |-> l.ctx, done |-> TRUE, failed |-> TRUE]]
    /\ loops' = loops \ {l}
    /\ UNCHANGED <<cache, clearing>>

---------------------------------------------------------------------------
ClearTopic(k) ==
    /\ cache' = [cache EXCEPT ![k] = {}]
    /\ sync' = [sync EXCEPT ![k] = NoSync]

\* (mutation of OnCleanup: the callback clears without looking for a new watch)
OnCleanupAlways(r) ==
    /\ RunCallback(r)
    /\ ClearTopic(r.key)
    /\ UNCHANGED <<loops, clearing>>

\* onCleanup: CleanupIfNotWatching clears under the manager's lock.
OnCleanup(r) ==
    /\ RunCallback(r)
    /\ IF HasWatch(r.key) THEN UNCHANGED <<cache, sync>> ELSE ClearTopic(r.key)
    /\ UNCHANGED <<loops, clearing>>

\* StopAllForCluster takes the idle watches out ...
StopAllForCluster(cl) ==
    /\ StopAllPrefix(cl)
    /\ clearing' = clearing \cup RemovedFrom(watches, StoppedByPrefix(cl))
    /\ UNCHANGED <<cache, sync, loops>>

\* ... and clears up after each once the manager's lock is gone.
ClearStopped(r) ==
    /\ clearing' = clearing \ {r}
    /\ ClearTopic(r.key)
    /\ UNCHANGED <<vars, loops>>

LoopStep(l) ==
    \/ LoopExits(l)
    \/ LoopStarts(l)
    \/ ListBegins(l)
    \/ CheckContext(l)
    \/ WriteRows(l)
    \/ ListCompletes(l)
    \/ ListFails(l)
    \/ WatchEnds(l)
    \/ LoopPanics(l)
    \/ LoopGivesUp(l)

TopicNext ==
    \/ \E c \in Callers, k \in Keys : Subscribe(c, k) \/ Unsubscribe(c, k)
    \/ \E t \in timers : TimerFires(t)
    \/ \E l \in loops : LoopStep(l)
    \/ \E r \in callbacks : OnCleanup(r)
    \/ \E cl \in Released : StopAllForCluster(cl)
    \/ \E r \in clearing : ClearStopped(r)
    \/ ServiceShutdown

(***************************************************************************)
(* Goroutines run, timers fire, and every list request has a timeout, so a *)
(* list ends one way or the other.                                         *)
(***************************************************************************)
TopicFairness ==
    /\ WF_allvars(\E t \in timers : TimerFires(t))
    /\ WF_allvars(\E r \in callbacks : OnCleanup(r))
    /\ WF_allvars(\E r \in clearing : ClearStopped(r))
    /\ \A k \in Keys : \A ctx \in 1..MaxSeq :
         WF_allvars(\E l \in loops : l.key = k /\ l.ctx = ctx /\ LoopStep(l))

TopicSpec == TopicInit /\ [][TopicNext]_allvars /\ TopicFairness
---------------------------------------------------------------------------
\* A replay of the topic would go out as a complete, current snapshot
\* (waitFirstList reports no list in flight and no failed one).
Authoritative(k) ==
    HasWatch(k) /\ ~watches[k].stopped
      /\ (sync[k] = NoSync \/ (sync[k].done /\ ~sync[k].failed))

\* A replay that tells the client to drop what it does not hold is only ever
\* taken from a cache that holds the whole list of the watch now running: not
\* from a cache still empty, half filled, or cleared by an earlier watch's end.
ReplayHoldsTheList ==
    ~down => \A k \in Keys :
        Authoritative(k) => {watches[k].ctx} \X (1..Pages) \subseteq cache[k]

\* Once the clean-up of a removed watch has run nothing is left of its sync:
\* no loop that outlives its watch puts a pending sync back, on which later
\* subscribers would wait for a list nobody is making.
NoOrphanSync ==
    ~down => \A k \in Keys :
        sync[k] # NoSync =>
            HasWatch(k) \/ (\E r \in callbacks \cup clearing : r.key = k)

\* Subscribers waiting for a topic's list are not left waiting: the sync ends,
\* is cleared with its topic, or the topic's watch is gone.
SyncEnds ==
    \A k \in Keys :
        (sync[k] # NoSync /\ ~sync[k].done) ~>
            (sync[k] = NoSync \/ sync[k].done \/ down)

\* Both: what a topic keeps belongs to the watch it has.
TopicIsSound == ReplayHoldsTheList /\ NoOrphanSync

\* Neither a list nor an idle watch stays for ever.
TopicMovesOn == SyncEnds /\ IdleWatchGoes
=============================================================================
