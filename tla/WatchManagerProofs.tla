------------------------ MODULE WatchManagerProofs ------------------------
(***************************************************************************)
(* Proofs about WatchManager, and about TopicState, the service built on   *)
(* it: for any finite sets of topics and callers, any cap, number of pages *)
(* and panics, and any length of behaviour.                                *)
(***************************************************************************)
EXTENDS TopicState, TLAPS, FiniteSetTheorems, WellFoundedInduction

\* StartWatch on a running watch: the entry has one reference more, is an entry
\* still, and keeps its generation.
LEMMA JoinedRef ==
    ASSUME NEW r \in WatchRef, NEW seq \in Nat
    PROVE  LET new == [r EXCEPT !.refCount = r.refCount + 1, !.lastActive = seq]
           IN  /\ new \in WatchRef
               /\ new # NoWatch
               /\ new.refCount = r.refCount + 1
               /\ new.generation = r.generation
<1> DEFINE new == [r EXCEPT !.refCount = r.refCount + 1, !.lastActive = seq]
<1>1. r.refCount + 1 \in Nat
  BY DEF WatchRef
<1>2. new \in WatchRef
  BY <1>1, Zenon DEF WatchRef
<1>3. new.refCount = r.refCount + 1 /\ new.generation = r.generation
  BY DEF WatchRef
<1> QED
  BY <1>2, <1>3, NoWatchAssumption

\* StartWatch on a watch that gave up: what the restarted entry holds.
LEMMA RestartedRef ==
    ASSUME NEW r \in WatchRef, NEW seq \in Nat, NEW c \in Nat
    PROVE  LET new == [r EXCEPT !.ctx = c, !.stopped = FALSE,
                                !.refCount = r.refCount + 1,
                                !.generation = r.generation + 1,
                                !.lastActive = seq]
           IN  /\ new \in WatchRef
               /\ new # NoWatch
               /\ new.refCount = r.refCount + 1
<1> DEFINE new == [r EXCEPT !.ctx = c, !.stopped = FALSE,
                            !.refCount = r.refCount + 1,
                            !.generation = r.generation + 1,
                            !.lastActive = seq]
<1>1. r.refCount + 1 \in Nat /\ r.generation + 1 \in Nat
  BY DEF WatchRef
<1>2. new \in WatchRef
  BY <1>1, Zenon DEF WatchRef
<1>3. new.refCount = r.refCount + 1
  BY DEF WatchRef
<1> QED
  BY <1>2, <1>3, NoWatchAssumption

\* StopWatch of the last reference: what the idle entry holds.
LEMMA IdledRef ==
    ASSUME NEW r \in WatchRef, NEW seq \in Nat
    PROVE  LET new == [r EXCEPT !.refCount = 0, !.lastActive = seq]
           IN  /\ new \in WatchRef
               /\ new # NoWatch
               /\ new.refCount = 0
               /\ new.generation = r.generation
<1> DEFINE new == [r EXCEPT !.refCount = 0, !.lastActive = seq]
<1>2. new \in WatchRef
  <2>1. 0 \in Nat
    OBVIOUS
  <2> QED
    BY <2>1, Zenon DEF WatchRef
<1>3. new.refCount = 0 /\ new.generation = r.generation
  BY DEF WatchRef
<1> QED
  BY <1>2, <1>3, NoWatchAssumption

\* StopWatch of another reference: only the count changes.
LEMMA CountedRef ==
    ASSUME NEW r \in WatchRef, NEW n \in Nat
    PROVE  LET new == [r EXCEPT !.refCount = n]
           IN  /\ new \in WatchRef
               /\ new # NoWatch
               /\ new.refCount = n
               /\ new.generation = r.generation
<1> DEFINE new == [r EXCEPT !.refCount = n]
<1>2. new \in WatchRef
  BY Zenon DEF WatchRef
<1>3. new.refCount = n /\ new.generation = r.generation
  BY DEF WatchRef
<1> QED
  BY <1>2, <1>3, NoWatchAssumption

\* StartWatch without a watch: the new entry has one reference.
LEMMA FreshRef ==
    ASSUME TypeOK
    PROVE  FreshWatch \in WatchRef /\ FreshWatch # NoWatch /\ FreshWatch.refCount = 1
<1>1. FreshWatch \in WatchRef /\ FreshWatch.refCount = 1
  BY DEF FreshWatch, WatchRef, TypeOK
<1> QED
  BY <1>1, NoWatchAssumption

\* The type invariant is inductive: every operation of the manager leaves
\* counts, ids and contexts natural numbers (StopWatch never goes below zero).
LEMMA TypeInductive == TypeOK /\ [Next]_vars => TypeOK'
<1> SUFFICES ASSUME TypeOK, [Next]_vars PROVE TypeOK'
  OBVIOUS
<1> USE KeysAssumption, CallersAssumption, NoWatchAssumption DEF TypeOK, NoCleanup
<1>1. ASSUME NEW c \in Callers, NEW k \in Keys, StartWatch(c, k)
      PROVE  TypeOK'
  <2>0. activeSeq' \in Nat /\ activeSeq + 1 \in Nat /\ ctxCounter + 1 \in Nat
    BY <1>1 DEF StartWatch
  <2>h. holds' \in [Callers -> SUBSET Keys]
    BY <1>1 DEF StartWatch
  <2>1. CASE JoinWatch(c, k)
    <3>1. watches[k] \in WatchRef
      BY <2>1 DEF JoinWatch, HasWatch
    <3> DEFINE new == [watches[k] EXCEPT !.refCount = watches[k].refCount + 1,
                                         !.lastActive = activeSeq + 1]
    <3>3. new \in WatchRef
      BY <2>0, <3>1, JoinedRef
    <3>4. watches' = [watches EXCEPT ![k] = new]
      BY <2>1, Zenon DEF JoinWatch
    <3>5. watches' \in [Keys -> WatchRef \cup {NoWatch}]
      BY <3>3, <3>4, Zenon
    <3> QED
      BY <1>1, <2>0, <2>h, <2>1, <3>5 DEF StartWatch, JoinWatch, CancelCleanups
  <2>2. CASE RestartWatch(c, k)
    <3>1. watches[k] \in WatchRef
      BY <2>2 DEF RestartWatch, HasWatch
    <3> DEFINE new == [watches[k] EXCEPT !.ctx = ctxCounter + 1, !.stopped = FALSE,
                         !.refCount = watches[k].refCount + 1,
                         !.generation = watches[k].generation + 1,
                         !.lastActive = activeSeq + 1]
    <3>3. new \in WatchRef
      BY <2>0, <3>1, RestartedRef
    <3>4. watches' = [watches EXCEPT ![k] = new]
      BY <2>2, Zenon DEF RestartWatch
    <3>5. watches' \in [Keys -> WatchRef \cup {NoWatch}]
      BY <3>3, <3>4, Zenon
    <3> QED
      BY <1>1, <2>0, <2>h, <2>2, <3>5 DEF StartWatch, RestartWatch, CancelCleanups
  <2>3. CASE FirstWatch(c, k)
    <3> DEFINE w == [watches EXCEPT ![k] = FreshWatch]
    <3>1. w \in [Keys -> WatchRef \cup {NoWatch}]
      BY DEF FreshWatch, WatchRef
    <3>2. \A j \in Evicted(w) : j \in Keys /\ w[j] \in WatchRef
      BY <3>1 DEF Evicted, Idle, Present
    <3>3. watches' \in [Keys -> WatchRef \cup {NoWatch}]
      BY <2>3, <3>1 DEF FirstWatch, Drop
    <3>4. \A j \in Evicted(w) : [key |-> j, ctx |-> w[j].ctx] \in Removed
      BY <3>2 DEF Removed, WatchRef
    <3>5. callbacks' \in SUBSET Removed
      BY <2>3, <3>4 DEF FirstWatch, RemovedFrom
    <3>6. pendingCleanups' \in [Keys -> Nat] /\ ctxCounter' \in Nat
      BY <2>0, <2>3 DEF FirstWatch, CancelCleanups
    <3> QED
      BY <1>1, <2>0, <2>h, <3>3, <3>5, <3>6 DEF StartWatch
  <2> QED
    BY <1>1, <2>1, <2>2, <2>3 DEF StartWatch
<1>2. ASSUME NEW c \in Callers, NEW k \in Keys, StopWatch(c, k)
      PROVE  TypeOK'
  <2>1. CASE ~HasWatch(k)
    BY <1>2, <2>1 DEF StopWatch, DropReference, CancelCleanups
  <2>2. CASE HasWatch(k) /\ watches[k].refCount = 1
    <3>1. watches[k] \in WatchRef
      BY <2>2 DEF HasWatch
    <3>a. activeSeq + 1 \in Nat /\ 0 \in Nat
      OBVIOUS
    <3>b. [watches[k] EXCEPT !.refCount = 0, !.lastActive = activeSeq + 1] \in WatchRef
      BY <3>1, <3>a, IdledRef
    <3>c. watches' = [watches EXCEPT ![k] =
            [watches[k] EXCEPT !.refCount = 0, !.lastActive = activeSeq + 1]]
      BY <1>2, <2>2, Zenon DEF StopWatch, DropReference, ScheduleCleanup
    <3>2. watches' \in [Keys -> WatchRef \cup {NoWatch}]
      BY <3>b, <3>c, Zenon
    <3>3. timers' \in SUBSET Timer
      BY <1>2, <2>2, <3>1 DEF StopWatch, DropReference, ScheduleCleanup, WatchRef, Timer
    <3> QED
      BY <1>2, <2>2, <3>2, <3>3 DEF StopWatch, DropReference, ScheduleCleanup
  <2>3. CASE HasWatch(k) /\ watches[k].refCount # 1
    <3>1. watches[k] \in WatchRef
      BY <2>3 DEF HasWatch
    <3>2. watches' \in [Keys -> WatchRef \cup {NoWatch}]
      BY <1>2, <2>3, <3>1 DEF StopWatch, DropReference, WatchRef
    <3> QED
      BY <1>2, <2>3, <3>2 DEF StopWatch, DropReference
  <2> QED
    BY <2>1, <2>2, <2>3
<1>3. ASSUME NEW t \in timers, GraceExpired(t)
      PROVE  TypeOK'
  <2>1. t.key \in Keys
    BY DEF Timer
  <2>2. HasWatch(t.key) => RemovedFrom(watches, {t.key}) \subseteq Removed
    BY <2>1 DEF HasWatch, RemovedFrom, Removed, WatchRef
  <2>3. watches' \in [Keys -> WatchRef \cup {NoWatch}]
    BY <1>3 DEF GraceExpired, Drop
  <2>4. pendingCleanups' \in [Keys -> Nat]
    BY <1>3 DEF GraceExpired, CancelCleanups
  <2>5. callbacks' \in SUBSET Removed
    BY <1>3, <2>2 DEF GraceExpired, CleanupDue
  <2> QED
    BY <1>3, <2>3, <2>4, <2>5 DEF GraceExpired
<1>4. ASSUME NEW k \in Keys, NEW ctx \in 1..ctxCounter, MarkStopped(k, ctx)
      PROVE  TypeOK'
  BY <1>4 DEF MarkStopped, HasWatch, WatchRef
<1>5. ASSUME NEW cl \in Clusters, StopAllPrefix(cl)
      PROVE  TypeOK'
  BY <1>5 DEF StopAllPrefix, Drop, CancelCleanups
<1>6. ASSUME NEW r \in callbacks, RunCallback(r)
      PROVE  TypeOK'
  BY <1>6 DEF RunCallback
<1>7. CASE Shutdown
  BY <1>7 DEF Shutdown
<1>8. CASE UNCHANGED vars
  BY <1>8 DEF vars
<1> QED
  BY <1>1, <1>2, <1>3, <1>4, <1>5, <1>6, <1>7, <1>8 DEF Next

\* Type correctness of the watch table, its pending cleanups and its timers.
THEOREM TypeCorrect == Spec => []TypeOK
<1>1. Init => TypeOK
  <2> SUFFICES ASSUME Init PROVE TypeOK
    OBVIOUS
  <2>1. down \in BOOLEAN
    BY DEF Init
  <2>2. watches \in [Keys -> WatchRef \cup {NoWatch}]
    BY DEF Init
  <2>3. /\ pendingCleanups \in [Keys -> Nat]
        /\ holds \in [Callers -> SUBSET Keys]
    BY DEF Init, NoCleanup
  <2> QED
    BY <2>1, <2>2, <2>3 DEF Init, TypeOK
<1> QED
  BY <1>1, TypeInductive, PTL DEF Spec

---------------------------------------------------------------------------
\* The holders of a topic are finitely many, and counted by zero exactly when
\* there are none.
LEMMA HoldersFinite ==
    ASSUME TypeOK, NEW k \in Keys
    PROVE  /\ IsFiniteSet(HoldersOf(k))
           /\ Cardinality(HoldersOf(k)) \in Nat
           /\ HoldersOf(k) = {} <=> Cardinality(HoldersOf(k)) = 0
<1>1. HoldersOf(k) \subseteq Callers
  BY DEF HoldersOf
<1>2. IsFiniteSet(HoldersOf(k))
  BY <1>1, CallersAssumption, FS_Subset
<1> QED
  BY <1>2, FS_CardinalityType, FS_EmptySet

\* A topic's watch, if it has one, has as many references as holders; a topic
\* with holders has a watch.
Counted(k) ==
    /\ HasWatch(k) => watches[k].refCount = Cardinality(HoldersOf(k))
    /\ HoldersOf(k) # {} => HasWatch(k)

\* RefsMatchHolders says that every topic is counted.
LEMMA RefsAsCounted ==
    ASSUME TypeOK
    PROVE  RefsMatchHolders <=> (~down => \A k \in Keys : Counted(k))
  BY HoldersFinite DEF RefsMatchHolders, Counted

\* Taking a reference adds one holder to its topic and to no other.
LEMMA StartAddsHolder ==
    ASSUME TypeOK, NEW c \in Callers, NEW k \in Keys, StartWatch(c, k)
    PROVE  /\ HoldersOf(k)' # {}
           /\ Cardinality(HoldersOf(k)') = Cardinality(HoldersOf(k)) + 1
           /\ \A j \in Keys \ {k} : HoldersOf(j)' = HoldersOf(j)
<1>1. HoldersOf(k)' = HoldersOf(k) \cup {c} /\ c \notin HoldersOf(k)
  BY DEF StartWatch, HoldersOf, TypeOK
<1>2. \A j \in Keys \ {k} : HoldersOf(j)' = HoldersOf(j)
  BY DEF StartWatch, HoldersOf, TypeOK
<1>3. IsFiniteSet(HoldersOf(k))
  BY HoldersFinite
<1> QED
  BY <1>1, <1>2, <1>3, FS_AddElement

\* Giving a reference back removes one holder from its topic alone.
LEMMA StopRemovesHolder ==
    ASSUME TypeOK, NEW c \in Callers, NEW k \in Keys, StopWatch(c, k)
    PROVE  /\ HoldersOf(k) # {}
           /\ Cardinality(HoldersOf(k)') = Cardinality(HoldersOf(k)) - 1
           /\ \A j \in Keys \ {k} : HoldersOf(j)' = HoldersOf(j)
<1>1. HoldersOf(k)' = HoldersOf(k) \ {c} /\ c \in HoldersOf(k)
  BY DEF StopWatch, HoldersOf, TypeOK
<1>2. \A j \in Keys \ {k} : HoldersOf(j)' = HoldersOf(j)
  BY DEF StopWatch, HoldersOf, TypeOK
<1>3. IsFiniteSet(HoldersOf(k))
  BY HoldersFinite
<1> QED
  BY <1>1, <1>2, <1>3, FS_RemoveElement

\* Of the topics counted, the idle ones have no holder: removing idle watches
\* leaves the rest counted.
LEMMA IdleHasNoHolder ==
    ASSUME TypeOK, NEW k \in Keys, Counted(k), k \in Idle(watches)
    PROVE  HoldersOf(k) = {}
<1>1. watches[k] \in WatchRef /\ HasWatch(k) /\ watches[k].refCount <= 0
  BY DEF Idle, Present, TypeOK, HasWatch
<1>2. watches[k].refCount \in Nat
  BY <1>1 DEF WatchRef
<1>3. Cardinality(HoldersOf(k)) = 0
  BY <1>1, <1>2, HoldersFinite DEF Counted
<1> QED
  BY <1>3, HoldersFinite

\* Removing idle watches, or none, and changing no count elsewhere keeps every
\* topic counted: the frame shared by the steps that take no reference.
LEMMA DropKeepsCounted ==
    ASSUME TypeOK, NEW K \in SUBSET Keys, K \subseteq Idle(watches),
           \A k \in Keys : Counted(k),
           watches' = Drop(watches, K), UNCHANGED holds
    PROVE  \A k \in Keys : Counted(k)'
<1> SUFFICES ASSUME NEW k \in Keys PROVE Counted(k)'
  OBVIOUS
<1>1. HoldersOf(k)' = HoldersOf(k)
  BY DEF HoldersOf
<1>2. CASE k \in K
  BY <1>1, <1>2, IdleHasNoHolder DEF Drop, Counted, HasWatch
<1>3. CASE k \notin K
  BY <1>1, <1>3 DEF Drop, Counted, HasWatch
<1> QED
  BY <1>2, <1>3

\* Every step keeps the topics counted.
LEMMA CountedInductive ==
    ASSUME TypeOK, TypeOK', [Next]_vars, ~down',
           ~down => \A k \in Keys : Counted(k)
    PROVE  \A k \in Keys : Counted(k)'
<1>0. ~down
  <2>1. Shutdown => down'
    BY DEF Shutdown
  <2> QED
    BY <2>1 DEF Next, vars, StartWatch, StopWatch, GraceExpired, MarkStopped,
                StopAllPrefix, RunCallback, Shutdown
<1>c. \A k \in Keys : Counted(k)
  BY <1>0
<1>1. ASSUME NEW c \in Callers, NEW k \in Keys, StartWatch(c, k)
      PROVE  \A j \in Keys : Counted(j)'
  <2>1. /\ HoldersOf(k)' # {}
        /\ Cardinality(HoldersOf(k)') = Cardinality(HoldersOf(k)) + 1
        /\ \A j \in Keys \ {k} : HoldersOf(j)' = HoldersOf(j)
    BY <1>1, StartAddsHolder
  <2>2. CASE JoinWatch(c, k) \/ RestartWatch(c, k)
    <3>1. /\ HasWatch(k)'
          /\ watches'[k].refCount = watches[k].refCount + 1
          /\ \A j \in Keys \ {k} : watches'[j] = watches[j]
      <4>1. watches[k] \in WatchRef
        BY <2>2 DEF JoinWatch, RestartWatch, HasWatch, TypeOK
      <4>0. activeSeq + 1 \in Nat /\ ctxCounter + 1 \in Nat
        BY DEF TypeOK
      <4>2. CASE JoinWatch(c, k)
        <5> DEFINE new == [watches[k] EXCEPT !.refCount = watches[k].refCount + 1,
                                             !.lastActive = activeSeq + 1]
        <5>1. watches' = [watches EXCEPT ![k] = new]
          BY <4>2, Zenon DEF JoinWatch
        <5>2. new # NoWatch /\ new.refCount = watches[k].refCount + 1
          BY <4>0, <4>1, JoinedRef
        <5> HIDE DEF new
        <5> QED
          BY <5>1, <5>2 DEF HasWatch, TypeOK
      <4>3. CASE RestartWatch(c, k)
        <5> DEFINE new == [watches[k] EXCEPT !.ctx = ctxCounter + 1, !.stopped = FALSE,
                             !.refCount = watches[k].refCount + 1,
                             !.generation = watches[k].generation + 1,
                             !.lastActive = activeSeq + 1]
        <5>1. watches' = [watches EXCEPT ![k] = new]
          BY <4>3, Zenon DEF RestartWatch
        <5>2. new # NoWatch /\ new.refCount = watches[k].refCount + 1
          BY <4>0, <4>1, RestartedRef
        <5> HIDE DEF new
        <5> QED
          BY <5>1, <5>2 DEF HasWatch, TypeOK
      <4> QED
        BY <2>2, <4>2, <4>3
    <3>2. HasWatch(k)
      BY <2>2 DEF JoinWatch, RestartWatch
    <3> QED
      BY <1>c, <2>1, <3>1, <3>2 DEF Counted, HasWatch
  <2>3. CASE FirstWatch(c, k)
    <3> DEFINE w == [watches EXCEPT ![k] = FreshWatch]
    <3>1. watches' = Drop(w, Evicted(w))
      BY <2>3 DEF FirstWatch
    <3>2. w[k].refCount = 1 /\ w[k] # NoWatch
      BY FreshRef DEF TypeOK
    <3>3. k \notin Evicted(w)
      BY <3>2 DEF Evicted, Idle
    <3>4. watches'[k] = w[k]
      BY <3>1, <3>3 DEF Drop
    <3>5. HoldersOf(k) = {} /\ Cardinality(HoldersOf(k)) = 0
      BY <1>c, <2>3, HoldersFinite DEF FirstWatch, Counted
    <3>6. Counted(k)'
      BY <2>1, <3>2, <3>4, <3>5 DEF Counted, HasWatch
    <3>7. ASSUME NEW j \in Keys \ {k} PROVE Counted(j)'
      <4>1. w[j] = watches[j]
        BY DEF TypeOK
      <4>2. CASE j \in Evicted(w)
        <5>1. j \in Idle(watches)
          BY <4>1, <4>2 DEF Evicted, Idle, Present
        <5>2. HoldersOf(j)' = {}
          BY <1>c, <2>1, <5>1, IdleHasNoHolder
        <5>3. watches'[j] = NoWatch
          BY <3>1, <4>2 DEF Drop
        <5> QED
          BY <5>2, <5>3 DEF Counted, HasWatch
      <4>3. CASE j \notin Evicted(w)
        <5>1. watches'[j] = watches[j]
          BY <3>1, <4>1, <4>3 DEF Drop
        <5> QED
          BY <1>c, <2>1, <5>1 DEF Counted, HasWatch
      <4> QED
        BY <4>2, <4>3
    <3> QED
      BY <3>6, <3>7
  <2> QED
    BY <1>1, <2>2, <2>3 DEF StartWatch
<1>2. ASSUME NEW c \in Callers, NEW k \in Keys, StopWatch(c, k)
      PROVE  \A j \in Keys : Counted(j)'
  <2>1. /\ HoldersOf(k) # {}
        /\ Cardinality(HoldersOf(k)') = Cardinality(HoldersOf(k)) - 1
        /\ \A j \in Keys \ {k} : HoldersOf(j)' = HoldersOf(j)
    BY <1>2, StopRemovesHolder
  <2>2. HasWatch(k) /\ watches[k] \in WatchRef
    BY <1>c, <2>1 DEF Counted, HasWatch, TypeOK
  <2>3. /\ watches[k].refCount = Cardinality(HoldersOf(k))
        /\ Cardinality(HoldersOf(k)) \in Nat \ {0}
    BY <1>c, <2>1, <2>2, HoldersFinite DEF Counted
  <2>4. /\ HasWatch(k)'
        /\ watches'[k].refCount = watches[k].refCount - 1
        /\ \A j \in Keys \ {k} : watches'[j] = watches[j]
    <3>1. CASE watches[k].refCount = 1
      <4> DEFINE new == [watches[k] EXCEPT !.refCount = 0,
                                           !.lastActive = activeSeq + 1]
      <4>1. watches' = [watches EXCEPT ![k] = new]
        BY <1>2, <2>2, <3>1, Zenon DEF StopWatch, DropReference, ScheduleCleanup
      <4>2. new # NoWatch /\ new.refCount = 0
        <5>1. activeSeq + 1 \in Nat
          BY DEF TypeOK
        <5> QED
          BY <2>2, <5>1, IdledRef
      <4> HIDE DEF new
      <4> QED
        BY <3>1, <4>1, <4>2 DEF HasWatch, TypeOK
    <3>2. CASE watches[k].refCount # 1
      <4> DEFINE new == [watches[k] EXCEPT !.refCount = watches[k].refCount - 1]
      <4>1. watches' = [watches EXCEPT ![k] = new]
        BY <1>2, <2>2, <2>3, <3>2 DEF StopWatch, DropReference
      <4>2. new # NoWatch /\ new.refCount = watches[k].refCount - 1
        <5>1. watches[k].refCount - 1 \in Nat
          BY <2>3
        <5> QED
          BY <2>2, <5>1, CountedRef
      <4> HIDE DEF new
      <4> QED
        BY <4>1, <4>2 DEF HasWatch, TypeOK
    <3> QED
      BY <3>1, <3>2
  <2> QED
    BY <1>c, <2>1, <2>2, <2>3, <2>4 DEF Counted, HasWatch
<1>3. ASSUME NEW t \in timers, GraceExpired(t)
      PROVE  \A j \in Keys : Counted(j)'
  <2>1. t.key \in Keys
    BY DEF TypeOK, Timer
  <2>2. CASE pendingCleanups[t.key] = t.id /\ CleanupDue(t)
    <3>1. {t.key} \subseteq Idle(watches)
      BY <2>1, <2>2 DEF CleanupDue, Idle, Present, HasWatch
    <3>2. watches' = Drop(watches, {t.key}) /\ UNCHANGED holds
      BY <1>3, <2>2 DEF GraceExpired
    <3> QED
      BY <1>c, <2>1, <3>1, <3>2, DropKeepsCounted
  <2>3. CASE ~(pendingCleanups[t.key] = t.id /\ CleanupDue(t))
    BY <1>3, <1>c, <2>3 DEF GraceExpired, Counted, HasWatch, HoldersOf
  <2> QED
    BY <2>2, <2>3
<1>4. ASSUME NEW k \in Keys, NEW ctx \in 1..ctxCounter, MarkStopped(k, ctx)
      PROVE  \A j \in Keys : Counted(j)'
  <2>1. watches[k] \in WatchRef
    BY <1>4 DEF MarkStopped, HasWatch, TypeOK
  <2>2. /\ HasWatch(k)'
        /\ watches'[k].refCount = watches[k].refCount
        /\ \A j \in Keys \ {k} : watches'[j] = watches[j]
    BY <1>4, <2>1, NoWatchAssumption DEF MarkStopped, HasWatch, TypeOK, WatchRef
  <2>3. \A j \in Keys : HoldersOf(j)' = HoldersOf(j)
    BY <1>4 DEF MarkStopped, HoldersOf
  <2> QED
    BY <1>4, <1>c, <2>2, <2>3 DEF MarkStopped, Counted, HasWatch
<1>5. ASSUME NEW cl \in Clusters, StopAllPrefix(cl)
      PROVE  \A j \in Keys : Counted(j)'
  <2>1. StoppedByPrefix(cl) \subseteq Idle(watches) /\ StoppedByPrefix(cl) \subseteq Keys
    BY DEF StoppedByPrefix, KeysOfCluster
  <2> QED
    BY <1>5, <1>c, <2>1, DropKeepsCounted DEF StopAllPrefix
<1>6. ASSUME NEW r \in callbacks, RunCallback(r)
      PROVE  \A j \in Keys : Counted(j)'
  BY <1>6, <1>c DEF RunCallback, Counted, HasWatch, HoldersOf
<1>7. CASE UNCHANGED vars
  BY <1>7, <1>c DEF vars, Counted, HasWatch, HoldersOf
<1>8. ~Shutdown
  BY DEF Shutdown
<1> QED
  BY <1>1, <1>2, <1>3, <1>4, <1>5, <1>6, <1>7, <1>8 DEF Next

\* One step keeps the counts right.
LEMMA RefsInductive ==
    ASSUME TypeOK, RefsMatchHolders, [Next]_vars
    PROVE  RefsMatchHolders'
<1>1. TypeOK'
  BY TypeInductive
<1>2. ~down => \A k \in Keys : Counted(k)
  BY RefsAsCounted
<1>3. ~down' => \A k \in Keys : Counted(k)'
  BY <1>1, <1>2, CountedInductive
<1>4. (TypeOK => (RefsMatchHolders <=> (~down => \A k \in Keys : Counted(k))))'
  BY RefsAsCounted, PTL
<1> QED
  BY <1>1, <1>3, <1>4

\* The watch of a topic somebody holds a reference on is in the table with one
\* reference per holder, whatever timers, evictions, tab closes and restarts
\* happen around it (WatchManager.StartWatch, StopWatch, evictOverCapLocked,
\* StopAllPrefix, markStopped).
THEOREM ReferencesMatchHolders == Spec => []RefsMatchHolders
<1>1. Init => RefsMatchHolders
  BY DEF Init, RefsMatchHolders, HoldersOf, HasWatch
<1>2. TypeOK /\ RefsMatchHolders /\ [Next]_vars => RefsMatchHolders'
  BY RefsInductive
<1> QED
  BY <1>1, <1>2, TypeCorrect, PTL DEF Spec

---------------------------------------------------------------------------
\* After a step of a manager that is not shut down, what is leased is watched.
LEMMA LeasedIsWatched ==
    ASSUME TypeOK', RefsMatchHolders', ~down'
    PROVE  Lease!Leased(holds') \subseteq Present(watches')
<1> SUFFICES ASSUME NEW k \in Keys, NEW c \in Callers, k \in holds'[c]
             PROVE  watches'[k] # NoWatch
  BY DEF Lease!Leased, Present
<1>1. HoldersOf(k)' # {}
  BY DEF HoldersOf
<1> QED
  BY <1>1 DEF RefsMatchHolders, HasWatch

\* Every step of the manager is a step of the lease specification, or none.
LEMMA StepRefines ==
    ASSUME TypeOK, TypeOK', RefsMatchHolders', [Next]_vars
    PROVE  [Lease!Next]_(Lease!lvars)
<1> USE DEF Lease!lvars
<1>k. ~down /\ down' = down => Lease!Kept
  BY LeasedIsWatched DEF Lease!Kept
<1>d. down => Lease!Kept
  BY DEF Lease!Kept
<1>1. ASSUME NEW c \in Callers, NEW k \in Keys, StartWatch(c, k)
      PROVE  Lease!Acquire(c, k)
  <2>0. /\ k \notin holds[c]
        /\ holds' = [holds EXCEPT ![c] = @ \cup {k}]
        /\ down' = down
    BY <1>1 DEF StartWatch
  <2>1. Lease!Kept
    BY <1>k, <1>d, <2>0
  <2>2. k \in Present(watches') /\ Present(watches') \subseteq Present(watches) \cup {k}
    <3>1. CASE JoinWatch(c, k)
      <4>1. watches[k] \in WatchRef /\ activeSeq + 1 \in Nat
        BY <3>1 DEF JoinWatch, HasWatch, TypeOK
      <4> DEFINE new == [watches[k] EXCEPT !.refCount = watches[k].refCount + 1,
                                           !.lastActive = activeSeq + 1]
      <4>2. new # NoWatch
        BY <4>1, JoinedRef
      <4>3. watches' = [watches EXCEPT ![k] = new]
        BY <3>1, Zenon DEF JoinWatch
      <4> HIDE DEF new
      <4> QED
        BY <4>2, <4>3 DEF Present, TypeOK
    <3>2. CASE RestartWatch(c, k)
      <4>1. watches[k] \in WatchRef /\ activeSeq + 1 \in Nat /\ ctxCounter + 1 \in Nat
        BY <3>2 DEF RestartWatch, HasWatch, TypeOK
      <4> DEFINE new == [watches[k] EXCEPT !.ctx = ctxCounter + 1, !.stopped = FALSE,
                           !.refCount = watches[k].refCount + 1,
                           !.generation = watches[k].generation + 1,
                           !.lastActive = activeSeq + 1]
      <4>2. new # NoWatch
        BY <4>1, RestartedRef
      <4>3. watches' = [watches EXCEPT ![k] = new]
        BY <3>2, Zenon DEF RestartWatch
      <4> HIDE DEF new
      <4> QED
        BY <4>2, <4>3 DEF Present, TypeOK
    <3>3. CASE FirstWatch(c, k)
      <4> DEFINE w == [watches EXCEPT ![k] = FreshWatch]
      <4>1. watches' = Drop(w, Evicted(w))
        BY <3>3 DEF FirstWatch
      <4>2. w[k].refCount = 1 /\ w[k] # NoWatch
        BY FreshRef DEF TypeOK
      <4>3. k \notin Evicted(w)
        BY <4>2 DEF Evicted, Idle
      <4> QED
        BY <4>1, <4>2, <4>3 DEF Drop, Present, TypeOK
    <3> QED
      BY <1>1, <3>1, <3>2, <3>3 DEF StartWatch
  <2> QED
    BY <2>0, <2>1, <2>2 DEF Lease!Acquire
<1>2. ASSUME NEW c \in Callers, NEW k \in Keys, StopWatch(c, k)
      PROVE  Lease!Release(c, k)
  <2>1. /\ k \in holds[c]
        /\ holds' = [holds EXCEPT ![c] = @ \ {k}]
        /\ down' = down
    BY <1>2 DEF StopWatch
  <2>2. Present(watches') = Present(watches)
    <3>1. CASE ~HasWatch(k)
      BY <1>2, <3>1 DEF StopWatch, DropReference
    <3>2. CASE HasWatch(k) /\ watches[k].refCount = 1
      <4>1. watches[k] \in WatchRef /\ activeSeq + 1 \in Nat
        BY <3>2 DEF HasWatch, TypeOK
      <4> DEFINE new == [watches[k] EXCEPT !.refCount = 0,
                                           !.lastActive = activeSeq + 1]
      <4>2. watches' = [watches EXCEPT ![k] = new]
        BY <1>2, <3>2, Zenon DEF StopWatch, DropReference, ScheduleCleanup
      <4>3. new # NoWatch
        BY <4>1, IdledRef
      <4> HIDE DEF new
      <4> QED
        BY <3>2, <4>2, <4>3 DEF Present, HasWatch, TypeOK
    <3>3. CASE HasWatch(k) /\ watches[k].refCount # 1
      <4> DEFINE n == IF watches[k].refCount <= 0 THEN watches[k].refCount
                      ELSE watches[k].refCount - 1
      <4> DEFINE new == [watches[k] EXCEPT !.refCount = n]
      <4>1. watches[k] \in WatchRef /\ n \in Nat
        BY <3>3 DEF HasWatch, TypeOK, WatchRef
      <4>2. watches' = [watches EXCEPT ![k] = new]
        BY <1>2, <3>3 DEF StopWatch, DropReference
      <4> HIDE DEF n
      <4>3. new # NoWatch
        BY <4>1, CountedRef
      <4> HIDE DEF new
      <4> QED
        BY <3>3, <4>2, <4>3 DEF Present, HasWatch, TypeOK
    <3> QED
      BY <3>1, <3>2, <3>3
  <2> QED
    BY <2>1, <2>2 DEF Lease!Release
<1>3. ASSUME NEW t \in timers, GraceExpired(t)
      PROVE  Lease!Reap
  <2>1. /\ UNCHANGED <<holds, down>>
        /\ Present(watches') \subseteq Present(watches)
    BY <1>3 DEF GraceExpired, Drop, Present
  <2> QED
    BY <1>k, <1>d, <2>1 DEF Lease!Reap
<1>4. ASSUME NEW k \in Keys, NEW ctx \in 1..ctxCounter, MarkStopped(k, ctx)
      PROVE  Lease!Reap
  <2>1. /\ UNCHANGED <<holds, down>>
        /\ Present(watches') \subseteq Present(watches)
    BY <1>4 DEF MarkStopped, Present, HasWatch, TypeOK
  <2> QED
    BY <1>k, <1>d, <2>1 DEF Lease!Reap
<1>5. ASSUME NEW cl \in Clusters, StopAllPrefix(cl)
      PROVE  Lease!Reap
  <2>1. /\ UNCHANGED <<holds, down>>
        /\ Present(watches') \subseteq Present(watches)
    BY <1>5 DEF StopAllPrefix, Drop, Present
  <2> QED
    BY <1>k, <1>d, <2>1 DEF Lease!Reap
<1>6. ASSUME NEW r \in callbacks, RunCallback(r)
      PROVE  UNCHANGED Lease!lvars
  BY <1>6 DEF RunCallback
<1>7. CASE Shutdown
  <2>1. Present(watches') = {}
    BY <1>7 DEF Shutdown, Present
  <2>2. Lease!Close
    BY <1>7, <2>1 DEF Shutdown, Lease!Close
  <2> QED
    BY <2>2 DEF Lease!Next
<1>8. CASE UNCHANGED vars
  BY <1>8 DEF vars
<1> QED
  BY <1>1, <1>2, <1>3, <1>4, <1>5, <1>6, <1>7, <1>8 DEF Next, Lease!Next

\* The manager implements the lease specification: holding a reference keeps
\* the topic's watch in the table through every grace timer, eviction, tab
\* close and restart, until the service is shut down.
THEOREM ManagerImplementsLease == Spec => ImplementsLease
<1>1. Init => Lease!Init
  BY DEF Init, Lease!Init, Present
<1>2. TypeOK /\ TypeOK' /\ RefsMatchHolders' /\ [Next]_vars
        => [Lease!Next]_(Lease!lvars)
  BY StepRefines
<1> QED
  BY <1>1, <1>2, TypeCorrect, ReferencesMatchHolders, PTL
     DEF Spec, ImplementsLease, Lease!Spec

---------------------------------------------------------------------------
\* No two grace-period goroutines share an id, and none has an id still to be
\* given out: a pending cleanup's id names its goroutine.
TimersDistinct ==
    /\ \A t \in timers : t.id \in 1..cleanupIDCounter
    /\ \A t, u \in timers : t.id = u.id => t = u

\* The inductive invariant behind the reclaim of idle watches.
ReclaimInv == TimersDistinct /\ NoStrayCleanup /\ IdleWatchIsReclaimed

\* What the conjuncts of ReclaimInv about topic k say.
Reclaimable(k) ==
    /\ pendingCleanups[k] # NoCleanup => k \in Idle(watches)
    /\ k \in Idle(watches) =>
         \E t \in timers : /\ t.key = k
                           /\ t.id = pendingCleanups[k]
                           /\ t.generation = watches[k].generation

\* The two invariants hold when every topic is reclaimable.
LEMMA ReclaimablePerTopic ==
    (NoStrayCleanup /\ IdleWatchIsReclaimed) <=> (\A k \in Keys : Reclaimable(k))
  BY DEF NoStrayCleanup, IdleWatchIsReclaimed, Reclaimable, Idle, Present

\* A topic that loses its pending cleanup and is not idle is reclaimable.
LEMMA NotIdleReclaimable ==
    ASSUME NEW k \in Keys, pendingCleanups'[k] = NoCleanup,
           k \notin Idle(watches')
    PROVE  Reclaimable(k)'
  BY DEF Reclaimable

\* A topic whose entry, cleanup and goroutine a step leaves alone stays
\* reclaimable.
LEMMA SameReclaimable ==
    ASSUME TypeOK, NEW k \in Keys, Reclaimable(k),
           pendingCleanups'[k] = pendingCleanups[k],
           watches'[k] = watches[k],
           \A t \in timers : t.key = k /\ t.id = pendingCleanups[k] => t \in timers'
    PROVE  Reclaimable(k)'
  BY DEF Reclaimable, Idle, Present

\* Every step keeps every topic reclaimable.
LEMMA ReclaimInductive ==
    ASSUME TypeOK, ReclaimInv, [Next]_vars
    PROVE  ReclaimInv'
<1>0. \A k \in Keys : Reclaimable(k)
  BY ReclaimablePerTopic DEF ReclaimInv
<1>a. ((NoStrayCleanup /\ IdleWatchIsReclaimed) <=> (\A k \in Keys : Reclaimable(k)))'
  BY ReclaimablePerTopic, PTL
<1>s. SUFFICES TimersDistinct' /\ \A k \in Keys : Reclaimable(k)'
  BY <1>a DEF ReclaimInv
<1>1. ASSUME NEW c \in Callers, NEW k \in Keys, StartWatch(c, k)
      PROVE  TimersDistinct' /\ \A j \in Keys : Reclaimable(j)'
  <2>1. timers' = timers /\ cleanupIDCounter' = cleanupIDCounter
    BY <1>1 DEF StartWatch
  <2>2. TimersDistinct'
    BY <2>1 DEF TimersDistinct, ReclaimInv
  <2>3. CASE JoinWatch(c, k)
    <3>1. watches[k] \in WatchRef /\ activeSeq + 1 \in Nat
      BY <2>3 DEF JoinWatch, HasWatch, TypeOK
    <3> DEFINE new == [watches[k] EXCEPT !.refCount = watches[k].refCount + 1,
                                         !.lastActive = activeSeq + 1]
    <3>2. new # NoWatch /\ new.refCount = watches[k].refCount + 1
      BY <3>1, JoinedRef
    <3>3. watches' = [watches EXCEPT ![k] = new]
      BY <2>3, Zenon DEF JoinWatch
    <3> HIDE DEF new
    <3>4. k \notin Idle(watches')
      BY <3>1, <3>2, <3>3 DEF Idle, TypeOK, WatchRef
    <3>5. pendingCleanups' = CancelCleanups({k})
      BY <2>3 DEF JoinWatch
    <3>6. Reclaimable(k)'
      BY <3>4, <3>5, NotIdleReclaimable DEF CancelCleanups
    <3>7. ASSUME NEW j \in Keys \ {k} PROVE Reclaimable(j)'
      BY <1>0, <2>1, <3>3, <3>5, SameReclaimable DEF CancelCleanups, TypeOK
    <3> QED
      BY <2>2, <3>6, <3>7
  <2>4. CASE RestartWatch(c, k)
    <3>1. watches[k] \in WatchRef /\ activeSeq + 1 \in Nat /\ ctxCounter + 1 \in Nat
      BY <2>4 DEF RestartWatch, HasWatch, TypeOK
    <3> DEFINE new == [watches[k] EXCEPT !.ctx = ctxCounter + 1, !.stopped = FALSE,
                         !.refCount = watches[k].refCount + 1,
                         !.generation = watches[k].generation + 1,
                         !.lastActive = activeSeq + 1]
    <3>2. new # NoWatch /\ new.refCount = watches[k].refCount + 1
      BY <3>1, RestartedRef
    <3>3. watches' = [watches EXCEPT ![k] = new]
      BY <2>4, Zenon DEF RestartWatch
    <3> HIDE DEF new
    <3>4. k \notin Idle(watches')
      BY <3>1, <3>2, <3>3 DEF Idle, TypeOK, WatchRef
    <3>5. pendingCleanups' = CancelCleanups({k})
      BY <2>4 DEF RestartWatch
    <3>6. Reclaimable(k)'
      BY <3>4, <3>5, NotIdleReclaimable DEF CancelCleanups
    <3>7. ASSUME NEW j \in Keys \ {k} PROVE Reclaimable(j)'
      BY <1>0, <2>1, <3>3, <3>5, SameReclaimable DEF CancelCleanups, TypeOK
    <3> QED
      BY <2>2, <3>6, <3>7
  <2>5. CASE FirstWatch(c, k)
    <3> DEFINE w == [watches EXCEPT ![k] = FreshWatch]
    <3>1. /\ watches' = Drop(w, Evicted(w))
          /\ pendingCleanups' = CancelCleanups({k} \cup Evicted(w))
      BY <2>5 DEF FirstWatch
    <3>2. w[k].refCount = 1
      BY FreshRef DEF TypeOK
    <3>3. k \notin Idle(watches')
      BY <3>1, <3>2 DEF Idle, Present, Drop
    <3>4. \A j \in Keys \ {k} : w[j] = watches[j]
      BY DEF TypeOK
    <3> HIDE DEF w
    <3>5. Reclaimable(k)'
      BY <3>1, <3>3, NotIdleReclaimable DEF CancelCleanups
    <3>6. ASSUME NEW j \in Keys \ {k} PROVE Reclaimable(j)'
      <4>1. CASE j \in Evicted(w)
        <5>1. j \notin Idle(watches') /\ pendingCleanups'[j] = NoCleanup
          BY <3>1, <4>1 DEF Idle, Present, Drop, CancelCleanups
        <5> QED
          BY <5>1, NotIdleReclaimable
      <4>2. CASE j \notin Evicted(w)
        <5>1. watches'[j] = watches[j] /\ pendingCleanups'[j] = pendingCleanups[j]
          BY <3>1, <3>4, <4>2 DEF Drop, CancelCleanups
        <5> QED
          BY <1>0, <2>1, <5>1, SameReclaimable
      <4> QED
        BY <4>1, <4>2
    <3> QED
      BY <2>2, <3>5, <3>6
  <2> QED
    BY <1>1, <2>3, <2>4, <2>5 DEF StartWatch
<1>2. ASSUME NEW c \in Callers, NEW k \in Keys, StopWatch(c, k)
      PROVE  TimersDistinct' /\ \A j \in Keys : Reclaimable(j)'
  <2>1. CASE ~HasWatch(k)
    <3>1. /\ UNCHANGED <<watches, timers, cleanupIDCounter>>
          /\ pendingCleanups' = CancelCleanups({k})
      BY <1>2, <2>1 DEF StopWatch, DropReference
    <3>2. TimersDistinct'
      BY <3>1 DEF TimersDistinct, ReclaimInv
    <3>3. Reclaimable(k)'
      BY <2>1, <3>1, NotIdleReclaimable DEF CancelCleanups, Idle, Present, HasWatch
    <3>4. ASSUME NEW j \in Keys \ {k} PROVE Reclaimable(j)'
      BY <1>0, <3>1, SameReclaimable DEF CancelCleanups
    <3> QED
      BY <3>2, <3>3, <3>4
  <2>2. CASE HasWatch(k) /\ watches[k].refCount = 1
    <3>1. watches[k] \in WatchRef /\ activeSeq + 1 \in Nat
      BY <2>2 DEF HasWatch, TypeOK
    <3> DEFINE new == [watches[k] EXCEPT !.refCount = 0,
                                         !.lastActive = activeSeq + 1]
    <3> DEFINE id == cleanupIDCounter + 1
    <3> DEFINE timer == [key |-> k, id |-> id, generation |-> watches[k].generation]
    <3>2. watches' = [watches EXCEPT ![k] = new]
      BY <1>2, <2>2, Zenon DEF StopWatch, DropReference, ScheduleCleanup
    <3>3. new # NoWatch /\ new.refCount = 0 /\ new.generation = watches[k].generation
      BY <3>1, IdledRef
    <3>4. /\ timers' = timers \cup {timer}
          /\ pendingCleanups' = [pendingCleanups EXCEPT ![k] = id]
          /\ cleanupIDCounter' = id
      BY <1>2, <2>2 DEF StopWatch, DropReference, ScheduleCleanup
    <3> HIDE DEF new
    <3>5. TimersDistinct'
      BY <3>4 DEF TimersDistinct, ReclaimInv, TypeOK
    <3>6. Reclaimable(k)'
      <4>1. k \in Idle(watches') /\ watches'[k].generation = watches[k].generation
        BY <3>2, <3>3 DEF Idle, Present, TypeOK
      <4>2. pendingCleanups'[k] = id
        BY <3>4 DEF TypeOK
      <4>3. timer \in timers' /\ timer.key = k /\ timer.id = pendingCleanups'[k]
            /\ timer.generation = watches'[k].generation
        BY <3>4, <4>1, <4>2
      <4> QED
        BY <4>1, <4>3 DEF Reclaimable
    <3>7. ASSUME NEW j \in Keys \ {k} PROVE Reclaimable(j)'
      BY <1>0, <3>2, <3>4, SameReclaimable DEF TypeOK
    <3> QED
      BY <3>5, <3>6, <3>7
  <2>3. CASE HasWatch(k) /\ watches[k].refCount # 1
    <3> DEFINE n == IF watches[k].refCount <= 0 THEN watches[k].refCount
                    ELSE watches[k].refCount - 1
    <3> DEFINE new == [watches[k] EXCEPT !.refCount = n]
    <3>1. /\ watches[k] \in WatchRef /\ n \in Nat
          /\ n = 0 => watches[k].refCount = 0
      BY <2>3 DEF HasWatch, TypeOK, WatchRef
    <3>2. watches' = [watches EXCEPT ![k] = new]
      BY <1>2, <2>3 DEF StopWatch, DropReference
    <3>3. UNCHANGED <<timers, cleanupIDCounter, pendingCleanups>>
      BY <1>2, <2>3 DEF StopWatch, DropReference
    <3> HIDE DEF n
    <3>4. new # NoWatch /\ new.refCount = n /\ new.generation = watches[k].generation
      BY <3>1, CountedRef
    <3> HIDE DEF new
    <3>5. TimersDistinct'
      BY <3>3 DEF TimersDistinct, ReclaimInv
    <3>6. /\ k \in Idle(watches') <=> k \in Idle(watches)
          /\ watches'[k].generation = watches[k].generation
      <4>1. watches'[k] = new
        BY <3>2 DEF TypeOK
      <4>2. watches[k] # NoWatch /\ watches[k].refCount \in Nat
        BY <2>3, <3>1 DEF HasWatch, WatchRef
      <4>3. watches[k].refCount = 0 => n = 0
        BY <4>2 DEF n
      <4> QED
        BY <3>1, <3>4, <4>1, <4>2, <4>3 DEF Idle, Present
    <3>7. Reclaimable(k)'
      BY <1>0, <3>3, <3>6 DEF Reclaimable
    <3>8. ASSUME NEW j \in Keys \ {k} PROVE Reclaimable(j)'
      BY <1>0, <3>2, <3>3, SameReclaimable DEF TypeOK
    <3> QED
      BY <3>5, <3>7, <3>8
  <2> QED
    BY <2>1, <2>2, <2>3
<1>3. ASSUME NEW t \in timers, GraceExpired(t)
      PROVE  TimersDistinct' /\ \A j \in Keys : Reclaimable(j)'
  <2>0. t.key \in Keys /\ timers' = timers \ {t} /\ cleanupIDCounter' = cleanupIDCounter
    BY <1>3 DEF GraceExpired, TypeOK, Timer
  <2>1. TimersDistinct'
    BY <2>0 DEF TimersDistinct, ReclaimInv
  <2>2. CASE pendingCleanups[t.key] # t.id
    <3>1. UNCHANGED <<watches, pendingCleanups>>
      BY <1>3, <2>2 DEF GraceExpired
    <3> QED
      BY <1>0, <2>0, <2>1, <2>2, <3>1, SameReclaimable
  <2>3. CASE pendingCleanups[t.key] = t.id
    <3>1. t.id # NoCleanup
      BY DEF TimersDistinct, ReclaimInv, NoCleanup, TypeOK
    <3>2. t.key \in Idle(watches)
      BY <1>0, <2>0, <2>3, <3>1 DEF Reclaimable
    <3>3. watches[t.key].generation = t.generation
      <4>1. PICK u \in timers : /\ u.key = t.key
                                /\ u.id = pendingCleanups[t.key]
                                /\ u.generation = watches[t.key].generation
        BY <1>0, <2>0, <3>2 DEF Reclaimable
      <4>2. u = t
        BY <2>3, <4>1 DEF TimersDistinct, ReclaimInv
      <4> QED
        BY <4>1, <4>2
    <3>4. CleanupDue(t)
      BY <3>2, <3>3 DEF CleanupDue, Idle, Present, HasWatch
    <3>5. /\ watches' = Drop(watches, {t.key})
          /\ pendingCleanups' = CancelCleanups({t.key})
      BY <1>3, <2>3, <3>4 DEF GraceExpired
    <3>6. Reclaimable(t.key)'
      BY <2>0, <3>5, NotIdleReclaimable DEF Drop, CancelCleanups, Idle, Present
    <3>7. ASSUME NEW j \in Keys \ {t.key} PROVE Reclaimable(j)'
      BY <1>0, <2>0, <3>5, SameReclaimable DEF Drop, CancelCleanups
    <3> QED
      BY <2>1, <3>6, <3>7
  <2> QED
    BY <2>2, <2>3
<1>4. ASSUME NEW k \in Keys, NEW ctx \in 1..ctxCounter, MarkStopped(k, ctx)
      PROVE  TimersDistinct' /\ \A j \in Keys : Reclaimable(j)'
  <2>1. UNCHANGED <<timers, cleanupIDCounter, pendingCleanups>>
    BY <1>4 DEF MarkStopped
  <2>2. TimersDistinct'
    BY <2>1 DEF TimersDistinct, ReclaimInv
  <2>3. watches[k] \in WatchRef
    BY <1>4 DEF MarkStopped, HasWatch, TypeOK
  <2>4. /\ watches'[k] # NoWatch
        /\ watches'[k].refCount = watches[k].refCount
        /\ watches'[k].generation = watches[k].generation
        /\ \A j \in Keys \ {k} : watches'[j] = watches[j]
    BY <1>4, <2>3, NoWatchAssumption DEF MarkStopped, TypeOK, WatchRef
  <2>5. k \in Idle(watches') <=> k \in Idle(watches)
    BY <1>4, <2>4 DEF Idle, Present, MarkStopped, HasWatch
  <2>6. Reclaimable(k)'
    BY <1>0, <2>1, <2>4, <2>5 DEF Reclaimable
  <2>7. ASSUME NEW j \in Keys \ {k} PROVE Reclaimable(j)'
    BY <1>0, <2>1, <2>4, SameReclaimable
  <2> QED
    BY <2>2, <2>6, <2>7
<1>5. ASSUME NEW cl \in Clusters, StopAllPrefix(cl)
      PROVE  TimersDistinct' /\ \A j \in Keys : Reclaimable(j)'
  <2>1. /\ UNCHANGED <<timers, cleanupIDCounter>>
        /\ watches' = Drop(watches, StoppedByPrefix(cl))
        /\ pendingCleanups' = CancelCleanups(KeysOfCluster(cl))
    BY <1>5 DEF StopAllPrefix
  <2>2. TimersDistinct'
    BY <2>1 DEF TimersDistinct, ReclaimInv
  <2>3. ASSUME NEW j \in Keys PROVE Reclaimable(j)'
    <3>1. CASE j \in KeysOfCluster(cl)
      <4>1. j \notin Idle(watches') /\ pendingCleanups'[j] = NoCleanup
        BY <2>1, <3>1 DEF Drop, CancelCleanups, Idle, Present, StoppedByPrefix
      <4> QED
        BY <4>1, NotIdleReclaimable
    <3>2. CASE j \notin KeysOfCluster(cl)
      BY <1>0, <2>1, <3>2, SameReclaimable DEF Drop, CancelCleanups, StoppedByPrefix
    <3> QED
      BY <3>1, <3>2
  <2> QED
    BY <2>2, <2>3
<1>6. ASSUME UNCHANGED <<watches, pendingCleanups, timers, cleanupIDCounter>>
      PROVE  TimersDistinct' /\ \A j \in Keys : Reclaimable(j)'
  <2>1. TimersDistinct'
    BY <1>6 DEF TimersDistinct, ReclaimInv
  <2> QED
    BY <1>0, <1>6, <2>1, SameReclaimable
<1>7. ASSUME Shutdown
      PROVE  TimersDistinct' /\ \A j \in Keys : Reclaimable(j)'
  <2>1. /\ UNCHANGED <<timers, cleanupIDCounter>>
        /\ \A j \in Keys : watches'[j] = NoWatch /\ pendingCleanups'[j] = NoCleanup
    BY <1>7 DEF Shutdown
  <2>2. TimersDistinct'
    BY <2>1 DEF TimersDistinct, ReclaimInv
  <2> QED
    BY <2>1, <2>2, NotIdleReclaimable DEF Idle, Present
<1>8. \A r \in callbacks : RunCallback(r) =>
        UNCHANGED <<watches, pendingCleanups, timers, cleanupIDCounter>>
  BY DEF RunCallback
<1>9. UNCHANGED vars => UNCHANGED <<watches, pendingCleanups, timers, cleanupIDCounter>>
  BY DEF vars
<1> QED
  BY <1>1, <1>2, <1>3, <1>4, <1>5, <1>6, <1>7, <1>8, <1>9 DEF Next

\* An idle watch always has its reclaim under way and a pending cleanup always
\* belongs to an idle watch (WatchManager.StopWatch and its goroutine): no
\* order of timers, restarts, evictions and tab closes leaves an idle watch
\* that nothing will ever remove, or a cleanup that could fire on a watch in
\* use.
THEOREM IdleWatchesAreReclaimed ==
    Spec => [](IdleWatchIsReclaimed /\ NoStrayCleanup)
<1>1. Init => ReclaimInv
  BY DEF Init, ReclaimInv, TimersDistinct, NoStrayCleanup, IdleWatchIsReclaimed,
         Idle, Present
<1>2. TypeOK /\ ReclaimInv /\ [Next]_vars => ReclaimInv'
  BY ReclaimInductive
<1>3. ReclaimInv => IdleWatchIsReclaimed /\ NoStrayCleanup
  BY DEF ReclaimInv
<1> QED
  BY <1>1, <1>2, <1>3, TypeCorrect, PTL DEF Spec

\* What the manager keeps true of its table in every state: references are
\* those of the callers, an idle watch has its reclaim under way, and no
\* cleanup is left behind for a watch in use.
THEOREM WatchesAreAlwaysKept == Spec => []WatchesAreKept
<1>1. /\ RefsMatchHolders
      /\ IdleWatchIsReclaimed /\ NoStrayCleanup
      => WatchesAreKept
  BY DEF WatchesAreKept
<1> QED
  BY <1>1, ReferencesMatchHolders, IdleWatchesAreReclaimed, PTL
---------------------------------------------------------------------------
(***************************************************************************)
(* Eviction.  No two watches were last active at the same time: lastActive *)
(* is always a new value of activeSeq.  So "fewer idle predecessors than   *)
(* the table is over its cap" picks a first part of the idle watches of    *)
(* exactly that size, or all of them when there are not as many.           *)
(***************************************************************************)
ActiveDistinct ==
    /\ \A k \in Present(watches) : watches[k].lastActive <= activeSeq
    /\ \A j, k \in Present(watches) :
         watches[j].lastActive = watches[k].lastActive => j = k

\* A set of naturals that is not empty has a least element.
LEMMA LeastNatural ==
    ASSUME NEW T, T \subseteq Nat, T # {}
    PROVE  \E n \in T : \A m \in T : n <= m
<1>1. IsWellFoundedOn({p \in Nat \X Nat : p[1] < p[2]}, Nat)
  BY NatLessThanWellFounded DEF OpToRel
<1>2. PICK n \in T : \A m \in T : <<m, n>> \notin {p \in Nat \X Nat : p[1] < p[2]}
  BY <1>1, WFMin
<1>3. \A m \in T : ~(m < n)
  BY <1>2
<1> QED
  BY <1>3

\* The elements of S before x in the order of f, and those with fewer than m
\* elements before them.
Earlier(S, f, x) == {y \in S : f[y] < f[x]}
FirstPart(S, f, m) == {x \in S : Cardinality(Earlier(S, f, x)) < m}

\* The elements of a finite set with fewer than m predecessors: at most m, and
\* at least m unless they are all.
LEMMA FirstOnes ==
    ASSUME NEW S, IsFiniteSet(S), NEW f \in [S -> Nat], NEW top \in Nat,
           \A x \in S : f[x] <= top,
           \A x, y \in S : f[x] = f[y] => x = y,
           NEW m \in Int
    PROVE  /\ FirstPart(S, f, m) # {} => Cardinality(FirstPart(S, f, m)) <= m
           /\ FirstPart(S, f, m) # S => Cardinality(FirstPart(S, f, m)) >= m
<1> DEFINE Before(x) == {y \in S : f[y] < f[x]}
           E == {x \in S : Cardinality(Before(x)) < m}
<1>1. /\ E \subseteq S
      /\ IsFiniteSet(E) /\ Cardinality(E) \in Nat
  BY FS_Subset, FS_CardinalityType
<1>2. \A x \in S : IsFiniteSet(Before(x)) /\ Cardinality(Before(x)) \in Nat
  <2> TAKE x \in S
  <2>1. Before(x) \subseteq S
    OBVIOUS
  <2> QED
    BY <2>1, FS_Subset, FS_CardinalityType
<1>3. ASSUME E # {} PROVE Cardinality(E) <= m
  <2> DEFINE T == {top - f[x] : x \in E}
  <2>1. T \subseteq Nat /\ T # {}
    <3>1. \A x \in E : top - f[x] \in Nat
      <4> HIDE DEF E
      <4> QED
        BY <1>1
    <3> HIDE DEF E
    <3> QED
      BY <1>3, <3>1
  <2>2. PICK n \in T : \A k \in T : n <= k
    BY <2>1, LeastNatural
  <2>3. PICK e \in E : n = top - f[e]
    BY <2>2
  <2>4. \A x \in E : f[x] <= f[e]
    <3> HIDE DEF E
    <3>1. \A x \in E : top - f[e] <= top - f[x]
      BY <2>2, <2>3
    <3> QED
      BY <1>1, <3>1
  <2>5. E \ {e} \subseteq Before(e)
    BY <1>1, <2>4
  <2>6. Cardinality(E \ {e}) <= Cardinality(Before(e))
    BY <1>1, <1>2, <2>5, FS_Subset
  <2>7. Cardinality(E \ {e}) = Cardinality(E) - 1
    BY <1>1, FS_RemoveElement
  <2>8. Cardinality(Before(e)) < m
    OBVIOUS
  <2>9. Cardinality(Before(e)) \in Nat
    BY <1>1, <1>2
  <2> HIDE DEF E, Before
  <2> QED
    BY <1>1, <2>6, <2>7, <2>8, <2>9
<1>4. ASSUME E # S PROVE Cardinality(E) >= m
  <2> DEFINE T == {f[x] : x \in S \ E}
  <2>1. T \subseteq Nat /\ T # {}
    <3> HIDE DEF E
    <3> QED
      BY <1>1, <1>4
  <2>2. PICK n \in T : \A k \in T : n <= k
    BY <2>1, LeastNatural
  <2>3. PICK s \in S \ E : n = f[s]
    BY <2>2
  <2>4. \A y \in S : f[y] < f[s] => y \in E
    <3> TAKE y \in S
    <3>1. y \notin E => f[y] \in T
      OBVIOUS
    <3> HIDE DEF E, T
    <3> QED
      BY <2>2, <2>3, <3>1
  <2>5. Before(s) \subseteq E
    BY <2>4
  <2>6. Cardinality(Before(s)) <= Cardinality(E)
    BY <1>1, <2>5, FS_Subset
  <2>7. ~(Cardinality(Before(s)) < m)
    OBVIOUS
  <2>8. Cardinality(Before(s)) \in Nat
    BY <1>2
  <2> HIDE DEF E, Before
  <2> QED
    BY <1>1, <2>6, <2>7, <2>8
<1>5. FirstPart(S, f, m) = E
  BY DEF FirstPart, Earlier
<1> HIDE DEF E
<1> QED
  BY <1>3, <1>4, <1>5

\* A step that gives no watch a new entry keeps what the entries say.
LEMMA ActiveKept ==
    ASSUME TypeOK, ActiveDistinct, activeSeq' = activeSeq,
           \A k \in Keys : watches'[k] # NoWatch =>
               /\ watches[k] # NoWatch
               /\ watches'[k].lastActive = watches[k].lastActive
    PROVE  ActiveDistinct'
BY DEF ActiveDistinct, Present

\* The watch a step makes active is the last one.
LEMMA ActiveTaken ==
    ASSUME TypeOK, ActiveDistinct, NEW k \in Keys,
           activeSeq' = activeSeq + 1,
           watches'[k].lastActive = activeSeq + 1,
           \A j \in Keys \ {k} : watches'[j] # NoWatch => watches'[j] = watches[j]
    PROVE  ActiveDistinct'
<1>1. \A j \in Present(watches) :
        watches[j].lastActive \in Nat /\ watches[j].lastActive <= activeSeq
  BY DEF TypeOK, ActiveDistinct, Present, WatchRef
<1>2. activeSeq \in Nat
  BY DEF TypeOK
<1>3. \A j \in Present(watches') \ {k} :
        j \in Present(watches) /\ watches'[j] = watches[j]
  BY DEF Present
<1>4. \A j \in Present(watches') : watches'[j].lastActive <= activeSeq + 1
  BY <1>1, <1>2, <1>3
<1>5. \A j \in Present(watches') \ {k} : watches'[j].lastActive # activeSeq + 1
  BY <1>1, <1>2, <1>3
<1>6. \A i, j \in Present(watches') :
        watches'[i].lastActive = watches'[j].lastActive => i = j
  BY <1>3, <1>5 DEF ActiveDistinct
<1> QED
  BY <1>4, <1>6 DEF ActiveDistinct

\* Every operation of the manager keeps the times watches were last active
\* apart.
LEMMA ActiveInductive ==
    ASSUME TypeOK, ActiveDistinct, [Next]_vars
    PROVE  ActiveDistinct'
<1>1. ASSUME NEW c \in Callers, NEW k \in Keys, StartWatch(c, k)
      PROVE  ActiveDistinct'
  <2>1. activeSeq' = activeSeq + 1
    BY <1>1 DEF StartWatch
  <2>2. CASE JoinWatch(c, k)
    <3> DEFINE new == [watches[k] EXCEPT !.refCount = watches[k].refCount + 1,
                                         !.lastActive = activeSeq + 1]
    <3>1. watches' = [watches EXCEPT ![k] = new]
      BY <2>2, Zenon DEF JoinWatch
    <3>2. watches[k] \in WatchRef
      BY <2>2 DEF JoinWatch, HasWatch, TypeOK
    <3>3. new.lastActive = activeSeq + 1
      BY <3>2 DEF WatchRef
    <3> HIDE DEF new
    <3> QED
      BY <2>1, <3>1, <3>3, ActiveTaken DEF TypeOK
  <2>3. CASE RestartWatch(c, k)
    <3> DEFINE new == [watches[k] EXCEPT !.ctx = ctxCounter + 1, !.stopped = FALSE,
                         !.refCount = watches[k].refCount + 1,
                         !.generation = watches[k].generation + 1,
                         !.lastActive = activeSeq + 1]
    <3>1. watches' = [watches EXCEPT ![k] = new]
      BY <2>3, Zenon DEF RestartWatch
    <3>2. watches[k] \in WatchRef
      BY <2>3 DEF RestartWatch, HasWatch, TypeOK
    <3>3. new.lastActive = activeSeq + 1
      BY <3>2 DEF WatchRef
    <3> HIDE DEF new
    <3> QED
      BY <2>1, <3>1, <3>3, ActiveTaken DEF TypeOK
  <2>4. CASE FirstWatch(c, k)
    <3> DEFINE w == [watches EXCEPT ![k] = FreshWatch]
    <3>1. watches' = Drop(w, Evicted(w))
      BY <2>4 DEF FirstWatch
    <3>2. w[k].refCount = 1 /\ w[k].lastActive = activeSeq + 1
      BY DEF FreshWatch, TypeOK
    <3>3. \A j \in Keys \ {k} : w[j] = watches[j]
      BY DEF TypeOK
    <3>4. k \notin Evicted(w)
      BY <3>2 DEF Evicted, Idle
    <3> HIDE DEF w
    <3>5. watches'[k] = w[k]
          /\ \A j \in Keys \ {k} : watches'[j] # NoWatch => watches'[j] = watches[j]
      BY <3>1, <3>3, <3>4 DEF Drop
    <3> QED
      BY <2>1, <3>2, <3>5, ActiveTaken
  <2> QED
    BY <1>1, <2>2, <2>3, <2>4 DEF StartWatch
<1>2. ASSUME NEW c \in Callers, NEW k \in Keys, StopWatch(c, k)
      PROVE  ActiveDistinct'
  <2>1. CASE ~HasWatch(k)
    <3>1. UNCHANGED <<watches, activeSeq>>
      BY <1>2, <2>1 DEF StopWatch, DropReference
    <3> QED
      BY <3>1, ActiveKept
  <2>2. CASE HasWatch(k) /\ watches[k].refCount = 1
    <3> DEFINE new == [watches[k] EXCEPT !.refCount = 0,
                                         !.lastActive = activeSeq + 1]
    <3>1. watches' = [watches EXCEPT ![k] = new] /\ activeSeq' = activeSeq + 1
      BY <1>2, <2>2, Zenon DEF StopWatch, DropReference, ScheduleCleanup
    <3>2. watches[k] \in WatchRef
      BY <2>2 DEF HasWatch, TypeOK
    <3>3. new.lastActive = activeSeq + 1
      BY <3>2 DEF WatchRef
    <3> HIDE DEF new
    <3> QED
      BY <3>1, <3>3, ActiveTaken DEF TypeOK
  <2>3. CASE HasWatch(k) /\ watches[k].refCount # 1
    <3> DEFINE n == IF watches[k].refCount <= 0 THEN watches[k].refCount
                    ELSE watches[k].refCount - 1
    <3> DEFINE new == [watches[k] EXCEPT !.refCount = n]
    <3>1. watches[k] \in WatchRef
      BY <2>3 DEF HasWatch, TypeOK
    <3>2. watches' = [watches EXCEPT ![k] = new] /\ activeSeq' = activeSeq
      BY <1>2, <2>3 DEF StopWatch, DropReference
    <3> HIDE DEF n
    <3>3. new.lastActive = watches[k].lastActive
      BY <3>1 DEF WatchRef
    <3> HIDE DEF new
    <3> QED
      BY <2>3, <3>2, <3>3, ActiveKept DEF TypeOK, HasWatch
  <2> QED
    BY <2>1, <2>2, <2>3
<1>3. ASSUME NEW t \in timers, GraceExpired(t)
      PROVE  ActiveDistinct'
  <2>1. activeSeq' = activeSeq
        /\ (watches' = watches \/ watches' = Drop(watches, {t.key}))
    BY <1>3 DEF GraceExpired
  <2> QED
    BY <2>1, ActiveKept DEF Drop
<1>4. ASSUME NEW k \in Keys, NEW ctx \in 1..ctxCounter, MarkStopped(k, ctx)
      PROVE  ActiveDistinct'
  <2>1. watches[k] \in WatchRef /\ watches[k] # NoWatch
    BY <1>4 DEF MarkStopped, HasWatch, TypeOK
  <2>2. /\ watches'[k].lastActive = watches[k].lastActive
        /\ \A j \in Keys \ {k} : watches'[j] = watches[j]
        /\ activeSeq' = activeSeq
    BY <1>4, <2>1 DEF MarkStopped, TypeOK, WatchRef
  <2> QED
    BY <2>1, <2>2, ActiveKept
<1>5. ASSUME NEW cl \in Clusters, StopAllPrefix(cl)
      PROVE  ActiveDistinct'
  BY <1>5, ActiveKept DEF StopAllPrefix, Drop
<1>6. ASSUME Shutdown
      PROVE  ActiveDistinct'
  BY <1>6, ActiveKept DEF Shutdown
<1>7. ASSUME UNCHANGED <<watches, activeSeq>>
      PROVE  ActiveDistinct'
  BY <1>7, ActiveKept
<1>8. (\A r \in callbacks : RunCallback(r) => UNCHANGED <<watches, activeSeq>>)
      /\ (UNCHANGED vars => UNCHANGED <<watches, activeSeq>>)
  BY DEF RunCallback, vars
<1> QED
  BY <1>1, <1>2, <1>3, <1>4, <1>5, <1>6, <1>7, <1>8 DEF Next

\* Making room for a new entry: the table loses no more idle watches than it is
\* over its cap, and as many unless none is left.
LEMMA EvictedCount ==
    ASSUME TypeOK, ActiveDistinct, NEW k \in Keys, ~HasWatch(k)
    PROVE  LET w == [watches EXCEPT ![k] = FreshWatch]
           IN  /\ Evicted(w) # {} => Cardinality(Evicted(w)) <= OverCap(w)
               /\ Evicted(w) # Idle(w) => Cardinality(Evicted(w)) >= OverCap(w)
<1> DEFINE w == [watches EXCEPT ![k] = FreshWatch]
           S == Idle(w)
           f == [j \in S |-> w[j].lastActive]
<1>1. w[k].refCount = 1 /\ \A j \in Keys \ {k} : w[j] = watches[j]
  BY FreshRef DEF TypeOK
<1>2. S \subseteq Present(watches) /\ \A j \in S : w[j] = watches[j]
  <2> HIDE DEF w
  <2> QED
    BY <1>1 DEF Idle, Present
<1>3. IsFiniteSet(S)
  <2>1. S \subseteq Keys
    BY DEF Idle, Present
  <2> QED
    BY <2>1, FS_Subset, KeysAssumption
<1>4. /\ f \in [S -> Nat]
      /\ \A x \in S : f[x] <= activeSeq
      /\ \A x, y \in S : f[x] = f[y] => x = y
  <2>1. \A j \in S : w[j].lastActive \in Nat
    BY <1>2 DEF Present, TypeOK, WatchRef
  <2> HIDE DEF w, S
  <2> QED
    BY <1>2, <2>1 DEF ActiveDistinct
<1>5. activeSeq \in Nat
  BY DEF TypeOK
<1>6. OverCap(w) \in Int
  <2>1. Present(w) \subseteq Keys
    BY DEF Present
  <2>2. Cardinality(Present(w)) \in Nat
    BY <2>1, FS_Subset, FS_CardinalityType, KeysAssumption
  <2> HIDE DEF w
  <2> QED
    BY <2>2, CapAssumption DEF OverCap
<1>7. Evicted(w) = FirstPart(S, f, OverCap(w))
  <2>1. \A x \in S : Earlier(S, f, x)
                     = {j \in Idle(w) : w[j].lastActive < w[x].lastActive}
    BY DEF Earlier
  <2> HIDE DEF f, w
  <2> QED
    BY <2>1 DEF Evicted, FirstPart
<1>8. /\ Evicted(w) # {} => Cardinality(Evicted(w)) <= OverCap(w)
      /\ Evicted(w) # S => Cardinality(Evicted(w)) >= OverCap(w)
  <2> HIDE DEF f, w, S
  <2> QED
    BY <1>3, <1>4, <1>5, <1>6, <1>7, FirstOnes
<1> QED
  BY <1>8

\* The step of StartWatch that makes a new watch is the only one that evicts.
LEMMA FirstWatchEvicts ==
    ASSUME TypeOK, ActiveDistinct, NEW c \in Callers, NEW k \in Keys,
           FirstWatch(c, k)
    PROVE  TakesOldestFirst /\ CapHolds
<1> DEFINE w == [watches EXCEPT ![k] = FreshWatch]
           E == Evicted(w)
           Before(x) == {j \in Idle(w) : w[j].lastActive < w[x].lastActive}
<1>1. /\ ~HasWatch(k)
      /\ watches' = Drop(w, E)
      /\ watches \in [Keys -> WatchRef \cup {NoWatch}]
  BY DEF FirstWatch, TypeOK
<1>2. /\ w[k] = FreshWatch /\ w[k] # NoWatch /\ w[k].refCount = 1
      /\ \A j \in Keys \ {k} : w[j] = watches[j]
  <2>1. w[k] = FreshWatch /\ \A j \in Keys \ {k} : w[j] = watches[j]
    BY <1>1
  <2> HIDE DEF w
  <2> QED
    BY <2>1, FreshRef DEF TypeOK
<1>3. /\ E \subseteq Idle(w)
      /\ Idle(w) = Idle(watches)
      /\ Idle(w) \subseteq Present(w) /\ Present(w) \subseteq Keys
      /\ \A j \in Idle(w) : w[j] = watches[j]
  <2> HIDE DEF w
  <2> QED
    BY <1>1, <1>2 DEF E, Evicted, Idle, Present, HasWatch
<1>4. \A j \in Keys : watches'[j] = IF j \in E THEN NoWatch ELSE w[j]
  <2> HIDE DEF w, E
  <2> QED
    BY <1>1 DEF Drop
<1>5. Present(watches') = Present(w) \ E /\ Idle(watches') = Idle(w) \ E
  <2> HIDE DEF w, E
  <2> QED
    BY <1>4 DEF Present, Idle
<1>6. /\ IsFiniteSet(Present(w)) /\ IsFiniteSet(Idle(w))
      /\ Cardinality(Present(w)) \in Nat /\ Cardinality(E) \in Nat
      /\ Cardinality(Present(watches')) = Cardinality(Present(w)) - Cardinality(E)
  <2> HIDE DEF w, E
  <2>1. IsFiniteSet(Present(w)) /\ IsFiniteSet(Idle(w)) /\ IsFiniteSet(E)
    BY <1>3, FS_Subset, KeysAssumption
  <2>2. Present(w) \cap E = E
    BY <1>3
  <2>3. Cardinality(Present(w)) \in Nat /\ Cardinality(E) \in Nat
    BY <2>1, FS_CardinalityType
  <2>4. Cardinality(Present(w) \ E) = Cardinality(Present(w)) - Cardinality(E)
    BY <2>1, <2>2, FS_Difference
  <2> QED
    BY <2>1, <2>3, <2>4, <1>5
<1>7. /\ E # {} => Cardinality(E) <= OverCap(w)
      /\ E # Idle(w) => Cardinality(E) >= OverCap(w)
  BY EvictedCount, <1>1
<1>8. OverCap(w) = IF MaxWatches <= 0 THEN 0
                   ELSE Cardinality(Present(w)) - MaxWatches
  BY DEF OverCap
<1>9. \A x \in E, j \in Idle(w) : w[j].lastActive < w[x].lastActive => j \in E
  <2> SUFFICES ASSUME NEW x \in E, NEW j \in Idle(w),
                      w[j].lastActive < w[x].lastActive
               PROVE  j \in E
    OBVIOUS
  <2>1. \A y \in Idle(w) : w[y].lastActive \in Nat
    <3> HIDE DEF w
    <3> QED
      BY <1>1, <1>3 DEF Idle, Present, WatchRef
  <2>2. Before(j) \subseteq Before(x)
    <3> HIDE DEF w
    <3> QED
      BY <1>3, <2>1
  <2>3. IsFiniteSet(Before(x)) /\ Before(x) \subseteq Idle(w)
    <3>1. Before(x) \subseteq Idle(w)
      OBVIOUS
    <3> HIDE DEF Before, w
    <3> QED
      BY <3>1, <1>6, FS_Subset
  <2>4. /\ Cardinality(Before(j)) <= Cardinality(Before(x))
        /\ Cardinality(Before(j)) \in Nat /\ Cardinality(Before(x)) \in Nat
    <3> HIDE DEF Before, w
    <3> QED
      BY <2>2, <2>3, FS_Subset, FS_CardinalityType
  <2>5. Cardinality(Before(x)) < OverCap(w)
    BY DEF Evicted
  <2>6. OverCap(w) \in Int
    <3> HIDE DEF w
    <3> QED
      BY <1>6, <1>8, CapAssumption
  <2>7. Cardinality(Before(j)) < OverCap(w)
    <3> HIDE DEF Before, w
    <3> QED
      BY <2>4, <2>5, <2>6
  <2> QED
    BY <2>7 DEF Evicted
<1>10. TakesOldestFirst
  <2> HIDE DEF w, E
  <2> SUFFICES ASSUME NEW x \in Keys, x \in Idle(watches), watches'[x] = NoWatch
               PROVE  /\ Cardinality(Present(watches')) >= MaxWatches
                      /\ \A j \in Idle(watches) :
                           watches[j].lastActive < watches[x].lastActive
                             => watches'[j] = NoWatch
    BY DEF TakesOldestFirst
  <2>1. x \in E
    BY <1>3, <1>4 DEF Present
  <2>2. Cardinality(E) # 0
    BY <2>1, <1>3, <1>6, FS_EmptySet, FS_Subset
  <2>3. Cardinality(Present(watches')) >= MaxWatches
    BY <2>1, <2>2, <1>6, <1>7, <1>8, CapAssumption
  <2>4. \A j \in Idle(watches) :
            watches[j].lastActive < watches[x].lastActive => watches'[j] = NoWatch
    BY <2>1, <1>3, <1>4, <1>9
  <2> QED
    BY <2>3, <2>4
<1>11. CapHolds
  <2> HIDE DEF w, E
  <2> SUFFICES ASSUME MaxWatches > 0, Idle(watches') # {}
               PROVE  Cardinality(Present(watches')) <= MaxWatches
    BY DEF CapHolds
  <2>1. E # Idle(w)
    BY <1>5
  <2> QED
    BY <2>1, <1>6, <1>7, <1>8, CapAssumption
<1> QED
  BY <1>10, <1>11

\* No other step takes a watch to make room.
LEMMA EvictionStep ==
    ASSUME TypeOK, ActiveDistinct, [Next]_vars
    PROVE  [TakesOldestFirst /\ CapHolds]_vars
<1>1. ASSUME ctxCounter' = ctxCounter
      PROVE  TakesOldestFirst /\ CapHolds
  BY <1>1 DEF TakesOldestFirst, CapHolds
<1>2. ASSUME NEW c \in Callers, NEW k \in Keys, RestartWatch(c, k)
      PROVE  TakesOldestFirst /\ CapHolds
  <2>1. watches[k] \in WatchRef /\ watches[k] # NoWatch
    BY <1>2 DEF RestartWatch, HasWatch, TypeOK
  <2> DEFINE new == [watches[k] EXCEPT !.ctx = ctxCounter + 1, !.stopped = FALSE,
                                !.refCount = watches[k].refCount + 1,
                                !.generation = watches[k].generation + 1,
                                !.lastActive = activeSeq + 1]
  <2>2. watches'[k] # NoWatch /\ \A j \in Keys \ {k} : watches'[j] = watches[j]
    <3>1. ctxCounter + 1 \in Nat /\ activeSeq + 1 \in Nat
      BY DEF TypeOK
    <3>2. new # NoWatch
      BY <2>1, <3>1, RestartedRef
    <3>3. watches' = [watches EXCEPT ![k] = new]
      BY <1>2 DEF RestartWatch
    <3> HIDE DEF new
    <3> QED
      BY <3>2, <3>3 DEF TypeOK
  <2>3. Present(watches') = Present(watches)
    BY <2>1, <2>2 DEF Present
  <2>4. \A x \in Idle(watches) : watches'[x] # NoWatch
    BY <2>3 DEF Present, Idle
  <2> QED
    BY <2>3, <2>4 DEF TakesOldestFirst, CapHolds
<1>3. ASSUME NEW c \in Callers, NEW k \in Keys, StartWatch(c, k)
      PROVE  TakesOldestFirst /\ CapHolds
  <2>1. ctxCounter' = ctxCounter \/ RestartWatch(c, k) \/ FirstWatch(c, k)
    BY <1>3 DEF StartWatch, JoinWatch
  <2> QED
    BY <2>1, <1>1, <1>2, FirstWatchEvicts
<1>4. ASSUME NEW c \in Callers, NEW k \in Keys, StopWatch(c, k)
      PROVE  ctxCounter' = ctxCounter
  BY <1>4 DEF StopWatch
<1>5. ASSUME \/ \E t \in timers : GraceExpired(t)
             \/ \E k \in Keys, ctx \in 1..ctxCounter : MarkStopped(k, ctx)
             \/ \E cl \in Clusters : StopAllPrefix(cl)
             \/ \E r \in callbacks : RunCallback(r)
             \/ Shutdown
      PROVE  ctxCounter' = ctxCounter
  BY <1>5 DEF GraceExpired, MarkStopped, StopAllPrefix, RunCallback, Shutdown
<1>6. CASE UNCHANGED vars
  BY <1>6
<1>7. CASE Next
  BY <1>7, <1>1, <1>3, <1>4, <1>5 DEF Next
<1> QED
  BY <1>6, <1>7

\* Eviction is by least recent use and no more than needed: every behaviour of
\* the manager has EvictionIsLRU (WatchManager.evictOverCapLocked).
THEOREM EvictionTakesOldest == Spec => EvictionIsLRU
<1>1. Init => ActiveDistinct
  BY DEF Init, ActiveDistinct, Present
<1>2. ActiveDistinct /\ TypeOK /\ [Next]_vars => ActiveDistinct'
  BY ActiveInductive
<1>3. TypeOK /\ ActiveDistinct /\ [Next]_vars => [TakesOldestFirst /\ CapHolds]_vars
  BY EvictionStep
<1>4. Spec => []ActiveDistinct
  BY <1>1, <1>2, TypeCorrect, PTL DEF Spec
<1> QED
  BY <1>3, <1>4, TypeCorrect, PTL DEF Spec, EvictionIsLRU

---------------------------------------------------------------------------
(***************************************************************************)
(* TopicState.                                                             *)
(***************************************************************************)

\* A loop about to write has rows to write.
CheckedIsDue(l) ==
    l.checked => l.pc = "watching" \/ (l.pc = "listing" /\ l.page < Pages)

\* Contexts are handed out once: no two loops have the same, and none has one
\* still to come.
ContextsCounted ==
    /\ \A k \in Keys : HasWatch(k) => watches[k].ctx \in 1..ctxCounter
    /\ \A l \in loops : l.ctx \in 1..ctxCounter
    /\ \A l, m \in loops : l.ctx = m.ctx => l = m
    /\ \A l \in loops : CheckedIsDue(l)

\* A step that starts no watch gives no watch another context.
LEMMA ContextsKept ==
    ASSUME TypeOK, [Next]_vars, ctxCounter' = ctxCounter, NEW k \in Keys, HasWatch(k)'
    PROVE  HasWatch(k) /\ watches'[k].ctx = watches[k].ctx
<1> USE DEF HasWatch, TypeOK
<1>1. ASSUME NEW c \in Callers, NEW j \in Keys, StartWatch(c, j)
      PROVE  HasWatch(k) /\ watches'[k].ctx = watches[k].ctx
  <2>1. JoinWatch(c, j)
    BY <1>1 DEF StartWatch, RestartWatch, FirstWatch
  <2> QED
    BY <2>1 DEF JoinWatch, WatchRef
<1>2. ASSUME NEW c \in Callers, NEW j \in Keys, StopWatch(c, j)
      PROVE  HasWatch(k) /\ watches'[k].ctx = watches[k].ctx
  <2>1. CASE ~HasWatch(j)
    BY <1>2, <2>1 DEF StopWatch, DropReference
  <2>2. CASE HasWatch(j) /\ watches[j].refCount = 1
    <3>1. watches' = [watches EXCEPT ![j] =
                       [@ EXCEPT !.refCount = 0, !.lastActive = activeSeq + 1]]
      BY <1>2, <2>2 DEF StopWatch, DropReference, ScheduleCleanup
    <3> QED
      BY <2>2, <3>1 DEF WatchRef
  <2>3. CASE HasWatch(j) /\ watches[j].refCount # 1
    <3>1. watches' = [watches EXCEPT ![j].refCount = IF @ <= 0 THEN @ ELSE @ - 1]
      BY <1>2, <2>3 DEF StopWatch, DropReference
    <3> QED
      BY <2>3, <3>1 DEF WatchRef
  <2> QED
    BY <2>1, <2>2, <2>3
<1>3. ASSUME NEW t \in timers, GraceExpired(t)
      PROVE  HasWatch(k) /\ watches'[k].ctx = watches[k].ctx
  BY <1>3 DEF GraceExpired, Drop
<1>4. ASSUME NEW j \in Keys, NEW ctx \in 1..ctxCounter, MarkStopped(j, ctx)
      PROVE  HasWatch(k) /\ watches'[k].ctx = watches[k].ctx
  BY <1>4 DEF MarkStopped, WatchRef
<1>5. ASSUME NEW cl \in Clusters, StopAllPrefix(cl)
      PROVE  HasWatch(k) /\ watches'[k].ctx = watches[k].ctx
  BY <1>5 DEF StopAllPrefix, Drop
<1>6. ASSUME NEW r \in callbacks, RunCallback(r)
      PROVE  HasWatch(k) /\ watches'[k].ctx = watches[k].ctx
  BY <1>6 DEF RunCallback
<1>7. CASE Shutdown
  BY <1>7 DEF Shutdown
<1>8. CASE UNCHANGED vars
  BY <1>8 DEF vars
<1> QED
  BY <1>1, <1>2, <1>3, <1>4, <1>5, <1>6, <1>7, <1>8 DEF Next

\* A step that starts a watch gives it, and no other, the next context.
LEMMA NextContext ==
    ASSUME TypeOK, NEW c \in Callers, NEW j \in Keys, StartWatch(c, j),
           ctxCounter' # ctxCounter
    PROVE  /\ ctxCounter' = ctxCounter + 1
           /\ \A k \in Keys :
                HasWatch(k)' => IF k = j THEN watches'[k].ctx = ctxCounter'
                                ELSE HasWatch(k) /\ watches'[k] = watches[k]
<1> USE DEF HasWatch, TypeOK
<1>1. CASE JoinWatch(c, j)
  BY <1>1 DEF JoinWatch
<1>2. CASE RestartWatch(c, j)
  BY <1>2 DEF RestartWatch, WatchRef
<1>3. CASE FirstWatch(c, j)
  BY <1>3 DEF FirstWatch, Drop, FreshWatch
<1> QED
  BY <1>1, <1>2, <1>3 DEF StartWatch

\* What the service does with its topics is, for the manager, one of its steps.
LEMMA TopicStepIsManagers ==
    ASSUME TopicTypeOK, ContextsCounted, [TopicNext]_allvars
    PROVE  [Next]_vars
<1> USE DEF Next
<1>1. ASSUME NEW c \in Callers, NEW k \in Keys, Subscribe(c, k) \/ Unsubscribe(c, k)
      PROVE  [Next]_vars
  BY <1>1 DEF Subscribe, Unsubscribe
<1>2. ASSUME NEW t \in timers, TimerFires(t)
      PROVE  [Next]_vars
  BY <1>2 DEF TimerFires
<1>3. ASSUME NEW l \in loops, LoopStep(l)
      PROVE  [Next]_vars
  <2>1. CASE LoopGivesUp(l)
    BY <2>1 DEF LoopGivesUp, MarkStopped, HasWatch, ContextsCounted, TopicTypeOK, TypeOK,
                LoopState
  <2> QED
    BY <1>3, <2>1
       DEF LoopStep, LoopExits, LoopStarts, ListBegins, CheckContext, WriteRows,
           ListCompletes, ListFails, WatchEnds, LoopPanics
<1>4. ASSUME NEW r \in callbacks, OnCleanup(r)
      PROVE  [Next]_vars
  BY <1>4 DEF OnCleanup
<1>5. ASSUME NEW cl \in Released, StopAllForCluster(cl)
      PROVE  [Next]_vars
  BY <1>5, ReleasedAssumption DEF StopAllForCluster
<1>6. ASSUME NEW r \in clearing, ClearStopped(r)
      PROVE  [Next]_vars
  BY <1>6 DEF ClearStopped
<1>7. CASE ServiceShutdown
  BY <1>7 DEF ServiceShutdown
<1>8. CASE UNCHANGED allvars
  BY <1>8 DEF allvars
<1> QED
  BY <1>1, <1>2, <1>3, <1>4, <1>5, <1>6, <1>7, <1>8 DEF TopicNext

\* A loop that goes on does so under its own topic and context.
LEMMA BecomeKeeps ==
    ASSUME loops \subseteq LoopState, ContextsCounted, NEW l \in loops,
           NEW m \in LoopState, m.ctx = l.ctx, CheckedIsDue(m), Become(l, m),
           UNCHANGED <<watches, ctxCounter>>
    PROVE  /\ loops' \subseteq LoopState
           /\ ContextsCounted'
           /\ \A x \in loops' : x = m \/ (x \in loops /\ x.ctx # l.ctx)
<1>1. \A x \in loops' : x = m \/ (x \in loops /\ x.ctx # l.ctx)
  BY DEF Become, ContextsCounted
<1>2. loops' \subseteq LoopState
  BY <1>1
<1>3. \A x \in loops' : CheckedIsDue(x)
  BY <1>1 DEF ContextsCounted
<1>4. ContextsCounted'
  BY <1>1, <1>3 DEF ContextsCounted, HasWatch, CheckedIsDue
<1> QED
  BY <1>1, <1>2, <1>4

\* A finished sync is one still.
LEMMA FinishSyncKeeps ==
    ASSUME sync \in [Keys -> SyncStatus \cup {NoSync}], NEW k \in Keys,
           NEW ctx, NEW failed \in BOOLEAN
    PROVE  LET new == FinishSync(k, ctx, failed)
           IN  /\ new \in [Keys -> SyncStatus \cup {NoSync}]
               /\ \A j \in Keys : /\ (new[j] = NoSync) <=> (sync[j] = NoSync)
                                  /\ sync[j] # NoSync => new[j].owner = sync[j].owner
                                  /\ j # k => new[j] = sync[j]
               /\ new[k] # sync[k] => new[k].failed = failed /\ sync[k].owner = ctx
<1> DEFINE s == [sync[k] EXCEPT !.done = TRUE, !.failed = failed]
<1>1. CASE sync[k] # NoSync /\ sync[k].owner = ctx /\ ~sync[k].done
  <2>1. s \in SyncStatus /\ s.owner = sync[k].owner /\ s.failed = failed
    BY <1>1 DEF SyncStatus
  <2>2. FinishSync(k, ctx, failed) = [sync EXCEPT ![k] = s]
    BY <1>1 DEF FinishSync
  <2> HIDE DEF s
  <2> QED
    BY <1>1, <2>1, <2>2, NoSyncAssumption
<1>2. CASE ~(sync[k] # NoSync /\ sync[k].owner = ctx /\ ~sync[k].done)
  BY <1>2 DEF FinishSync
<1> QED
  BY <1>1, <1>2

\* What a loop is after it moved, is checked, or wrote a page.
LEMMA MovedLoop ==
    ASSUME NEW l \in LoopState, NEW p \in 0..Pages, NEW n \in 0..MaxPanicRestarts,
           NEW pc \in {"start", "loop", "listing", "watching"}, NEW b \in BOOLEAN
    PROVE  /\ [l EXCEPT !.pc = pc] \in LoopState
           /\ [l EXCEPT !.pc = pc, !.page = p] \in LoopState
           /\ [l EXCEPT !.pc = pc, !.page = p, !.restarts = n] \in LoopState
           /\ [l EXCEPT !.checked = b] \in LoopState
           /\ [l EXCEPT !.checked = b, !.page = p] \in LoopState
<1>1. [l EXCEPT !.pc = pc] \in LoopState
  BY Zenon DEF LoopState
<1>2. [l EXCEPT !.pc = pc, !.page = p] \in LoopState
  BY Zenon DEF LoopState
<1>3. [l EXCEPT !.pc = pc, !.page = p, !.restarts = n] \in LoopState
  BY Zenon DEF LoopState
<1>4. [l EXCEPT !.checked = b] \in LoopState
  BY Zenon DEF LoopState
<1>5. [l EXCEPT !.checked = b, !.page = p] \in LoopState
  BY Zenon DEF LoopState
<1> QED
  BY <1>1, <1>2, <1>3, <1>4, <1>5

\* A page the loop goes on from: none, the one it was at, or one it just wrote.
PageKept(l, m) ==
    m.pc = "listing" =>
        \/ m.page = 0
        \/ l.pc = "listing" /\ m.page = l.page
        \/ /\ l.pc = "listing" /\ m.page = l.page + 1
           /\ <<l.ctx, m.page>> \in cache'[l.key]

\* A step of a loop ends it, or it goes on for its topic and in its context.
LEMMA LoopGoesOn ==
    ASSUME TopicTypeOK, ContextsCounted, NEW l \in loops, LoopStep(l),
           ~LoopExits(l), ~LoopGivesUp(l)
    PROVE  /\ UNCHANGED <<vars, clearing>>
           /\ \E m \in LoopState : /\ m.key = l.key /\ m.ctx = l.ctx
                                   /\ CheckedIsDue(m) /\ PageKept(l, m)
                                   /\ Become(l, m)
<1> DEFINE Goes(m) == /\ m \in LoopState /\ m.key = l.key /\ m.ctx = l.ctx
                      /\ CheckedIsDue(m) /\ PageKept(l, m) /\ Become(l, m)
<1>0. /\ l \in LoopState /\ l.key \in Keys /\ l.page \in 0..Pages
      /\ l.restarts \in 0..MaxPanicRestarts /\ CheckedIsDue(l) /\ 0 \in 0..Pages
  BY PagesAssumption DEF TopicTypeOK, LoopState, ContextsCounted
<1>1. CASE LoopStarts(l)
  <2> DEFINE m == [l EXCEPT !.pc = "loop"]
  <2>1. m \in LoopState
    BY <1>0, MovedLoop
  <2>2. m.key = l.key /\ m.ctx = l.ctx /\ m.pc = "loop" /\ ~m.checked
    BY <1>0, <1>1 DEF LoopStarts, LoopState, CheckedIsDue
  <2>3. Become(l, m)
    BY <1>1 DEF LoopStarts
  <2> HIDE DEF m
  <2>4. Goes(m)
    BY <2>1, <2>2, <2>3 DEF CheckedIsDue, PageKept
  <2> QED
    BY <1>1, <2>4 DEF LoopStarts
<1>2. CASE ListBegins(l)
  <2> DEFINE m == [l EXCEPT !.pc = "listing", !.page = 0]
  <2>1. m \in LoopState
    BY <1>0, MovedLoop
  <2>2. m.key = l.key /\ m.ctx = l.ctx /\ m.page = 0 /\ ~m.checked
    BY <1>0, <1>2 DEF ListBegins, LoopState, CheckedIsDue
  <2>3. Become(l, m)
    BY <1>2 DEF ListBegins
  <2> HIDE DEF m
  <2>4. Goes(m)
    BY <2>1, <2>2, <2>3 DEF CheckedIsDue, PageKept
  <2> QED
    BY <1>2, <2>4 DEF ListBegins
<1>3. CASE CheckContext(l)
  <2> DEFINE m == [l EXCEPT !.checked = TRUE]
  <2>1. m \in LoopState
    BY <1>0, MovedLoop
  <2>2. m.key = l.key /\ m.ctx = l.ctx /\ m.pc = l.pc /\ m.page = l.page
    BY <1>0 DEF LoopState
  <2>3. Become(l, m)
    BY <1>3 DEF CheckContext
  <2> HIDE DEF m
  <2>4. Goes(m)
    BY <1>3, <2>1, <2>2, <2>3 DEF CheckContext, CheckedIsDue, PageKept
  <2> QED
    BY <1>3, <2>4 DEF CheckContext
<1>4. CASE WriteRows(l) /\ l.pc = "listing"
  <2> DEFINE m == [l EXCEPT !.checked = FALSE, !.page = l.page + 1]
  <2>0. l.page + 1 \in 0..Pages
    BY <1>0, <1>4, PagesAssumption DEF WriteRows, CheckedIsDue
  <2>1. m \in LoopState
    BY <1>0, <2>0, MovedLoop
  <2>2. m.key = l.key /\ m.ctx = l.ctx /\ m.page = l.page + 1 /\ ~m.checked
    BY <1>0 DEF LoopState
  <2>3. Become(l, m) /\ <<l.ctx, l.page + 1>> \in cache'[l.key]
    BY <1>0, <1>4 DEF WriteRows, TopicTypeOK
  <2> HIDE DEF m
  <2>4. Goes(m)
    BY <1>4, <2>1, <2>2, <2>3 DEF CheckedIsDue, PageKept
  <2> QED
    BY <1>4, <2>4 DEF WriteRows
<1>5. CASE WriteRows(l) /\ l.pc # "listing"
  <2> DEFINE m == [l EXCEPT !.checked = FALSE]
  <2>1. m \in LoopState
    BY <1>0, MovedLoop
  <2>2. m.key = l.key /\ m.ctx = l.ctx /\ m.pc = l.pc /\ ~m.checked
    BY <1>0 DEF LoopState
  <2>3. Become(l, m)
    BY <1>5 DEF WriteRows
  <2> HIDE DEF m
  <2>4. Goes(m)
    BY <1>5, <2>1, <2>2, <2>3 DEF CheckedIsDue, PageKept
  <2> QED
    BY <1>5, <2>4 DEF WriteRows
<1>6. CASE ListCompletes(l)
  <2> DEFINE m == [l EXCEPT !.pc = "watching", !.page = 0]
  <2>1. m \in LoopState
    BY <1>0, MovedLoop
  <2>2. m.key = l.key /\ m.ctx = l.ctx /\ m.pc = "watching"
    BY <1>0 DEF LoopState
  <2>3. Become(l, m)
    BY <1>6 DEF ListCompletes
  <2> HIDE DEF m
  <2>4. Goes(m)
    BY <2>1, <2>2, <2>3 DEF CheckedIsDue, PageKept
  <2> QED
    BY <1>6, <2>4 DEF ListCompletes
<1>7. CASE ListFails(l)
  <2> DEFINE m == [l EXCEPT !.pc = "loop", !.page = 0]
  <2>1. m \in LoopState
    BY <1>0, MovedLoop
  <2>2. m.key = l.key /\ m.ctx = l.ctx /\ m.pc = "loop" /\ ~m.checked
    BY <1>0, <1>7 DEF ListFails, LoopState
  <2>3. Become(l, m)
    BY <1>7 DEF ListFails
  <2> HIDE DEF m
  <2>4. Goes(m)
    BY <2>1, <2>2, <2>3 DEF CheckedIsDue, PageKept
  <2> QED
    BY <1>7, <2>4 DEF ListFails
<1>8. CASE WatchEnds(l)
  <2> DEFINE m == [l EXCEPT !.pc = "loop"]
  <2>1. m \in LoopState
    BY <1>0, MovedLoop
  <2>2. m.key = l.key /\ m.ctx = l.ctx /\ m.pc = "loop" /\ ~m.checked
    BY <1>0, <1>8 DEF WatchEnds, LoopState
  <2>3. Become(l, m)
    BY <1>8 DEF WatchEnds
  <2> HIDE DEF m
  <2>4. Goes(m)
    BY <2>1, <2>2, <2>3 DEF CheckedIsDue, PageKept
  <2> QED
    BY <1>8, <2>4 DEF WatchEnds
<1>9. CASE LoopPanics(l)
  <2>0. PICK n \in RestartsSoFar(l) :
          /\ n + 1 < MaxPanicRestarts
          /\ Become(l, [l EXCEPT !.pc = "loop", !.page = 0, !.restarts = n + 1])
    BY <1>9, Zenon DEF LoopPanics
  <2> DEFINE m == [l EXCEPT !.pc = "loop", !.page = 0, !.restarts = n + 1]
  <2>1. n + 1 \in 0..MaxPanicRestarts
    BY <1>0, <2>0, PanicAssumption DEF RestartsSoFar
  <2>2. m \in LoopState
    BY <1>0, <2>1, MovedLoop
  <2>3. m.key = l.key /\ m.ctx = l.ctx /\ m.pc = "loop" /\ ~m.checked
    BY <1>0, <1>9 DEF LoopPanics, LoopState
  <2>4. Become(l, m)
    BY <2>0
  <2> HIDE DEF m
  <2>5. Goes(m)
    BY <2>2, <2>3, <2>4 DEF CheckedIsDue, PageKept
  <2> QED
    BY <1>9, <2>5 DEF LoopPanics
<1> QED
  BY <1>1, <1>2, <1>3, <1>4, <1>5, <1>6, <1>7, <1>8, <1>9 DEF LoopStep

\* A sync begun in a context is one, unfinished, and that context's.
LEMMA PendingIsSync ==
    ASSUME NEW ctx \in Nat
    PROVE  /\ Pending(ctx) \in SyncStatus /\ Pending(ctx) # NoSync
           /\ Pending(ctx).owner = ctx /\ ~Pending(ctx).done
<1>1. Pending(ctx) \in SyncStatus
  BY DEF Pending, SyncStatus
<1> QED
  BY <1>1, NoSyncAssumption DEF Pending

\* What a loop does to the sync states and the rows keeps their shape.
LEMMA LoopKeepsShape ==
    ASSUME TopicTypeOK, ContextsCounted, NEW l \in loops, LoopStep(l)
    PROVE  /\ cache' \in [Keys -> SUBSET (Nat \X (1..Pages))]
           /\ sync' \in [Keys -> SyncStatus \cup {NoSync}]
<1>0. /\ cache \in [Keys -> SUBSET (Nat \X (1..Pages))]
      /\ sync \in [Keys -> SyncStatus \cup {NoSync}]
      /\ l.key \in Keys /\ l.ctx \in Nat /\ l.page \in 0..Pages
      /\ Pages \in Nat
  BY PagesAssumption DEF TopicTypeOK, LoopState
<1>1. \A b \in BOOLEAN :
        FinishSync(l.key, l.ctx, b) \in [Keys -> SyncStatus \cup {NoSync}]
  BY <1>0, FinishSyncKeeps
<1>2. [sync EXCEPT ![l.key] = Pending(l.ctx)] \in [Keys -> SyncStatus \cup {NoSync}]
  BY <1>0, PendingIsSync
<1>3. [owner |-> l.ctx, done |-> TRUE, failed |-> TRUE] \in SyncStatus
  BY <1>0 DEF SyncStatus
<1>4. CASE UNCHANGED cache
  BY <1>0, <1>1, <1>2, <1>3, <1>4
     DEF LoopStep, LoopExits, LoopStarts, ListBegins, CheckContext, WriteRows,
         ListCompletes, ListFails, WatchEnds, LoopPanics, LoopGivesUp
<1>5. CASE WriteRows(l)
  <2>1. ASSUME NEW p \in 1..Pages,
               cache' = [cache EXCEPT ![l.key] = @ \cup {<<l.ctx, p>>}]
        PROVE  cache' \in [Keys -> SUBSET (Nat \X (1..Pages))]
    BY <1>0, <2>1
  <2>2. l.pc = "listing" => l.page + 1 \in 1..Pages
    BY <1>0, <1>5 DEF WriteRows, ContextsCounted, CheckedIsDue
  <2> QED
    BY <1>0, <1>5, <2>1, <2>2 DEF WriteRows
<1>6. CASE ListCompletes(l)
  BY <1>0, <1>1, <1>6 DEF ListCompletes
<1> QED
  BY <1>4, <1>5, <1>6
     DEF LoopStep, LoopExits, LoopStarts, ListBegins, CheckContext, ListFails,
         WatchEnds, LoopPanics, LoopGivesUp

LEMMA TopicTypeInductive ==
    ASSUME TopicTypeOK, ContextsCounted, [TopicNext]_allvars
    PROVE  TopicTypeOK' /\ ContextsCounted'
<1> USE DEF CheckedIsDue
<1>t. TypeOK' /\ TypeOK /\ loops \subseteq LoopState
  BY TopicStepIsManagers, TypeInductive DEF TopicTypeOK
<1>k. ctxCounter' = ctxCounter
        => \A k \in Keys : HasWatch(k)' => watches'[k].ctx \in 1..ctxCounter'
  BY <1>t, ContextsKept, TopicStepIsManagers DEF ContextsCounted
<1>1. ASSUME NEW c \in Callers, NEW k \in Keys, Subscribe(c, k), ctxCounter' # ctxCounter
      PROVE  TopicTypeOK' /\ ContextsCounted'
  <2>1. /\ ctxCounter' = ctxCounter + 1 /\ ctxCounter \in Nat
        /\ \A j \in Keys :
             HasWatch(j)' => IF j = k THEN watches'[j].ctx = ctxCounter'
                             ELSE HasWatch(j) /\ watches'[j] = watches[j]
    BY <1>1, <1>t, NextContext DEF Subscribe, TypeOK
  <2> DEFINE new == [key |-> k, ctx |-> ctxCounter', pc |-> "start",
                     checked |-> FALSE, page |-> 0, restarts |-> 0]
  <2>2. /\ cache' = [cache EXCEPT ![k] = {}]
        /\ sync' = [sync EXCEPT ![k] = Pending(ctxCounter')]
        /\ loops' = loops \cup {new} /\ clearing' = clearing
    BY <1>1 DEF Subscribe, WatchResources
  <2>3. new \in LoopState /\ new.ctx = ctxCounter' /\ ~new.checked
    BY <2>1, PagesAssumption, PanicAssumption DEF LoopState
  <2>4. Pending(ctxCounter') \in SyncStatus
    BY <2>1, PendingIsSync
  <2> HIDE DEF new
  <2>5. TopicTypeOK'
    BY <1>t, <2>2, <2>3, <2>4 DEF TopicTypeOK
  <2>6. ContextsCounted'
    BY <2>1, <2>2, <2>3 DEF ContextsCounted
  <2> QED
    BY <2>5, <2>6
<1>2. ASSUME ctxCounter' = ctxCounter, UNCHANGED tvars
      PROVE  TopicTypeOK' /\ ContextsCounted'
  BY <1>t, <1>k, <1>2 DEF TopicTypeOK, ContextsCounted, tvars
<1>4. ASSUME NEW l \in loops, LoopStep(l)
      PROVE  TopicTypeOK' /\ ContextsCounted'
  <2>1. /\ cache' \in [Keys -> SUBSET (Nat \X (1..Pages))]
        /\ sync' \in [Keys -> SyncStatus \cup {NoSync}]
    BY <1>4, LoopKeepsShape
  <2>2. CASE LoopExits(l) \/ LoopGivesUp(l)
    <3>1. loops' \subseteq loops /\ UNCHANGED <<clearing, ctxCounter>>
      BY <2>2 DEF LoopExits, LoopGivesUp, MarkStopped, vars
    <3> QED
      BY <1>t, <1>k, <2>1, <3>1 DEF TopicTypeOK, ContextsCounted
  <2>3. CASE ~LoopExits(l) /\ ~LoopGivesUp(l)
    <3>1. UNCHANGED <<vars, clearing>> /\ UNCHANGED <<watches, ctxCounter>>
      BY <1>4, <2>3, LoopGoesOn DEF vars
    <3>2. PICK m \in LoopState : m.ctx = l.ctx /\ CheckedIsDue(m) /\ Become(l, m)
      BY <1>4, <2>3, LoopGoesOn
    <3>3. loops' \subseteq LoopState /\ ContextsCounted'
      BY <1>t, <3>1, <3>2, BecomeKeeps
    <3> QED
      BY <1>t, <2>1, <3>1, <3>3 DEF TopicTypeOK
  <2> QED
    BY <2>2, <2>3
<1>5. ASSUME NEW r \in callbacks, OnCleanup(r)
      PROVE  TopicTypeOK' /\ ContextsCounted'
  <2>1. UNCHANGED <<loops, clearing, watches, ctxCounter>> /\ r.key \in Keys
    BY <1>5, <1>t DEF OnCleanup, RunCallback, TypeOK, Removed
  <2>2. /\ cache' \in [Keys -> SUBSET (Nat \X (1..Pages))]
        /\ sync' \in [Keys -> SyncStatus \cup {NoSync}]
    BY <1>5, <2>1 DEF OnCleanup, ClearTopic, TopicTypeOK
  <2> QED
    BY <1>t, <2>1, <2>2 DEF TopicTypeOK, ContextsCounted, HasWatch
<1>6. ASSUME NEW cl \in Clusters, StopAllForCluster(cl)
      PROVE  TopicTypeOK' /\ ContextsCounted'
  <2>1. UNCHANGED <<cache, sync, loops, ctxCounter>>
    BY <1>6 DEF StopAllForCluster, StopAllPrefix
  <2>2. RemovedFrom(watches, StoppedByPrefix(cl)) \subseteq Removed
    BY <1>t DEF RemovedFrom, Removed, StoppedByPrefix, Idle, Present, TypeOK,
                WatchRef
  <2> QED
    BY <1>t, <1>k, <1>6, <2>1, <2>2
       DEF TopicTypeOK, ContextsCounted, StopAllForCluster
<1>7. ASSUME NEW r \in clearing, ClearStopped(r)
      PROVE  TopicTypeOK' /\ ContextsCounted'
  <2>1. r.key \in Keys
    BY DEF TopicTypeOK, Removed
  <2> QED
    BY <1>t, <1>7, <2>1
       DEF TopicTypeOK, ContextsCounted, HasWatch, ClearStopped, ClearTopic, vars
<1>8. ASSUME NEW c \in Callers, NEW k \in Keys, Subscribe(c, k)
      PROVE  TopicTypeOK' /\ ContextsCounted'
  BY <1>1, <1>2, <1>8 DEF Subscribe, tvars
<1>9. ASSUME NEW c \in Callers, NEW k \in Keys, Unsubscribe(c, k)
      PROVE  TopicTypeOK' /\ ContextsCounted'
  BY <1>2, <1>9 DEF Unsubscribe, StopWatch
<1>10. ASSUME NEW t \in timers, TimerFires(t)
       PROVE  TopicTypeOK' /\ ContextsCounted'
  BY <1>2, <1>10 DEF TimerFires, GraceExpired
<1>11. CASE ServiceShutdown \/ UNCHANGED allvars
  BY <1>2, <1>11 DEF ServiceShutdown, Shutdown, allvars, vars
<1> QED
  BY <1>4, <1>5, <1>6, <1>7, <1>8, <1>9, <1>10, <1>11, ReleasedAssumption
     DEF TopicNext

\* What every proof about the service begins with.
LEMMA TopicTypeInit == TopicInit => TopicTypeOK /\ ContextsCounted
<1> SUFFICES ASSUME TopicInit PROVE TopicTypeOK /\ ContextsCounted
  OBVIOUS
<1>1. TypeOK
  BY DEF TopicInit, Init, TypeOK, NoCleanup
<1> QED
  BY <1>1 DEF TopicInit, Init, TopicTypeOK, ContextsCounted, HasWatch

\* The service's state keeps its shape, and what is proved of the manager alone
\* holds of the manager the service uses: references, watches and cleanups agree
\* whatever loops, clean-ups and tab closes do.
THEOREM ServiceKeepsWatches == TopicSpec => [](TopicTypeOK /\ WatchesAreKept)
<1>1. TopicInit => TopicTypeOK /\ ContextsCounted /\ RefsMatchHolders /\ ReclaimInv
  <2> SUFFICES ASSUME TopicInit
               PROVE  RefsMatchHolders /\ ReclaimInv
    BY TopicTypeInit
  <2> QED
    BY DEF TopicInit, Init, RefsMatchHolders, HoldersOf, HasWatch, ReclaimInv,
           TimersDistinct, NoStrayCleanup, IdleWatchIsReclaimed, Idle, Present
<1>2. /\ TopicTypeOK /\ ContextsCounted /\ RefsMatchHolders /\ ReclaimInv
      /\ [TopicNext]_allvars
      => TopicTypeOK' /\ ContextsCounted' /\ RefsMatchHolders' /\ ReclaimInv'
  <2> SUFFICES ASSUME TopicTypeOK, ContextsCounted, RefsMatchHolders, ReclaimInv,
                      [TopicNext]_allvars
               PROVE  /\ TopicTypeOK' /\ ContextsCounted'
                      /\ RefsMatchHolders' /\ ReclaimInv'
    OBVIOUS
  <2>1. [Next]_vars /\ TypeOK /\ TypeOK' /\ TopicTypeOK' /\ ContextsCounted'
    BY TopicStepIsManagers, TopicTypeInductive DEF TopicTypeOK
  <2>2. RefsMatchHolders'
    BY <2>1, RefsInductive
  <2>3. ReclaimInv'
    BY <2>1, ReclaimInductive
  <2> QED
    BY <2>1, <2>2, <2>3
<1>3. RefsMatchHolders /\ ReclaimInv => WatchesAreKept
  BY DEF ReclaimInv, WatchesAreKept
<1> QED
  BY <1>1, <1>2, <1>3, PTL DEF TopicSpec

---------------------------------------------------------------------------
\* The watch of k is there, or its clean-up is still to come.
Kept(k) == HasWatch(k) \/ \E r \in callbacks \cup clearing : r.key = k

\* A started watch is in the table, or was evicted at once with its clean-up to
\* come; so is every other watch there was.
LEMMA StartKeeps ==
    ASSUME TypeOK, NEW c \in Callers, NEW j \in Keys, StartWatch(c, j),
           NEW k \in Keys, HasWatch(k) \/ k = j
    PROVE  HasWatch(k)' \/ \E r \in callbacks' : r.key = k
<1>0. activeSeq + 1 \in Nat /\ ctxCounter + 1 \in Nat
  BY DEF TypeOK
<1>1. CASE JoinWatch(c, j)
  <2> DEFINE new == [watches[j] EXCEPT !.refCount = watches[j].refCount + 1,
                                       !.lastActive = activeSeq + 1]
  <2>1. watches' = [watches EXCEPT ![j] = new]
    BY <1>1, Zenon DEF JoinWatch
  <2>2. watches[j] \in WatchRef
    BY <1>1 DEF JoinWatch, HasWatch, TypeOK
  <2>3. new # NoWatch
    BY <1>0, <2>2, JoinedRef
  <2> HIDE DEF new
  <2> QED
    BY <2>1, <2>3 DEF HasWatch, TypeOK
<1>2. CASE RestartWatch(c, j)
  <2> DEFINE new == [watches[j] EXCEPT !.ctx = ctxCounter + 1, !.stopped = FALSE,
                       !.refCount = watches[j].refCount + 1,
                       !.generation = watches[j].generation + 1,
                       !.lastActive = activeSeq + 1]
  <2>1. watches' = [watches EXCEPT ![j] = new]
    BY <1>2, Zenon DEF RestartWatch
  <2>2. watches[j] \in WatchRef
    BY <1>2 DEF RestartWatch, HasWatch, TypeOK
  <2>3. new # NoWatch
    BY <1>0, <2>2, RestartedRef
  <2> HIDE DEF new
  <2> QED
    BY <2>1, <2>3 DEF HasWatch, TypeOK
<1>3. CASE FirstWatch(c, j)
  <2> DEFINE w == [watches EXCEPT ![j] = FreshWatch]
  <2>1. /\ watches' = Drop(w, Evicted(w))
        /\ callbacks' = callbacks \cup RemovedFrom(w, Evicted(w))
    BY <1>3 DEF FirstWatch
  <2>2. w[k] # NoWatch
    BY FreshRef DEF TypeOK, HasWatch
  <2> HIDE DEF w
  <2>3. CASE k \in Evicted(w)
    <3>1. [key |-> k, ctx |-> w[k].ctx] \in callbacks'
      BY <2>1, <2>3 DEF RemovedFrom
    <3> QED
      BY <3>1
  <2>4. CASE k \notin Evicted(w)
    BY <2>1, <2>2, <2>4 DEF Drop, HasWatch
  <2> QED
    BY <2>3, <2>4
<1> QED
  BY <1>1, <1>2, <1>3 DEF StartWatch

\* Neither a reference given back nor a loop that gives up takes a watch away.
LEMMA StopKeeps ==
    ASSUME TypeOK, NEW k \in Keys, HasWatch(k),
           \/ \E c \in Callers, j \in Keys : StopWatch(c, j)
           \/ \E j \in Keys, ctx \in Nat : MarkStopped(j, ctx)
    PROVE  HasWatch(k)'
<1>0. activeSeq + 1 \in Nat
  BY DEF TypeOK
<1>1. ASSUME NEW c \in Callers, NEW j \in Keys, StopWatch(c, j)
      PROVE  HasWatch(k)'
  <2>1. CASE ~HasWatch(j)
    BY <1>1, <2>1 DEF StopWatch, DropReference, HasWatch
  <2>2. CASE HasWatch(j) /\ watches[j].refCount = 1
    <3> DEFINE new == [watches[j] EXCEPT !.refCount = 0,
                                         !.lastActive = activeSeq + 1]
    <3>1. watches' = [watches EXCEPT ![j] = new]
      BY <1>1, <2>2, Zenon DEF StopWatch, DropReference, ScheduleCleanup
    <3>2. watches[j] \in WatchRef
      BY <2>2 DEF HasWatch, TypeOK
    <3>3. new # NoWatch
      BY <1>0, <3>2, IdledRef
    <3> HIDE DEF new
    <3> QED
      BY <3>1, <3>3 DEF HasWatch, TypeOK
  <2>3. CASE HasWatch(j) /\ watches[j].refCount # 1
    <3> DEFINE n == IF watches[j].refCount <= 0 THEN watches[j].refCount
                    ELSE watches[j].refCount - 1
               new == [watches[j] EXCEPT !.refCount = n]
    <3>1. watches' = [watches EXCEPT ![j] = new]
      BY <1>1, <2>3 DEF StopWatch, DropReference
    <3>2. watches[j] \in WatchRef
      BY <2>3 DEF HasWatch, TypeOK
    <3>3. n \in Nat
      BY <3>2 DEF WatchRef
    <3> HIDE DEF n
    <3>4. new # NoWatch
      BY <3>2, <3>3, CountedRef
    <3> HIDE DEF new
    <3> QED
      BY <3>1, <3>4 DEF HasWatch, TypeOK
  <2> QED
    BY <2>1, <2>2, <2>3
<1>2. ASSUME NEW j \in Keys, NEW ctx \in Nat, MarkStopped(j, ctx)
      PROVE  HasWatch(k)'
  <2> DEFINE new == [watches[j] EXCEPT !.stopped = TRUE]
  <2>1. watches' = [watches EXCEPT ![j] = new]
    BY <1>2 DEF MarkStopped
  <2>2. watches[j] \in WatchRef
    BY <1>2 DEF MarkStopped, HasWatch, TypeOK
  <2>3. new \in WatchRef
    BY <2>2, Zenon DEF WatchRef
  <2> HIDE DEF new
  <2> QED
    BY <2>1, <2>3, NoWatchAssumption DEF HasWatch, TypeOK
<1> QED
  BY <1>1, <1>2

\* A sync state is of a watch, or of one whose clean-up is still to come.
LEMMA OrphansInductive ==
    ASSUME TopicTypeOK, ContextsCounted, NoOrphanSync, [TopicNext]_allvars
    PROVE  NoOrphanSync'
<1> SUFFICES ASSUME ~down', NEW k \in Keys, sync'[k] # NoSync
             PROVE  Kept(k)'
  BY DEF NoOrphanSync, Kept
<1> USE DEF Kept
<1>0. ~down /\ TypeOK /\ (sync[k] # NoSync => Kept(k))
  <2>1. ~down
    BY TopicStepIsManagers
       DEF Next, vars, StartWatch, StopWatch, GraceExpired, MarkStopped,
           StopAllPrefix, RunCallback, Shutdown
  <2> QED
    BY <2>1 DEF NoOrphanSync, TopicTypeOK
<1>1. ASSUME NEW c \in Callers, NEW j \in Keys, Subscribe(c, j)
      PROVE  Kept(k)'
  <2>1. HasWatch(k) \/ k = j => HasWatch(k)' \/ \E r \in callbacks' : r.key = k
    BY <1>0, <1>1, StartKeeps DEF Subscribe
  <2>2. k # j => sync'[k] = sync[k]
    BY <1>1 DEF Subscribe, WatchResources, TopicTypeOK
  <2>3. callbacks \subseteq callbacks' /\ clearing' = clearing
    BY <1>1 DEF Subscribe, StartWatch, JoinWatch, RestartWatch, FirstWatch
  <2> QED
    BY <1>0, <2>1, <2>2, <2>3
<1>2. ASSUME NEW c \in Callers, NEW j \in Keys, Unsubscribe(c, j)
      PROVE  Kept(k)'
  <2>1. HasWatch(k) => HasWatch(k)'
    BY <1>0, <1>2, StopKeeps DEF Unsubscribe
  <2> QED
    BY <1>0, <1>2, <2>1 DEF Unsubscribe, StopWatch, tvars
<1>3. ASSUME NEW t \in timers, TimerFires(t)
      PROVE  Kept(k)'
  <2>1. CASE t.key = k /\ watches' # watches
    <3>1. [key |-> k, ctx |-> watches[k].ctx] \in callbacks'
      BY <1>3, <2>1 DEF TimerFires, GraceExpired, RemovedFrom
    <3> QED
      BY <3>1
  <2>2. CASE t.key # k \/ watches' = watches
    BY <1>0, <1>3, <2>2 DEF TimerFires, GraceExpired, tvars, Drop, HasWatch
  <2> QED
    BY <2>1, <2>2
<1>4. ASSUME NEW l \in loops, LoopStep(l)
      PROVE  Kept(k)'
  <2>1. /\ callbacks' = callbacks /\ clearing' = clearing
        /\ HasWatch(k) => HasWatch(k)'
    <3>1. CASE LoopGivesUp(l)
      <4>1. MarkStopped(l.key, l.ctx) /\ l.key \in Keys /\ l.ctx \in Nat
        BY <3>1 DEF LoopGivesUp, TopicTypeOK, LoopState
      <4> QED
        BY <1>0, <3>1, <4>1, StopKeeps DEF LoopGivesUp, MarkStopped
    <3>2. CASE ~LoopGivesUp(l)
      <4>1. UNCHANGED <<vars, clearing>>
        BY <1>4, <3>2, LoopGoesOn DEF LoopExits
      <4> QED
        BY <4>1 DEF vars, HasWatch
    <3> QED
      BY <3>1, <3>2
  <2>2. sync[k] # NoSync \/ (k = l.key /\ HasWatch(k))
    <3>1. /\ l.key \in Keys /\ sync \in [Keys -> SyncStatus \cup {NoSync}]
          /\ \A b \in BOOLEAN :
               (FinishSync(l.key, l.ctx, b)[k] = NoSync) <=> (sync[k] = NoSync)
      BY FinishSyncKeeps DEF TopicTypeOK, LoopState
    <3> QED
      BY <1>4, <3>1
         DEF LoopStep, LoopExits, LoopStarts, ListBegins, CheckContext, WriteRows,
             ListCompletes, ListFails, WatchEnds, LoopPanics, LoopGivesUp,
             MarkStopped, Cancelled
  <2> QED
    BY <1>0, <2>1, <2>2
<1>5. ASSUME NEW r \in callbacks, OnCleanup(r)
      PROVE  Kept(k)'
  <2>1. HasWatch(k)' = HasWatch(k) /\ callbacks' = callbacks \ {r} /\ clearing' = clearing
    BY <1>5 DEF OnCleanup, RunCallback, HasWatch
  <2>2. r.key = k => HasWatch(k)
    BY <1>5 DEF OnCleanup, ClearTopic, TopicTypeOK
  <2>3. sync[k] # NoSync
    BY <1>5 DEF OnCleanup, ClearTopic, TopicTypeOK
  <2> QED
    BY <1>0, <2>1, <2>2, <2>3
<1>6. ASSUME NEW cl \in Clusters, StopAllForCluster(cl)
      PROVE  Kept(k)'
  <2>1. CASE k \in StoppedByPrefix(cl)
    <3>1. [key |-> k, ctx |-> watches[k].ctx] \in clearing'
      BY <1>6, <2>1 DEF StopAllForCluster, RemovedFrom
    <3> QED
      BY <3>1
  <2>2. CASE k \notin StoppedByPrefix(cl)
    BY <1>0, <1>6, <2>2 DEF StopAllForCluster, StopAllPrefix, Drop, HasWatch
  <2> QED
    BY <2>1, <2>2
<1>7. ASSUME NEW r \in clearing, ClearStopped(r)
      PROVE  Kept(k)'
  <2>1. r.key # k
    BY <1>7 DEF ClearStopped, ClearTopic, TopicTypeOK
  <2>2. sync'[k] = sync[k] /\ HasWatch(k)' = HasWatch(k)
        /\ callbacks' = callbacks /\ clearing' = clearing \ {r}
    BY <1>7, <2>1 DEF ClearStopped, ClearTopic, TopicTypeOK, vars, HasWatch
  <2> QED
    BY <1>0, <2>1, <2>2
<1>8. CASE ServiceShutdown \/ UNCHANGED allvars
  BY <1>0, <1>8 DEF ServiceShutdown, Shutdown, allvars, vars, tvars, HasWatch
<1> QED
  BY <1>1, <1>2, <1>3, <1>4, <1>5, <1>6, <1>7, <1>8, ReleasedAssumption
     DEF TopicNext

---------------------------------------------------------------------------
(***************************************************************************)
(* When no cluster is released, what a topic keeps is its watch's: the     *)
(* sync state, and the rows of what its loop has listed.                   *)
(***************************************************************************)
SyncOwned ==
    \A k \in Keys :
        HasWatch(k) => sync[k] # NoSync /\ sync[k].owner = watches[k].ctx

SyncedHolds ==
    \A k \in Keys :
        HasWatch(k) /\ sync[k].done /\ ~sync[k].failed
          => {watches[k].ctx} \X (1..Pages) \subseteq cache[k]

ListedSoFar ==
    \A l \in loops :
        l.pc = "listing" /\ ~Cancelled(l)
          => {l.ctx} \X (1..l.page) \subseteq cache[l.key]

ReplayInv == clearing = {} /\ SyncOwned /\ SyncedHolds /\ ListedSoFar

\* A loop once cancelled stays so: its context is never handed out again.
LEMMA CancelledStays ==
    ASSUME TopicTypeOK, ContextsCounted, [Next]_vars, NEW l \in loops,
           \/ ctxCounter' = ctxCounter
           \/ \E c \in Callers, j \in Keys : StartWatch(c, j),
           Cancelled(l)
    PROVE  Cancelled(l)'
<1>1. l.key \in Keys /\ TypeOK /\ l.ctx \in 1..ctxCounter /\ ctxCounter \in Nat
  BY DEF TopicTypeOK, TypeOK, LoopState, ContextsCounted
<1>2. CASE ctxCounter' = ctxCounter
  BY <1>1, <1>2, ContextsKept DEF Cancelled
<1>3. ASSUME NEW c \in Callers, NEW j \in Keys, StartWatch(c, j),
             ctxCounter' # ctxCounter
      PROVE  Cancelled(l)'
  <2>1. /\ ctxCounter' = ctxCounter + 1
        /\ HasWatch(l.key)' =>
             IF l.key = j THEN watches'[l.key].ctx = ctxCounter'
             ELSE HasWatch(l.key) /\ watches'[l.key] = watches[l.key]
    BY <1>1, <1>3, NextContext
  <2> QED
    BY <1>1, <2>1 DEF Cancelled
<1> QED
  BY <1>2, <1>3

\* A step of the manager that starts no watch, and leaves the rows and syncs of
\* the topics that have one alone.
LEMMA ReplayKept ==
    ASSUME TopicTypeOK, ContextsCounted, ReplayInv, [Next]_vars,
           ctxCounter' = ctxCounter, UNCHANGED clearing,
           loops' \subseteq loops,
           \A k \in Keys : HasWatch(k)' => cache'[k] = cache[k] /\ sync'[k] = sync[k]
    PROVE  ReplayInv'
<1>1. \A k \in Keys :
        HasWatch(k)' => HasWatch(k) /\ watches'[k].ctx = watches[k].ctx
  BY ContextsKept DEF TopicTypeOK
<1>2. SyncOwned' /\ SyncedHolds'
  BY <1>1 DEF ReplayInv, SyncOwned, SyncedHolds
<1>3. ASSUME NEW l \in loops', l.pc = "listing", ~Cancelled(l)'
      PROVE  {l.ctx} \X (1..l.page) \subseteq cache'[l.key]
  <2>1. l.key \in Keys /\ ~Cancelled(l) /\ HasWatch(l.key)'
    BY <1>3, CancelledStays DEF TopicTypeOK, LoopState, Cancelled
  <2> QED
    BY <1>3, <2>1 DEF ReplayInv, ListedSoFar
<1> QED
  BY <1>2, <1>3 DEF ReplayInv, ListedSoFar

LEMMA ReplayInductive ==
    ASSUME Released = {}, TopicTypeOK, ContextsCounted, ReplayInv,
           [TopicNext]_allvars
    PROVE  ReplayInv'
<1>0. /\ TypeOK /\ [Next]_vars
      /\ cache \in [Keys -> SUBSET (Nat \X (1..Pages))]
      /\ sync \in [Keys -> SyncStatus \cup {NoSync}]
  BY TopicStepIsManagers DEF TopicTypeOK
<1>1. ASSUME NEW c \in Callers, NEW k \in Keys, Subscribe(c, k),
             ctxCounter' # ctxCounter
      PROVE  ReplayInv'
  <2>1. /\ ctxCounter' = ctxCounter + 1 /\ ctxCounter \in Nat
        /\ \A j \in Keys :
             HasWatch(j)' => IF j = k THEN watches'[j].ctx = ctxCounter'
                             ELSE HasWatch(j) /\ watches'[j] = watches[j]
    BY <1>0, <1>1, NextContext DEF Subscribe, TypeOK
  <2> DEFINE new == [key |-> k, ctx |-> ctxCounter', pc |-> "start",
                     checked |-> FALSE, page |-> 0, restarts |-> 0]
  <2>2. /\ cache' = [cache EXCEPT ![k] = {}]
        /\ sync' = [sync EXCEPT ![k] = Pending(ctxCounter')]
        /\ loops' = loops \cup {new} /\ clearing' = clearing
    BY <1>1 DEF Subscribe, WatchResources
  <2>3. /\ Pending(ctxCounter') # NoSync
        /\ Pending(ctxCounter').owner = ctxCounter' /\ ~Pending(ctxCounter').done
    BY <2>1, PendingIsSync
  <2>4. SyncOwned' /\ SyncedHolds'
    BY <1>0, <2>1, <2>2, <2>3 DEF ReplayInv, SyncOwned, SyncedHolds
  <2>5. ASSUME NEW l \in loops', l.pc = "listing", ~Cancelled(l)'
        PROVE  {l.ctx} \X (1..l.page) \subseteq cache'[l.key]
    <3>1. l \in loops
      BY <2>2, <2>5
    <3>2. l.key \in Keys /\ l.ctx \in 1..ctxCounter
      BY <3>1 DEF TopicTypeOK, LoopState, ContextsCounted
    <3>3. ~Cancelled(l)
      BY <1>0, <1>1, <2>5, <3>1, CancelledStays DEF Subscribe
    <3>4. l.key # k
      BY <2>1, <2>5, <3>2 DEF Cancelled
    <3> QED
      BY <1>0, <2>2, <2>5, <3>1, <3>2, <3>3, <3>4 DEF ReplayInv, ListedSoFar
  <2> HIDE DEF new
  <2> QED
    BY <2>2, <2>4, <2>5 DEF ReplayInv, ListedSoFar
<1>2. ASSUME ctxCounter' = ctxCounter, UNCHANGED tvars
      PROVE  ReplayInv'
  BY <1>0, <1>2, ReplayKept DEF tvars
<1>3. ASSUME NEW r \in callbacks, OnCleanup(r)
      PROVE  ReplayInv'
  <2>1. UNCHANGED <<loops, clearing, ctxCounter, watches>>
    BY <1>3 DEF OnCleanup, RunCallback
  <2>2. \A k \in Keys :
          HasWatch(k)' => cache'[k] = cache[k] /\ sync'[k] = sync[k]
    BY <1>0, <1>3, <2>1 DEF OnCleanup, ClearTopic, HasWatch
  <2> QED
    BY <1>0, <2>1, <2>2, ReplayKept
<1>4. ASSUME NEW l \in loops, LoopStep(l)
      PROVE  ReplayInv'
  <2>1. /\ l \in LoopState /\ l.key \in Keys /\ l.ctx \in Nat
        /\ l.page \in 0..Pages /\ Pages \in Nat
    BY PagesAssumption DEF TopicTypeOK, LoopState
  <2>2. SyncOwned /\ SyncedHolds /\ ListedSoFar /\ clearing = {}
    BY DEF ReplayInv
  <2>3. CASE LoopGivesUp(l)
    <3> DEFINE s == [owner |-> l.ctx, done |-> TRUE, failed |-> TRUE]
    <3>1. /\ loops' \subseteq loops /\ UNCHANGED <<cache, clearing, ctxCounter>>
          /\ sync' = [sync EXCEPT ![l.key] = s]
          /\ watches[l.key].ctx = l.ctx
      BY <2>3 DEF LoopGivesUp, MarkStopped
    <3>2. s \in SyncStatus /\ s.owner = l.ctx /\ s.failed
      BY <2>1 DEF SyncStatus
    <3> HIDE DEF s
    <3>3. \A k \in Keys :
            HasWatch(k)' => HasWatch(k) /\ watches'[k].ctx = watches[k].ctx
      BY <1>0, <3>1, ContextsKept
    <3>4. SyncOwned' /\ SyncedHolds'
      BY <1>0, <2>1, <2>2, <3>1, <3>2, <3>3, NoSyncAssumption
         DEF SyncOwned, SyncedHolds
    <3>5. \A x \in loops : Cancelled(x) => Cancelled(x)'
      BY <1>0, <3>1, CancelledStays
    <3> QED
      BY <2>2, <3>1, <3>4, <3>5 DEF ReplayInv, ListedSoFar
  <2>4. CASE ~LoopGivesUp(l)
    <3>1. UNCHANGED <<vars, clearing>>
      BY <1>4, <2>4, LoopGoesOn DEF LoopExits
    <3>2. /\ \A k \in Keys : (HasWatch(k)' <=> HasWatch(k)) /\ watches'[k] = watches[k]
          /\ \A x : Cancelled(x)' <=> Cancelled(x)
      BY <3>1 DEF vars, HasWatch, Cancelled
    <3>3. ASSUME \A k \in Keys : cache[k] \subseteq cache'[k], NEW b \in BOOLEAN,
                 sync' = sync \/ (b /\ sync' = FinishSync(l.key, l.ctx, b))
          PROVE  SyncOwned' /\ SyncedHolds'
      <4>1. \A j \in Keys :
               /\ (FinishSync(l.key, l.ctx, b)[j] = NoSync) <=> (sync[j] = NoSync)
               /\ sync[j] # NoSync
                    => FinishSync(l.key, l.ctx, b)[j].owner = sync[j].owner
               /\ j # l.key => FinishSync(l.key, l.ctx, b)[j] = sync[j]
        BY <1>0, <2>1, FinishSyncKeeps
      <4>0. \/ FinishSync(l.key, l.ctx, b)[l.key] = sync[l.key]
            \/ FinishSync(l.key, l.ctx, b)[l.key].failed = b
        BY <1>0, <2>1, FinishSyncKeeps
      <4>2. SyncOwned'
        BY <2>2, <3>2, <3>3, <4>1 DEF SyncOwned
      <4>3. \A k \in Keys : sync'[k] = sync[k] \/ sync'[k].failed
        BY <2>1, <3>3, <4>0, <4>1
      <4>4. SyncedHolds'
        BY <2>2, <3>2, <3>3, <4>3 DEF SyncedHolds
      <4> QED
        BY <4>2, <4>4
    <3>4. /\ SyncOwned' /\ SyncedHolds'
          /\ \A k \in Keys : HasWatch(k) =>
               {r \in cache[k] : r[1] = watches[k].ctx} \subseteq cache'[k]
      <4>1. CASE ListCompletes(l)
        <5>1. /\ cache' = [cache EXCEPT ![l.key] = {r \in @ : r[1] = l.ctx}]
              /\ sync' = FinishSync(l.key, l.ctx, FALSE)
              /\ HasWatch(l.key) /\ watches[l.key].ctx = l.ctx
              /\ {l.ctx} \X (1..Pages) \subseteq cache[l.key]
          BY <2>2, <4>1 DEF ListCompletes, Cancelled, ListedSoFar
        <5>2. {l.ctx} \X (1..Pages) \subseteq cache'[l.key]
          BY <1>0, <2>1, <5>1
        <5>3. \A j \in Keys :
                 /\ (sync'[j] = NoSync) <=> (sync[j] = NoSync)
                 /\ sync[j] # NoSync => sync'[j].owner = sync[j].owner
                 /\ j # l.key => sync'[j] = sync[j]
          <6>1. PICK b \in BOOLEAN : sync' = FinishSync(l.key, l.ctx, b)
            BY <5>1, Zenon
          <6> QED
            BY <1>0, <2>1, <6>1, FinishSyncKeeps
        <5>4. SyncOwned'
          BY <2>2, <3>2, <5>1, <5>3 DEF SyncOwned
        <5>5. \A k \in Keys : k # l.key => cache'[k] = cache[k] /\ sync'[k] = sync[k]
          BY <1>0, <5>1, <5>3
        <5>6. SyncedHolds'
          BY <2>2, <3>2, <5>1, <5>2, <5>5 DEF SyncedHolds
        <5>7. \A k \in Keys : HasWatch(k) =>
                {r \in cache[k] : r[1] = watches[k].ctx} \subseteq cache'[k]
          BY <1>0, <2>1, <5>1
        <5> QED
          BY <5>4, <5>6, <5>7
      <4>2. CASE ListBegins(l)
        <5>1. /\ sync' = [sync EXCEPT ![l.key] = Pending(l.ctx)] /\ cache' = cache
              /\ watches[l.key].ctx = l.ctx
          BY <4>2 DEF ListBegins, Cancelled
        <5>2. /\ Pending(l.ctx) # NoSync /\ Pending(l.ctx).owner = l.ctx
              /\ ~Pending(l.ctx).done
          BY <2>1, PendingIsSync
        <5> QED
          BY <1>0, <2>1, <2>2, <3>2, <5>1, <5>2 DEF SyncOwned, SyncedHolds
      <4>3. CASE WriteRows(l)
        <5>1. sync' = sync /\ \A k \in Keys : cache[k] \subseteq cache'[k]
          BY <1>0, <2>1, <4>3 DEF WriteRows
        <5> QED
          BY <3>3, <5>1
      <4>4. CASE LoopExits(l) \/ ListFails(l)
        <5>1. /\ cache' = cache
              /\ sync' = sync \/ sync' = FinishSync(l.key, l.ctx, TRUE)
          BY <4>4 DEF LoopExits, ListFails
        <5> QED
          BY <3>3, <5>1
      <4>5. CASE UNCHANGED <<cache, sync>>
        BY <3>3, <4>5
      <4> QED
        BY <1>4, <2>4, <4>1, <4>2, <4>3, <4>4, <4>5
           DEF LoopStep, LoopStarts, CheckContext, WatchEnds, LoopPanics
    <3>5. ASSUME NEW x \in loops, x.pc = "listing", ~Cancelled(x)
          PROVE  {x.ctx} \X (1..x.page) \subseteq cache'[x.key]
      <4>1. /\ x.key \in Keys /\ HasWatch(x.key) /\ watches[x.key].ctx = x.ctx
            /\ {x.ctx} \X (1..x.page) \subseteq cache[x.key]
        BY <2>2, <3>5 DEF TopicTypeOK, LoopState, Cancelled, ListedSoFar
      <4> QED
        BY <3>4, <4>1
    <3>6. CASE loops' \subseteq loops
      BY <2>2, <3>1, <3>2, <3>4, <3>5, <3>6 DEF ReplayInv, ListedSoFar
    <3>7. CASE ~LoopExits(l)
      <4>1. PICK m \in LoopState : /\ m.key = l.key /\ m.ctx = l.ctx
                                   /\ CheckedIsDue(m) /\ PageKept(l, m)
                                   /\ Become(l, m)
        BY <1>4, <2>4, <3>7, LoopGoesOn
      <4>2. ASSUME m.pc = "listing", ~Cancelled(m), NEW p \in 1..m.page
            PROVE  <<m.ctx, p>> \in cache'[m.key]
        <5>1. ~Cancelled(l) /\ m.page \in 0..Pages
          BY <4>1, <4>2 DEF Cancelled, LoopState
        <5>2. l.pc = "listing" => \A q \in 1..l.page : <<l.ctx, q>> \in cache'[l.key]
          BY <3>5, <5>1
        <5>3. p \in 1..l.page \/ p = l.page + 1 \/ m.page = 0
          BY <2>1, <4>1, <4>2, <5>1 DEF PageKept
        <5> QED
          BY <2>1, <4>1, <4>2, <5>1, <5>2, <5>3 DEF PageKept
      <4>3. m.pc = "listing" /\ ~Cancelled(m)
              => {m.ctx} \X (1..m.page) \subseteq cache'[m.key]
        BY <4>2
      <4>4. \A x \in loops' : x = m \/ x \in loops
        BY <4>1 DEF Become
      <4>5. ListedSoFar'
        BY <3>2, <3>5, <4>3, <4>4 DEF ListedSoFar
      <4> QED
        BY <2>2, <3>1, <3>4, <4>5 DEF ReplayInv
    <3> QED
      BY <3>6, <3>7 DEF LoopExits
  <2> QED
    BY <2>3, <2>4
<1>5. ASSUME NEW c \in Callers, NEW k \in Keys, Subscribe(c, k)
      PROVE  ReplayInv'
  BY <1>1, <1>2, <1>5 DEF Subscribe, tvars
<1>6. ASSUME NEW c \in Callers, NEW k \in Keys, Unsubscribe(c, k)
      PROVE  ReplayInv'
  BY <1>2, <1>6 DEF Unsubscribe, StopWatch
<1>7. ASSUME NEW t \in timers, TimerFires(t)
      PROVE  ReplayInv'
  BY <1>2, <1>7 DEF TimerFires, GraceExpired
<1>8. CASE ServiceShutdown \/ UNCHANGED allvars
  BY <1>2, <1>8 DEF ServiceShutdown, Shutdown, allvars, vars
<1>9. Released = {} /\ clearing = {}
  BY DEF ReplayInv
<1> QED
  BY <1>3, <1>4, <1>5, <1>6, <1>7, <1>8, <1>9 DEF TopicNext

\* Once the clean-up of a removed watch has run nothing is left of its sync,
\* whatever loops outlive their watches and whatever tabs are closed.
THEOREM NoSyncIsOrphaned == TopicSpec => []NoOrphanSync
<1>1. TopicInit => TopicTypeOK /\ ContextsCounted /\ NoOrphanSync
  BY TopicTypeInit DEF TopicInit, NoOrphanSync
<1>2. TopicTypeOK /\ ContextsCounted /\ NoOrphanSync /\ [TopicNext]_allvars
        => TopicTypeOK' /\ ContextsCounted' /\ NoOrphanSync'
  BY TopicTypeInductive, OrphansInductive
<1> QED
  BY <1>1, <1>2, PTL DEF TopicSpec

\* A replay that goes out as the authoritative snapshot of a topic holds the
\* whole list of the watch now running, and no sync state is left without a
\* watch, when no cluster's tab is closed (StopAllForCluster, which clears after
\* the unlock, is the first of the findings).
THEOREM TopicsAreSound ==
    ASSUME Released = {}
    PROVE  TopicSpec => []TopicIsSound
<1>1. TopicInit => TopicTypeOK /\ ContextsCounted /\ ReplayInv
  BY TopicTypeInit
     DEF TopicInit, Init, ReplayInv, SyncOwned, SyncedHolds, ListedSoFar, HasWatch
<1>2. TopicTypeOK /\ ContextsCounted /\ ReplayInv /\ [TopicNext]_allvars
        => TopicTypeOK' /\ ContextsCounted' /\ ReplayInv'
  BY TopicTypeInductive, ReplayInductive
<1>3. ReplayInv => ReplayHoldsTheList
  BY DEF ReplayInv, SyncOwned, SyncedHolds, ReplayHoldsTheList, Authoritative
<1> QED
  BY <1>1, <1>2, <1>3, NoSyncIsOrphaned, PTL DEF TopicSpec, TopicIsSound
===========================================================================
