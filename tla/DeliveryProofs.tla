--------------------------- MODULE DeliveryProofs ---------------------------
(***************************************************************************)
(* Proofs about what stands between a topic's watch and its subscribers:   *)
(* the passes that list and replay it (TopicPass), the coordinator that    *)
(* catches slow clients up (ResyncCoordinator), what is told of its health *)
(* (TopicHealth), who holds its watch (WatchSubscription) and the batches  *)
(* its events leave in (EventBatcher).  For any bounds, threads,           *)
(* connections, objects and holders.                                       *)
(***************************************************************************)
EXTENDS TopicPass, ResyncCoordinator, TopicHealth, WatchSubscription, EventBatcher,
        TLAPS, FiniteSetTheorems, WellFoundedInduction

(***************************************************************************)
(* TopicPass.  Mutual exclusion rests on the table: every reference is to  *)
(* the one pass in it (RefsAreCurrent), because it leaves the table only   *)
(* with its last reference, which is so because refs counts the threads    *)
(* that have one (RefsCounted).  All threads then meet at one channel.     *)
(***************************************************************************)

RefsAreHeld == \A t \in Threads : HasRef(t) <=> at[t] # 0
RefsAreCurrent == \A t \in Threads : at[t] # 0 => at[t] = current
RefsCounted == \A p \in Passes : refs[p] = Cardinality(Referrers(p))
CurrentIsReferred == current # 0 => \E t \in Threads : at[t] = current
HoldersTake == \A t \in Threads : Holds(t) => taken[at[t]]
TakenIsHeld ==
    \A p \in Passes : taken[p] => \E t \in Threads : Holds(t) /\ at[t] = p
CurrentIsMade == current <= made

IInv ==
    /\ TopicPassTypeOK
    /\ RefsAreHeld
    /\ RefsAreCurrent
    /\ RefsCounted
    /\ CurrentIsReferred
    /\ HoldersTake
    /\ TakenIsHeld
    /\ CurrentIsMade
    /\ OnePassAtATime
    /\ QueuedReplayHasStarter

---------------------------------------------------------------------------
\* The threads that refer to a pass are finitely many.
LEMMA ReferrersFinite ==
    \A p : IsFiniteSet(Referrers(p)) /\ Cardinality(Referrers(p)) \in Nat
<1>1. \A p : Referrers(p) \subseteq Threads
  BY DEF Referrers
<1>2. \A p : IsFiniteSet(Referrers(p))
  BY <1>1, FS_Subset, ThreadsAssumption
<1> QED
  BY <1>2, FS_CardinalityType

\* passFor gives a thread that has no reference one on the pass in the table,
\* and the books stay right.
LEMMA TakeRefKeeps ==
    ASSUME TopicPassTypeOK, RefsAreCurrent, RefsCounted, CurrentIsReferred,
           CurrentIsMade,
           NEW t \in Threads, at[t] = 0, TakeRef(t)
    PROVE  /\ PassFor \in Passes
           /\ at' = [at EXCEPT ![t] = PassFor]
           /\ at'[t] = current'
           /\ current' = PassFor
           /\ at' \in [Threads -> Passes \cup {0}]
           /\ refs' \in [Passes -> Nat]
           /\ current' \in Passes
           /\ made' \in 0 .. MaxPasses
           /\ RefsAreCurrent'
           /\ RefsCounted'
           /\ CurrentIsReferred'
           /\ CurrentIsMade'
<1>1. PassFor \in Passes
  BY BoundsAssumption DEF TakeRef, PassFor, Passes, TopicPassTypeOK
<1>2. /\ at' = [at EXCEPT ![t] = PassFor]
      /\ current' = PassFor
      /\ refs' = [refs EXCEPT ![PassFor] = refs[PassFor] + 1]
  BY DEF TakeRef
<1>3. /\ at' \in [Threads -> Passes \cup {0}]
      /\ refs' \in [Passes -> Nat]
  BY <1>1, <1>2 DEF TopicPassTypeOK
<1>4. made' \in 0 .. MaxPasses /\ CurrentIsMade'
  BY BoundsAssumption DEF TakeRef, PassFor, TopicPassTypeOK, CurrentIsMade,
     Passes
<1>5. at'[t] = PassFor /\ \A s \in Threads \ {t} : at'[s] = at[s]
  BY <1>2 DEF TopicPassTypeOK
<1>6. RefsAreCurrent'
  BY <1>2, <1>5 DEF RefsAreCurrent, PassFor
<1>7. CurrentIsReferred'
  BY <1>2, <1>5 DEF CurrentIsReferred
<1>8. RefsCounted'
  <2> SUFFICES ASSUME NEW p \in Passes
               PROVE  refs'[p] = Cardinality(Referrers(p)')
    BY DEF RefsCounted
  <2>0. 0 \notin Passes
    BY DEF Passes
  <2>1. CASE p = PassFor
    <3>1. Referrers(p)' = Referrers(p) \cup {t}
      BY <1>5, <2>1 DEF Referrers
    <3>2. t \notin Referrers(p)
      BY <2>0 DEF Referrers
    <3>3. Cardinality(Referrers(p)') = Cardinality(Referrers(p)) + 1
      BY <3>1, <3>2, ReferrersFinite, FS_AddElement
    <3>4. refs'[p] = refs[p] + 1
      BY <1>2, <2>1 DEF TopicPassTypeOK
    <3> QED
      BY <3>3, <3>4 DEF RefsCounted
  <2>2. CASE p # PassFor
    <3>1. Referrers(p)' = Referrers(p)
      BY <1>5, <2>0, <2>2 DEF Referrers
    <3>2. refs'[p] = refs[p]
      BY <1>2, <2>2 DEF TopicPassTypeOK
    <3> QED
      BY <3>1, <3>2 DEF RefsCounted
  <2> QED
    BY <2>1, <2>2
<1> QED
  BY <1>1, <1>2, <1>3, <1>4, <1>5, <1>6, <1>7, <1>8

\* releasePass takes a thread's reference away, and the pass off the table
\* exactly when it was the last one.
LEMMA DropRefKeepsBooks ==
    ASSUME TopicPassTypeOK, RefsAreCurrent, RefsCounted, CurrentIsReferred,
           CurrentIsMade,
           NEW t \in Threads, at[t] # 0, DropRef(t)
    PROVE  /\ at' = [at EXCEPT ![t] = 0]
           /\ at' \in [Threads -> Passes \cup {0}]
           /\ refs' \in [Passes -> Nat]
           /\ current' \in Passes \cup {0}
           /\ made' \in 0 .. MaxPasses
           /\ RefsAreCurrent'
           /\ RefsCounted'
           /\ CurrentIsReferred'
           /\ CurrentIsMade'
<1>0. PICK q \in Passes : q = at[t]
  BY DEF TopicPassTypeOK
<1>1. q = current /\ 0 \notin Passes
  BY <1>0 DEF TopicPassTypeOK, RefsAreCurrent, Passes
<1>2. /\ at' = [at EXCEPT ![t] = 0]
      /\ refs' = [refs EXCEPT ![q] = refs[q] - 1]
      /\ current' = IF refs[q] = 1 /\ current = q THEN 0 ELSE current
      /\ made' = made
  BY <1>0 DEF DropRef
<1>3. at'[t] = 0 /\ \A s \in Threads \ {t} : at'[s] = at[s]
  BY <1>2 DEF TopicPassTypeOK
<1>4. t \in Referrers(q)
  BY <1>0 DEF Referrers
<1>5. /\ Referrers(q)' = Referrers(q) \ {t}
      /\ \A p \in Passes : p # q => Referrers(p)' = Referrers(p)
  <2>1. \A s \in Threads : at'[s] = q <=> at[s] = q /\ s # t
    BY <1>0, <1>1, <1>3
  <2>2. \A p \in Passes, s \in Threads : p # q => (at'[s] = p <=> at[s] = p)
    BY <1>0, <1>1, <1>3
  <2> QED
    BY <2>1, <2>2 DEF Referrers
<1>6. Cardinality(Referrers(q)') = Cardinality(Referrers(q)) - 1
  BY <1>4, <1>5, ReferrersFinite, FS_RemoveElement
<1>7. refs[q] = Cardinality(Referrers(q))
  BY <1>1 DEF RefsCounted
<1>8. refs[q] \in Nat /\ refs[q] # 0
  BY <1>1, <1>4, <1>7, ReferrersFinite, FS_EmptySet DEF TopicPassTypeOK
<1>9. refs[q] - 1 \in Nat
  BY <1>8
<1>10. at' \in [Threads -> Passes \cup {0}] /\ refs' \in [Passes -> Nat]
  BY <1>1, <1>2, <1>9 DEF TopicPassTypeOK
<1>11. RefsCounted'
  <2> SUFFICES ASSUME NEW p \in Passes
               PROVE  refs'[p] = Cardinality(Referrers(p)')
    BY DEF RefsCounted
  <2>1. CASE p = q
    BY <1>1, <1>2, <1>6, <1>7, <2>1 DEF TopicPassTypeOK
  <2>2. CASE p # q
    BY <1>2, <1>5, <2>2 DEF RefsCounted, TopicPassTypeOK
  <2> QED
    BY <2>1, <2>2
<1>12. refs[q] = 1 => \A s \in Threads : at[s] = q => s = t
  <2> SUFFICES ASSUME refs[q] = 1, NEW s \in Threads, at[s] = q, s # t
               PROVE  FALSE
    OBVIOUS
  <2>1. Cardinality(Referrers(q)') = 0
    BY <1>6, <1>7
  <2>2. IsFiniteSet(Referrers(q)')
    BY <1>5, ReferrersFinite, FS_RemoveElement
  <2>3. s \in Referrers(q)'
    BY <1>3 DEF Referrers
  <2> QED
    BY <2>1, <2>2, <2>3, FS_EmptySet
<1>13. refs[q] # 1 => \E s \in Threads \ {t} : at[s] = q
  <2> SUFFICES ASSUME refs[q] # 1, \A s \in Threads \ {t} : at[s] # q
               PROVE  FALSE
    OBVIOUS
  <2>1. Referrers(q)' = {}
    BY <1>5 DEF Referrers
  <2>2. Cardinality(Referrers(q)') = 0
    BY <2>1, FS_EmptySet
  <2> QED
    BY <1>6, <1>7, <1>8, <2>2
<1>14. RefsAreCurrent'
  BY <1>1, <1>2, <1>3, <1>12 DEF RefsAreCurrent
<1>15. CurrentIsReferred'
  BY <1>1, <1>2, <1>3, <1>13 DEF CurrentIsReferred
<1>16. CurrentIsMade' /\ current' \in Passes \cup {0} /\ made' \in 0 .. MaxPasses
  BY <1>2 DEF CurrentIsMade, TopicPassTypeOK
<1> QED
  BY <1>2, <1>10, <1>11, <1>14, <1>15, <1>16

---------------------------------------------------------------------------
\* In the initial state there are no references, passes or queued replays.
LEMMA InitEstablishes == Init => IInv
<1> SUFFICES ASSUME Init PROVE IInv
  OBVIOUS
<1>1. TopicPassTypeOK
  BY BoundsAssumption DEF Init, TopicPassTypeOK
<1>2. RefsCounted
  <2>1. \A p \in Passes : Referrers(p) = {}
    BY DEF Init, Referrers, Passes
  <2> QED
    BY <2>1, FS_EmptySet DEF Init, RefsCounted
<1> QED
  BY <1>1, <1>2 DEF IInv, Init, RefsAreHeld, RefsAreCurrent, HasRef, Holds,
     CurrentIsReferred, HoldersTake, TakenIsHeld, CurrentIsMade,
     OnePassAtATime, QueuedReplayHasStarter, Passes

\* A step that leaves references and the table alone keeps their books.
LEMMA BooksUnchanged ==
    ASSUME IInv, UNCHANGED <<at, refs, current, made>>
    PROVE  /\ RefsAreCurrent'
           /\ RefsCounted'
           /\ CurrentIsReferred'
           /\ CurrentIsMade'
BY DEF IInv, RefsAreCurrent, RefsCounted, Referrers, CurrentIsReferred,
   CurrentIsMade

\* Everybody with a reference meets at the pass in the table, and nobody holds
\* a pass whose channel is empty.
LEMMA FreeChannelHasNoHolder ==
    ASSUME IInv, NEW p \in Passes, ~taken[p], p = current \/ current = 0
    PROVE  \A s \in Threads : ~Holds(s)
<1> SUFFICES ASSUME NEW s \in Threads, Holds(s) PROVE FALSE
  OBVIOUS
<1>1. at[s] # 0
  BY DEF IInv, RefsAreHeld, HasRef, Holds
<1>2. at[s] = current
  BY <1>1 DEF IInv, RefsAreCurrent
<1>3. at[s] = p
  BY <1>1, <1>2
<1> QED
  BY <1>3 DEF IInv, HoldersTake

\* lockTopicPass takes its reference.
LEMMA LockTopicPassKeeps ==
    ASSUME IInv, NEW t \in Threads, LockTopicPass(t)
    PROVE  IInv'
<1>1. at[t] = 0
  BY DEF IInv, LockTopicPass, RefsAreHeld, HasRef
<1>2. TakeRef(t)
  BY DEF LockTopicPass
<1>3. /\ pc[t] = "idle" /\ pc' = [pc EXCEPT ![t] = "waiting"]
      /\ calls' = calls + 1
      /\ UNCHANGED <<taken, queued, topic>>
  BY DEF LockTopicPass, Call
<1>4. /\ PassFor \in Passes
      /\ at' = [at EXCEPT ![t] = PassFor]
      /\ at' \in [Threads -> Passes \cup {0}]
      /\ refs' \in [Passes -> Nat]
      /\ current' \in Passes
      /\ made' \in 0 .. MaxPasses
      /\ RefsAreCurrent' /\ RefsCounted' /\ CurrentIsReferred' /\ CurrentIsMade'
  BY <1>1, <1>2, TakeRefKeeps DEF IInv
<1>5. pc \in [Threads -> {"idle", "waiting", "leaving", "holding", "freed",
                          "queuedReplay", "resync", "replay"}]
      /\ at \in [Threads -> Passes \cup {0}]
  BY DEF IInv, TopicPassTypeOK
<1>6. /\ pc'[t] = "waiting" /\ at'[t] = PassFor
      /\ \A s \in Threads \ {t} : pc'[s] = pc[s] /\ at'[s] = at[s]
  BY <1>3, <1>4, <1>5
<1>7. TopicPassTypeOK'
  BY <1>3, <1>4 DEF IInv, TopicPassTypeOK
<1>8. RefsAreHeld'
  BY <1>4, <1>6 DEF IInv, RefsAreHeld, HasRef, Passes
<1>9. HoldersTake' /\ OnePassAtATime'
  BY <1>3, <1>6 DEF IInv, HoldersTake, OnePassAtATime, Holds
<1>10. TakenIsHeld'
  BY <1>1, <1>3, <1>6 DEF IInv, TakenIsHeld, Holds
<1>11. QueuedReplayHasStarter'
  BY <1>1, <1>3, <1>6 DEF IInv, QueuedReplayHasStarter
<1> QED
  BY <1>4, <1>7, <1>8, <1>9, <1>10, <1>11 DEF IInv

\* A waiter that gets the channel is the only holder.
LEMMA AcquireKeeps ==
    ASSUME IInv, NEW t \in Threads, Acquire(t)
    PROVE  IInv'
<1>1. /\ pc[t] = "waiting" /\ ~taken[at[t]]
      /\ taken' = [taken EXCEPT ![at[t]] = TRUE]
      /\ pc' = [pc EXCEPT ![t] = "holding"]
      /\ UNCHANGED <<at, refs, queued, current, made, calls, topic>>
  BY DEF Acquire
<1>2. /\ TopicPassTypeOK
      /\ at[t] \in Passes /\ at[t] = current
  BY <1>1 DEF IInv, RefsAreHeld, RefsAreCurrent, HasRef, TopicPassTypeOK
<1>3. \A s \in Threads : ~Holds(s)
  BY <1>1, <1>2, FreeChannelHasNoHolder
<1>4. pc'[t] = "holding" /\ \A s \in Threads \ {t} : pc'[s] = pc[s]
  BY <1>1, <1>2 DEF TopicPassTypeOK
<1>5. TopicPassTypeOK'
  BY <1>1, <1>2 DEF TopicPassTypeOK
<1>6. RefsAreHeld'
  BY <1>1, <1>4 DEF IInv, RefsAreHeld, HasRef
<1>7. HoldersTake' /\ OnePassAtATime'
  BY <1>1, <1>2, <1>3, <1>4 DEF TopicPassTypeOK, HoldersTake, OnePassAtATime,
     Holds
<1>8. TakenIsHeld'
  BY <1>1, <1>2, <1>3, <1>4 DEF IInv, TopicPassTypeOK, TakenIsHeld, Holds
<1>9. QueuedReplayHasStarter'
  BY <1>1, <1>4 DEF IInv, QueuedReplayHasStarter
<1> QED
  BY <1>1, <1>5, <1>6, <1>7, <1>8, <1>9, BooksUnchanged DEF IInv

\* A waiter that gives up keeps its reference for one step more.
LEMMA GiveUpKeeps ==
    ASSUME IInv, NEW t \in Threads, GiveUp(t)
    PROVE  IInv'
<1>1. /\ pc[t] = "waiting"
      /\ pc' = [pc EXCEPT ![t] = "leaving"]
      /\ UNCHANGED <<at, refs, taken, queued, current, made, calls, topic>>
  BY DEF GiveUp
<1>2. TopicPassTypeOK
  BY DEF IInv
<1>4. pc'[t] = "leaving" /\ \A s \in Threads \ {t} : pc'[s] = pc[s]
  BY <1>1, <1>2 DEF TopicPassTypeOK
<1>5. TopicPassTypeOK'
  BY <1>1, <1>2 DEF TopicPassTypeOK
<1>6. RefsAreHeld'
  BY <1>1, <1>4 DEF IInv, RefsAreHeld, HasRef
<1>7. HoldersTake' /\ OnePassAtATime' /\ TakenIsHeld'
  BY <1>1, <1>4 DEF IInv, HoldersTake, OnePassAtATime, TakenIsHeld, Holds
<1>9. QueuedReplayHasStarter'
  BY <1>1, <1>4 DEF IInv, QueuedReplayHasStarter
<1> QED
  BY <1>1, <1>5, <1>6, <1>7, <1>9, BooksUnchanged DEF IInv

\* One that did not get the topic drops its reference.
LEMMA LeaveKeeps ==
    ASSUME IInv, NEW t \in Threads, Leave(t)
    PROVE  IInv'
<1>1. /\ pc[t] = "leaving" /\ DropRef(t)
      /\ pc' = [pc EXCEPT ![t] = "idle"]
      /\ UNCHANGED <<taken, queued, calls, topic>>
  BY DEF Leave
<1>2. TopicPassTypeOK /\ at[t] # 0
  BY <1>1 DEF IInv, RefsAreHeld, HasRef
<1>3. /\ at' = [at EXCEPT ![t] = 0]
      /\ at' \in [Threads -> Passes \cup {0}]
      /\ refs' \in [Passes -> Nat]
      /\ current' \in Passes \cup {0}
      /\ made' \in 0 .. MaxPasses
      /\ RefsAreCurrent' /\ RefsCounted' /\ CurrentIsReferred' /\ CurrentIsMade'
  BY <1>1, <1>2, DropRefKeepsBooks DEF IInv
<1>4. /\ pc'[t] = "idle" /\ at'[t] = 0
      /\ \A s \in Threads \ {t} : pc'[s] = pc[s] /\ at'[s] = at[s]
  BY <1>1, <1>2, <1>3 DEF TopicPassTypeOK
<1>5. TopicPassTypeOK'
  BY <1>1, <1>2, <1>3 DEF TopicPassTypeOK
<1>6. RefsAreHeld'
  BY <1>4 DEF IInv, RefsAreHeld, HasRef
<1>7. HoldersTake' /\ OnePassAtATime' /\ TakenIsHeld'
  BY <1>1, <1>4 DEF IInv, HoldersTake, OnePassAtATime, TakenIsHeld, Holds
<1>8. QueuedReplayHasStarter'
  BY <1>1, <1>4 DEF IInv, QueuedReplayHasStarter
<1> QED
  BY <1>3, <1>5, <1>6, <1>7, <1>8 DEF IInv

\* The holder empties the channel; it stays to look at the queue.
LEMMA UnlockKeeps ==
    ASSUME IInv, NEW t \in Threads, Unlock(t)
    PROVE  IInv'
<1>1. /\ pc[t] = "holding"
      /\ taken' = [taken EXCEPT ![at[t]] = FALSE]
      /\ pc' = [pc EXCEPT ![t] = "freed"]
      /\ UNCHANGED <<at, refs, queued, current, made, calls, topic>>
  BY DEF Unlock
<1>2. TopicPassTypeOK
  BY DEF IInv
<1>3. \A s \in Threads \ {t} : ~Holds(s)
  BY <1>1 DEF IInv, OnePassAtATime, Holds
<1>4. pc'[t] = "freed" /\ \A s \in Threads \ {t} : pc'[s] = pc[s]
  BY <1>1, <1>2 DEF TopicPassTypeOK
<1>5. TopicPassTypeOK'
  BY <1>1, <1>2 DEF TopicPassTypeOK
<1>6. RefsAreHeld'
  BY <1>1, <1>4 DEF IInv, RefsAreHeld, HasRef
<1>7. \A s \in Threads : ~Holds(s)'
  BY <1>3, <1>4 DEF Holds
<1>8. HoldersTake' /\ OnePassAtATime'
  BY <1>7 DEF HoldersTake, OnePassAtATime
<1>9. TakenIsHeld'
  <2> SUFFICES ASSUME NEW p \in Passes, taken'[p] PROVE FALSE
    BY DEF TakenIsHeld
  <2>1. p # at[t] /\ taken[p]
    BY <1>1, <1>2 DEF TopicPassTypeOK
  <2>2. PICK s \in Threads : Holds(s) /\ at[s] = p
    BY <2>1 DEF IInv, TakenIsHeld
  <2> QED
    BY <1>3, <2>1, <2>2
<1>10. QueuedReplayHasStarter'
  BY <1>1, <1>4 DEF IInv, QueuedReplayHasStarter
<1> QED
  BY <1>1, <1>5, <1>6, <1>8, <1>9, <1>10, BooksUnchanged DEF IInv

\* Looking at the queue and dropping the reference are one step under passMu.
LEMMA ReleaseHolderKeeps ==
    ASSUME IInv, NEW t \in Threads, ReleaseHolder(t)
    PROVE  IInv'
<1>1. /\ pc[t] = "freed" /\ DropRef(t)
      /\ pc' = [pc EXCEPT ![t] = IF queued[at[t]] THEN "queuedReplay" ELSE "idle"]
      /\ queued' = [queued EXCEPT ![at[t]] = FALSE]
      /\ UNCHANGED <<taken, calls, topic>>
  BY DEF ReleaseHolder
<1>2. TopicPassTypeOK /\ at[t] # 0
  BY <1>1 DEF IInv, RefsAreHeld, HasRef
<1>3. /\ at' = [at EXCEPT ![t] = 0]
      /\ at' \in [Threads -> Passes \cup {0}]
      /\ refs' \in [Passes -> Nat]
      /\ current' \in Passes \cup {0}
      /\ made' \in 0 .. MaxPasses
      /\ RefsAreCurrent' /\ RefsCounted' /\ CurrentIsReferred' /\ CurrentIsMade'
  BY <1>1, <1>2, DropRefKeepsBooks DEF IInv
<1>4. /\ pc'[t] \in {"queuedReplay", "idle"} /\ at'[t] = 0
      /\ \A s \in Threads \ {t} : pc'[s] = pc[s] /\ at'[s] = at[s]
  BY <1>1, <1>2, <1>3 DEF TopicPassTypeOK
<1>5. TopicPassTypeOK'
  BY <1>1, <1>2, <1>3 DEF TopicPassTypeOK
<1>6. RefsAreHeld'
  BY <1>4 DEF IInv, RefsAreHeld, HasRef
<1>7. HoldersTake' /\ OnePassAtATime' /\ TakenIsHeld'
  BY <1>1, <1>4 DEF IInv, HoldersTake, OnePassAtATime, TakenIsHeld, Holds
<1>8. QueuedReplayHasStarter'
  <2> SUFFICES ASSUME NEW p \in Passes, queued'[p]
               PROVE  \E s \in Threads : at'[s] = p
                                         /\ pc'[s] \in {"holding", "freed"}
    BY DEF QueuedReplayHasStarter
  <2>1. p # at[t] /\ queued[p]
    BY <1>1, <1>2 DEF TopicPassTypeOK
  <2>2. PICK s \in Threads : at[s] = p /\ pc[s] \in {"holding", "freed"}
    BY <2>1 DEF IInv, QueuedReplayHasStarter
  <2>3. s # t
    BY <2>1, <2>2
  <2> QED
    BY <1>4, <2>2, <2>3
<1> QED
  BY <1>3, <1>5, <1>6, <1>7, <1>8 DEF IInv

\* Between its calls on the pass a resync has no reference.
LEMMA ResyncKeeps ==
    ASSUME IInv, NEW t \in Threads, Resync(t) \/ RunQueuedReplay(t)
    PROVE  IInv'
<1>1. /\ pc[t] \in {"idle", "queuedReplay"}
      /\ \/ pc' = [pc EXCEPT ![t] = "resync"]
         \/ pc' = [pc EXCEPT ![t] = "replay"]
         \/ pc' = [pc EXCEPT ![t] = "idle"]
      /\ calls' = calls \/ calls' = calls + 1
      /\ UNCHANGED <<at, refs, taken, queued, current, made, topic>>
  BY DEF Resync, RunQueuedReplay, Call
<1>2. TopicPassTypeOK
  BY DEF IInv
<1>3. /\ pc'[t] \in {"idle", "resync", "replay"}
      /\ \A s \in Threads \ {t} : pc'[s] = pc[s]
  BY <1>1, <1>2 DEF TopicPassTypeOK
<1>4. TopicPassTypeOK'
  <2>1. calls' \in Nat
    BY <1>1, <1>2 DEF TopicPassTypeOK
  <2>2. pc' \in [Threads -> {"idle", "waiting", "leaving", "holding", "freed",
                             "queuedReplay", "resync", "replay"}]
    BY <1>1, <1>2 DEF TopicPassTypeOK
  <2> QED
    BY <1>1, <1>2, <2>1, <2>2 DEF TopicPassTypeOK
<1>5. RefsAreHeld'
  BY <1>1, <1>3 DEF IInv, RefsAreHeld, HasRef
<1>6. HoldersTake' /\ OnePassAtATime' /\ TakenIsHeld'
  BY <1>1, <1>3 DEF IInv, HoldersTake, OnePassAtATime, TakenIsHeld, Holds
<1>7. QueuedReplayHasStarter'
  BY <1>1, <1>3 DEF IInv, QueuedReplayHasStarter
<1> QED
  BY <1>1, <1>4, <1>5, <1>6, <1>7, BooksUnchanged DEF IInv

\* tryLockTopicPassOrQueue: the topic is free and the caller its only holder,
\* or it is busy and its holder finds the replay queued.
LEMMA TryLockOrQueueKeeps ==
    ASSUME IInv, NEW t \in Threads, TryLockOrQueue(t)
    PROVE  IInv'
<1>1. pc[t] \in {"resync", "replay"} /\ TakeRef(t) /\ UNCHANGED <<calls, topic>>
  BY DEF TryLockOrQueue
<1>2. TopicPassTypeOK /\ at[t] = 0
  BY <1>1 DEF IInv, RefsAreHeld, HasRef
<1>3. /\ PassFor \in Passes
      /\ at' = [at EXCEPT ![t] = PassFor]
      /\ at' \in [Threads -> Passes \cup {0}]
      /\ refs' \in [Passes -> Nat]
      /\ current' \in Passes
      /\ made' \in 0 .. MaxPasses
      /\ RefsAreCurrent' /\ RefsCounted' /\ CurrentIsReferred' /\ CurrentIsMade'
  BY <1>1, <1>2, TakeRefKeeps DEF IInv
<1>4. PICK p \in Passes : p = PassFor
  BY <1>3
<1>5. 0 \notin Passes
  BY DEF Passes
<1>6. at'[t] = p /\ \A s \in Threads \ {t} : at'[s] = at[s]
  BY <1>2, <1>3, <1>4 DEF TopicPassTypeOK
<1>7. CASE /\ ~taken[p]
           /\ taken' = [taken EXCEPT ![p] = TRUE]
           /\ pc' = [pc EXCEPT ![t] = "holding"]
           /\ UNCHANGED queued
  <2>1. \A s \in Threads : ~Holds(s)
    BY <1>4, <1>7, FreeChannelHasNoHolder DEF PassFor
  <2>2. pc'[t] = "holding" /\ \A s \in Threads \ {t} : pc'[s] = pc[s]
    BY <1>2, <1>7 DEF TopicPassTypeOK
  <2>3. TopicPassTypeOK'
    BY <1>1, <1>2, <1>3, <1>7 DEF TopicPassTypeOK
  <2>4. RefsAreHeld'
    BY <1>5, <1>6, <2>2 DEF IInv, RefsAreHeld, HasRef
  <2>5. HoldersTake' /\ OnePassAtATime'
    BY <1>2, <1>6, <1>7, <2>1, <2>2 DEF TopicPassTypeOK, HoldersTake,
       OnePassAtATime, Holds
  <2>6. TakenIsHeld'
    <3> SUFFICES ASSUME NEW x \in Passes, taken'[x]
                 PROVE  \E s \in Threads : pc'[s] = "holding" /\ at'[s] = x
      BY DEF TakenIsHeld, Holds
    <3>1. taken[x] => FALSE
      BY <2>1 DEF IInv, TakenIsHeld
    <3>2. x = p
      BY <1>2, <1>7, <3>1 DEF TopicPassTypeOK
    <3> QED
      BY <1>6, <2>2, <3>2
  <2>7. QueuedReplayHasStarter'
    BY <1>1, <1>6, <1>7, <2>2 DEF IInv, QueuedReplayHasStarter
  <2> QED
    BY <1>3, <2>3, <2>4, <2>5, <2>6, <2>7 DEF IInv
<1>8. CASE /\ taken[p]
           /\ queued' = [queued EXCEPT ![p] = TRUE]
           /\ pc' = [pc EXCEPT ![t] = "leaving"]
           /\ UNCHANGED taken
  <2>1. PICK h \in Threads : Holds(h) /\ at[h] = p
    BY <1>8 DEF IInv, TakenIsHeld
  <2>2. pc'[t] = "leaving" /\ \A s \in Threads \ {t} : pc'[s] = pc[s]
    BY <1>2, <1>8 DEF TopicPassTypeOK
  <2>3. TopicPassTypeOK'
    BY <1>1, <1>2, <1>3, <1>8 DEF TopicPassTypeOK
  <2>4. RefsAreHeld'
    BY <1>5, <1>6, <2>2 DEF IInv, RefsAreHeld, HasRef
  <2>5. HoldersTake' /\ OnePassAtATime'
    BY <1>6, <1>8, <2>2 DEF IInv, HoldersTake, OnePassAtATime, Holds
  <2>6. TakenIsHeld'
    BY <1>1, <1>6, <1>8, <2>2 DEF IInv, TakenIsHeld, Holds
  <2>7. QueuedReplayHasStarter'
    <3> SUFFICES ASSUME NEW x \in Passes, queued'[x]
                 PROVE  \E s \in Threads : at'[s] = x
                                           /\ pc'[s] \in {"holding", "freed"}
      BY DEF QueuedReplayHasStarter
    <3>1. CASE x = p
      BY <1>1, <1>6, <2>1, <2>2, <3>1 DEF Holds
    <3>2. CASE x # p
      <4>1. queued[x]
        BY <1>2, <1>8, <3>2 DEF TopicPassTypeOK
      <4> QED
        BY <1>1, <1>6, <2>2, <4>1 DEF IInv, QueuedReplayHasStarter
    <3> QED
      BY <3>1, <3>2
  <2> QED
    BY <1>3, <2>3, <2>4, <2>5, <2>6, <2>7 DEF IInv
<1> QED
  BY <1>4, <1>7, <1>8 DEF TryLockOrQueue

\* The invariant is inductive.
LEMMA NextPreserves == IInv /\ [Next]_vars => IInv'
<1> SUFFICES ASSUME IInv, [Next]_vars PROVE IInv'
  OBVIOUS
<1>1. ASSUME NEW t \in Threads, LockTopicPass(t) PROVE IInv'
  BY <1>1, LockTopicPassKeeps
<1>2. ASSUME NEW t \in Threads, Acquire(t) PROVE IInv'
  BY <1>2, AcquireKeeps
<1>3. ASSUME NEW t \in Threads, GiveUp(t) PROVE IInv'
  BY <1>3, GiveUpKeeps
<1>4. ASSUME NEW t \in Threads, Leave(t) PROVE IInv'
  BY <1>4, LeaveKeeps
<1>5. ASSUME NEW t \in Threads, Unlock(t) PROVE IInv'
  BY <1>5, UnlockKeeps
<1>6. ASSUME NEW t \in Threads, ReleaseHolder(t) PROVE IInv'
  BY <1>6, ReleaseHolderKeeps
<1>7. ASSUME NEW t \in Threads, Resync(t) \/ RunQueuedReplay(t) PROVE IInv'
  BY <1>7, ResyncKeeps
<1>8. ASSUME NEW t \in Threads, TryLockOrQueue(t) PROVE IInv'
  BY <1>8, TryLockOrQueueKeeps
<1>9. ASSUME UNCHANGED <<pc, at, refs, taken, queued, current, made, calls>>,
             topic' \in {"none", "listing", "listed"}
      PROVE  IInv'
  <2>1. /\ TopicPassTypeOK' /\ RefsAreHeld' /\ HoldersTake' /\ TakenIsHeld'
        /\ OnePassAtATime' /\ QueuedReplayHasStarter'
    BY <1>9 DEF IInv, TopicPassTypeOK, RefsAreHeld, HasRef, HoldersTake,
       TakenIsHeld, Holds, OnePassAtATime, QueuedReplayHasStarter
  <2> QED
    BY <1>9, <2>1, BooksUnchanged DEF IInv
<1>10. CASE TopicChanges
  BY <1>9, <1>10 DEF TopicChanges
<1>11. CASE UNCHANGED vars
  BY <1>9, <1>11 DEF vars, IInv, TopicPassTypeOK
<1> QED
  BY <1>1, <1>2, <1>3, <1>4, <1>5, <1>6, <1>7, <1>8, <1>10, <1>11 DEF Next

\* The inductive invariant holds in every reachable state.
LEMMA InductiveInvariant == Spec => []IInv
BY InitEstablishes, NextPreserves, PTL DEF Spec

---------------------------------------------------------------------------
\* The type invariant of the pass table and its threads: for any number of
\* threads, reference counts never go below zero.
THEOREM PassesTypeCorrect == Spec => []TopicPassTypeOK
<1>1. IInv => TopicPassTypeOK
  BY DEF IInv
<1> QED
  BY <1>1, InductiveInvariant, PTL

\* Two snapshot passes of a topic never run at once, although the table's entry
\* is deleted with its last reference and made again.
THEOREM PassesExclude == Spec => []OnePassAtATime
<1>1. IInv => OnePassAtATime
  BY DEF IInv
<1> QED
  BY <1>1, InductiveInvariant, PTL

\* A replay queued behind a pass always has somebody who will start it.
THEOREM QueuedReplaysHaveStarters == Spec => []QueuedReplayHasStarter
<1>1. IInv => QueuedReplayHasStarter
  BY DEF IInv
<1> QED
  BY <1>1, InductiveInvariant, PTL

\* The table holds exactly the pass somebody refers to, and its count is the
\* number of those who do.
THEOREM TableIsExact == Spec => []TableHoldsLivePass
<1>1. ASSUME IInv PROVE TableHoldsLivePass
  <2> SUFFICES ASSUME NEW p \in Passes
               PROVE  /\ refs[p] = Cardinality(Referrers(p))
                      /\ p = current <=> Referrers(p) # {}
    BY DEF TableHoldsLivePass
  <2>1. refs[p] = Cardinality(Referrers(p))
    BY <1>1 DEF IInv, RefsCounted
  <2>2. 0 \notin Passes
    BY DEF Passes
  <2>3. p = current => Referrers(p) # {}
    BY <1>1, <2>2 DEF IInv, CurrentIsReferred, Referrers
  <2>4. Referrers(p) # {} => p = current
    BY <1>1, <2>2 DEF IInv, RefsAreCurrent, Referrers
  <2> QED
    BY <2>1, <2>3, <2>4
<1> QED
  BY <1>1, InductiveInvariant, PTL

\* The promises of snapshot_lock.go together: passes exclude each other, none
\* queued is missed, and the table neither forgets a pass in use nor keeps one
\* that nobody refers to.
THEOREM PassesAreAlwaysSound == Spec => []PassesAreSound
<1>1. OnePassAtATime /\ QueuedReplayHasStarter /\ TableHoldsLivePass
        => PassesAreSound
  BY DEF PassesAreSound
<1> QED
  BY <1>1, PassesExclude, QueuedReplaysHaveStarters, TableIsExact, PTL

---------------------------------------------------------------------------
\* The abstract holder is the thread that holds, when there is one.
LEMMA HolderIs ==
    ASSUME OnePassAtATime
    PROVE  /\ \A t \in Threads : Holds(t) => Holder = t
           /\ (\A t \in Threads : ~Holds(t)) => Holder = Nobody
BY DEF Holder, OnePassAtATime

\* The same after a step.
LEMMA HolderIsNext ==
    ASSUME OnePassAtATime'
    PROVE  /\ \A t \in Threads : Holds(t)' => Holder' = t
           /\ (\A t \in Threads : ~Holds(t)') => Holder' = Nobody
BY DEF Holder, OnePassAtATime

\* A step that moves one thread between places where it does not hold leaves
\* the abstract holder alone.
LEMMA HolderUnchanged ==
    ASSUME IInv, IInv', NEW t \in Threads, ~Holds(t), ~Holds(t)',
           \A s \in Threads \ {t} : pc'[s] = pc[s]
    PROVE  Holder' = Holder
<1>1. \A s \in Threads : Holds(s)' <=> Holds(s)
  BY DEF Holds
<1>2. CASE \E s \in Threads : Holds(s)
  <2>1. PICK s \in Threads : Holds(s)
    BY <1>2
  <2>2. Holder = s
    BY <2>1, HolderIs DEF IInv
  <2>3. Holder' = s
    BY <1>1, <2>1, HolderIsNext DEF IInv
  <2> QED
    BY <2>2, <2>3
<1>3. CASE \A s \in Threads : ~Holds(s)
  <2>1. Holder = Nobody
    BY <1>3, HolderIs DEF IInv
  <2>2. Holder' = Nobody
    BY <1>1, <1>3, HolderIsNext DEF IInv
  <2> QED
    BY <2>1, <2>2
<1> QED
  BY <1>2, <1>3

\* Taking the topic free of anybody is a Take, or a Replay when it was the last
\* replay owed.
LEMMA TakingRefines ==
    ASSUME IInv, IInv', NEW t \in Threads,
           \A s \in Threads : ~Holds(s), Holds(t)',
           Owed' => Owed, topic' = topic
    PROVE  Promise!Next
<1>1. Holder = Nobody
  BY HolderIs DEF IInv
<1>2. Holder' = t
  BY HolderIsNext DEF IInv
<1>3. Owed \in BOOLEAN /\ Owed' \in BOOLEAN
  BY DEF Owed
<1>4. CASE Owed' = Owed
  BY <1>1, <1>2, <1>4 DEF Promise!Next, Promise!Take
<1>5. CASE Owed /\ ~Owed'
  BY <1>1, <1>2, <1>3, <1>5 DEF Promise!Next, Promise!Replay
<1> QED
  BY <1>3, <1>4, <1>5

\* Every step of the passes is a step of SnapshotPass or leaves it alone.
LEMMA StepRefines ==
    ASSUME IInv, IInv', [Next]_vars
    PROVE  [Promise!Next]_(Promise!vars)
<1> USE DEF Promise!vars
<1>0. /\ TopicPassTypeOK
      /\ pc \in [Threads -> {"idle", "waiting", "leaving", "holding", "freed",
                             "queuedReplay", "resync", "replay"}]
      /\ queued \in [Passes -> BOOLEAN]
  BY DEF IInv, TopicPassTypeOK
<1>01. Owed \in BOOLEAN /\ Owed' \in BOOLEAN
  BY DEF Owed
<1>1. ASSUME NEW t \in Threads,
             LockTopicPass(t) \/ GiveUp(t) \/ Leave(t) \/ Resync(t)
      PROVE  UNCHANGED <<Holder, Owed, topic>>
  <2>1. /\ pc[t] \in {"idle", "waiting", "leaving"}
        /\ pc'[t] \in {"idle", "waiting", "leaving", "resync"}
        /\ \A s \in Threads \ {t} : pc'[s] = pc[s]
        /\ queued' = queued /\ topic' = topic
    BY <1>0, <1>1 DEF LockTopicPass, GiveUp, Leave, Resync
  <2>2. Holder' = Holder
    BY <2>1, HolderUnchanged DEF Holds
  <2>3. Owed' = Owed
    BY <2>1 DEF Owed
  <2> QED
    BY <2>1, <2>2, <2>3
<1>2. ASSUME NEW t \in Threads, Acquire(t) PROVE Promise!Next
  <2>1. /\ pc[t] = "waiting" /\ ~taken[at[t]]
        /\ pc'[t] = "holding" /\ \A s \in Threads \ {t} : pc'[s] = pc[s]
        /\ queued' = queued /\ topic' = topic
    BY <1>0, <1>2 DEF Acquire
  <2>2. at[t] \in Passes /\ at[t] = current
    BY <2>1 DEF IInv, RefsAreHeld, RefsAreCurrent, HasRef, TopicPassTypeOK
  <2>3. \A s \in Threads : ~Holds(s)
    BY <2>1, <2>2, FreeChannelHasNoHolder
  <2>4. Owed' = Owed
    BY <2>1 DEF Owed
  <2> QED
    BY <2>1, <2>3, <2>4, TakingRefines DEF Holds
<1>3. ASSUME NEW t \in Threads, Unlock(t) PROVE Promise!Next
  <2>1. /\ pc[t] = "holding"
        /\ pc'[t] = "freed" /\ \A s \in Threads \ {t} : pc'[s] = pc[s]
        /\ queued' = queued /\ topic' = topic
    BY <1>0, <1>3 DEF Unlock
  <2>2. Holder = t /\ t # Nobody
    BY <2>1, HolderIs, ThreadsAssumption DEF IInv, Holds
  <2>3. \A s \in Threads : ~Holds(s)'
    BY <2>1 DEF IInv, OnePassAtATime, Holds
  <2>4. Holder' = Nobody
    BY <2>3, HolderIsNext DEF IInv
  <2>5. Owed' = Owed
    BY <2>1 DEF Owed
  <2> QED
    BY <2>1, <2>2, <2>4, <2>5 DEF Promise!Next, Promise!Give
<1>4. ASSUME NEW t \in Threads, ReleaseHolder(t)
      PROVE  UNCHANGED <<Holder, Owed, topic>>
  <2>1. /\ pc[t] = "freed"
        /\ pc'[t] = IF queued[at[t]] THEN "queuedReplay" ELSE "idle"
        /\ \A s \in Threads \ {t} : pc'[s] = pc[s]
        /\ queued' = [queued EXCEPT ![at[t]] = FALSE]
        /\ topic' = topic
    BY <1>0, <1>4 DEF ReleaseHolder
  <2>2. at[t] \in Passes
    BY <2>1 DEF IInv, RefsAreHeld, HasRef, TopicPassTypeOK
  <2>3. Holder' = Holder
    BY <2>1, HolderUnchanged DEF Holds
  <2>4. CASE queued[at[t]]
    <3>1. Owed /\ Owed'
      BY <2>1, <2>2, <2>4 DEF Owed
    <3> QED
      BY <1>01, <2>1, <2>3, <3>1
  <2>5. CASE ~queued[at[t]]
    <3>1. \A p \in Passes : queued'[p] = queued[p]
      BY <1>0, <2>1, <2>2, <2>5
    <3>2. Owed' <=> Owed
      BY <2>1, <2>5, <3>1 DEF Owed
    <3> QED
      BY <1>01, <2>1, <2>3, <3>2
  <2> QED
    BY <2>4, <2>5
<1>5. ASSUME NEW t \in Threads, RunQueuedReplay(t)
      PROVE  Promise!Next \/ UNCHANGED <<Holder, Owed, topic>>
  <2>1. /\ pc[t] = "queuedReplay"
        /\ pc'[t] = IF topic = "listed" THEN "replay" ELSE "idle"
        /\ \A s \in Threads \ {t} : pc'[s] = pc[s]
        /\ queued' = queued /\ topic' = topic
    BY <1>0, <1>5 DEF RunQueuedReplay
  <2>2. Holder' = Holder
    BY <2>1, HolderUnchanged DEF Holds
  <2>3. Owed
    BY <2>1 DEF Owed
  <2>4. CASE topic = "listed"
    <3>1. Owed'
      BY <2>1, <2>4 DEF Owed
    <3> QED
      BY <1>01, <2>1, <2>2, <2>3, <3>1
  <2>5. CASE topic # "listed" /\ ~Owed'
    BY <1>01, <2>1, <2>2, <2>3, <2>5 DEF Promise!Next, Promise!NothingToReplay
  <2>6. CASE Owed'
    BY <1>01, <2>1, <2>2, <2>3, <2>6
  <2> QED
    BY <2>4, <2>5, <2>6
<1>6. ASSUME NEW t \in Threads, TryLockOrQueue(t) PROVE Promise!Next
  <2>1. pc[t] \in {"resync", "replay"} /\ TakeRef(t) /\ topic' = topic
    BY <1>6 DEF TryLockOrQueue
  <2>2. at[t] = 0
    BY <2>1 DEF IInv, RefsAreHeld, HasRef
  <2>3. PICK p \in Passes : p = PassFor
    BY <2>1, <2>2, TakeRefKeeps DEF IInv
  <2>4. CASE ~taken[p] /\ pc' = [pc EXCEPT ![t] = "holding"] /\ UNCHANGED queued
    <3>1. \A s \in Threads : ~Holds(s)
      BY <2>3, <2>4, FreeChannelHasNoHolder DEF PassFor
    <3>2. pc'[t] = "holding" /\ \A s \in Threads \ {t} : pc'[s] = pc[s]
      BY <1>0, <2>4
    <3>3. Owed' => Owed
      BY <2>4, <3>2 DEF Owed
    <3> QED
      BY <1>01, <2>1, <3>1, <3>2, <3>3, TakingRefines DEF Holds
  <2>5. CASE /\ taken[p]
             /\ queued' = [queued EXCEPT ![p] = TRUE]
             /\ pc' = [pc EXCEPT ![t] = "leaving"]
    <3>1. pc'[t] = "leaving" /\ \A s \in Threads \ {t} : pc'[s] = pc[s]
      BY <1>0, <2>5
    <3>2. Holder' = Holder
      BY <2>1, <3>1, HolderUnchanged DEF Holds
    <3>3. PICK h \in Threads : Holds(h) /\ at[h] = p
      BY <2>5 DEF IInv, TakenIsHeld
    <3>4. Holder # Nobody
      BY <3>3, HolderIs, ThreadsAssumption DEF IInv
    <3>5. queued'[p]
      BY <1>0, <2>5
    <3>6. Owed' = TRUE
      BY <1>01, <3>5 DEF Owed
    <3> QED
      BY <2>1, <3>2, <3>4, <3>6 DEF Promise!Next, Promise!Owe
  <2> QED
    BY <1>6, <2>3, <2>4, <2>5 DEF TryLockOrQueue
<1>7. ASSUME TopicChanges PROVE Promise!Next
  <2>1. Holder' = Holder /\ Owed' = Owed
    BY <1>7 DEF TopicChanges, Holder, Holds, Owed
  <2> QED
    BY <1>7, <2>1 DEF TopicChanges, Promise!Next, Promise!TopicChanges
<1>8. ASSUME UNCHANGED vars PROVE UNCHANGED <<Holder, Owed, topic>>
  BY <1>8 DEF vars, Holder, Holds, Owed
<1> QED
  BY <1>1, <1>2, <1>3, <1>4, <1>5, <1>6, <1>7, <1>8 DEF Next

\* The passes implement SnapshotPass for any number of goroutines: one holder,
\* and a resync queued behind it stays owed until a replay takes the topic or
\* there is nothing listed to replay.
THEOREM PassesKeepTheirPromise == Spec => ImplementsSnapshotPass
<1>1. Init => Promise!Init
  <2> SUFFICES ASSUME Init PROVE Promise!Init
    OBVIOUS
  <2>1. Holder = Nobody
    BY DEF Init, Holder, Holds
  <2>2. Owed = FALSE
    BY DEF Init, Owed
  <2> QED
    BY <2>1, <2>2 DEF Init, Promise!Init
<1>2. IInv /\ IInv' /\ [Next]_vars => [Promise!Next]_(Promise!vars)
  BY StepRefines
<1> QED
  BY <1>1, <1>2, InductiveInvariant, PTL DEF Spec, ImplementsSnapshotPass,
     Promise!Spec

(***************************************************************************)
(* ResyncCoordinator.                                                      *)
(***************************************************************************)

\* Between its first look at st and its report, a pass has no report under way,
\* and a report says what the state it was decided on says.
ReportsAreOrdered ==
    /\ pass \in {"began", "read"} => report = "none"
    /\ report = "desynced" => known /\ st.desynced
    /\ report = "cleared" => ~(known /\ st.desynced)

ResyncInv ==
    ResyncTypeOK /\ FlagsTellThePass /\ DesyncedIsRetried /\ ReportsAreOrdered

LEMMA ResyncInvInit == ResyncInit => ResyncInv
<1> SUFFICES ASSUME ResyncInit
             PROVE  ResyncInv
  OBVIOUS
<1>1. 0 \in 0 .. MaxReruns
  BY ResyncBoundsAssumption
<1>2. ResyncTypeOK
  BY <1>1 DEF ResyncInit, ResyncTypeOK, ResyncState, FreshState
<1>3. FlagsTellThePass /\ DesyncedIsRetried /\ ReportsAreOrdered
  BY DEF ResyncInit, FreshState, FlagsTellThePass, DesyncedIsRetried,
         ReportsAreOrdered
<1> QED
  BY <1>2, <1>3 DEF ResyncInv

\* What request leaves behind: a state that is wanted, and a pass that is to
\* come or to come again.
LEMMA RequestKeeps ==
    ASSUME ResyncInv, Request, UNCHANGED <<report, desynced>>
    PROVE  /\ known' /\ st' \in ResyncState /\ ~st'.gone
           /\ pass' \in {"none", "sleeping", "began", "read"}
           /\ reruns' \in 0 .. MaxReruns
           /\ FlagsTellThePass' /\ DesyncedIsRetried' /\ ReportsAreOrdered'
           /\ pass' = "sleeping" \/ (pass' \in {"began", "read"} /\ st'.rerun)
<1> DEFINE s == [(IF known THEN st ELSE FreshState) EXCEPT !.gone = FALSE]
<1>1. /\ s \in ResyncState /\ ~s.gone
      /\ s.scheduled = (known /\ st.scheduled) /\ s.running = (known /\ st.running)
      /\ s.desynced = (known /\ st.desynced)
  BY DEF ResyncInv, ResyncTypeOK, ResyncState, FreshState
<1>2. /\ known'
      /\ \/ s.running /\ st' = [s EXCEPT !.rerun = TRUE] /\ UNCHANGED <<pass, reruns>>
         \/ ~s.running /\ s.scheduled /\ st' = s /\ UNCHANGED <<pass, reruns>>
         \/ /\ ~s.running /\ ~s.scheduled
            /\ st' = [s EXCEPT !.scheduled = TRUE] /\ pass' = "sleeping" /\ reruns' = 0
  BY DEF Request
<1> HIDE DEF s
<1>3. CASE s.running
  <2>1. /\ st' \in ResyncState /\ ~st'.gone /\ st'.rerun /\ st'.running = s.running
        /\ st'.scheduled = s.scheduled /\ st'.desynced = s.desynced
        /\ pass' = pass /\ reruns' = reruns
    BY <1>1, <1>2, <1>3 DEF ResyncState
  <2> QED
    BY <2>1, <1>1, <1>2, <1>3
       DEF ResyncInv, ResyncTypeOK, FlagsTellThePass, DesyncedIsRetried,
           ReportsAreOrdered
<1>4. CASE ~s.running /\ s.scheduled
  BY <1>1, <1>2, <1>4
     DEF ResyncInv, ResyncTypeOK, FlagsTellThePass, DesyncedIsRetried,
         ReportsAreOrdered
<1>5. CASE ~s.running /\ ~s.scheduled
  <2>1. /\ st' \in ResyncState /\ ~st'.gone /\ ~st'.running /\ st'.scheduled
        /\ st'.desynced = s.desynced /\ pass' = "sleeping" /\ reruns' = 0
    BY <1>1, <1>2, <1>5 DEF ResyncState
  <2> QED
    BY <2>1, <1>1, <1>2, <1>5, ResyncBoundsAssumption
       DEF ResyncInv, ResyncTypeOK, FlagsTellThePass, DesyncedIsRetried,
           ReportsAreOrdered
<1> QED
  BY <1>3, <1>4, <1>5

LEMMA ResyncInvNext == ResyncInv /\ [ResyncNext]_resyncVars => ResyncInv'
<1> SUFFICES ASSUME ResyncInv, [ResyncNext]_resyncVars
             PROVE  ResyncInv'
  OBVIOUS
<1> USE DEF ResyncInv, ResyncTypeOK, FlagsTellThePass, DesyncedIsRetried,
            ReportsAreOrdered
<1>1. CASE Drop
  <2>1. Request /\ UNCHANGED <<report, desynced, subscribed, closing, opens>>
        /\ drops' = drops + 1 /\ missed' = TRUE
    BY <1>1 DEF Drop
  <2>2. /\ known' /\ st' \in ResyncState
        /\ pass' \in {"none", "sleeping", "began", "read"}
        /\ reruns' \in 0 .. MaxReruns
        /\ FlagsTellThePass' /\ DesyncedIsRetried' /\ ReportsAreOrdered'
    BY <2>1, RequestKeeps
  <2> QED
    BY <2>1, <2>2
<1>2. CASE PassBegins
  BY <1>2 DEF PassBegins, ResyncState
<1>3. CASE PassReads
  BY <1>3 DEF PassReads
<1>4. ASSUME NEW replayed \in BOOLEAN, pass \in {"began", "read"},
             AfterPass(replayed),
             UNCHANGED <<desynced, missed, subscribed, closing, drops, opens>>
      PROVE  ResyncInv'
  <2> DEFINE again == Again(replayed)
             lost == again /\ reruns >= MaxReruns
  <2>1. /\ again \in BOOLEAN /\ lost \in BOOLEAN /\ (again => ~st.gone)
    BY DEF Again, ResyncState
  <2>2. /\ st' = [st EXCEPT !.running = FALSE, !.scheduled = again,
                            !.desynced = again /\ (@ \/ lost)]
        /\ report' = CASE lost /\ ~st.desynced -> "desynced"
                       [] ~again /\ st.desynced -> "cleared"
                       [] OTHER -> "none"
        /\ known' = (again \/ ~st.gone)
        /\ pass' = IF again THEN "sleeping" ELSE "none"
        /\ reruns' = IF reruns < MaxReruns THEN reruns + 1 ELSE reruns
    BY <1>4 DEF AfterPass
  <2> HIDE DEF again
  <2>3. /\ st' \in ResyncState /\ ~st'.running /\ st'.scheduled = again
        /\ st'.desynced = (again /\ (st.desynced \/ lost))
    BY <2>1, <2>2 DEF ResyncState
  <2>4. reruns' \in 0 .. MaxReruns
    BY <2>2, ResyncBoundsAssumption
  <2>5. report = "none" /\ known /\ desynced = st.desynced
    BY <1>4 DEF ResyncState
  <2> QED
    BY <1>4, <2>1, <2>2, <2>3, <2>4, <2>5
<1>5. CASE PassEnds
  BY <1>4, <1>5 DEF PassEnds
<1>6. CASE SetDesynced
  BY <1>6 DEF SetDesynced, ResyncState
<1>7. CASE TopicClosed
  BY <1>7 DEF TopicClosed, Forget, ResyncState
<1>8. CASE LastLeaves
  BY <1>8 DEF LastLeaves
<1>9. CASE FirstJoins
  BY <1>9 DEF FirstJoins
<1>10. CASE UNCHANGED resyncVars
  BY <1>10 DEF resyncVars
<1> QED
  BY <1>1, <1>2, <1>3, <1>5, <1>6, <1>7, <1>8, <1>9, <1>10 DEF ResyncNext

\* The flags request goes by tell where the topic's one goroutine is, and what
\* the watcher was told last is what the coordinator knows once its reports are
\* out, also when onTopicEmpty comes late.
THEOREM ResyncFlagsTell == ResyncSpec => [](DesyncedIsRetried /\ FlagsTellThePass)
<1>1. ResyncInv => DesyncedIsRetried /\ FlagsTellThePass
  BY DEF ResyncInv
<1> QED
  BY <1>1, ResyncInvInit, ResyncInvNext, PTL DEF ResyncSpec

\* Whoever misses something is subscribed, and the topic is not marked gone.
MissedAreWanted ==
    missed => subscribed /\ ~st.gone

LEMMA MissedNext ==
    ASSUME LateClose = FALSE, ResyncInv, MissedAreWanted, NoDropForgotten,
           [ResyncNext]_resyncVars
    PROVE  (MissedAreWanted /\ NoDropForgotten)'
<1> USE DEF MissedAreWanted, NoDropForgotten
<1>1. CASE Drop
  <2>1. Request /\ UNCHANGED <<report, desynced>> /\ subscribed /\ subscribed' = subscribed
    BY <1>1 DEF Drop
  <2>2. ~st'.gone /\ (pass' = "sleeping" \/ (pass' \in {"began", "read"} /\ st'.rerun))
    BY <2>1, RequestKeeps
  <2> QED
    BY <2>1, <2>2
<1>2. CASE PassBegins
  BY <1>2 DEF PassBegins, ResyncInv, ResyncTypeOK, ResyncState
<1>3. CASE PassReads
  BY <1>3 DEF PassReads
<1>4. CASE PassEnds
  BY <1>4 DEF PassEnds, AfterPass, Again, ResyncInv, ResyncTypeOK, ResyncState
<1>5. CASE SetDesynced
  BY <1>5 DEF SetDesynced
<1>6. CASE TopicClosed
  BY <1>6 DEF TopicClosed, ResyncInv, ResyncTypeOK
<1>7. CASE LastLeaves
  BY <1>7 DEF LastLeaves
<1>8. CASE FirstJoins
  BY <1>8 DEF FirstJoins
<1>9. CASE UNCHANGED resyncVars
  BY <1>9 DEF resyncVars
<1> QED
  BY <1>1, <1>2, <1>3, <1>4, <1>5, <1>6, <1>7, <1>8, <1>9 DEF ResyncNext

\* A subscriber that misses a message is owed a replay that will come, as long
\* as onTopicEmpty runs before the topic is taken up again (what happens when it
\* does not is shown by the run late_close).
THEOREM DropsAreNeverForgotten ==
    ASSUME LateClose = FALSE
    PROVE  ResyncSpec => []ResyncIsSound
<1>1. ResyncInit => MissedAreWanted /\ NoDropForgotten
  BY DEF ResyncInit, MissedAreWanted, NoDropForgotten
<1>2. ResyncInv /\ MissedAreWanted /\ NoDropForgotten /\ [ResyncNext]_resyncVars
        => (MissedAreWanted /\ NoDropForgotten)'
  BY MissedNext
<1>3. ResyncInv /\ NoDropForgotten => ResyncIsSound
  BY DEF ResyncInv, ResyncIsSound
<1> QED
  BY <1>1, <1>2, <1>3, ResyncInvInit, ResyncInvNext, PTL DEF ResyncSpec

(***************************************************************************)
(* TopicHealth.                                                            *)
(***************************************************************************)

LEMMA HealthTypeNext == HealthTypeOK /\ [HealthNext]_healthVars => HealthTypeOK'
<1> SUFFICES ASSUME HealthTypeOK, [HealthNext]_healthVars
             PROVE  HealthTypeOK'
  OBVIOUS
<1> USE DEF HealthTypeOK, States, Senders
<1>1. ASSUME NEW s \in Senders, NEW h \in [failingSince : BOOLEAN,
                                           desyncedSince : BOOLEAN, unconfirmed : BOOLEAN],
             NEW msg \in States \cup {"none", "sync"}, Decide(s, h, msg)
      PROVE  HealthTypeOK'
  BY <1>1 DEF Decide, Status
<1>2. ASSUME NEW refresh \in BOOLEAN, NoteFailing(refresh) PROVE HealthTypeOK'
  BY <1>1, <1>2 DEF NoteFailing, StatusIf, Status
<1>3. CASE NoteSynced
  BY <1>1, <1>3 DEF NoteSynced
<1>4. CASE NoteRecovered
  BY <1>1, <1>4 DEF NoteRecovered, StatusIf, Status
<1>5. CASE NotePreloaded
  BY <1>1, <1>5 DEF NotePreloaded
<1>6. ASSUME NEW d \in BOOLEAN, NoteDesynced(d) PROVE HealthTypeOK'
  BY <1>1, <1>6 DEF NoteDesynced, StatusIf, Status
<1>7. ASSUME NEW s \in Senders, SendTopicStatus(s) PROVE HealthTypeOK'
  BY <1>7 DEF SendTopicStatus, Says
<1>8. CASE ReplayReads \/ ReplayEnds
  BY <1>8 DEF ReplayReads, ReplayEnds
<1>9. CASE ClearTopicHealth
  BY <1>9 DEF ClearTopicHealth, Healthy
<1>10. CASE UNCHANGED healthVars
  BY <1>10 DEF healthVars
<1> QED
  BY <1>2, <1>3, <1>4, <1>5, <1>6, <1>7, <1>8, <1>9, <1>10 DEF HealthNext

\* A sender that has nothing under way may decide on anything, provided a change
\* that shows is told: the message due stays the other sender's, or becomes its.
LEMMA DecisionTells ==
    ASSUME HealthTypeOK, ChangeIsTold, NEW s \in Senders, NEW h, NEW msg,
           Decide(s, h, msg),
           Failing(h) # Failing(health) => Says(msg) = Status(h)
    PROVE  ChangeIsTold'
<1>1. pending[s] = "none" /\ pending' = [pending EXCEPT ![s] = msg]
      /\ due' = IF Failing(h) # Failing(health) THEN Status(h) ELSE due
  BY DEF Decide
<1>2. pending'[s] = msg /\ \A t \in Senders \ {s} : pending'[t] = pending[t]
  BY <1>1 DEF HealthTypeOK
<1>3. CASE Failing(h) # Failing(health)
  BY <1>1, <1>2, <1>3 DEF ChangeIsTold
<1>4. CASE Failing(h) = Failing(health)
  <2>1. due' = due
    BY <1>1, <1>4
  <2>2. Says(pending[s]) = "none"
    BY <1>1 DEF Says
  <2> QED
    BY <1>2, <2>1, <2>2 DEF ChangeIsTold
<1> QED
  BY <1>3, <1>4

LEMMA ChangeNext ==
    ASSUME HealthTypeOK, ChangeIsTold, [HealthNext]_healthVars
    PROVE  ChangeIsTold'
<1> USE DEF Failing, Status, StatusIf, Says
<1>1. ASSUME NEW refresh \in BOOLEAN, NoteFailing(refresh) PROVE ChangeIsTold'
  BY <1>1, DecisionTells DEF NoteFailing, HealthTypeOK, Senders
<1>2. CASE NoteSynced
  BY <1>2, DecisionTells DEF NoteSynced, HealthTypeOK, Senders
<1>3. CASE NoteRecovered
  BY <1>3, DecisionTells DEF NoteRecovered, HealthTypeOK, Senders
<1>4. CASE NotePreloaded
  BY <1>4, DecisionTells DEF NotePreloaded, HealthTypeOK, Senders
<1>5. ASSUME NEW d \in BOOLEAN, NoteDesynced(d) PROVE ChangeIsTold'
  BY <1>5, DecisionTells DEF NoteDesynced, HealthTypeOK, Senders
<1>6. ASSUME NEW s \in Senders, SendTopicStatus(s) PROVE ChangeIsTold'
  BY <1>6 DEF SendTopicStatus, ChangeIsTold, HealthTypeOK
<1>7. CASE ReplayReads \/ ReplayEnds
  BY <1>7 DEF ReplayReads, ReplayEnds, ChangeIsTold
<1>8. CASE ClearTopicHealth
  BY <1>8 DEF ClearTopicHealth, ChangeIsTold
<1>9. CASE UNCHANGED healthVars
  BY <1>9 DEF healthVars, ChangeIsTold
<1> QED
  BY <1>1, <1>2, <1>3, <1>4, <1>5, <1>6, <1>7, <1>8, <1>9 DEF HealthNext

\* Every change of a topic's health that shows is told, however failures,
\* recoveries, desyncs and replays interleave (topic_status.go).
THEOREM ChangesAreTold == HealthSpec => []ChangeIsTold
<1>1. HealthInit => HealthTypeOK /\ ChangeIsTold
  BY DEF HealthInit, Healthy, HealthTypeOK, ChangeIsTold, States, Senders
<1>2. HealthTypeOK /\ ChangeIsTold /\ [HealthNext]_healthVars => ChangeIsTold'
  BY ChangeNext
<1> QED
  BY <1>1, <1>2, HealthTypeNext, PTL DEF HealthSpec

(***************************************************************************)
(* WatchSubscription, when a subscribe is not handled while an earlier     *)
(* pair's removal is still to run its callback (~Overlaps).                *)
(***************************************************************************)
Called(c) == \E r \in Removers : removal[c][r] = "callback"
Stopping(c) == \E r \in Removers : removal[c][r] = "stop"

\* The worker subscribes; it has a record of its own in hand.
Subscribing(c) ==
    worker[c].pc \in {"reserved", "added", "subscribed", "starting", "started",
                      "failed"}
InHand(c) == Subscribing(c) /\ worker[c].ref # 0

\* The record in the table says its watch was started.
EntryStarted(c) == entry[c] # 0 /\ records[c][entry[c]].started

One(b) == IF b THEN 1 ELSE 0

\* A connection has no more records than messages.
RecordsCounted(c) == Len(records[c]) <= messages[c] /\ messages[c] <= MaxMessages

\* The record in hand is not started, and is the one in the table unless the
\* pair's callback has taken it out; any other record in the table is started.
RecordInHand(c) ==
    /\ Subscribing(c) /\ ~At(c, "reserved") => worker[c].ref # 0
    /\ InHand(c) =>
         /\ worker[c].ref \in 1 .. Len(records[c])
         /\ ~records[c][worker[c].ref].started
         /\ entry[c] = IF records[c][worker[c].ref].removed THEN 0 ELSE worker[c].ref
    /\ ~InHand(c) /\ entry[c] # 0 =>
         entry[c] \in 1 .. Len(records[c]) /\ records[c][entry[c]].started

\* Removals behind the worker's back begin when it takes no more messages.
RemovalsAreLast(c) ==
    /\ removal[c]["worker"] # "none" => At(c, "removing")
    /\ removal[c]["disconnect"] # "none" => life[c] = "gone"
    /\ removal[c]["broadcast"] # "none" => c \in closed
    /\ worker[c].pc \in {"reserved", "added", "subscribed"} => life[c] # "gone"
    /\ c \in closed => life[c] = "gone" \/ Closes

\* What is reserved is for a pair not made yet, or is another's of a pair there.
ReservedIsFresh(c) ==
    At(c, "reserved") =>
        /\ ~Called(c) /\ ~Stopping(c)
        /\ c \in sub <=> worker[c].ref = 0
        /\ worker[c].ref = 0 => ~Closes /\ entry[c] # 0
        /\ worker[c].ref # 0 => ~records[c][worker[c].ref].removed

\* A pair has a record; a record has a pair, or a callback that will take it.
PairsHaveRecords(c) ==
    /\ c \in sub => /\ entry[c] # 0 \/ At(c, "unsubscribe")
                    /\ worker[c].pc \notin {"stop", "removing"}
                    /\ ~Called(c)
    /\ entry[c] # 0 /\ ~(At(c, "reserved") /\ worker[c].ref # 0)
         => c \in sub \/ Called(c)
    /\ worker[c].pc \in {"stop", "unsubscribe"} => entry[c] = 0

\* A stop to come has taken its record out, and is the only one.
StopIsAlone(c) ==
    Stopping(c) =>
        /\ entry[c] = 0 /\ worker[c].pc \in {"idle", "removing"}
        /\ \A r, q \in Removers :
             removal[c][r] = "stop" /\ removal[c][q] = "stop" => r = q

\* Every reference owned is the table's, the worker's or a removal's.
OwnedIsAccounted(c) ==
    owned[c] = One(EntryStarted(c)) + One(worker[c].pc \in {"started", "stop"})
               + One(Stopping(c))

Accounted(c) ==
    /\ RecordsCounted(c) /\ RecordInHand(c) /\ RemovalsAreLast(c)
    /\ ReservedIsFresh(c) /\ PairsHaveRecords(c) /\ StopIsAlone(c)
    /\ OwnedIsAccounted(c)

SubscriptionInv == SubscriptionTypeOK /\ \A c \in Conns : Accounted(c)

\* A step of the connection c.
StepOf(c) ==
    \/ ReserveFirst(c) \/ Subscribe(c) \/ ReplaceRecord(c) \/ CheckRemoved(c)
    \/ StartWatch(c) \/ FinishStart(c) \/ StopNow(c) \/ Unsubscribe(c)
    \/ WorkerGoesOn(c) \/ BroadcastUnsubscribes(c)
    \/ \E r \in Removers : OnRemoved(c, r) \/ StopRemoved(c, r)
    \/ Disconnect(c) \/ Unregister(c) \/ CloseConn(c)

\* What the invariant reads of a connection.
SameFor(d) ==
    /\ d \in sub' <=> d \in sub
    /\ records'[d] = records[d] /\ entry'[d] = entry[d]
    /\ worker'[d] = worker[d] /\ removal'[d] = removal[d]
    /\ owned'[d] = owned[d] /\ life'[d] = life[d]
    /\ d \in closed' <=> d \in closed
    /\ messages'[d] = messages[d]

LEMMA AccountedSame ==
    ASSUME NEW d, SameFor(d), Accounted(d)
    PROVE  Accounted(d)'
<1> USE DEF SameFor, At, Called, Stopping, Subscribing, InHand
<1>1. RecordsCounted(d)'
  BY DEF Accounted, RecordsCounted
<1>2. RecordInHand(d)'
  BY DEF Accounted, RecordInHand
<1>3. RemovalsAreLast(d)'
  BY DEF Accounted, RemovalsAreLast
<1>4. ReservedIsFresh(d)'
  BY DEF Accounted, ReservedIsFresh
<1>5. PairsHaveRecords(d)'
  BY DEF Accounted, PairsHaveRecords
<1>6. StopIsAlone(d)'
  BY DEF Accounted, StopIsAlone
<1>7. OwnedIsAccounted(d)'
  BY DEF Accounted, OwnedIsAccounted, EntryStarted
<1> QED
  BY <1>1, <1>2, <1>3, <1>4, <1>5, <1>6, <1>7 DEF Accounted

LEMMA OthersSame ==
    ASSUME SubscriptionTypeOK, NEW c \in Conns, StepOf(c), NEW d \in Conns, d # c
    PROVE  SameFor(d)
<1> USE DEF SubscriptionTypeOK, SameFor
<1>1. CASE ReserveFirst(c)
  BY <1>1 DEF ReserveFirst, TakeMessage, Reserve
<1>2. CASE Subscribe(c)
  BY <1>2 DEF Subscribe, Go, Returns
<1>3. CASE ReplaceRecord(c)
  BY <1>3 DEF ReplaceRecord, Reserve, Go
<1>4. CASE CheckRemoved(c)
  BY <1>4 DEF CheckRemoved, Go, Returns
<1>5. CASE StartWatch(c)
  BY <1>5 DEF StartWatch, Go
<1>6. CASE FinishStart(c)
  BY <1>6 DEF FinishStart, Go, Returns
<1>7. CASE StopNow(c)
  BY <1>7 DEF StopNow, Returns
<1>8. CASE Unsubscribe(c)
  BY <1>8 DEF Unsubscribe, TakeMessage, RemovePair, Go, Returns
<1>9. CASE WorkerGoesOn(c)
  BY <1>9 DEF WorkerGoesOn, Returns
<1>10. CASE BroadcastUnsubscribes(c)
  BY <1>10 DEF BroadcastUnsubscribes, RemovePair
<1>11. ASSUME NEW r \in Removers, OnRemoved(c, r) PROVE SameFor(d)
  BY <1>11 DEF OnRemoved
<1>12. ASSUME NEW r \in Removers, StopRemoved(c, r) PROVE SameFor(d)
  BY <1>12 DEF StopRemoved
<1>13. CASE Disconnect(c)
  BY <1>13 DEF Disconnect
<1>14. CASE Unregister(c)
  BY <1>14 DEF Unregister, RemovePair
<1>15. CASE CloseConn(c)
  BY <1>15 DEF CloseConn
<1> QED
  BY <1>1, <1>2, <1>3, <1>4, <1>5, <1>6, <1>7, <1>8, <1>9, <1>10, <1>11, <1>12,
     <1>13, <1>14, <1>15
     DEF StepOf

\* The places of the worker, and what its helpers do to the state.
Places == {"idle", "reserved", "added", "subscribed", "starting", "started",
           "failed", "stop", "unsubscribe", "removing"}

LEMMA GoKeeps ==
    ASSUME SubscriptionTypeOK, NEW c \in Conns, NEW place \in Places, Go(c, place)
    PROVE  /\ worker' \in [Conns -> Worker]
           /\ worker'[c].pc = place /\ worker'[c].ref = worker[c].ref
<1>1. worker[c] \in Worker /\ worker' = [worker EXCEPT ![c] = [worker[c] EXCEPT !.pc = place]]
  BY DEF SubscriptionTypeOK, Go
<1>2. [worker[c] EXCEPT !.pc = place] = [pc |-> place, ref |-> worker[c].ref]
  BY <1>1 DEF Worker
<1> QED
  BY <1>1, <1>2 DEF SubscriptionTypeOK, Worker, Places

LEMMA ReturnKeeps ==
    ASSUME SubscriptionTypeOK, NEW c \in Conns, Returns(c)
    PROVE  worker' \in [Conns -> Worker] /\ worker'[c] = IdleWorker
  BY MaxMessagesAssumption
     DEF SubscriptionTypeOK, Returns, Worker, IdleWorker, RefIds

LEMMA ReserveKeeps ==
    ASSUME SubscriptionTypeOK, NEW c \in Conns, Len(records[c]) < MaxMessages,
           NEW place \in Places, Reserve(c),
           worker' = [worker EXCEPT ![c] = [pc |-> place, ref |-> Len(records[c]) + 1]]
    PROVE  /\ records' \in [Conns -> Seq(WatchRef)] /\ entry' \in [Conns -> RefIds]
           /\ worker' \in [Conns -> Worker]
           /\ Len(records'[c]) = Len(records[c]) + 1 /\ entry'[c] = Len(records'[c])
           /\ worker'[c].pc = place /\ worker'[c].ref = entry'[c]
           /\ records'[c][entry'[c]] = FreshRef
<1>1. records[c] \in Seq(WatchRef) /\ FreshRef \in WatchRef
  BY DEF SubscriptionTypeOK, WatchRef, FreshRef
<1>2. records' = [records EXCEPT ![c] = Append(records[c], FreshRef)]
  BY DEF Reserve
<1>3. /\ Append(records[c], FreshRef) \in Seq(WatchRef)
      /\ Len(Append(records[c], FreshRef)) = Len(records[c]) + 1
      /\ Append(records[c], FreshRef)[Len(records[c]) + 1] = FreshRef
  BY <1>1
<1>4. Len(records[c]) + 1 \in RefIds
  BY <1>1, MaxMessagesAssumption DEF RefIds
<1> HIDE DEF FreshRef
<1> QED
  BY <1>2, <1>3, <1>4 DEF SubscriptionTypeOK, Reserve, Worker, Places

LEMMA MarkRemoved ==
    ASSUME SubscriptionTypeOK, NEW c \in Conns, NEW i \in 1 .. Len(records[c]),
           records' = [records EXCEPT ![c][i].removed = TRUE]
    PROVE  /\ records' \in [Conns -> Seq(WatchRef)]
           /\ Len(records'[c]) = Len(records[c])
           /\ records'[c][i].removed
           /\ records'[c][i].started = records[c][i].started
<1> DEFINE rec == [records[c][i] EXCEPT !.removed = TRUE]
<1>1. records[c] \in Seq(WatchRef) /\ records[c][i] \in WatchRef
  BY DEF SubscriptionTypeOK
<1>2. rec \in WatchRef /\ rec.removed /\ rec.started = records[c][i].started
  BY <1>1 DEF WatchRef
<1>3. records' = [records EXCEPT ![c] = [@ EXCEPT ![i] = rec]]
  OBVIOUS
<1> HIDE DEF rec
<1>4. [records[c] EXCEPT ![i] = rec] \in Seq(WatchRef)
  BY <1>1, <1>2
<1>5. records'[c] = [records[c] EXCEPT ![i] = rec]
  BY <1>3 DEF SubscriptionTypeOK
<1>6. records' \in [Conns -> Seq(WatchRef)]
  BY <1>3, <1>4 DEF SubscriptionTypeOK
<1> QED
  BY <1>1, <1>2, <1>5, <1>6

LEMMA MarkStarted ==
    ASSUME SubscriptionTypeOK, NEW c \in Conns, NEW i \in 1 .. Len(records[c]),
           records' = [records EXCEPT ![c][i].started = TRUE]
    PROVE  /\ records' \in [Conns -> Seq(WatchRef)]
           /\ Len(records'[c]) = Len(records[c])
           /\ records'[c][i].started
           /\ records'[c][i].removed = records[c][i].removed
<1> DEFINE rec == [records[c][i] EXCEPT !.started = TRUE]
<1>1. records[c] \in Seq(WatchRef) /\ records[c][i] \in WatchRef
  BY DEF SubscriptionTypeOK
<1>2. rec \in WatchRef /\ rec.started /\ rec.removed = records[c][i].removed
  BY <1>1 DEF WatchRef
<1>3. records' = [records EXCEPT ![c] = [@ EXCEPT ![i] = rec]]
  OBVIOUS
<1> HIDE DEF rec
<1>4. [records[c] EXCEPT ![i] = rec] \in Seq(WatchRef)
  BY <1>1, <1>2
<1>5. records'[c] = [records[c] EXCEPT ![i] = rec]
  BY <1>3 DEF SubscriptionTypeOK
<1>6. records' \in [Conns -> Seq(WatchRef)]
  BY <1>3, <1>4 DEF SubscriptionTypeOK
<1> QED
  BY <1>1, <1>2, <1>5, <1>6

(***************************************************************************)
(* One lemma per step of a connection.  Where the worker calls another     *)
(* component, what it has in hand decides which parts can be disturbed.    *)
(***************************************************************************)
LEMMA ReserveFirstKeeps ==
    ASSUME Overlaps = FALSE, SubscriptionInv, NEW c \in Conns, ReserveFirst(c)
    PROVE  SubscriptionTypeOK' /\ Accounted(c)'
<1> USE DEF ReserveFirst, TakeMessage, At, Called, Stopping, Subscribing,
            InHand
<1>0. Accounted(c) /\ SubscriptionTypeOK
  BY DEF SubscriptionInv
<1>1. SubscriptionTypeOK'
  <2>0. Len(records[c]) < MaxMessages
    <3>1. Len(records[c]) \in Nat /\ messages[c] \in Nat /\ messages[c] < MaxMessages
      BY <1>0 DEF SubscriptionTypeOK
    <3> QED
      BY <1>0, <3>1, MaxMessagesAssumption DEF Accounted, RecordsCounted
  <2>1. /\ worker' \in [Conns -> Worker] /\ entry' \in [Conns -> RefIds]
        /\ records' \in [Conns -> Seq(WatchRef)]
    <3>1. CASE /\ Reserve(c)
               /\ worker' = [worker EXCEPT ![c] =
                     [pc |-> "reserved", ref |-> Len(records[c]) + 1]]
      BY <1>0, <2>0, <3>1, ReserveKeeps DEF Places
    <3>2. CASE /\ worker' = [worker EXCEPT ![c] = [pc |-> "reserved", ref |-> 0]]
               /\ UNCHANGED <<records, entry>>
      BY <1>0, <3>2, MaxMessagesAssumption
         DEF SubscriptionTypeOK, Worker, RefIds
    <3> QED
      BY <3>1, <3>2
  <2>4. /\ removal' \in [Conns -> [Removers -> {"none", "callback", "stop"}]]
        /\ owned' \in [Conns -> Nat] /\ messages' \in [Conns -> Nat]
        /\ life' \in [Conns -> {"reading", "draining", "gone"}]
        /\ sub' \subseteq Conns /\ closed' \subseteq Conns
    BY <1>0 DEF SubscriptionTypeOK
  <2> QED
    BY <2>1, <2>4 DEF SubscriptionTypeOK
<1>2. RecordsCounted(c)' /\ RecordInHand(c)'
  BY <1>0, MaxMessagesAssumption
     DEF SubscriptionTypeOK, Accounted, RecordsCounted, RecordInHand, WatchRef,
         FreshRef, EntryStarted, Reserve
<1>3. /\ RemovalsAreLast(c)' /\ ReservedIsFresh(c)'
      /\ PairsHaveRecords(c)' /\ StopIsAlone(c)'
  BY <1>0, MaxMessagesAssumption
     DEF SubscriptionTypeOK, Accounted, RemovalsAreLast, ReservedIsFresh,
         PairsHaveRecords, StopIsAlone, WatchRef, FreshRef, EntryStarted,
         Removers, Reserve
<1>4. OwnedIsAccounted(c)'
  BY <1>0, MaxMessagesAssumption
     DEF SubscriptionTypeOK, Accounted, OwnedIsAccounted, WatchRef, FreshRef,
         One, EntryStarted, Reserve
<1> QED
  BY <1>1, <1>2, <1>3, <1>4 DEF Accounted

LEMMA SubscribeKeeps ==
    ASSUME Overlaps = FALSE, SubscriptionInv, NEW c \in Conns, Subscribe(c)
    PROVE  SubscriptionTypeOK' /\ Accounted(c)'
<1> USE DEF Subscribe, At, Called, Stopping, Subscribing, InHand
<1>0. Accounted(c) /\ SubscriptionTypeOK
  BY DEF SubscriptionInv
<1>1. SubscriptionTypeOK'
  <2>1. worker' \in [Conns -> Worker]
    BY <1>0, GoKeeps, ReturnKeeps DEF Places
  <2>2. records' \in [Conns -> Seq(WatchRef)]
    BY <1>0, MaxMessagesAssumption
       DEF SubscriptionTypeOK, WatchRef, FreshRef, Go, Returns
  <2>3. entry' \in [Conns -> RefIds]
    BY <1>0, MaxMessagesAssumption DEF SubscriptionTypeOK, RefIds, Go, Returns
  <2>4. /\ removal' \in [Conns -> [Removers -> {"none", "callback", "stop"}]]
        /\ owned' \in [Conns -> Nat] /\ messages' \in [Conns -> Nat]
        /\ life' \in [Conns -> {"reading", "draining", "gone"}]
        /\ sub' \subseteq Conns /\ closed' \subseteq Conns
    BY <1>0 DEF SubscriptionTypeOK, Go, Returns
  <2> QED
    BY <2>1, <2>2, <2>3, <2>4 DEF SubscriptionTypeOK
<1>2. RecordsCounted(c)' /\ RecordInHand(c)'
  BY <1>0, MaxMessagesAssumption
     DEF SubscriptionTypeOK, Accounted, RecordsCounted, RecordInHand,
         ReservedIsFresh, Worker, IdleWorker, WatchRef, FreshRef, EntryStarted,
         Go, Returns
<1>3. /\ RemovalsAreLast(c)' /\ ReservedIsFresh(c)'
      /\ PairsHaveRecords(c)' /\ StopIsAlone(c)'
  BY <1>0, MaxMessagesAssumption
     DEF SubscriptionTypeOK, Accounted, RecordInHand, RemovalsAreLast,
         ReservedIsFresh, PairsHaveRecords, StopIsAlone, Worker, IdleWorker,
         WatchRef, FreshRef, EntryStarted, Go, Returns
<1>4. OwnedIsAccounted(c)'
  BY <1>0, MaxMessagesAssumption
     DEF SubscriptionTypeOK, Accounted, ReservedIsFresh, OwnedIsAccounted,
         Worker, IdleWorker, WatchRef, FreshRef, One, EntryStarted, Go,
         Returns
<1> QED
  BY <1>1, <1>2, <1>3, <1>4 DEF Accounted

LEMMA ReplaceRecordKeeps ==
    ASSUME Overlaps = FALSE, SubscriptionInv, NEW c \in Conns, ReplaceRecord(c)
    PROVE  SubscriptionTypeOK' /\ Accounted(c)'
<1> USE DEF ReplaceRecord, At, Called, Stopping, Subscribing, InHand
<1>0. Accounted(c) /\ SubscriptionTypeOK
  BY DEF SubscriptionInv
<1>1. SubscriptionTypeOK'
  <2>1. /\ worker' \in [Conns -> Worker] /\ entry' \in [Conns -> RefIds]
        /\ records' \in [Conns -> Seq(WatchRef)]
    <3>1. CASE worker[c].ref # 0
      BY <1>0, <3>1, GoKeeps DEF SubscriptionTypeOK, Places
    <3>2. CASE worker[c].ref = 0
      BY <1>0, <3>2 DEF Accounted, RecordInHand
    <3> QED
      BY <3>1, <3>2
  <2>4. /\ removal' \in [Conns -> [Removers -> {"none", "callback", "stop"}]]
        /\ owned' \in [Conns -> Nat] /\ messages' \in [Conns -> Nat]
        /\ life' \in [Conns -> {"reading", "draining", "gone"}]
        /\ sub' \subseteq Conns /\ closed' \subseteq Conns
    BY <1>0 DEF SubscriptionTypeOK, Go
  <2> QED
    BY <2>1, <2>4 DEF SubscriptionTypeOK
<1>2. RecordsCounted(c)' /\ RecordInHand(c)'
  BY <1>0, MaxMessagesAssumption
     DEF SubscriptionTypeOK, Accounted, RecordsCounted, RecordInHand, Worker,
         WatchRef, FreshRef, EntryStarted, Go
<1>3. /\ RemovalsAreLast(c)' /\ ReservedIsFresh(c)'
      /\ PairsHaveRecords(c)' /\ StopIsAlone(c)'
  BY <1>0, MaxMessagesAssumption
     DEF SubscriptionTypeOK, Accounted, RecordInHand, RemovalsAreLast,
         ReservedIsFresh, PairsHaveRecords, StopIsAlone, Worker, WatchRef,
         FreshRef, EntryStarted, Go
<1>4. OwnedIsAccounted(c)'
  BY <1>0, MaxMessagesAssumption
     DEF SubscriptionTypeOK, Accounted, RecordInHand, OwnedIsAccounted, Worker,
         WatchRef, FreshRef, One, EntryStarted, Go
<1> QED
  BY <1>1, <1>2, <1>3, <1>4 DEF Accounted

LEMMA CheckRemovedKeeps ==
    ASSUME Overlaps = FALSE, SubscriptionInv, NEW c \in Conns, CheckRemoved(c)
    PROVE  SubscriptionTypeOK' /\ Accounted(c)'
<1> USE DEF CheckRemoved, At, Called, Stopping, Subscribing, InHand
<1>0. Accounted(c) /\ SubscriptionTypeOK
  BY DEF SubscriptionInv
<1>1. SubscriptionTypeOK'
  <2>1. worker' \in [Conns -> Worker]
    BY <1>0, GoKeeps, ReturnKeeps DEF Places
  <2>2. records' \in [Conns -> Seq(WatchRef)]
    BY <1>0, MaxMessagesAssumption
       DEF SubscriptionTypeOK, WatchRef, FreshRef, Go, Returns
  <2>3. entry' \in [Conns -> RefIds]
    BY <1>0, MaxMessagesAssumption DEF SubscriptionTypeOK, Go, Returns
  <2>4. /\ removal' \in [Conns -> [Removers -> {"none", "callback", "stop"}]]
        /\ owned' \in [Conns -> Nat] /\ messages' \in [Conns -> Nat]
        /\ life' \in [Conns -> {"reading", "draining", "gone"}]
        /\ sub' \subseteq Conns /\ closed' \subseteq Conns
    BY <1>0 DEF SubscriptionTypeOK, Go, Returns
  <2> QED
    BY <2>1, <2>2, <2>3, <2>4 DEF SubscriptionTypeOK
<1>2. RecordsCounted(c)' /\ RecordInHand(c)'
  BY <1>0, MaxMessagesAssumption
     DEF SubscriptionTypeOK, Accounted, RecordsCounted, RecordInHand, Worker,
         IdleWorker, WatchRef, FreshRef, EntryStarted, Go, Returns
<1>3. /\ RemovalsAreLast(c)' /\ ReservedIsFresh(c)'
      /\ PairsHaveRecords(c)' /\ StopIsAlone(c)'
  BY <1>0, MaxMessagesAssumption
     DEF SubscriptionTypeOK, Accounted, RemovalsAreLast, ReservedIsFresh,
         PairsHaveRecords, StopIsAlone, Worker, IdleWorker, WatchRef, FreshRef,
         EntryStarted, Go, Returns
<1>4. OwnedIsAccounted(c)'
  BY <1>0, MaxMessagesAssumption
     DEF SubscriptionTypeOK, Accounted, OwnedIsAccounted, Worker, IdleWorker,
         WatchRef, FreshRef, One, EntryStarted, Go, Returns
<1> QED
  BY <1>1, <1>2, <1>3, <1>4 DEF Accounted

LEMMA StartWatchKeeps ==
    ASSUME Overlaps = FALSE, SubscriptionInv, NEW c \in Conns, StartWatch(c)
    PROVE  SubscriptionTypeOK' /\ Accounted(c)'
<1> USE DEF StartWatch, At, Called, Stopping, Subscribing, InHand
<1>0. Accounted(c) /\ SubscriptionTypeOK
  BY DEF SubscriptionInv
<1>1. SubscriptionTypeOK'
  <2>1. worker' \in [Conns -> Worker]
    BY <1>0, GoKeeps, ReturnKeeps DEF Places
  <2>2. records' \in [Conns -> Seq(WatchRef)]
    BY <1>0, MaxMessagesAssumption
       DEF SubscriptionTypeOK, WatchRef, FreshRef, Go
  <2>3. entry' \in [Conns -> RefIds]
    BY <1>0, MaxMessagesAssumption DEF SubscriptionTypeOK, Go
  <2>4. removal' \in [Conns -> [Removers -> {"none", "callback", "stop"}]]
    BY <1>0, MaxMessagesAssumption DEF SubscriptionTypeOK, Go
  <2>5. owned' \in [Conns -> Nat]
    <3>1. CASE owned' = [owned EXCEPT ![c] = @ + 1]
      BY <1>0, <3>1 DEF SubscriptionTypeOK
    <3>2. CASE UNCHANGED owned
      BY <1>0, <3>2 DEF SubscriptionTypeOK
    <3> QED
      BY <3>1, <3>2
  <2>6. sub' \subseteq Conns /\ life' \in [Conns -> {"reading", "draining", "gone"}]
        /\ closed' \subseteq Conns /\ messages' \in [Conns -> Nat]
    BY <1>0, MaxMessagesAssumption DEF SubscriptionTypeOK, Go
  <2> QED
    BY <2>1, <2>2, <2>3, <2>4, <2>5, <2>6 DEF SubscriptionTypeOK
<1>2. RecordsCounted(c)' /\ RecordInHand(c)'
  BY <1>0, MaxMessagesAssumption
     DEF SubscriptionTypeOK, Accounted, RecordsCounted, RecordInHand, Worker,
         WatchRef, FreshRef, EntryStarted, Go
<1>3. /\ RemovalsAreLast(c)' /\ ReservedIsFresh(c)'
      /\ PairsHaveRecords(c)' /\ StopIsAlone(c)'
  BY <1>0, MaxMessagesAssumption
     DEF SubscriptionTypeOK, Accounted, RemovalsAreLast, ReservedIsFresh,
         PairsHaveRecords, StopIsAlone, Worker, WatchRef, FreshRef,
         EntryStarted, Go
<1>4. OwnedIsAccounted(c)'
  BY <1>0, MaxMessagesAssumption
     DEF SubscriptionTypeOK, Accounted, OwnedIsAccounted, Worker, WatchRef,
         FreshRef, One, EntryStarted, Go
<1> QED
  BY <1>1, <1>2, <1>3, <1>4 DEF Accounted

LEMMA FinishStartKeeps ==
    ASSUME Overlaps = FALSE, SubscriptionInv, NEW c \in Conns, FinishStart(c)
    PROVE  SubscriptionTypeOK' /\ Accounted(c)'
<1> USE DEF FinishStart, At, Called, Stopping, Subscribing, InHand
<1>0. Accounted(c) /\ SubscriptionTypeOK
  BY DEF SubscriptionInv
<1>7. /\ worker[c].ref \in 1 .. Len(records[c]) /\ ~records[c][worker[c].ref].started
      /\ worker[c].ref # 0 /\ Len(records[c]) \in Nat
      /\ entry[c] = IF records[c][worker[c].ref].removed THEN 0 ELSE worker[c].ref
  BY <1>0 DEF Accounted, RecordInHand
<1>1. SubscriptionTypeOK'
  <2>1. worker' \in [Conns -> Worker]
    BY <1>0, GoKeeps, ReturnKeeps DEF Places
  <2>2. records' \in [Conns -> Seq(WatchRef)]
    <3>1. CASE UNCHANGED records
      BY <1>0, <3>1 DEF SubscriptionTypeOK
    <3>2. CASE records' = [records EXCEPT ![c][worker[c].ref].started = TRUE]
      BY <1>0, <1>7, <3>2, MarkStarted
    <3> QED
      BY <3>1, <3>2
  <2>3. entry' \in [Conns -> RefIds]
    <3>1. CASE UNCHANGED entry
      BY <1>0, <3>1 DEF SubscriptionTypeOK
    <3>2. CASE entry' = [entry EXCEPT ![c] = IF @ = worker[c].ref THEN 0 ELSE @]
      BY <1>0, <3>2, MaxMessagesAssumption DEF SubscriptionTypeOK, RefIds
    <3> QED
      BY <3>1, <3>2
  <2>4. /\ removal' \in [Conns -> [Removers -> {"none", "callback", "stop"}]]
        /\ owned' \in [Conns -> Nat] /\ messages' \in [Conns -> Nat]
        /\ life' \in [Conns -> {"reading", "draining", "gone"}]
        /\ sub' \subseteq Conns /\ closed' \subseteq Conns
    BY <1>0 DEF SubscriptionTypeOK, Go, Returns
  <2> QED
    BY <2>1, <2>2, <2>3, <2>4 DEF SubscriptionTypeOK
<1>2. RecordsCounted(c)'
  BY <1>0, MaxMessagesAssumption
     DEF SubscriptionTypeOK, Accounted, RecordsCounted, WatchRef, FreshRef,
         EntryStarted, Go, Returns
<1>3. RecordInHand(c)'
  <2>1. CASE At(c, "started") /\ ~records[c][worker[c].ref].removed
    <3>1. /\ Len(records'[c]) = Len(records[c])
          /\ records'[c][worker[c].ref].started
          /\ records'[c][worker[c].ref].removed = records[c][worker[c].ref].removed
      BY <1>0, <1>7, <2>1, MarkStarted
    <3>2. worker'[c] = IdleWorker /\ entry'[c] = worker[c].ref /\ entry[c] = worker[c].ref
      BY <1>0, <1>7, <2>1, ReturnKeeps
    <3> QED
      BY <1>0, <1>7, <2>1, <3>1, <3>2
         DEF RecordInHand, EntryStarted, IdleWorker
  <2>2. CASE records[c][worker[c].ref].removed
    BY <1>0, <1>7, <2>2
       DEF SubscriptionTypeOK, RecordInHand, Worker, WatchRef, FreshRef,
           EntryStarted, Go, Returns
  <2>3. CASE At(c, "failed") /\ ~records[c][worker[c].ref].removed
    BY <1>0, <1>7, <2>3
       DEF SubscriptionTypeOK, RecordInHand, Worker, WatchRef, FreshRef,
           EntryStarted, Go, Returns
  <2> QED
    BY <2>1, <2>2, <2>3
<1>4. /\ RemovalsAreLast(c)' /\ ReservedIsFresh(c)'
      /\ PairsHaveRecords(c)' /\ StopIsAlone(c)'
  BY <1>0, MaxMessagesAssumption
     DEF SubscriptionTypeOK, Accounted, RecordInHand, RemovalsAreLast,
         ReservedIsFresh, PairsHaveRecords, StopIsAlone, Worker, IdleWorker,
         WatchRef, FreshRef, EntryStarted, Go, Returns
<1>5. OwnedIsAccounted(c)'
  <2>1. CASE At(c, "started") /\ ~records[c][worker[c].ref].removed
    <3>1. /\ Len(records'[c]) = Len(records[c])
          /\ records'[c][worker[c].ref].started
          /\ records'[c][worker[c].ref].removed = records[c][worker[c].ref].removed
      BY <1>0, <1>7, <2>1, MarkStarted
    <3>2. worker'[c] = IdleWorker /\ entry'[c] = worker[c].ref /\ entry[c] = worker[c].ref
      BY <1>0, <1>7, <2>1, ReturnKeeps
    <3> QED
      BY <1>0, <1>7, <2>1, <3>1, <3>2
         DEF Accounted, OwnedIsAccounted, EntryStarted, IdleWorker, One
  <2>2. CASE records[c][worker[c].ref].removed
    BY <1>0, <1>7, <2>2
       DEF SubscriptionTypeOK, Accounted, OwnedIsAccounted, Worker, WatchRef,
           FreshRef, One, EntryStarted, Go, Returns
  <2>3. CASE At(c, "failed") /\ ~records[c][worker[c].ref].removed
    BY <1>0, <1>7, <2>3
       DEF SubscriptionTypeOK, Accounted, OwnedIsAccounted, Worker, WatchRef,
           FreshRef, One, EntryStarted, Go, Returns
  <2> QED
    BY <2>1, <2>2, <2>3
<1> QED
  BY <1>1, <1>2, <1>3, <1>4, <1>5 DEF Accounted

LEMMA StopNowKeeps ==
    ASSUME Overlaps = FALSE, SubscriptionInv, NEW c \in Conns, StopNow(c)
    PROVE  SubscriptionTypeOK' /\ Accounted(c)'
<1> USE DEF StopNow, At, Called, Stopping, Subscribing, InHand
<1>0. Accounted(c) /\ SubscriptionTypeOK
  BY DEF SubscriptionInv
<1>1. SubscriptionTypeOK'
  <2>1. worker' \in [Conns -> Worker]
    BY <1>0, GoKeeps, ReturnKeeps
  <2>2. records' \in [Conns -> Seq(WatchRef)]
    BY <1>0, MaxMessagesAssumption
       DEF SubscriptionTypeOK, WatchRef, FreshRef, Returns
  <2>3. entry' \in [Conns -> RefIds]
    BY <1>0, MaxMessagesAssumption DEF SubscriptionTypeOK, Returns
  <2>4. removal' \in [Conns -> [Removers -> {"none", "callback", "stop"}]]
    BY <1>0, MaxMessagesAssumption DEF SubscriptionTypeOK, Returns
  <2>5. owned' \in [Conns -> Nat]
    BY <1>0, MaxMessagesAssumption
       DEF SubscriptionTypeOK, Accounted, OwnedIsAccounted, One, Returns
  <2>6. sub' \subseteq Conns /\ life' \in [Conns -> {"reading", "draining", "gone"}]
        /\ closed' \subseteq Conns /\ messages' \in [Conns -> Nat]
    BY <1>0, MaxMessagesAssumption DEF SubscriptionTypeOK, Returns
  <2> QED
    BY <2>1, <2>2, <2>3, <2>4, <2>5, <2>6 DEF SubscriptionTypeOK
<1>2. RecordsCounted(c)' /\ RecordInHand(c)'
  BY <1>0, MaxMessagesAssumption
     DEF Accounted, RecordsCounted, RecordInHand, IdleWorker, WatchRef,
         FreshRef, EntryStarted, Returns
<1>3. /\ RemovalsAreLast(c)' /\ ReservedIsFresh(c)'
      /\ PairsHaveRecords(c)' /\ StopIsAlone(c)'
  BY <1>0, MaxMessagesAssumption
     DEF Accounted, RemovalsAreLast, ReservedIsFresh, PairsHaveRecords,
         StopIsAlone, IdleWorker, WatchRef, FreshRef, EntryStarted, Returns
<1>4. OwnedIsAccounted(c)'
  BY <1>0, MaxMessagesAssumption
     DEF SubscriptionTypeOK, Accounted, OwnedIsAccounted, IdleWorker, WatchRef,
         FreshRef, One, EntryStarted, Returns
<1> QED
  BY <1>1, <1>2, <1>3, <1>4 DEF Accounted

LEMMA UnsubscribeKeeps ==
    ASSUME Overlaps = FALSE, SubscriptionInv, NEW c \in Conns, Unsubscribe(c)
    PROVE  SubscriptionTypeOK' /\ Accounted(c)'
<1> USE DEF Unsubscribe, TakeMessage, RemovePair, At, Called, Stopping,
            Subscribing, InHand
<1>0. Accounted(c) /\ SubscriptionTypeOK
  BY DEF SubscriptionInv
<1>1. SubscriptionTypeOK'
  <2>1. worker' \in [Conns -> Worker]
    BY <1>0, GoKeeps, ReturnKeeps DEF Places
  <2>2. records' \in [Conns -> Seq(WatchRef)]
    BY <1>0, MaxMessagesAssumption
       DEF SubscriptionTypeOK, WatchRef, FreshRef, Go, Returns
  <2>3. entry' \in [Conns -> RefIds]
    BY <1>0, MaxMessagesAssumption DEF SubscriptionTypeOK, Go, Returns
  <2>4. removal' \in [Conns -> [Removers -> {"none", "callback", "stop"}]]
    BY <1>0, MaxMessagesAssumption DEF SubscriptionTypeOK, Go, Returns
  <2>5. owned' \in [Conns -> Nat]
    BY <1>0, MaxMessagesAssumption DEF SubscriptionTypeOK, Go, Returns
  <2>6. sub' \subseteq Conns /\ life' \in [Conns -> {"reading", "draining", "gone"}]
        /\ closed' \subseteq Conns /\ messages' \in [Conns -> Nat]
    BY <1>0, MaxMessagesAssumption DEF SubscriptionTypeOK, Go, Returns
  <2> QED
    BY <2>1, <2>2, <2>3, <2>4, <2>5, <2>6 DEF SubscriptionTypeOK
<1>2. RecordsCounted(c)' /\ RecordInHand(c)'
  BY <1>0, MaxMessagesAssumption
     DEF SubscriptionTypeOK, Accounted, RecordsCounted, RecordInHand, Worker,
         IdleWorker, WatchRef, FreshRef, EntryStarted, Go, Returns
<1>3. /\ RemovalsAreLast(c)' /\ ReservedIsFresh(c)'
      /\ PairsHaveRecords(c)' /\ StopIsAlone(c)'
  BY <1>0, MaxMessagesAssumption
     DEF SubscriptionTypeOK, Accounted, RemovalsAreLast, ReservedIsFresh,
         PairsHaveRecords, StopIsAlone, Worker, IdleWorker, WatchRef, FreshRef,
         EntryStarted, Removers, Go, Returns
<1>4. OwnedIsAccounted(c)'
  BY <1>0, MaxMessagesAssumption
     DEF SubscriptionTypeOK, Accounted, PairsHaveRecords, StopIsAlone,
         OwnedIsAccounted, Worker, IdleWorker, WatchRef, FreshRef, One,
         EntryStarted, Go, Returns
<1> QED
  BY <1>1, <1>2, <1>3, <1>4 DEF Accounted

LEMMA WorkerGoesOnKeeps ==
    ASSUME Overlaps = FALSE, SubscriptionInv, NEW c \in Conns, WorkerGoesOn(c)
    PROVE  SubscriptionTypeOK' /\ Accounted(c)'
<1> USE DEF WorkerGoesOn, At, Called, Stopping, Subscribing, InHand
<1>0. Accounted(c) /\ SubscriptionTypeOK
  BY DEF SubscriptionInv
<1>1. SubscriptionTypeOK'
  <2>1. worker' \in [Conns -> Worker]
    BY <1>0, GoKeeps, ReturnKeeps
  <2>2. records' \in [Conns -> Seq(WatchRef)]
    BY <1>0, MaxMessagesAssumption
       DEF SubscriptionTypeOK, WatchRef, FreshRef, Returns
  <2>3. entry' \in [Conns -> RefIds]
    BY <1>0, MaxMessagesAssumption DEF SubscriptionTypeOK, Returns
  <2>4. /\ removal' \in [Conns -> [Removers -> {"none", "callback", "stop"}]]
        /\ owned' \in [Conns -> Nat] /\ messages' \in [Conns -> Nat]
        /\ life' \in [Conns -> {"reading", "draining", "gone"}]
        /\ sub' \subseteq Conns /\ closed' \subseteq Conns
    BY <1>0 DEF SubscriptionTypeOK, Returns
  <2> QED
    BY <2>1, <2>2, <2>3, <2>4 DEF SubscriptionTypeOK
<1>2. RecordsCounted(c)' /\ RecordInHand(c)'
  BY <1>0, MaxMessagesAssumption
     DEF Accounted, RecordsCounted, RecordInHand, IdleWorker, WatchRef,
         FreshRef, EntryStarted, Returns
<1>3. /\ RemovalsAreLast(c)' /\ ReservedIsFresh(c)'
      /\ PairsHaveRecords(c)' /\ StopIsAlone(c)'
  BY <1>0, MaxMessagesAssumption
     DEF Accounted, RemovalsAreLast, ReservedIsFresh, PairsHaveRecords,
         StopIsAlone, IdleWorker, WatchRef, FreshRef, EntryStarted, Returns
<1>4. OwnedIsAccounted(c)'
  BY <1>0, MaxMessagesAssumption
     DEF Accounted, OwnedIsAccounted, IdleWorker, WatchRef, FreshRef, One,
         EntryStarted, Returns
<1> QED
  BY <1>1, <1>2, <1>3, <1>4 DEF Accounted

LEMMA BroadcastUnsubscribesKeeps ==
    ASSUME Overlaps = FALSE, SubscriptionInv, NEW c \in Conns, BroadcastUnsubscribes(c)
    PROVE  SubscriptionTypeOK' /\ Accounted(c)'
<1> USE DEF BroadcastUnsubscribes, RemovePair, At, Called, Stopping,
            Subscribing, InHand
<1>0. Accounted(c) /\ SubscriptionTypeOK
  BY DEF SubscriptionInv
<1>1. SubscriptionTypeOK'
  BY <1>0, MaxMessagesAssumption DEF SubscriptionTypeOK, WatchRef, FreshRef
<1>2. RecordsCounted(c)' /\ RecordInHand(c)'
  BY <1>0, MaxMessagesAssumption
     DEF Accounted, RecordsCounted, RecordInHand, WatchRef, FreshRef,
         EntryStarted
<1>3. /\ RemovalsAreLast(c)' /\ ReservedIsFresh(c)'
      /\ PairsHaveRecords(c)' /\ StopIsAlone(c)'
  BY <1>0, MaxMessagesAssumption
     DEF SubscriptionTypeOK, Accounted, RemovalsAreLast, ReservedIsFresh,
         PairsHaveRecords, StopIsAlone, WatchRef, FreshRef, EntryStarted,
         Removers
<1>4. OwnedIsAccounted(c)'
  BY <1>0, MaxMessagesAssumption
     DEF Accounted, OwnedIsAccounted, WatchRef, FreshRef, One, EntryStarted
<1> QED
  BY <1>1, <1>2, <1>3, <1>4 DEF Accounted

LEMMA OnRemovedKeeps ==
    ASSUME Overlaps = FALSE, SubscriptionInv, NEW c \in Conns, NEW r \in Removers,
           OnRemoved(c, r)
    PROVE  SubscriptionTypeOK' /\ Accounted(c)'
<1> USE DEF OnRemoved, At, Called, Stopping, Subscribing, InHand
<1>0. Accounted(c) /\ SubscriptionTypeOK
  BY DEF SubscriptionInv
<1>7. ~InHand(c) /\ entry[c] # 0 =>
        entry[c] \in 1 .. Len(records[c]) /\ records[c][entry[c]].started
  BY <1>0 DEF Accounted, RecordInHand
<1>8. InHand(c) /\ entry[c] # 0 =>
        /\ entry[c] = worker[c].ref /\ entry[c] \in 1 .. Len(records[c])
        /\ ~records[c][entry[c]].started
  BY <1>0 DEF Accounted, RecordInHand
<1>9. entry[c] # 0 => entry[c] \in 1 .. Len(records[c])
  BY <1>7, <1>8
<1>1. SubscriptionTypeOK'
  <2>1. worker' \in [Conns -> Worker]
    BY <1>0 DEF SubscriptionTypeOK
  <2>2. records' \in [Conns -> Seq(WatchRef)]
    <3>1. CASE UNCHANGED records
      BY <1>0, <3>1 DEF SubscriptionTypeOK
    <3>2. CASE entry[c] # 0 /\ records' = [records EXCEPT ![c][entry[c]].removed = TRUE]
      BY <1>0, <1>9, <3>2, MarkRemoved
    <3> QED
      BY <3>1, <3>2
  <2>3. entry' \in [Conns -> RefIds]
    BY <1>0, MaxMessagesAssumption DEF SubscriptionTypeOK, RefIds
  <2>4. removal' \in [Conns -> [Removers -> {"none", "callback", "stop"}]]
    <3>1. ASSUME NEW x \in {"none", "callback", "stop"}, removal' = [removal EXCEPT ![c][r] = x]
          PROVE  removal' \in [Conns -> [Removers -> {"none", "callback", "stop"}]]
      BY <1>0, <3>1 DEF SubscriptionTypeOK
    <3> QED
      BY <3>1
  <2>5. owned' \in [Conns -> Nat]
    BY <1>0, MaxMessagesAssumption DEF SubscriptionTypeOK
  <2>6. sub' \subseteq Conns /\ life' \in [Conns -> {"reading", "draining", "gone"}]
        /\ closed' \subseteq Conns /\ messages' \in [Conns -> Nat]
    BY <1>0, MaxMessagesAssumption DEF SubscriptionTypeOK
  <2> QED
    BY <2>1, <2>2, <2>3, <2>4, <2>5, <2>6 DEF SubscriptionTypeOK
<1>2. RecordsCounted(c)'
  BY <1>0, MaxMessagesAssumption
     DEF SubscriptionTypeOK, Accounted, RecordsCounted, WatchRef, FreshRef,
         EntryStarted
<1>3. RecordInHand(c)'
  <2>1. CASE entry[c] = 0 \/ records[c][entry[c]].started
    <3>1. entry'[c] = 0 /\ worker' = worker /\ records' = records
      BY <1>0, <2>1 DEF SubscriptionTypeOK
    <3>2. InHand(c) => records[c][worker[c].ref].removed
      BY <1>0, <1>8, <2>1 DEF Accounted, RecordInHand
    <3> QED
      BY <1>0, <2>1, <3>1, <3>2 DEF Accounted, RecordInHand
  <2>2. CASE entry[c] # 0 /\ ~records[c][entry[c]].started
    <3>1. /\ Len(records'[c]) = Len(records[c])
          /\ records'[c][entry[c]].removed
          /\ records'[c][entry[c]].started = records[c][entry[c]].started
      BY <1>0, <1>9, <2>2, MarkRemoved
    <3>2. InHand(c) /\ entry[c] = worker[c].ref
      BY <1>7, <1>8, <2>2
    <3>3. entry'[c] = 0 /\ worker' = worker
      BY <1>0 DEF SubscriptionTypeOK
    <3> QED
      BY <1>0, <2>2, <3>1, <3>2, <3>3 DEF Accounted, RecordInHand
  <2> QED
    BY <2>1, <2>2
<1>4. /\ RemovalsAreLast(c)' /\ ReservedIsFresh(c)'
      /\ PairsHaveRecords(c)' /\ StopIsAlone(c)'
  BY <1>0, MaxMessagesAssumption
     DEF SubscriptionTypeOK, Accounted, RecordInHand, RemovalsAreLast,
         ReservedIsFresh, PairsHaveRecords, StopIsAlone, Worker, WatchRef,
         FreshRef, EntryStarted, Removers
<1>5. OwnedIsAccounted(c)'
  BY <1>0, MaxMessagesAssumption
     DEF SubscriptionTypeOK, Accounted, StopIsAlone, OwnedIsAccounted,
         WatchRef, FreshRef, One, EntryStarted
<1> QED
  BY <1>1, <1>2, <1>3, <1>4, <1>5 DEF Accounted

LEMMA StopRemovedKeeps ==
    ASSUME Overlaps = FALSE, SubscriptionInv, NEW c \in Conns, NEW r \in Removers,
           StopRemoved(c, r)
    PROVE  SubscriptionTypeOK' /\ Accounted(c)'
<1> USE DEF StopRemoved, At, Called, Stopping, Subscribing, InHand
<1>0. Accounted(c) /\ SubscriptionTypeOK
  BY DEF SubscriptionInv
<1>1. SubscriptionTypeOK'
  BY <1>0, MaxMessagesAssumption
     DEF SubscriptionTypeOK, Accounted, WatchRef, FreshRef, OwnedIsAccounted,
         One
<1>2. RecordsCounted(c)' /\ RecordInHand(c)'
  BY <1>0, MaxMessagesAssumption
     DEF Accounted, RecordsCounted, RecordInHand, WatchRef, FreshRef,
         EntryStarted
<1>3. /\ RemovalsAreLast(c)' /\ ReservedIsFresh(c)'
      /\ PairsHaveRecords(c)' /\ StopIsAlone(c)'
  BY <1>0, MaxMessagesAssumption
     DEF Accounted, RemovalsAreLast, ReservedIsFresh, PairsHaveRecords,
         StopIsAlone, WatchRef, FreshRef, EntryStarted
<1>4. OwnedIsAccounted(c)'
  BY <1>0, MaxMessagesAssumption
     DEF SubscriptionTypeOK, Accounted, StopIsAlone, OwnedIsAccounted,
         WatchRef, FreshRef, One, EntryStarted
<1> QED
  BY <1>1, <1>2, <1>3, <1>4 DEF Accounted

LEMMA DisconnectKeeps ==
    ASSUME Overlaps = FALSE, SubscriptionInv, NEW c \in Conns, Disconnect(c)
    PROVE  SubscriptionTypeOK' /\ Accounted(c)'
<1> USE DEF Disconnect, At, Called, Stopping, Subscribing, InHand
<1>0. Accounted(c) /\ SubscriptionTypeOK
  BY DEF SubscriptionInv
<1>1. SubscriptionTypeOK'
  BY <1>0, MaxMessagesAssumption DEF SubscriptionTypeOK, WatchRef, FreshRef
<1>2. RecordsCounted(c)' /\ RecordInHand(c)'
  BY <1>0, MaxMessagesAssumption
     DEF Accounted, RecordsCounted, RecordInHand, WatchRef, FreshRef,
         EntryStarted
<1>3. /\ RemovalsAreLast(c)' /\ ReservedIsFresh(c)'
      /\ PairsHaveRecords(c)' /\ StopIsAlone(c)'
  BY <1>0, MaxMessagesAssumption
     DEF Accounted, RemovalsAreLast, ReservedIsFresh, PairsHaveRecords,
         StopIsAlone, WatchRef, FreshRef, EntryStarted
<1>4. OwnedIsAccounted(c)'
  BY <1>0, MaxMessagesAssumption
     DEF Accounted, OwnedIsAccounted, WatchRef, FreshRef, EntryStarted
<1> QED
  BY <1>1, <1>2, <1>3, <1>4 DEF Accounted

LEMMA UnregisterKeeps ==
    ASSUME Overlaps = FALSE, SubscriptionInv, NEW c \in Conns, Unregister(c)
    PROVE  SubscriptionTypeOK' /\ Accounted(c)'
<1> USE DEF Unregister, RemovePair, At, Called, Stopping, Subscribing, InHand
<1>0. Accounted(c) /\ SubscriptionTypeOK
  BY DEF SubscriptionInv
<1>1. SubscriptionTypeOK'
  BY <1>0, MaxMessagesAssumption DEF SubscriptionTypeOK, WatchRef, FreshRef
<1>2. RecordsCounted(c)' /\ RecordInHand(c)'
  BY <1>0, MaxMessagesAssumption
     DEF Accounted, RecordsCounted, RecordInHand, WatchRef, FreshRef,
         EntryStarted
<1>3. /\ RemovalsAreLast(c)' /\ ReservedIsFresh(c)'
      /\ PairsHaveRecords(c)' /\ StopIsAlone(c)'
  BY <1>0, MaxMessagesAssumption
     DEF SubscriptionTypeOK, Accounted, RemovalsAreLast, ReservedIsFresh,
         PairsHaveRecords, StopIsAlone, WatchRef, FreshRef, EntryStarted,
         Removers
<1>4. OwnedIsAccounted(c)'
  BY <1>0, MaxMessagesAssumption
     DEF Accounted, PairsHaveRecords, StopIsAlone, OwnedIsAccounted, WatchRef,
         FreshRef, One, EntryStarted
<1> QED
  BY <1>1, <1>2, <1>3, <1>4 DEF Accounted

LEMMA CloseConnKeeps ==
    ASSUME Overlaps = FALSE, SubscriptionInv, NEW c \in Conns, CloseConn(c)
    PROVE  SubscriptionTypeOK' /\ Accounted(c)'
<1> USE DEF CloseConn, At, Called, Stopping, Subscribing, InHand
<1>0. Accounted(c) /\ SubscriptionTypeOK
  BY DEF SubscriptionInv
<1>1. SubscriptionTypeOK'
  BY <1>0, MaxMessagesAssumption DEF SubscriptionTypeOK, WatchRef, FreshRef
<1>2. RecordsCounted(c)' /\ RecordInHand(c)'
  BY <1>0, MaxMessagesAssumption
     DEF Accounted, RecordsCounted, RecordInHand, WatchRef, FreshRef,
         EntryStarted
<1>3. /\ RemovalsAreLast(c)' /\ ReservedIsFresh(c)'
      /\ PairsHaveRecords(c)' /\ StopIsAlone(c)'
  BY <1>0, MaxMessagesAssumption
     DEF Accounted, RemovalsAreLast, ReservedIsFresh, PairsHaveRecords,
         StopIsAlone, WatchRef, FreshRef, EntryStarted
<1>4. OwnedIsAccounted(c)'
  BY <1>0, MaxMessagesAssumption
     DEF Accounted, OwnedIsAccounted, WatchRef, FreshRef, EntryStarted
<1> QED
  BY <1>1, <1>2, <1>3, <1>4 DEF Accounted

LEMMA SubscriptionInvInit == SubscriptionInit => SubscriptionInv
<1> SUFFICES ASSUME SubscriptionInit
             PROVE  SubscriptionInv
  OBVIOUS
<1>1. SubscriptionTypeOK
  BY MaxMessagesAssumption
     DEF SubscriptionInit, SubscriptionTypeOK, RefIds, Worker, IdleWorker
<1>2. ASSUME NEW c \in Conns PROVE Accounted(c)
  BY MaxMessagesAssumption
     DEF SubscriptionInit, IdleWorker, At, Called, Stopping, Subscribing, InHand,
         EntryStarted, One, Removers, Accounted, RecordsCounted, RecordInHand,
         RemovalsAreLast, ReservedIsFresh, PairsHaveRecords, StopIsAlone,
         OwnedIsAccounted
<1> QED
  BY <1>1, <1>2 DEF SubscriptionInv

LEMMA SubscriptionInvNext ==
    ASSUME Overlaps = FALSE, SubscriptionInv, [SubscriptionNext]_subscriptionVars
    PROVE  SubscriptionInv'
<1>1. ASSUME NEW c \in Conns, StepOf(c) PROVE SubscriptionInv'
  <2>1. SubscriptionTypeOK' /\ Accounted(c)'
    BY <1>1, ReserveFirstKeeps, SubscribeKeeps, ReplaceRecordKeeps,
       CheckRemovedKeeps, StartWatchKeeps, FinishStartKeeps, StopNowKeeps,
       UnsubscribeKeeps, WorkerGoesOnKeeps, BroadcastUnsubscribesKeeps,
       OnRemovedKeeps, StopRemovedKeeps, DisconnectKeeps, UnregisterKeeps,
       CloseConnKeeps DEF StepOf
  <2>2. ASSUME NEW d \in Conns, d # c PROVE Accounted(d)'
    <3>1. SameFor(d)
      BY <1>1, <2>2, OthersSame DEF SubscriptionInv
    <3> QED
      BY <3>1, AccountedSame DEF SubscriptionInv
  <2> QED
    BY <2>1, <2>2 DEF SubscriptionInv
<1>2. CASE SubscriptionNext
  <2>1. \E c \in Conns : StepOf(c)
    BY <1>2 DEF SubscriptionNext, StepOf
  <2> QED
    BY <1>1, <2>1
<1>3. CASE UNCHANGED subscriptionVars
  <2>1. SubscriptionTypeOK'
    BY <1>3 DEF SubscriptionInv, SubscriptionTypeOK, subscriptionVars
  <2>2. ASSUME NEW d \in Conns PROVE Accounted(d)'
    BY <1>3, AccountedSame DEF SubscriptionInv, SameFor, subscriptionVars
  <2> QED
    BY <2>1, <2>2 DEF SubscriptionInv
<1> QED
  BY <1>2, <1>3

\* Nobody owns a watch reference twice, gives back one it does not own, or is
\* left with one its pair no longer stands for, however removals interleave with
\* a subscribe, for any number of connections and messages.
THEOREM ReferencesMirrorPairs ==
    ASSUME Overlaps = FALSE
    PROVE  SubscriptionSpec => []SubscriptionIsSound
<1>1. SubscriptionInv => SubscriptionIsSound
  <2> SUFFICES ASSUME SubscriptionInv, NEW c \in Conns
               PROVE  /\ Settled(c) => owned[c] = IF c \in sub THEN 1 ELSE 0
                      /\ owned[c] >= (IF At(c, "stop") THEN 1 ELSE 0)
                             + (IF \E r \in Removers : removal[c][r] = "stop"
                                THEN 1 ELSE 0)
    BY DEF SubscriptionIsSound, RefsMirrorPairs, StopsAreOwned
  <2>1. Accounted(c)
    BY DEF SubscriptionInv
  <2>2. OwnedIsAccounted(c)
    BY <2>1 DEF Accounted
  <2>3. Settled(c) => owned[c] = IF c \in sub THEN 1 ELSE 0
    BY <2>1 DEF Settled, At, Accounted, OwnedIsAccounted, PairsHaveRecords,
                RecordInHand, EntryStarted, Called, Stopping, Subscribing, InHand, One
  <2>4. owned[c] >= (IF At(c, "stop") THEN 1 ELSE 0)
                    + (IF \E r \in Removers : removal[c][r] = "stop" THEN 1 ELSE 0)
    BY <2>2 DEF OwnedIsAccounted, At, Stopping, One
  <2> QED
    BY <2>3, <2>4
<1> QED
  BY <1>1, SubscriptionInvInit, SubscriptionInvNext, PTL DEF SubscriptionSpec

(***************************************************************************)
(* EventBatcher.  Its invariant has three parts: who holds a batch and who *)
(* flushes it (HoldInv), who will flush what is queued (StrandInv) and in  *)
(* which order the events are (OrderInv).                                  *)
(***************************************************************************)

\* A hold is counted in the batch its release is bound to, and no timer waits
\* in a batch that is held.
HoldersAt(b) == {h \in Holders : held[h] = b}

HoldsCounted ==
    /\ \A h \in Holders : held[h] <= batchCount
    /\ \A b \in BatchIds :
           /\ batch[b].held = Cardinality(HoldersAt(b))
           /\ batch[b].held > 0 => batch[b].timer = "nil"

\* A thread that has looked a batch up has one; one with a holder's name is the
\* FlushTopic of that holder, which works on the batch held while it is current.
Placed(t) ==
    /\ t.pc \in {"lock", "send"} => t.at \in 1 .. batchCount
    /\ t.pc = "after" => t.born \in BatchIds
    /\ t.kind \in {"cleanup", "shutdown"} => t.pc \in {"lock", "send"}
    /\ t.kind = "size" => t.pc # "idle" /\ t.born \in BatchIds
    /\ t.owner \in Holders =>
           /\ t.kind = "topic" /\ t.pc # "idle"
           /\ held[t.owner] # 0 /\ t.owner \notin quiet
           /\ t.pc \in {"lock", "send"} /\ held[t.owner] = currentBatch
                => t.at = currentBatch

ThreadsPlaced == \A f \in Flushers : Placed(flush[f])

OneFlushEach ==
    \A f, g \in Flushers :
        flush[f].owner \in Holders /\ flush[f].owner = flush[g].owner => f = g

OneSender ==
    \A f, g \in Flushers :
        Sending(f) /\ Sending(g) /\ flush[f].at = flush[g].at => f = g

QuietHolds == \A h \in quiet : held[h] # 0

HoldInv ==
    HoldsCounted /\ ThreadsPlaced /\ OneFlushEach /\ OneSender /\ QuietHolds

\* A clean-up has b to itself and has not extracted yet.
CleanupLocked(b) ==
    \E f \in Flushers :
        flush[f].kind = "cleanup" /\ flush[f].pc = "lock" /\ flush[f].at = b

\* Nothing is left in b but what a clean-up under way flushes.
Drained(b) ==
    /\ batch[b].events # <<>> => CleanupLocked(b)
    /\ SendingFrom(b) # {} => CleaningUp(b)

FreshIsEmpty == \A b \in BatchIds : b > batchCount => batch[b].events = <<>>
TimedHasEvents == \A b \in BatchIds : batch[b].timer # "nil" => batch[b].events # <<>>
LeftIsDrained == \A b \in BatchIds : b # currentBatch => Drained(b)

\* While events are taken, a flush that has not extracted yet will reach the
\* current batch, unless it is held or its timer waits.
Served(b) ==
    \E f \in Flushers : flush[f].pc = "lookup" \/ (flush[f].pc = "lock" /\ flush[f].at = b)

CurrentIsServed ==
    ~Cancelled /\ currentBatch # 0 =>
        LET bt == batch[currentBatch] IN
        bt.events # <<>> /\ bt.held = 0 /\ bt.timer # "armed" => Served(currentBatch)

\* Shutdown's flush leaves nothing behind but what clean-ups see to.
ShutdownFlushes ==
    /\ \A f \in Flushers : flush[f].kind = "shutdown" =>
           /\ shut = "cancelled"
           /\ \A g \in Flushers : flush[g].kind = "shutdown" => f = g
           /\ \A b \in BatchIds :
                  IF b = flush[f].at
                  THEN Sending(f) /\ batch[b].events # <<>> => CleanupLocked(b)
                  ELSE Drained(b)
    /\ shut \in {"flushed", "done"} => \A b \in BatchIds : Drained(b)

StrandInv ==
    FreshIsEmpty /\ TimedHasEvents /\ LeftIsDrained /\ CurrentIsServed /\ ShutdownFlushes

\* What is queued, or on its way out, is in order object by object, and a keyed
\* object is queued once.
Ordered(s) ==
    \A i, j \in 1 .. Len(s) : i < j /\ s[i].obj = s[j].obj => s[i].ver < s[j].ver
KeyedOnce(s) ==
    \A i, j \in 1 .. Len(s) : s[i].obj = s[j].obj /\ s[i].obj \notin Unkeyed => i = j
Accepted(s) == \A i \in 1 .. Len(s) : s[i].ver <= accepted
NotSent(s, b) == \A i \in 1 .. Len(s) : sent[b][s[i].obj] < s[i].ver

QueuesInOrder ==
    \A b \in BatchIds :
        LET queue == batch[b].events IN
        /\ Ordered(queue) /\ KeyedOnce(queue) /\ Accepted(queue) /\ NotSent(queue, b)
        /\ \A o \in Objects : sent[b][o] <= accepted

FramesInOrder ==
    \A f \in Flushers : Sending(f) => Ordered(flush[f].out) /\ Accepted(flush[f].out)

OrderInv == QueuesInOrder /\ FramesInOrder /\ OldestFirst

BatcherInv == BatcherTypeOK /\ HoldInv /\ QuietUnderHold /\ StrandInv /\ OrderInv

LEMMA BatcherNumbers ==
    /\ MaxBatches \in Nat /\ MaxEvents \in Nat /\ MaxBatch \in Nat
    /\ Size \in [Objects -> Nat \ {0}] /\ Budget \in Nat
    /\ NoFlusher \notin Holders /\ IsFiniteSet(Holders)
  BY BatchAssumption, SizeAssumption, HolderAssumption

\* A set of naturals that is not empty has a least element, and a greatest one
\* when it has a bound.
LEMMA LeastOf ==
    ASSUME NEW T, T \subseteq Nat, T # {}
    PROVE  \E n \in T : \A m \in T : n <= m
<1>1. IsWellFoundedOn({p \in Nat \X Nat : p[1] < p[2]}, Nat)
  BY NatLessThanWellFounded DEF OpToRel
<1>2. PICK n \in T : \A m \in T : <<m, n>> \notin {p \in Nat \X Nat : p[1] < p[2]}
  BY <1>1, WFMin
<1>3. \A m \in T : ~(m < n)
  BY <1>2
<1> QED
  BY <1>3

LEMMA GreatestOf ==
    ASSUME NEW S, S \subseteq Nat, S # {}, NEW top \in Nat,
           \A x \in S : x <= top
    PROVE  /\ Max(S) \in S
           /\ \A x \in S : x <= Max(S)
<1> DEFINE T == {top - x : x \in S}
<1>1. T \subseteq Nat /\ T # {}
  <2>1. \A x \in S : top - x \in Nat
    OBVIOUS
  <2> QED
    BY <2>1
<1>2. PICK n \in T : \A m \in T : n <= m
  <2> HIDE DEF T
  <2> QED
    BY <1>1, LeastOf
<1>3. PICK y \in S : n = top - y
  BY <1>2
<1>4. \A x \in S : n <= top - x
  BY <1>2
<1>5. \A x \in S : y >= x
  BY <1>3, <1>4
<1> QED
  BY <1>5 DEF Max

\* A frame is a prefix of what is left to send.
LEMMA FrameIsPrefix ==
    ASSUME NEW s \in Seq(Event)
    PROVE  FrameLength(s) \in 0 .. Len(s)
<1> DEFINE P == {n \in 0 .. Len(s) : \A i \in 1 .. n : Fits(s, i)}
<1>1. P \subseteq 0 .. Len(s) /\ Len(s) \in Nat
  OBVIOUS
<1>2. 0 \in P
  <2>1. 1 .. 0 = {}
    OBVIOUS
  <2> QED
    BY <1>1, <2>1
<1> HIDE DEF P
<1>3. P \subseteq Nat /\ \A n \in P : n <= Len(s)
  BY <1>1
<1>4. Max(P) \in P
  BY <1>1, <1>2, <1>3, GreatestOf
<1> QED
  BY <1>1, <1>4 DEF FrameLength, P

\* Positions of S up to i; there is one more of them at each of S, so each count
\* up to the size of S is reached at a position of S.
UpTo(S, i) == S \cap (1 .. i)

LEMMA UpToIsFinite ==
    ASSUME NEW S, NEW i \in Nat
    PROVE  IsFiniteSet(UpTo(S, i)) /\ Cardinality(UpTo(S, i)) \in Nat
<1>1. UpTo(S, i) \in SUBSET Nat /\ \A x \in UpTo(S, i) : x <= i
  BY DEF UpTo
<1> QED
  BY <1>1, FS_BoundedSetOfNaturals, FS_CardinalityType

LEMMA EachCountIsReached ==
    ASSUME NEW n \in Nat, NEW S, S \subseteq 1 .. n,
           NEW k \in 1 .. Cardinality(S)
    PROVE  \E i \in S : Cardinality(UpTo(S, i)) = k
<1> DEFINE T == {i \in 0 .. n : Cardinality(UpTo(S, i)) >= k}
<1>1. UpTo(S, n) = S /\ UpTo(S, 0) = {}
  <2>1. 1 .. 0 = {}
    OBVIOUS
  <2> QED
    BY <2>1 DEF UpTo
<1>2. Cardinality(S) \in Nat /\ Cardinality(UpTo(S, 0)) = 0
  BY <1>1, UpToIsFinite, FS_EmptySet
<1>3. n \in T /\ T \subseteq Nat
  BY <1>1, <1>2
<1>4. PICK i \in T : \A j \in T : i <= j
  <2> HIDE DEF T
  <2> QED
    BY <1>3, LeastOf
<1>5. i \in 1 .. n /\ Cardinality(UpTo(S, i)) >= k
  BY <1>2, <1>4
<1>6. /\ Cardinality(UpTo(S, i - 1)) < k
      /\ Cardinality(UpTo(S, i - 1)) \in Nat /\ Cardinality(UpTo(S, i)) \in Nat
      /\ IsFiniteSet(UpTo(S, i - 1))
  <2>1. i - 1 \in 0 .. n /\ ~(i <= i - 1)
    BY <1>5
  <2>2. i - 1 \notin T
    <3> HIDE DEF T
    <3> QED
      BY <1>4, <2>1
  <2> QED
    BY <2>1, <2>2, UpToIsFinite, <1>5
<1> HIDE DEF T
<1>7. i \in S
  <2> SUFFICES ASSUME i \notin S PROVE FALSE
    OBVIOUS
  <2>1. UpTo(S, i) = UpTo(S, i - 1)
    BY <1>5 DEF UpTo
  <2> QED
    BY <1>5, <1>6, <2>1
<1>8. UpTo(S, i) = UpTo(S, i - 1) \cup {i} /\ i \notin UpTo(S, i - 1)
  BY <1>5, <1>7 DEF UpTo
<1>9. Cardinality(UpTo(S, i)) = Cardinality(UpTo(S, i - 1)) + 1
  BY <1>6, <1>8, FS_AddElement
<1>10. Cardinality(UpTo(S, i)) = k
  BY <1>5, <1>6, <1>9
<1> QED
  BY <1>7, <1>10

\* What Fitting keeps is a part of the queue, in its order.
LEMMA FittingIsInOrder ==
    ASSUME NEW s \in Seq(Event)
    PROVE  /\ Fitting(s) \in Seq(Event)
           /\ \A i \in 1 .. Len(Fitting(s)) : \E p \in 1 .. Len(s) : Fitting(s)[i] = s[p]
           /\ \A i, j \in 1 .. Len(Fitting(s)) : i < j =>
                  \E p, q \in 1 .. Len(s) :
                      p < q /\ Fitting(s)[i] = s[p] /\ Fitting(s)[j] = s[q]
<1> DEFINE small == {i \in 1 .. Len(s) : Size[s[i].obj] <= Budget}
           N == Cardinality(small)
           Nth(k) == CHOOSE i \in small : Cardinality(UpTo(small, i)) = k
<1>1. Len(s) \in Nat /\ small \subseteq 1 .. Len(s)
  OBVIOUS
<1>2. N \in Nat
  <2>1. UpTo(small, Len(s)) = small
    BY <1>1 DEF UpTo
  <2> QED
    BY <1>1, <2>1, UpToIsFinite
<1>3. Fitting(s) = [k \in 1 .. N |-> s[Nth(k)]]
  BY DEF Fitting, UpTo
<1> HIDE DEF small
<1>4. \A k \in 1 .. N : Nth(k) \in small /\ Cardinality(UpTo(small, Nth(k))) = k
  BY <1>1, EachCountIsReached
<1>5. ASSUME NEW k \in 1 .. N, NEW l \in 1 .. N, k < l
      PROVE  Nth(k) < Nth(l)
  <2>1. Nth(k) \in 1 .. Len(s) /\ Nth(l) \in 1 .. Len(s)
    BY <1>1, <1>4
  <2>2. SUFFICES ASSUME Nth(l) <= Nth(k) PROVE FALSE
    BY <2>1
  <2> DEFINE a == Nth(k)
             b == Nth(l)
  <2>3. Cardinality(UpTo(small, a)) = k /\ Cardinality(UpTo(small, b)) = l
    BY <1>4
  <2>4. a \in Nat /\ b \in Nat /\ b <= a
    BY <2>1, <2>2
  <2> HIDE DEF a, b, Nth
  <2>5. UpTo(small, b) \subseteq UpTo(small, a)
    BY <2>4 DEF UpTo
  <2>6. IsFiniteSet(UpTo(small, a))
    BY <2>4, UpToIsFinite
  <2>7. l <= k
    BY <2>3, <2>5, <2>6, FS_Subset
  <2> QED
    BY <1>2, <1>5, <2>7
<1> HIDE DEF Nth
<1>6. \A k \in 1 .. N : Nth(k) \in 1 .. Len(s)
  BY <1>1, <1>4
<1>7. Fitting(s) \in Seq(Event) /\ Len(Fitting(s)) = N
  <2>1. Fitting(s) \in [1 .. N -> Event]
    BY <1>3, <1>6
  <2> QED
    BY <1>2, <2>1
<1>8. \A k \in 1 .. N : Fitting(s)[k] = s[Nth(k)]
  BY <1>3
<1> QED
  BY <1>5, <1>6, <1>7, <1>8, <1>2

\* A keyed event takes the place of the one queued for its key, another one is
\* appended.
LEMMA CoalescedKeeps ==
    ASSUME NEW s \in Seq(Event), NEW e \in Event
    PROVE  /\ Coalesced(s, e) \in Seq(Event) /\ Coalesced(s, e) # <<>>
           /\ \/ /\ Len(Coalesced(s, e)) = Len(s) /\ e.obj \notin Unkeyed
                 /\ \A i \in 1 .. Len(s) :
                        Coalesced(s, e)[i] = IF s[i].obj = e.obj THEN e ELSE s[i]
              \/ /\ Len(Coalesced(s, e)) = Len(s) + 1
                 /\ Coalesced(s, e)[Len(s) + 1] = e
                 /\ \A i \in 1 .. Len(s) : Coalesced(s, e)[i] = s[i]
                 /\ e.obj \notin Unkeyed => \A i \in 1 .. Len(s) : s[i].obj # e.obj
<1>1. CASE e.obj \notin Unkeyed /\ Positions(s, e.obj) # {}
  <2> DEFINE c == [i \in 1 .. Len(s) |-> IF s[i].obj = e.obj THEN e ELSE s[i]]
  <2>1. Coalesced(s, e) = c
    BY <1>1 DEF Coalesced, Positions
  <2>2. c \in [1 .. Len(s) -> Event] /\ 1 .. Len(s) # {} /\ Len(s) \in Nat
    BY <1>1 DEF Positions
  <2>3. c \in Seq(Event) /\ Len(c) = Len(s) /\ c # <<>>
    BY <2>2
  <2> QED
    BY <1>1, <2>1, <2>3
<1>2. CASE ~(e.obj \notin Unkeyed /\ Positions(s, e.obj) # {})
  <2>1. Coalesced(s, e) = Append(s, e)
    BY <1>2 DEF Coalesced
  <2> QED
    BY <1>2, <2>1 DEF Positions
<1> QED
  BY <1>1, <1>2

LEMMA ScheduleKeeps ==
    ASSUME NEW bt \in Batch
    PROVE  /\ ScheduleFlush(bt) \in Batch
           /\ ScheduleFlush(bt).events = bt.events
           /\ ScheduleFlush(bt).held = bt.held
           /\ ScheduleFlush(bt).flushing = bt.flushing
           /\ ScheduleFlush(bt).timer =
                IF bt.timer # "nil" \/ bt.held > 0 THEN bt.timer ELSE "armed"
  BY DEF ScheduleFlush, Batch

LEMMA OpenedIsThere ==
    ASSUME BatcherTypeOK, LockedBatch
    PROVE  /\ Opened \in BatchIds /\ Opened \in 1 .. batchCount'
           /\ currentBatch' = Opened
           /\ batchCount' \in 0 .. MaxBatches /\ batchCount <= batchCount'
           /\ batchCount \in Nat
           /\ \/ currentBatch # 0 /\ Opened = currentBatch /\ batchCount' = batchCount
              \/ currentBatch = 0 /\ Opened = batchCount + 1 /\ batchCount' = Opened
  BY BatcherNumbers DEF BatcherTypeOK, LockedBatch, CanOpen, Opened, BatchIds

\* What AddEvent leaves in the batch, and the flush it may start.
SizeFlush(b) == [IdleThread EXCEPT !.kind = "size", !.pc = "lookup", !.born = b]
NewEvent(o) == [obj |-> o, ver |-> accepted + 1]

LEMMA AddEventDoes ==
    ASSUME BatcherTypeOK, NEW o \in Objects, AddEvent(o)
    PROVE  \E bt \in Batch :
               /\ batch' = [batch EXCEPT ![Opened] = bt]
               /\ bt.events = Coalesced(batch[Opened].events, NewEvent(o))
               /\ bt.held = batch[Opened].held
               /\ \/ /\ \E f \in Flushers : Start(f, SizeFlush(Opened))
                     /\ bt.timer = "nil" /\ bt.held = 0
                  \/ /\ UNCHANGED flush
                     /\ bt.timer = IF \/ batch[Opened].timer # "nil"
                                      \/ batch[Opened].held > 0
                                   THEN batch[Opened].timer ELSE "armed"
<1> DEFINE b == Opened
           e == NewEvent(o)
           added == [batch[b] EXCEPT !.events = Coalesced(@, e)]
           bt == ScheduleFlush(added)
           flushed == [bt EXCEPT !.flushing = TRUE, !.timer = "nil"]
<1>1. b \in BatchIds /\ e \in Event /\ batch[b] \in Batch
  BY OpenedIsThere DEF AddEvent, BatcherTypeOK, NewEvent, Event
<1>2. batch[b].events \in Seq(Event)
  BY <1>1 DEF Batch
<1>3. Coalesced(batch[b].events, e) \in Seq(Event)
  BY <1>1, <1>2, CoalescedKeeps
<1>4. /\ added \in Batch /\ added.events = Coalesced(batch[b].events, e)
      /\ added.held = batch[b].held /\ added.timer = batch[b].timer
  <2> HIDE DEF b, e
  <2> QED
    BY <1>1, <1>3 DEF Batch
<1>5. /\ \/ /\ TooLarge(bt)
            /\ \E f \in Flushers : Start(f, SizeFlush(b))
            /\ batch' = [batch EXCEPT ![b] = flushed]
         \/ /\ batch' = [batch EXCEPT ![b] = bt]
            /\ UNCHANGED flush
  BY DEF AddEvent, NewEvent, SizeFlush
<1> HIDE DEF added
<1>6. /\ bt \in Batch /\ bt.events = added.events /\ bt.held = added.held
      /\ bt.timer = IF added.timer # "nil" \/ added.held > 0 THEN added.timer ELSE "armed"
  BY <1>4, ScheduleKeeps
<1> HIDE DEF bt, b
<1>7. /\ flushed \in Batch /\ flushed.events = bt.events
      /\ flushed.held = bt.held /\ flushed.timer = "nil"
  BY <1>6 DEF Batch
<1> HIDE DEF flushed
<1>8. CASE UNCHANGED flush /\ batch' = [batch EXCEPT ![b] = bt]
  BY <1>4, <1>6, <1>8 DEF b
<1>9. CASE /\ TooLarge(bt)
           /\ \E f \in Flushers : Start(f, SizeFlush(b))
           /\ batch' = [batch EXCEPT ![b] = flushed]
  <2>1. bt.held = 0
    BY <1>9 DEF TooLarge
  <2> QED
    BY <1>4, <1>6, <1>7, <1>9, <2>1 DEF b
<1> QED
  BY <1>5, <1>8, <1>9

\* A flush that returns is idle, or has its flag to reset.
Returned(t) == IF t.kind = "size" THEN [t EXCEPT !.pc = "after", !.at = 0]
                                  ELSE IdleThread

LEMMA ReturnDoes ==
    ASSUME BatcherTypeOK, NEW f \in Flushers, Return(f)
    PROVE  /\ flush' = [flush EXCEPT ![f] = Returned(flush[f])]
           /\ Returned(flush[f]) \in Thread
           /\ ~(Returned(flush[f]).pc \in {"lookup", "lock", "send"})
           /\ flush[f].kind = "size" =>
                /\ Returned(flush[f]).kind = "size"
                /\ Returned(flush[f]).pc = "after"
                /\ Returned(flush[f]).born = flush[f].born
                /\ Returned(flush[f]).owner = flush[f].owner
           /\ flush[f].kind # "size" => Returned(flush[f]) = IdleThread
           /\ quiet' \in SUBSET Holders
           /\ quiet' = quiet \cup ({flush[f].owner} \cap Holders)
           /\ shut' = IF flush[f].kind = "shutdown" THEN "flushed" ELSE shut
<1>1. flush[f] \in Thread
  BY DEF BatcherTypeOK
<1>2. flush' = [flush EXCEPT ![f] = Returned(flush[f])]
  BY DEF Return, Returned
<1>3. IdleThread \in Thread /\ IdleThread.pc = "idle"
  BY DEF IdleThread, Thread
<1> QED
  BY <1>1, <1>2, <1>3 DEF Returned, Return, Thread, BatcherTypeOK

LEMMA BatcherTypeInit == BatcherInit => BatcherTypeOK
  BY BatcherNumbers
     DEF BatcherInit, BatcherTypeOK, Batch, EmptyBatch, Thread, IdleThread

LEMMA StartKeeps ==
    ASSUME BatcherTypeOK, NEW f \in Flushers, NEW t \in Thread, Start(f, t)
    PROVE  flush' \in [Flushers -> Thread]
  BY DEF BatcherTypeOK, Start

\* The threads an operation starts.
LEMMA ThreadsAreThreads ==
    /\ IdleThread \in Thread
    /\ \A b \in BatchIds : SizeFlush(b) \in Thread
    /\ \A b \in BatchIds :
           [IdleThread EXCEPT !.kind = "timer", !.pc = "lookup", !.born = b] \in Thread
    /\ \A h \in Holders \cup {NoFlusher} :
           [IdleThread EXCEPT !.pc = "lookup", !.owner = h] \in Thread
    /\ \A b \in BatchIds, k \in {"cleanup", "shutdown"} :
           [IdleThread EXCEPT !.kind = k, !.pc = "lock", !.at = b] \in Thread
<1>1. IdleThread \in Thread
  BY DEF IdleThread, Thread
<1>2. ASSUME NEW t \in Thread, NEW b \in BatchIds, NEW k \in {"timer", "size"}
      PROVE  [t EXCEPT !.kind = k, !.pc = "lookup", !.born = b] \in Thread
  BY Zenon DEF Thread
<1>3. ASSUME NEW t \in Thread, NEW h \in Holders \cup {NoFlusher}
      PROVE  [t EXCEPT !.pc = "lookup", !.owner = h] \in Thread
  BY Zenon DEF Thread
<1>4. ASSUME NEW t \in Thread, NEW b \in BatchIds, NEW k \in {"cleanup", "shutdown"}
      PROVE  [t EXCEPT !.kind = k, !.pc = "lock", !.at = b] \in Thread
  BY Zenon DEF Thread
<1> QED
  BY <1>1, <1>2, <1>3, <1>4 DEF SizeFlush

LEMMA PlacedInBatch ==
    ASSUME BatcherTypeOK, HoldInv, NEW f \in Flushers,
           flush[f].pc \in {"lock", "send"}
    PROVE  flush[f].at \in BatchIds /\ flush[f].at \in 1 .. batchCount
<1>1. flush[f].at \in 1 .. batchCount
  BY DEF HoldInv, ThreadsPlaced, Placed
<1> QED
  BY <1>1, BatcherNumbers DEF BatcherTypeOK, BatchIds

\* release takes one hold off, and arms the timer when it was the last.
LEMMA ReleaseDoes ==
    ASSUME BatcherTypeOK, HoldInv, NEW h \in Holders, Release(h)
    PROVE  /\ held[h] \in BatchIds
           /\ \E bt \in Batch :
                  /\ batch' = [batch EXCEPT ![held[h]] = bt]
                  /\ bt.events = batch[held[h]].events
                  /\ bt.held = batch[held[h]].held - 1
                  /\ bt.timer = IF bt.events = <<>> \/ bt.held > 0
                                THEN "nil" ELSE "armed"
           /\ batch[held[h]].held > 0
<1> DEFINE b == held[h]
           less == [batch[b] EXCEPT !.held = @ - 1]
<1>1. b \in BatchIds
  BY DEF Release, HoldInv, QuietHolds, BatcherTypeOK
<1>2. batch[b].held > 0
  <2> DEFINE S == HoldersAt(b)
  <2>1. h \in S /\ S \subseteq Holders
    BY DEF HoldersAt
  <2> HIDE DEF S
  <2>2. IsFiniteSet(S)
    BY <2>1, BatcherNumbers, FS_Subset
  <2>3. Cardinality(S) \in Nat /\ Cardinality(S) # 0
    BY <2>1, <2>2, FS_EmptySet, FS_CardinalityType
  <2>4. batch[b].held = Cardinality(S)
    BY <1>1 DEF HoldInv, HoldsCounted, S
  <2> QED
    BY <2>3, <2>4
<1>3. batch[b] \in Batch /\ batch[b].timer = "nil"
  BY <1>1, <1>2 DEF BatcherTypeOK, HoldInv, HoldsCounted
<1>4. ASSUME NEW bt \in Batch, bt.held > 0
      PROVE  LET l == [bt EXCEPT !.held = @ - 1]
             IN /\ l \in Batch /\ l.events = bt.events /\ l.timer = bt.timer
                /\ l.held = bt.held - 1
  BY <1>4 DEF Batch
<1>5. /\ less \in Batch /\ less.events = batch[b].events /\ less.timer = "nil"
      /\ less.held = batch[b].held - 1
  BY <1>2, <1>3, <1>4
<1>6. batch' = [batch EXCEPT ![b] = IF less.events # <<>> THEN ScheduleFlush(less)
                                                          ELSE less]
  BY DEF Release
<1> HIDE DEF less, b
<1>7. CASE less.events # <<>>
  <2> DEFINE bt == ScheduleFlush(less)
  <2>1. /\ bt \in Batch /\ bt.events = less.events /\ bt.held = less.held
        /\ bt.timer = IF less.timer # "nil" \/ less.held > 0 THEN less.timer
                                                             ELSE "armed"
    BY <1>5, ScheduleKeeps
  <2>2. batch' = [batch EXCEPT ![b] = bt]
    BY <1>6, <1>7
  <2> HIDE DEF bt
  <2> QED
    BY <1>1, <1>2, <1>5, <1>7, <2>1, <2>2 DEF b
<1>8. CASE less.events = <<>>
  BY <1>1, <1>2, <1>5, <1>6, <1>8 DEF b
<1> QED
  BY <1>7, <1>8

\* A frame is broadcast: the objects in it are at its newest versions.
LEMMA SendFrameDoes ==
    ASSUME BatcherTypeOK, HoldInv, OrderInv, NEW f \in Flushers, SendFrame(f)
    PROVE  \E n \in 0 .. Len(flush[f].out) :
               /\ flush' = [flush EXCEPT ![f].out = SubSeq(@, n + 1, Len(@))]
               /\ SubSeq(flush[f].out, n + 1, Len(flush[f].out)) \in Seq(Event)
               /\ flush[f].at \in BatchIds
               /\ sent' \in [BatchIds -> [Objects -> Nat]]
               /\ \A b \in BatchIds \ {flush[f].at} : sent'[b] = sent[b]
               /\ \A o \in Objects :
                      \/ sent'[flush[f].at][o] = sent[flush[f].at][o]
                      \/ \E i \in 1 .. n :
                             /\ flush[f].out[i].obj = o
                             /\ sent'[flush[f].at][o] = flush[f].out[i].ver
<1> DEFINE b == flush[f].at
           out == flush[f].out
           n == FrameLength(out)
           frame == {out[i] : i \in 1 .. n}
           vers(o) == {e.ver : e \in {d \in frame : d.obj = o}}
           sentOf == [o \in Objects |-> IF vers(o) = {} THEN sent[b][o] ELSE Max(vers(o))]
<1>1. flush[f] \in Thread /\ flush[f].pc = "send"
  BY DEF BatcherTypeOK, SendFrame
<1>2. out \in Seq(Event) /\ b \in BatchIds /\ Len(out) \in Nat
  BY <1>1, PlacedInBatch DEF Thread
<1>3. n \in 0 .. Len(out)
  BY <1>2, FrameIsPrefix
<1>4. Accepted(out) /\ accepted \in Nat
  BY <1>1 DEF OrderInv, FramesInOrder, Sending, BatcherTypeOK
<1>5. /\ flush' = [flush EXCEPT ![f].out = SubSeq(out, n + 1, Len(out))]
      /\ sent' = [sent EXCEPT ![b] = sentOf]
  BY DEF SendFrame
<1> HIDE DEF n, b, out
<1>6. \A i \in 1 .. n : i \in 1 .. Len(out) /\ out[i] \in Event
  BY <1>2, <1>3
<1>7. ASSUME NEW o \in Objects, vers(o) # {}
      PROVE  /\ Max(vers(o)) \in Nat
             /\ \E i \in 1 .. n : out[i].obj = o /\ Max(vers(o)) = out[i].ver
  <2>1. \A x \in vers(o) : \E i \in 1 .. n : out[i].obj = o /\ x = out[i].ver
    OBVIOUS
  <2>2. vers(o) \subseteq Nat
    BY <1>6, <2>1 DEF Event
  <2>3. \A x \in vers(o) : x <= accepted
    BY <1>4, <1>6, <2>1 DEF Accepted
  <2> HIDE DEF vers
  <2>4. Max(vers(o)) \in vers(o)
    BY <1>4, <1>7, <2>2, <2>3, GreatestOf
  <2> QED
    BY <2>1, <2>2, <2>4
<1> HIDE DEF vers
<1>8. sentOf \in [Objects -> Nat]
  BY <1>2, <1>7 DEF BatcherTypeOK
<1>9. /\ \A o \in Objects : \/ sentOf[o] = sent[b][o]
                            \/ \E i \in 1 .. n : out[i].obj = o /\ sentOf[o] = out[i].ver
  BY <1>7
<1> HIDE DEF sentOf
<1>10. /\ sent' \in [BatchIds -> [Objects -> Nat]] /\ sent'[b] = sentOf
       /\ \A x \in BatchIds \ {b} : sent'[x] = sent[x]
  BY <1>2, <1>5, <1>8 DEF BatcherTypeOK
<1>11. SubSeq(out, n + 1, Len(out)) \in Seq(Event)
  BY <1>2, <1>3
<1>12. flush' = [flush EXCEPT ![f].out = SubSeq(@, n + 1, Len(@))]
  BY <1>5 DEF out
<1> QED
  BY <1>2, <1>3, <1>9, <1>10, <1>11, <1>12 DEF b, out

LEMMA BatcherTypeInductive ==
    ASSUME BatcherTypeOK, HoldInv, OrderInv, [BatcherNext]_batcherVars
    PROVE  BatcherTypeOK'
<1>1. ASSUME NEW o \in Objects, AddEvent(o) PROVE BatcherTypeOK'
  <2>1. /\ batch' \in [BatchIds -> Batch]
        /\ flush' \in [Flushers -> Thread]
    BY <1>1, AddEventDoes, StartKeeps, ThreadsAreThreads, OpenedIsThere
       DEF BatcherTypeOK, AddEvent
  <2>2. batchCount' \in 0 .. MaxBatches /\ currentBatch' \in 0 .. batchCount'
    BY <1>1, OpenedIsThere, BatcherNumbers DEF AddEvent
  <2> QED
    BY <1>1, <2>1, <2>2 DEF BatcherTypeOK, AddEvent
<1>2. ASSUME RefuseEvent PROVE BatcherTypeOK'
  <2>1. batchCount' \in 0 .. MaxBatches /\ currentBatch' \in 0 .. batchCount'
    BY <1>2, OpenedIsThere, BatcherNumbers DEF RefuseEvent
  <2> QED
    BY <1>2, <2>1 DEF BatcherTypeOK, RefuseEvent
<1>3. ASSUME NEW b \in BatchIds, NEW f \in Flushers, TimerFires(b, f)
      PROVE  BatcherTypeOK'
  <2>1. flush' \in [Flushers -> Thread]
    BY <1>3, StartKeeps, ThreadsAreThreads DEF TimerFires, BatcherTypeOK
  <2>2. [batch[b] EXCEPT !.timer = "fired"] \in Batch
    BY DEF BatcherTypeOK, Batch
  <2>3. batch' = [batch EXCEPT ![b] = [batch[b] EXCEPT !.timer = "fired"]]
    BY <1>3 DEF TimerFires
  <2>4. batch' \in [BatchIds -> Batch]
    BY <2>2, <2>3 DEF BatcherTypeOK
  <2> QED
    BY <1>3, <2>1, <2>4 DEF BatcherTypeOK, TimerFires
<1>4. ASSUME NEW f \in Flushers, NEW h \in Holders \cup {NoFlusher},
             FlushTopic(f, h)
      PROVE  BatcherTypeOK'
  <2>1. flush' \in [Flushers -> Thread]
    BY <1>4, StartKeeps, ThreadsAreThreads DEF FlushTopic
  <2> QED
    BY <1>4, <2>1 DEF BatcherTypeOK, FlushTopic
<1>5. ASSUME NEW f \in Flushers, CleanupTopic(f) PROVE BatcherTypeOK'
  <2>1. currentBatch \in BatchIds
    BY <1>5, BatcherNumbers DEF BatcherTypeOK, CleanupTopic, BatchIds
  <2>2. flush' \in [Flushers -> Thread]
    BY <1>5, <2>1, StartKeeps, ThreadsAreThreads DEF CleanupTopic
  <2> QED
    BY <1>5, <2>2, BatcherNumbers DEF BatcherTypeOK, CleanupTopic
<1>6. ASSUME NEW f \in Flushers, Lookup(f) PROVE BatcherTypeOK'
  <2>1. CASE currentBatch # 0
    <3>1. currentBatch \in BatchIds
      BY <2>1, BatcherNumbers DEF BatcherTypeOK, BatchIds
    <3>2. [flush[f] EXCEPT !.pc = "lock", !.at = currentBatch] \in Thread
      <4>1. ASSUME NEW t \in Thread PROVE [t EXCEPT !.pc = "lock", !.at = currentBatch] \in Thread
        BY <3>1 DEF Thread
      <4>2. flush[f] \in Thread
        BY DEF BatcherTypeOK
      <4> QED
        BY <4>1, <4>2
    <3>3. flush' = [flush EXCEPT ![f] =
                        [flush[f] EXCEPT !.pc = "lock", !.at = currentBatch]]
          /\ UNCHANGED <<quiet, shut>>
      BY <1>6, <2>1 DEF Lookup
    <3>4. flush' \in [Flushers -> Thread]
      BY <3>2, <3>3 DEF BatcherTypeOK
    <3>5. UNCHANGED <<batch, batchCount, currentBatch, held, accepted, sent>>
      BY <1>6 DEF Lookup
    <3> QED
      BY <3>3, <3>4, <3>5 DEF BatcherTypeOK
  <2>2. CASE Return(f)
    <3>1. /\ flush' \in [Flushers -> Thread] /\ quiet' \in SUBSET Holders
          /\ shut' \in {"running", "closed", "cancelled", "flushed", "done"}
      BY <2>2, ReturnDoes DEF BatcherTypeOK
    <3> QED
      BY <1>6, <3>1 DEF BatcherTypeOK, Lookup
  <2> QED
    BY <1>6, <2>1, <2>2 DEF Lookup
<1>7. ASSUME NEW f \in Flushers, Extract(f) PROVE BatcherTypeOK'
  <2> DEFINE b == flush[f].at
  <2>1. CASE Return(f) /\ \/ UNCHANGED batch
                          \/ batch' = [batch EXCEPT ![b].timer = "nil"]
    <3>1. /\ flush' \in [Flushers -> Thread] /\ quiet' \in SUBSET Holders
          /\ shut' \in {"running", "closed", "cancelled", "flushed", "done"}
      BY <2>1, ReturnDoes DEF BatcherTypeOK
    <3>2. \A x \in BatchIds : [batch[x] EXCEPT !.timer = "nil"] \in Batch
      BY DEF BatcherTypeOK, Batch
    <3>3. batch' \in [BatchIds -> Batch]
      BY <2>1, <3>2 DEF BatcherTypeOK
    <3> QED
      BY <1>7, <3>1, <3>3 DEF BatcherTypeOK, Extract
  <2>2. CASE /\ flush' = [flush EXCEPT ![f].pc = "send",
                                       ![f].out = Fitting(batch[b].events)]
             /\ batch' = [batch EXCEPT ![b] = Extracted(b)]
             /\ UNCHANGED <<quiet, shut>>
    <3>1. batch[b] \in Batch /\ flush[f] \in Thread
      BY <1>7, PlacedInBatch DEF BatcherTypeOK, Extract
    <3>2. batch[b].events \in Seq(Event)
      BY <3>1 DEF Batch
    <3>3. Fitting(batch[b].events) \in Seq(Event)
      BY <3>2, FittingIsInOrder
    <3>4. ASSUME NEW bt \in Batch, NEW q \in Seq(Event)
          PROVE  [bt EXCEPT !.events = q, !.timer = "nil", !.flushing = FALSE] \in Batch
      BY Zenon DEF Batch
    <3>8. <<>> \in Seq(Event)
      OBVIOUS
    <3>5. ASSUME NEW out \in Seq(Event)
          PROVE  [flush[f] EXCEPT !.pc = "send", !.out = out] \in Thread
      BY <3>1 DEF Thread
    <3>6. flush' = [flush EXCEPT ![f] =
                 [flush[f] EXCEPT !.pc = "send", !.out = Fitting(batch[b].events)]]
      BY <2>2
    <3>7. flush' \in [Flushers -> Thread] /\ batch' \in [BatchIds -> Batch]
      BY <2>2, <3>1, <3>3, <3>4, <3>5, <3>6, <3>8 DEF BatcherTypeOK, Extracted
    <3> QED
      BY <1>7, <2>2, <3>7 DEF BatcherTypeOK, Extract
  <2> QED
    BY <1>7, <2>1, <2>2 DEF Extract
<1>8. ASSUME NEW f \in Flushers, SendFrame(f) PROVE BatcherTypeOK'
  <2>1. sent' \in [BatchIds -> [Objects -> Nat]]
    BY <1>8, SendFrameDoes
  <2>2. PICK n \in 0 .. Len(flush[f].out) :
            /\ flush' = [flush EXCEPT ![f].out = SubSeq(@, n + 1, Len(@))]
            /\ SubSeq(flush[f].out, n + 1, Len(flush[f].out)) \in Seq(Event)
    BY <1>8, SendFrameDoes
  <2>3. ASSUME NEW out \in Seq(Event), NEW t \in Thread
        PROVE  [t EXCEPT !.out = out] \in Thread
    BY DEF Thread
  <2>4. flush' \in [Flushers -> Thread]
    BY <2>2, <2>3 DEF BatcherTypeOK
  <2> QED
    BY <1>8, <2>1, <2>4 DEF BatcherTypeOK, SendFrame
<1>9. ASSUME NEW f \in Flushers, FlushEnds(f) PROVE BatcherTypeOK'
  <2>1. /\ flush' \in [Flushers -> Thread] /\ quiet' \in SUBSET Holders
        /\ shut' \in {"running", "closed", "cancelled", "flushed", "done"}
    BY <1>9, ReturnDoes DEF BatcherTypeOK, FlushEnds
  <2> QED
    BY <1>9, <2>1 DEF BatcherTypeOK, FlushEnds
<1>10. ASSUME NEW f \in Flushers, ResetFlushing(f) PROVE BatcherTypeOK'
  <2>1. \A x \in BatchIds : [batch[x] EXCEPT !.flushing = FALSE] \in Batch
    BY DEF BatcherTypeOK, Batch
  <2>2. batch' \in [BatchIds -> Batch] /\ flush' \in [Flushers -> Thread]
    BY <1>10, <2>1, ThreadsAreThreads DEF BatcherTypeOK, ResetFlushing
  <2> QED
    BY <1>10, <2>2 DEF BatcherTypeOK, ResetFlushing
<1>11. ASSUME NEW h \in Holders, HoldTopic(h) PROVE BatcherTypeOK'
  <2>1. /\ Opened \in BatchIds /\ batchCount' \in 0 .. MaxBatches
        /\ currentBatch' \in 0 .. batchCount'
    BY <1>11, OpenedIsThere, BatcherNumbers DEF HoldTopic
  <2>2. ASSUME NEW bt \in Batch, NEW n \in Nat
        PROVE  [bt EXCEPT !.held = n, !.timer = "nil"] \in Batch
    BY Zenon DEF Batch
  <2>6. \A bt \in Batch : bt.held + 1 \in Nat
    BY DEF Batch
  <2>3. batch' = [batch EXCEPT ![Opened] =
                      [batch[Opened] EXCEPT !.held = @ + 1, !.timer = "nil"]]
    BY <1>11, <2>1 DEF HoldTopic, BatcherTypeOK
  <2>4. batch' \in [BatchIds -> Batch]
    BY <2>1, <2>2, <2>3, <2>6 DEF BatcherTypeOK
  <2>5. held' \in [Holders -> BatchIds \cup {0}]
    BY <1>11, <2>1 DEF BatcherTypeOK, HoldTopic
  <2> QED
    BY <1>11, <2>1, <2>4, <2>5 DEF BatcherTypeOK, HoldTopic
<1>12. ASSUME NEW h \in Holders, Release(h) PROVE BatcherTypeOK'
  <2>1. batch' \in [BatchIds -> Batch]
    BY <1>12, ReleaseDoes DEF BatcherTypeOK
  <2> QED
    BY <1>12, <2>1 DEF BatcherTypeOK, Release
<1>13. CASE Close \/ Cancel \/ WaitGroupDone \/ UNCHANGED batcherVars
  BY <1>13 DEF BatcherTypeOK, Close, Cancel, WaitGroupDone, batcherVars
<1>14. ASSUME NEW f \in Flushers, ShutdownFlush(f) PROVE BatcherTypeOK'
  <2>1. currentBatch # 0 => currentBatch \in BatchIds
    BY BatcherNumbers DEF BatcherTypeOK, BatchIds
  <2>2. flush' \in [Flushers -> Thread] /\ shut' \in {"cancelled", "flushed"}
    BY <1>14, <2>1, StartKeeps, ThreadsAreThreads DEF ShutdownFlush, BatcherTypeOK
  <2> QED
    BY <1>14, <2>2 DEF BatcherTypeOK, ShutdownFlush
<1> QED
  BY <1>1, <1>2, <1>3, <1>4, <1>5, <1>6, <1>7, <1>8, <1>9, <1>10, <1>11, <1>12,
     <1>13, <1>14 DEF BatcherNext

(***************************************************************************)
(* A step that takes no hold and gives none back leaves the holds as they  *)
(* are when the threads it changes keep their places and it starts no      *)
(* broadcast.                                                              *)
(***************************************************************************)
LEMMA HoldsSame ==
    ASSUME BatcherTypeOK, BatcherTypeOK', HoldsCounted, held' = held,
           batchCount <= batchCount',
           \A b \in BatchIds :
               /\ batch'[b].held = batch[b].held
               /\ batch'[b].held > 0 => batch'[b].timer = "nil"
    PROVE  HoldsCounted'
<1>1. \A h \in Holders : held'[h] <= batchCount'
  <2>1. \A h \in Holders : held[h] \in Nat /\ batchCount \in Nat /\ batchCount' \in Nat
    BY BatcherNumbers DEF BatcherTypeOK, BatchIds
  <2> QED
    BY <2>1 DEF HoldsCounted
<1>2. \A b \in BatchIds : HoldersAt(b)' = HoldersAt(b)
  BY DEF HoldersAt
<1> QED
  BY <1>1, <1>2 DEF HoldsCounted

LEMMA PlacedKeeps ==
    ASSUME BatcherTypeOK, BatcherTypeOK', HoldInv, held' = held, quiet' \subseteq quiet,
           batchCount <= batchCount',
           currentBatch' \in {currentBatch, 0, batchCount + 1},
           NEW t \in Thread, Placed(t)
    PROVE  Placed(t)'
<1>1. t.pc \in {"lock", "send"} => t.at \in 1 .. batchCount'
  BY BatcherNumbers DEF Placed, BatcherTypeOK
<1>2. ASSUME t.owner \in Holders
      PROVE  held[t.owner] # 0 /\ held[t.owner] \in Nat /\ held[t.owner] <= batchCount
             /\ batchCount \in Nat
  BY <1>2, BatcherNumbers DEF Placed, HoldInv, HoldsCounted, BatcherTypeOK, BatchIds
<1>3. t.owner \in Holders /\ held[t.owner] = currentBatch' => currentBatch' = currentBatch
  BY <1>2
<1> QED
  BY <1>1, <1>2, <1>3 DEF Placed

LEMMA QuietStep ==
    ASSUME BatcherTypeOK, BatcherTypeOK', HoldInv, QuietUnderHold,
           held' = held, quiet' \subseteq quiet, batchCount <= batchCount',
           currentBatch' \in {currentBatch, 0, batchCount + 1},
           \A b \in BatchIds :
               /\ batch'[b].held = batch[b].held
               /\ batch'[b].held > 0 => batch'[b].timer = "nil",
           OneFlushEach',
           \A f \in Flushers :
               \/ flush'[f] = flush[f]
               \/ /\ Placed(flush[f])'
                  /\ flush'[f].pc = "send" =>
                       /\ flush[f].pc = "send" /\ flush'[f].at = flush[f].at
                       /\ flush'[f].kind = flush[f].kind
    PROVE  HoldInv' /\ QuietUnderHold'
<1>1. HoldsCounted'
  BY HoldsSame DEF HoldInv
<1>2. ThreadsPlaced'
  <2>1. ASSUME NEW f \in Flushers PROVE Placed(flush[f])'
    <3>1. CASE flush'[f] = flush[f]
      <4>1. PICK t \in Thread : t = flush[f]
        BY DEF BatcherTypeOK
      <4>2. Placed(t)
        BY <4>1 DEF HoldInv, ThreadsPlaced
      <4>3. Placed(t)'
        BY <4>2, PlacedKeeps
      <4> QED
        BY <3>1, <4>1, <4>3 DEF Placed
    <3> QED
      BY <3>1
  <2> QED
    BY <2>1 DEF ThreadsPlaced
<1>3. \A f \in Flushers : Sending(f)' =>
          Sending(f) /\ flush'[f].at = flush[f].at /\ flush'[f].kind = flush[f].kind
  BY DEF Sending
<1>4. OneSender'
  BY <1>3 DEF HoldInv, OneSender, Sending
<1>5. QuietHolds'
  BY DEF HoldInv, QuietHolds
<1>6. ASSUME NEW h \in quiet', held'[h] = currentBatch', NEW f \in Flushers,
             Sending(f)', flush'[f].at = currentBatch'
      PROVE  Forced(f)'
  <2>1. h \in quiet /\ h \in Holders
    BY DEF BatcherTypeOK
  <2>2. held[h] # 0 /\ held[h] <= batchCount /\ held[h] \in Nat /\ batchCount \in Nat
    BY <2>1, BatcherNumbers DEF HoldInv, QuietHolds, HoldsCounted, BatcherTypeOK, BatchIds
  <2>3. currentBatch' = currentBatch
    BY <1>6, <2>2
  <2>4. f \in SendingFrom(currentBatch)
    BY <1>3, <1>6, <2>3 DEF SendingFrom
  <2>5. Forced(f)
    BY <1>6, <2>1, <2>3, <2>4 DEF QuietUnderHold
  <2> QED
    BY <1>3, <1>6, <2>5 DEF Forced
<1>7. QuietUnderHold'
  BY <1>6 DEF QuietUnderHold, SendingFrom
<1> QED
  BY <1>1, <1>2, <1>4, <1>5, <1>7 DEF HoldInv

\* A flush that returns leaves its batch to others, and lets its holder go on.
LEMMA ReturnKeepsHolds ==
    ASSUME BatcherTypeOK, BatcherTypeOK', HoldInv, QuietUnderHold,
           NEW f \in Flushers, Return(f),
           flush[f].pc \in {"lookup", "lock", "send"},
           flush[f].pc = "lookup" => currentBatch = 0,
           flush[f].pc = "lock" => SendingFrom(flush[f].at) = {},
           UNCHANGED <<held, batchCount, currentBatch>>,
           \A b \in BatchIds :
               /\ batch'[b].held = batch[b].held
               /\ batch'[b].held > 0 => batch'[b].timer = "nil"
    PROVE  HoldInv' /\ QuietUnderHold'
<1> DEFINE t == flush[f]
           r == Returned(t)
<1>1. /\ flush'[f] = r /\ \A g \in Flushers \ {f} : flush'[g] = flush[g]
      /\ r.kind = "size" => r.pc = "after" /\ r.born \in BatchIds
      /\ r.kind # "size" => r.kind = "topic" /\ r.pc = "idle"
      /\ r.pc \in {"idle", "after"} /\ r.pc = "after" => r.kind = "size"
      /\ r.owner \notin Holders
  <2>1. Placed(t)
    BY DEF HoldInv, ThreadsPlaced
  <2> QED
    BY <2>1, ReturnDoes, BatcherNumbers DEF BatcherTypeOK, Placed, IdleThread
<1>2. quiet' = quiet \cup ({t.owner} \cap Holders)
  BY ReturnDoes
<1>3. Placed(t)
  BY DEF HoldInv, ThreadsPlaced
<1> HIDE DEF r, t
<1>4. HoldsCounted'
  BY HoldsSame, BatcherNumbers DEF HoldInv, BatcherTypeOK
<1>5. ASSUME NEW g \in Flushers PROVE Placed(flush[g])'
  <2>1. CASE g = f
    BY <1>1, <2>1 DEF Placed
  <2>2. CASE g # f
    <3>1. flush'[g] = flush[g] /\ Placed(flush[g])
      BY <1>1, <2>2 DEF HoldInv, ThreadsPlaced
    <3>2. flush[g].owner \in Holders => flush[g].owner # t.owner
      BY <2>2 DEF HoldInv, OneFlushEach, t
    <3> QED
      BY <1>2, <3>1, <3>2 DEF Placed
  <2> QED
    BY <2>1, <2>2
<1>6. OneFlushEach'
  BY <1>1 DEF HoldInv, OneFlushEach
<1>7. \A g \in Flushers : Sending(g)' => Sending(g) /\ g # f /\ flush'[g] = flush[g]
  BY <1>1 DEF Sending
<1>8. OneSender'
  BY <1>7 DEF HoldInv, OneSender
<1>9. QuietHolds'
  BY <1>2, <1>3 DEF HoldInv, QuietHolds, Placed
<1>10. ASSUME NEW h \in quiet', held[h] = currentBatch, NEW g \in Flushers,
              Sending(g)', flush'[g].at = currentBatch
       PROVE  Forced(g)'
  <2>1. Sending(g) /\ g # f /\ flush'[g] = flush[g] /\ g \in SendingFrom(currentBatch)
    BY <1>7, <1>10 DEF SendingFrom
  <2>2. CASE h \in quiet
    BY <1>10, <2>1, <2>2 DEF QuietUnderHold, Forced
  <2>3. CASE h = t.owner /\ h \in Holders
    <3>1. held[h] # 0 /\ t.pc \in {"lock", "send"} /\ t.at = currentBatch
      BY <1>3, <1>10, <2>3 DEF Placed, t
    <3>2. CASE t.pc = "lock"
      BY <2>1, <3>1, <3>2 DEF t
    <3>3. CASE t.pc = "send"
      BY <2>1, <3>1, <3>3 DEF HoldInv, OneSender, SendingFrom, Sending, t
    <3> QED
      BY <3>1, <3>2, <3>3
  <2> QED
    BY <1>2, <2>2, <2>3
<1>11. QuietUnderHold'
  BY <1>10 DEF QuietUnderHold, SendingFrom
<1> QED
  BY <1>4, <1>5, <1>6, <1>8, <1>9, <1>11 DEF HoldInv, ThreadsPlaced

\* What a flush changes of a batch.
LEMMA BatchChanges ==
    ASSUME BatcherTypeOK, NEW b \in BatchIds
    PROVE  /\ batch' = [batch EXCEPT ![b].timer = "nil"] =>
                /\ batch'[b].held = batch[b].held /\ batch'[b].timer = "nil"
                /\ batch'[b].events = batch[b].events
                /\ \A x \in BatchIds \ {b} : batch'[x] = batch[x]
           /\ batch' = [batch EXCEPT ![b] = Extracted(b)] =>
                /\ batch'[b].held = batch[b].held /\ batch'[b].timer = "nil"
                /\ batch'[b].events = <<>>
                /\ \A x \in BatchIds \ {b} : batch'[x] = batch[x]
<1>1. batch[b] \in Batch
  BY DEF BatcherTypeOK
<1>2. ASSUME NEW bt \in Batch
      PROVE  LET t == [bt EXCEPT !.timer = "nil"]
                 e == [bt EXCEPT !.events = <<>>, !.timer = "nil", !.flushing = FALSE]
             IN /\ t.held = bt.held /\ t.timer = "nil" /\ t.events = bt.events
                /\ e.held = bt.held /\ e.timer = "nil" /\ e.events = <<>>
  BY DEF Batch
<1>3. ASSUME batch' = [batch EXCEPT ![b].timer = "nil"]
      PROVE  batch'[b] = [batch[b] EXCEPT !.timer = "nil"]
             /\ \A x \in BatchIds \ {b} : batch'[x] = batch[x]
  BY <1>3 DEF BatcherTypeOK
<1>4. ASSUME batch' = [batch EXCEPT ![b] = Extracted(b)]
      PROVE  batch'[b] = Extracted(b) /\ \A x \in BatchIds \ {b} : batch'[x] = batch[x]
  BY <1>4 DEF BatcherTypeOK
<1> QED
  BY <1>1, <1>2, <1>3, <1>4 DEF Extracted

\* A flush that extracts is the only one to send from its batch, and no holder
\* that counts on quiet has it unless it is forced.
LEMMA ExtractKeepsHolds ==
    ASSUME BatcherTypeOK, BatcherTypeOK', HoldInv, QuietUnderHold,
           NEW f \in Flushers, Extract(f)
    PROVE  HoldInv' /\ QuietUnderHold'
<1> DEFINE b == flush[f].at
<1>1. /\ flush[f].pc = "lock" /\ SendingFrom(b) = {}
      /\ UNCHANGED <<batchCount, currentBatch, held>>
      /\ b \in BatchIds
      /\ \A x \in BatchIds : batch[x].held > 0 => batch[x].timer = "nil"
  BY PlacedInBatch DEF Extract, HoldInv, HoldsCounted
<1>2. CASE Return(f) /\ (UNCHANGED batch \/ batch' = [batch EXCEPT ![b].timer = "nil"])
  <2>1. \A x \in BatchIds : /\ batch'[x].held = batch[x].held
                            /\ batch'[x].held > 0 => batch'[x].timer = "nil"
    <3>1. CASE UNCHANGED batch
      BY <1>1, <3>1
    <3>2. CASE batch' = [batch EXCEPT ![b].timer = "nil"]
      <4>1. /\ batch'[b].held = batch[b].held /\ batch'[b].timer = "nil"
            /\ \A x \in BatchIds \ {b} : batch'[x] = batch[x]
        BY <1>1, <3>2, BatchChanges
      <4> QED
        BY <1>1, <4>1
    <3> QED
      BY <1>2, <3>1, <3>2
  <2> QED
    BY <1>1, <1>2, <2>1, ReturnKeepsHolds
<1>3. CASE /\ batch[b].held = 0 \/ Forced(f)
           /\ flush' = [flush EXCEPT ![f].pc = "send",
                                     ![f].out = Fitting(batch[b].events)]
           /\ batch' = [batch EXCEPT ![b] = Extracted(b)]
           /\ UNCHANGED <<quiet, shut>>
  <2>1. \A x \in BatchIds : /\ batch'[x].held = batch[x].held
                            /\ batch'[x].held > 0 => batch'[x].timer = "nil"
    <3>1. /\ batch'[b].held = batch[b].held /\ batch'[b].timer = "nil"
          /\ \A x \in BatchIds \ {b} : batch'[x] = batch[x]
      BY <1>1, <1>3, BatchChanges
    <3> QED
      BY <1>1, <3>1
  <2>2. /\ flush'[f].pc = "send" /\ flush'[f].at = b /\ flush'[f].kind = flush[f].kind
        /\ flush'[f].owner = flush[f].owner /\ flush'[f].born = flush[f].born
        /\ \A g \in Flushers \ {f} : flush'[g] = flush[g]
    BY <1>3 DEF BatcherTypeOK, Thread
  <2>3. HoldsCounted'
    BY <1>1, <2>1, HoldsSame, BatcherNumbers DEF HoldInv, BatcherTypeOK
  <2>4. ASSUME NEW g \in Flushers PROVE Placed(flush[g])'
    <3>1. Placed(flush[g]) /\ UNCHANGED <<held, quiet, batchCount, currentBatch>>
      BY <1>1, <1>3 DEF HoldInv, ThreadsPlaced
    <3>2. CASE g = f
      BY <1>1, <2>2, <3>1, <3>2 DEF Placed
    <3>3. CASE g # f
      <4>1. flush'[g] = flush[g]
        BY <2>2, <3>3
      <4> QED
        BY <3>1, <4>1 DEF Placed
    <3> QED
      BY <3>2, <3>3
  <2>5. OneFlushEach' /\ QuietHolds'
    <3>1. \A g \in Flushers : flush'[g].owner = flush[g].owner
      BY <2>2
    <3> QED
      BY <1>1, <1>3, <3>1 DEF HoldInv, OneFlushEach, QuietHolds
  <2>6. \A g \in Flushers \ {f} : Sending(g)' =>
            Sending(g) /\ flush'[g] = flush[g] /\ flush[g].at # b
    BY <1>1, <2>2 DEF Sending, SendingFrom
  <2>7. OneSender'
    BY <2>2, <2>6 DEF HoldInv, OneSender
  <2>8. ASSUME NEW h \in quiet', held'[h] = currentBatch', NEW g \in Flushers,
               Sending(g)', flush'[g].at = currentBatch'
        PROVE  Forced(g)'
    <3>1. h \in quiet /\ h \in Holders /\ held[h] = currentBatch
      BY <1>1, <1>3, <2>8 DEF BatcherTypeOK
    <3>2. CASE g = f
      <4>1. b = currentBatch
        BY <1>1, <2>2, <2>8, <3>2
      <4>2. batch[b].held # 0
        <5> DEFINE S == HoldersAt(b)
        <5>1. h \in S /\ S \subseteq Holders
          BY <3>1, <4>1 DEF HoldersAt
        <5>2. batch[b].held = Cardinality(S)
          BY <1>1 DEF HoldInv, HoldsCounted
        <5> HIDE DEF S
        <5> QED
          BY <5>1, <5>2, BatcherNumbers, FS_Subset, FS_EmptySet
      <4> QED
        BY <1>3, <2>2, <3>2, <4>2 DEF Forced
    <3>3. CASE g # f
      BY <1>1, <2>6, <2>8, <3>1, <3>3 DEF QuietUnderHold, SendingFrom, Forced
    <3> QED
      BY <3>2, <3>3
  <2>9. QuietUnderHold'
    BY <2>8 DEF QuietUnderHold, SendingFrom
  <2> QED
    BY <2>3, <2>4, <2>5, <2>7, <2>9 DEF HoldInv, ThreadsPlaced
<1> QED
  BY <1>2, <1>3 DEF Extract

\* Holders of a batch, when one more takes it or one gives it back.
LEMMA HoldIsCounted ==
    ASSUME BatcherTypeOK, HoldsCounted, NEW h \in Holders, NEW x \in BatchIds \cup {0},
           held' = [held EXCEPT ![h] = x], held[h] # x, NEW b \in BatchIds
    PROVE  Cardinality(HoldersAt(b)')
             = IF b = x THEN batch[b].held + 1
               ELSE IF b = held[h] THEN batch[b].held - 1 ELSE batch[b].held
<1> DEFINE S == HoldersAt(b)
           T == HoldersAt(b)'
<1>1. IsFiniteSet(S) /\ batch[b].held = Cardinality(S)
  <2>1. S \subseteq Holders
    BY DEF HoldersAt
  <2> QED
    BY <2>1, BatcherNumbers, FS_Subset DEF HoldsCounted
<1>2. CASE b = x
  <2>1. T = S \cup {h} /\ h \notin S
    BY <1>2 DEF BatcherTypeOK, HoldersAt
  <2> HIDE DEF S, T
  <2>2. Cardinality(T) = Cardinality(S) + 1
    BY <1>1, <2>1, FS_AddElement
  <2> QED
    BY <1>1, <1>2, <2>2 DEF T
<1>3. CASE b # x /\ b = held[h]
  <2>1. T = S \ {h} /\ h \in S
    BY <1>3 DEF BatcherTypeOK, HoldersAt
  <2> HIDE DEF S, T
  <2>2. Cardinality(T) = Cardinality(S) - 1
    BY <1>1, <2>1, FS_RemoveElement
  <2> QED
    BY <1>1, <1>3, <2>2 DEF T
<1>4. CASE b # x /\ b # held[h]
  <2>1. T = S
    BY <1>4 DEF BatcherTypeOK, HoldersAt
  <2> QED
    BY <1>1, <1>4, <2>1
<1> QED
  BY <1>2, <1>3, <1>4

LEMMA HoldTopicKeepsHolds ==
    ASSUME BatcherTypeOK, BatcherTypeOK', HoldInv, QuietUnderHold,
           NEW h \in Holders, HoldTopic(h)
    PROVE  HoldInv' /\ QuietUnderHold'
<1> DEFINE b == Opened
<1>1. /\ b \in BatchIds /\ b \in 1 .. batchCount' /\ currentBatch' = b
      /\ batchCount \in Nat /\ batchCount' \in Nat /\ batchCount <= batchCount'
      /\ currentBatch' \in {currentBatch, 0, batchCount + 1}
  BY OpenedIsThere, BatcherNumbers DEF HoldTopic
<1>2. /\ held[h] = 0 /\ held' = [held EXCEPT ![h] = b]
      /\ UNCHANGED <<flush, quiet>>
  BY DEF HoldTopic
<1>3. /\ batch'[b].held = batch[b].held + 1 /\ batch'[b].timer = "nil"
      /\ \A x \in BatchIds \ {b} : batch'[x] = batch[x]
  BY <1>1 DEF HoldTopic, BatcherTypeOK, Batch
<1> HIDE DEF b
<1>4. /\ held'[h] = b /\ \A g \in Holders \ {h} : held'[g] = held[g]
      /\ \A g \in Holders : held[g] \in Nat
  BY <1>2, BatcherNumbers DEF BatcherTypeOK, BatchIds
<1>5. HoldsCounted'
  <2>1. \A g \in Holders : held'[g] <= batchCount'
    <3>1. \A g \in Holders : held[g] <= batchCount
      BY DEF HoldInv, HoldsCounted
    <3> QED
      BY <1>1, <1>4, <3>1
  <2>2. ASSUME NEW x \in BatchIds
        PROVE  /\ batch'[x].held = Cardinality(HoldersAt(x)')
               /\ batch'[x].held > 0 => batch'[x].timer = "nil"
    <3>1. Cardinality(HoldersAt(x)')
            = IF x = b THEN batch[x].held + 1 ELSE batch[x].held
      <4>1. /\ b # 0 /\ x # 0 /\ HoldsCounted
            /\ b \in BatchIds \cup {0} /\ held[h] # b /\ x # held[h]
        BY <1>1, <1>2, BatcherNumbers DEF BatchIds, HoldInv
      <4>2. held' = [held EXCEPT ![h] = b]
        BY <1>2
      <4>3. Cardinality(HoldersAt(x)')
              = IF x = b THEN batch[x].held + 1
                ELSE IF x = held[h] THEN batch[x].held - 1 ELSE batch[x].held
        BY <4>1, <4>2, HoldIsCounted
      <4> QED
        BY <4>1, <4>3
    <3> QED
      BY <1>3, <3>1 DEF HoldInv, HoldsCounted
  <2> QED
    BY <2>1, <2>2 DEF HoldsCounted
<1>6. ASSUME NEW f \in Flushers PROVE Placed(flush[f])'
  <2>1. Placed(flush[f])
    BY DEF HoldInv, ThreadsPlaced
  <2>2. ASSUME flush[f].owner \in Holders
        PROVE  /\ flush[f].owner # h /\ held'[flush[f].owner] = held[flush[f].owner]
               /\ held[flush[f].owner] # batchCount + 1 /\ held[flush[f].owner] # 0
    <3>1. flush[f].owner # h
      BY <1>2, <2>1, <2>2 DEF Placed
    <3>2. held[flush[f].owner] <= batchCount /\ held[flush[f].owner] \in Nat
      BY <1>4, <2>2 DEF HoldInv, HoldsCounted
    <3> QED
      BY <1>1, <1>4, <2>1, <2>2, <3>1, <3>2 DEF Placed
  <2>3. flush[f].pc \in {"lock", "send"} => flush[f].at \in 1 .. batchCount'
    BY <1>1, <2>1 DEF Placed
  <2> QED
    BY <1>1, <1>2, <2>1, <2>2, <2>3 DEF Placed
<1>7. OneFlushEach' /\ OneSender'
  BY <1>2 DEF HoldInv, OneFlushEach, OneSender, Sending
<1>8. QuietHolds'
  BY <1>1, <1>2, <1>4 DEF HoldInv, QuietHolds, BatcherTypeOK
<1>9. ASSUME NEW g \in quiet, held'[g] = currentBatch', NEW f \in Flushers,
             Sending(f), flush[f].at = currentBatch'
      PROVE  Forced(f)
  <2>1. g # h /\ g \in Holders /\ held[g] # 0 /\ held[g] <= batchCount
    BY <1>2 DEF HoldInv, QuietHolds, HoldsCounted, BatcherTypeOK
  <2>2. currentBatch' = currentBatch /\ held[g] = currentBatch
    BY <1>1, <1>4, <1>9, <2>1
  <2> QED
    BY <1>9, <2>2 DEF QuietUnderHold, SendingFrom
<1>10. QuietUnderHold'
  BY <1>2, <1>9 DEF QuietUnderHold, SendingFrom, Sending, Forced
<1> QED
  BY <1>5, <1>6, <1>7, <1>8, <1>10 DEF HoldInv, ThreadsPlaced

LEMMA ReleaseKeepsHolds ==
    ASSUME BatcherTypeOK, BatcherTypeOK', HoldInv, QuietUnderHold,
           NEW h \in Holders, Release(h)
    PROVE  HoldInv' /\ QuietUnderHold'
<1> DEFINE b == held[h]
<1>1. /\ h \in quiet /\ held' = [held EXCEPT ![h] = 0] /\ quiet' = quiet \ {h}
      /\ UNCHANGED <<batchCount, currentBatch, flush>>
  BY DEF Release
<1>2. /\ b \in BatchIds /\ b # 0
      /\ batch'[b].held = batch[b].held - 1
      /\ batch'[b].held > 0 => batch'[b].timer = "nil"
      /\ \A x \in BatchIds \ {b} : batch'[x] = batch[x]
  <2>1. b \in BatchIds /\ b # 0
    BY ReleaseDoes, BatcherNumbers DEF BatchIds
  <2>2. PICK bt \in Batch :
            /\ batch' = [batch EXCEPT ![b] = bt]
            /\ bt.held = batch[b].held - 1
            /\ bt.timer = IF bt.events = <<>> \/ bt.held > 0 THEN "nil" ELSE "armed"
    BY ReleaseDoes
  <2> HIDE DEF b
  <2> QED
    BY <2>1, <2>2 DEF BatcherTypeOK
<1> HIDE DEF b
<1>3. held'[h] = 0 /\ \A g \in Holders \ {h} : held'[g] = held[g]
  BY <1>1 DEF BatcherTypeOK
<1>4. HoldsCounted'
  <2>1. \A g \in Holders : held'[g] <= batchCount'
    BY <1>1, <1>3 DEF HoldInv, HoldsCounted, BatcherTypeOK
  <2>2. ASSUME NEW x \in BatchIds
        PROVE  /\ batch'[x].held = Cardinality(HoldersAt(x)')
               /\ batch'[x].held > 0 => batch'[x].timer = "nil"
    <3>1. Cardinality(HoldersAt(x)')
            = IF x = b THEN batch[x].held - 1 ELSE batch[x].held
      <4>1. x # 0 /\ HoldsCounted /\ 0 \in BatchIds \cup {0} /\ held[h] # 0
        BY <1>2, BatcherNumbers DEF BatchIds, HoldInv, b
      <4> QED
        BY <1>1, <4>1, HoldIsCounted DEF b
    <3> QED
      BY <1>2, <3>1 DEF HoldInv, HoldsCounted
  <2> QED
    BY <2>1, <2>2 DEF HoldsCounted
<1>5. ASSUME NEW f \in Flushers PROVE Placed(flush[f])'
  <2>1. Placed(flush[f])
    BY DEF HoldInv, ThreadsPlaced
  <2>2. flush[f].owner \in Holders => flush[f].owner # h
    BY <1>1, <2>1 DEF Placed
  <2> QED
    BY <1>1, <1>3, <2>1, <2>2 DEF Placed
<1>6. OneFlushEach' /\ OneSender'
  BY <1>1 DEF HoldInv, OneFlushEach, OneSender, Sending
<1>7. QuietHolds'
  BY <1>1, <1>3 DEF HoldInv, QuietHolds, BatcherTypeOK
<1>8. QuietUnderHold'
  <2>1. \A g \in quiet' : g \in quiet /\ held'[g] = held[g]
    BY <1>1, <1>3 DEF BatcherTypeOK
  <2> QED
    BY <1>1, <2>1 DEF QuietUnderHold, SendingFrom, Sending, Forced
<1> QED
  BY <1>4, <1>5, <1>6, <1>7, <1>8 DEF HoldInv, ThreadsPlaced

LEMMA HoldInductive ==
    ASSUME BatcherTypeOK, BatcherTypeOK', HoldInv, QuietUnderHold,
           [BatcherNext]_batcherVars
    PROVE  HoldInv' /\ QuietUnderHold'
<1> DEFINE Held == \A b \in BatchIds : /\ batch'[b].held = batch[b].held
                                       /\ batch'[b].held > 0 => batch'[b].timer = "nil"
           Lifted(f) == /\ Placed(flush[f])'
                        /\ flush'[f].pc = "send" =>
                             /\ flush[f].pc = "send" /\ flush'[f].at = flush[f].at
                             /\ flush'[f].kind = flush[f].kind
<1>1. /\ batchCount \in Nat /\ currentBatch \in 0 .. batchCount
      /\ \A b \in BatchIds : batch[b].held > 0 => batch[b].timer = "nil"
      /\ OneFlushEach
  <2>1. \A b \in BatchIds : batch[b].held > 0 => batch[b].timer = "nil"
    BY DEF HoldInv, HoldsCounted
  <2> QED
    BY <2>1, BatcherNumbers DEF BatcherTypeOK, HoldInv
<1>2. ASSUME NEW f \in Flushers, NEW t \in Thread, Start(f, t)
      PROVE  /\ flush'[f] = t /\ ~Busy(f)
             /\ \A g \in Flushers \ {f} : flush'[g] = flush[g]
  BY <1>2 DEF Start, BatcherTypeOK
<1>3. ASSUME NEW o \in Objects, AddEvent(o) PROVE HoldInv' /\ QuietUnderHold'
  <2>1. Opened \in BatchIds
    BY <1>3, OpenedIsThere DEF AddEvent
  <2>2. PICK bt \in Batch :
            /\ batch' = [batch EXCEPT ![Opened] = bt]
            /\ bt.held = batch[Opened].held
            /\ \/ /\ \E f \in Flushers : Start(f, SizeFlush(Opened))
                  /\ bt.timer = "nil" /\ bt.held = 0
               \/ /\ UNCHANGED flush
                  /\ bt.timer = IF \/ batch[Opened].timer # "nil"
                                   \/ batch[Opened].held > 0
                                THEN batch[Opened].timer ELSE "armed"
    BY <1>3, AddEventDoes
  <2>3. Held
    BY <1>1, <2>1, <2>2 DEF BatcherTypeOK
  <2>4. \A f \in Flushers : flush'[f] = flush[f] \/ Lifted(f)
    <3>1. ASSUME NEW f \in Flushers, Start(f, SizeFlush(Opened)) PROVE Lifted(f)
      <4>1. SizeFlush(Opened) \in Thread
        BY <2>1, ThreadsAreThreads
      <4>2. flush'[f] = SizeFlush(Opened)
        BY <1>2, <3>1, <4>1
      <4> QED
        BY <2>1, <4>2, BatcherNumbers DEF Placed, SizeFlush, IdleThread
    <3> QED
      BY <1>2, <2>1, <2>2, <3>1, ThreadsAreThreads
  <2>5. OneFlushEach'
    <3>1. \A f \in Flushers : flush'[f].owner = flush[f].owner
                              \/ flush'[f].owner \notin Holders
      <4>1. \A f \in Flushers : flush'[f] = flush[f] \/ flush'[f] = SizeFlush(Opened)
        BY <1>2, <2>1, <2>2, ThreadsAreThreads
      <4> QED
        BY <4>1, BatcherNumbers DEF SizeFlush, IdleThread
    <3> QED
      BY <1>1, <3>1 DEF OneFlushEach
  <2>6. /\ batchCount <= batchCount' /\ held' = held /\ quiet' = quiet
        /\ currentBatch' \in {currentBatch, 0, batchCount + 1}
    BY <1>3, OpenedIsThere DEF AddEvent
  <2> QED
    BY <2>3, <2>4, <2>5, <2>6, QuietStep
<1>4. ASSUME RefuseEvent PROVE HoldInv' /\ QuietUnderHold'
  <2>1. /\ batchCount <= batchCount' /\ held' = held /\ quiet' = quiet
        /\ currentBatch' \in {currentBatch, 0, batchCount + 1}
        /\ batch' = batch /\ flush' = flush
    BY <1>4, OpenedIsThere DEF RefuseEvent
  <2> QED
    BY <1>1, <2>1, QuietStep DEF OneFlushEach
<1>5. ASSUME NEW b \in BatchIds, NEW f \in Flushers, TimerFires(b, f)
      PROVE  HoldInv' /\ QuietUnderHold'
  <2> DEFINE t == [IdleThread EXCEPT !.kind = "timer", !.pc = "lookup", !.born = b]
  <2>1. /\ batch' = [batch EXCEPT ![b] = [batch[b] EXCEPT !.timer = "fired"]]
        /\ batch[b].timer = "armed"
        /\ Start(f, t) \/ flush' = flush
        /\ UNCHANGED <<batchCount, currentBatch, held, quiet>>
    BY <1>5 DEF TimerFires
  <2>2. Held
    <3>1. ASSUME NEW bt \in Batch
          PROVE  [bt EXCEPT !.timer = "fired"].held = bt.held /\ bt.held \in Nat
      BY DEF Batch
    <3>2. ~(batch[b].held > 0)
      BY <1>1, <2>1
    <3>3. /\ batch'[b] = [batch[b] EXCEPT !.timer = "fired"] /\ batch[b] \in Batch
          /\ \A x \in BatchIds \ {b} : batch'[x] = batch[x]
      BY <2>1 DEF BatcherTypeOK
    <3>4. batch'[b].held = batch[b].held
      BY <3>1, <3>3
    <3> QED
      BY <1>1, <3>2, <3>3, <3>4
  <2>3. t \in Thread /\ t.pc = "lookup" /\ t.kind = "timer" /\ t.owner \notin Holders
    BY ThreadsAreThreads, BatcherNumbers DEF IdleThread
  <2> HIDE DEF t
  <2>4. \A g \in Flushers : flush'[g] = flush[g] \/ flush'[g] = t
    BY <1>2, <2>1, <2>3
  <2>5. \A g \in Flushers : flush'[g] = flush[g] \/ Lifted(g)
    BY <2>3, <2>4 DEF Placed
  <2>6. OneFlushEach'
    BY <1>1, <2>3, <2>4 DEF OneFlushEach
  <2> QED
    BY <1>1, <2>1, <2>2, <2>5, <2>6, QuietStep
<1>6. ASSUME NEW f \in Flushers, NEW h \in Holders \cup {NoFlusher}, FlushTopic(f, h)
      PROVE  HoldInv' /\ QuietUnderHold'
  <2> DEFINE t == [IdleThread EXCEPT !.pc = "lookup", !.owner = h]
  <2>1. /\ Start(f, t) /\ quiet' = quiet \ {h}
        /\ UNCHANGED <<batch, batchCount, currentBatch, held>>
        /\ h # NoFlusher => /\ held[h] # 0
                            /\ \A g \in Flushers : Busy(g) => flush[g].owner # h
    BY <1>6 DEF FlushTopic
  <2>2. t \in Thread /\ t.pc = "lookup" /\ t.kind = "topic" /\ t.owner = h
    BY ThreadsAreThreads DEF IdleThread
  <2> HIDE DEF t
  <2>3. flush'[f] = t /\ \A g \in Flushers \ {f} : flush'[g] = flush[g]
    BY <1>2, <2>1, <2>2
  <2>4. Lifted(f)
    BY <2>1, <2>2, <2>3, BatcherNumbers DEF Placed
  <2>5. OneFlushEach'
    <3>1. \A g \in Flushers \ {f} : flush[g].owner \in Holders => flush[g].owner # h
      <4>1. \A g \in Flushers : flush[g].owner \in Holders => Busy(g)
        BY DEF HoldInv, ThreadsPlaced, Placed, Busy
      <4> QED
        BY <2>1, <4>1, BatcherNumbers
    <3> QED
      BY <1>1, <2>2, <2>3, <3>1 DEF OneFlushEach
  <2> QED
    BY <1>1, <2>1, <2>3, <2>4, <2>5, QuietStep
<1>7. ASSUME NEW f \in Flushers, CleanupTopic(f)
      PROVE  HoldInv' /\ QuietUnderHold'
  <2> DEFINE t == [IdleThread EXCEPT !.kind = "cleanup", !.pc = "lock",
                                     !.at = currentBatch]
  <2>1. /\ Start(f, t) /\ currentBatch' = 0 /\ currentBatch # 0
        /\ UNCHANGED <<batch, batchCount, held, quiet>>
    BY <1>7 DEF CleanupTopic
  <2>2. /\ t.pc = "lock" /\ t.kind = "cleanup" /\ t.owner \notin Holders
        /\ t.at = currentBatch
    BY BatcherNumbers DEF IdleThread
  <2>3. t \in Thread
    <3>1. currentBatch \in BatchIds
      BY <2>1, BatcherNumbers DEF BatcherTypeOK, BatchIds
    <3> QED
      BY <3>1, ThreadsAreThreads
  <2> HIDE DEF t
  <2>4. flush'[f] = t /\ \A g \in Flushers \ {f} : flush'[g] = flush[g]
    BY <1>2, <2>1, <2>3
  <2>5. Lifted(f)
    BY <1>1, <2>1, <2>2, <2>4 DEF Placed
  <2>6. OneFlushEach'
    BY <1>1, <2>2, <2>4 DEF OneFlushEach
  <2> QED
    BY <1>1, <2>1, <2>4, <2>5, <2>6, QuietStep
<1>8. ASSUME NEW f \in Flushers, Lookup(f)
      PROVE  HoldInv' /\ QuietUnderHold'
  <2>1. CASE Return(f) /\ currentBatch = 0
    BY <1>1, <1>8, <2>1, ReturnKeepsHolds DEF Lookup
  <2>2. CASE /\ currentBatch # 0
             /\ flush' = [flush EXCEPT ![f].pc = "lock", ![f].at = currentBatch]
             /\ UNCHANGED <<quiet, shut>>
    <3>1. /\ flush[f].pc = "lookup"
          /\ UNCHANGED <<batch, batchCount, currentBatch, held, quiet>>
      BY <1>8, <2>2 DEF Lookup
    <3>2. /\ flush'[f].pc = "lock" /\ flush'[f].at = currentBatch
          /\ flush'[f].kind = flush[f].kind /\ flush'[f].born = flush[f].born
          /\ flush'[f].owner = flush[f].owner
          /\ \A g \in Flushers \ {f} : flush'[g] = flush[g]
      BY <2>2 DEF BatcherTypeOK, Thread
    <3>3. Lifted(f)
      <4>1. Placed(flush[f])
        BY DEF HoldInv, ThreadsPlaced
      <4> QED
        BY <1>1, <2>2, <3>1, <3>2, <4>1 DEF Placed
    <3>4. OneFlushEach'
      <4>1. \A g \in Flushers : flush'[g].owner = flush[g].owner
        BY <3>2
      <4> QED
        BY <1>1, <4>1 DEF OneFlushEach
    <3> QED
      BY <1>1, <3>1, <3>2, <3>3, <3>4, QuietStep
  <2> QED
    BY <1>8, <2>1, <2>2 DEF Lookup
<1>9. ASSUME NEW f \in Flushers, SendFrame(f)
      PROVE  HoldInv' /\ QuietUnderHold'
  <2>1. /\ flush[f].pc = "send"
        /\ UNCHANGED <<batch, batchCount, currentBatch, held, quiet>>
    BY <1>9 DEF SendFrame
  <2>2. /\ flush'[f].pc = "send" /\ flush'[f].at = flush[f].at
        /\ flush'[f].kind = flush[f].kind /\ flush'[f].born = flush[f].born
        /\ flush'[f].owner = flush[f].owner
        /\ \A g \in Flushers \ {f} : flush'[g] = flush[g]
    <3>1. PICK out : flush' = [flush EXCEPT ![f].out = out]
      BY <1>9 DEF SendFrame
    <3> QED
      BY <2>1, <3>1 DEF BatcherTypeOK, Thread
  <2>3. Lifted(f)
    <3>1. Placed(flush[f])
      BY DEF HoldInv, ThreadsPlaced
    <3> QED
      BY <2>1, <2>2, <3>1 DEF Placed
  <2>4. OneFlushEach'
    <3>1. \A g \in Flushers : flush'[g].owner = flush[g].owner
      BY <2>2
    <3> QED
      BY <1>1, <3>1 DEF OneFlushEach
  <2> QED
    BY <1>1, <2>1, <2>2, <2>3, <2>4, QuietStep
<1>10. ASSUME NEW f \in Flushers, FlushEnds(f)
       PROVE  HoldInv' /\ QuietUnderHold'
  BY <1>1, <1>10, ReturnKeepsHolds DEF FlushEnds
<1>11. ASSUME NEW f \in Flushers, ResetFlushing(f)
       PROVE  HoldInv' /\ QuietUnderHold'
  <2> DEFINE b == flush[f].born
  <2>1. /\ flush[f].pc = "after" /\ flush' = [flush EXCEPT ![f] = IdleThread]
        /\ batch' = [batch EXCEPT ![b] = [batch[b] EXCEPT !.flushing = FALSE]]
        /\ UNCHANGED <<batchCount, currentBatch, held, quiet>>
    BY <1>11 DEF ResetFlushing
  <2>2. Held
    <3>1. ASSUME NEW bt \in Batch
          PROVE  /\ [bt EXCEPT !.flushing = FALSE].held = bt.held
                 /\ [bt EXCEPT !.flushing = FALSE].timer = bt.timer
      BY DEF Batch
    <3>2. b \in BatchIds
      BY <2>1 DEF HoldInv, ThreadsPlaced, Placed
    <3>3. /\ batch'[b] = [batch[b] EXCEPT !.flushing = FALSE] /\ batch[b] \in Batch
          /\ \A x \in BatchIds \ {b} : batch'[x] = batch[x]
      BY <2>1, <3>2 DEF BatcherTypeOK
    <3>4. batch'[b].held = batch[b].held /\ batch'[b].timer = batch[b].timer
      BY <3>1, <3>3
    <3> QED
      BY <1>1, <3>3, <3>4
  <2>3. flush'[f] = IdleThread /\ \A g \in Flushers \ {f} : flush'[g] = flush[g]
    BY <2>1 DEF BatcherTypeOK
  <2>4. Lifted(f)
    BY <2>3, BatcherNumbers DEF Placed, IdleThread
  <2>5. OneFlushEach'
    BY <1>1, <2>3, BatcherNumbers DEF OneFlushEach, IdleThread
  <2> QED
    BY <1>1, <2>1, <2>2, <2>3, <2>4, <2>5, QuietStep
<1>12. ASSUME NEW f \in Flushers, ShutdownFlush(f)
       PROVE  HoldInv' /\ QuietUnderHold'
  <2> DEFINE t == [IdleThread EXCEPT !.kind = "shutdown", !.pc = "lock",
                                     !.at = currentBatch]
  <2>1. /\ (Start(f, t) /\ currentBatch # 0) \/ flush' = flush
        /\ UNCHANGED <<batch, batchCount, currentBatch, held, quiet>>
    BY <1>12 DEF ShutdownFlush
  <2>2. /\ t.pc = "lock" /\ t.kind = "shutdown" /\ t.owner \notin Holders
        /\ t.at = currentBatch
    BY BatcherNumbers DEF IdleThread
  <2>3. currentBatch # 0 => t \in Thread
    <3>1. currentBatch # 0 => currentBatch \in BatchIds
      BY BatcherNumbers DEF BatcherTypeOK, BatchIds
    <3> QED
      BY <3>1, ThreadsAreThreads
  <2> HIDE DEF t
  <2>4. \A g \in Flushers : flush'[g] = flush[g] \/ (flush'[g] = t /\ currentBatch # 0)
    BY <1>2, <2>1, <2>3
  <2>5. \A g \in Flushers : flush'[g] = flush[g] \/ Lifted(g)
    BY <1>1, <2>1, <2>2, <2>4 DEF Placed
  <2>6. OneFlushEach'
    BY <1>1, <2>2, <2>4 DEF OneFlushEach
  <2> QED
    BY <1>1, <2>1, <2>5, <2>6, QuietStep
<1>13. CASE Close \/ Cancel \/ WaitGroupDone \/ UNCHANGED batcherVars
  <2>1. UNCHANGED <<batch, batchCount, currentBatch, flush, held, quiet>>
    BY <1>13 DEF Close, Cancel, WaitGroupDone, batcherVars
  <2> QED
    BY <1>1, <2>1, QuietStep DEF OneFlushEach
<1> HIDE DEF Held, Lifted
<1> QED
  BY <1>3, <1>4, <1>5, <1>6, <1>7, <1>8, <1>9, <1>10, <1>11, <1>12, <1>13,
     ExtractKeepsHolds, HoldTopicKeepsHolds, ReleaseKeepsHolds DEF BatcherNext

\* The order of what is queued and sent, step by step.
LEMMA EventsOf ==
    ASSUME NEW s \in Seq(Event), NEW i \in 1 .. Len(s)
    PROVE  s[i] \in Event /\ s[i].ver \in Nat /\ s[i].obj \in Objects
<1>1. s[i] \in Event
  OBVIOUS
<1> QED
  BY <1>1 DEF Event

LEMMA CoalescedInOrder ==
    ASSUME NEW s \in Seq(Event), NEW e \in Event, NEW a \in Nat, e.ver = a + 1,
           \A i \in 1 .. Len(s) : s[i].ver <= a, Ordered(s), KeyedOnce(s)
    PROVE  /\ Ordered(Coalesced(s, e)) /\ KeyedOnce(Coalesced(s, e))
           /\ \A i \in 1 .. Len(Coalesced(s, e)) :
                  \/ Coalesced(s, e)[i] = e
                  \/ \E p \in 1 .. Len(s) : Coalesced(s, e)[i] = s[p]
<1> DEFINE c == Coalesced(s, e)
<1>1. /\ Len(s) \in Nat /\ \A i \in 1 .. Len(s) : s[i].ver \in Nat
      /\ e.ver \in Nat
  BY EventsOf
<1>2. CASE /\ Len(c) = Len(s) /\ e.obj \notin Unkeyed
           /\ \A i \in 1 .. Len(s) : c[i] = IF s[i].obj = e.obj THEN e ELSE s[i]
  <2> HIDE DEF c
  <2>1. \A i \in 1 .. Len(s) : c[i].obj = s[i].obj
    BY <1>2
  <2>2. Ordered(c)
    <3> SUFFICES ASSUME NEW i \in 1 .. Len(s), NEW j \in 1 .. Len(s),
                        i < j, c[i].obj = c[j].obj
                 PROVE  c[i].ver < c[j].ver
      BY <1>2 DEF Ordered
    <3>1. s[i].obj = s[j].obj /\ i # j
      BY <2>1, <1>1
    <3>2. s[i].obj # e.obj /\ s[j].obj # e.obj
      BY <1>2, <3>1 DEF KeyedOnce
    <3> QED
      BY <1>2, <3>1, <3>2 DEF Ordered
  <2>3. KeyedOnce(c)
    BY <1>2, <2>1 DEF KeyedOnce
  <2> QED
    BY <1>2, <2>2, <2>3 DEF c
<1>3. CASE /\ Len(c) = Len(s) + 1 /\ c[Len(s) + 1] = e
           /\ \A i \in 1 .. Len(s) : c[i] = s[i]
           /\ e.obj \notin Unkeyed => \A i \in 1 .. Len(s) : s[i].obj # e.obj
  <2> HIDE DEF c
  <2>1. \A i \in 1 .. Len(c) : i \in 1 .. Len(s) \/ i = Len(s) + 1
    BY <1>1, <1>3
  <2>2. Ordered(c)
    <3> SUFFICES ASSUME NEW i \in 1 .. Len(c), NEW j \in 1 .. Len(c),
                        i < j, c[i].obj = c[j].obj
                 PROVE  c[i].ver < c[j].ver
      BY DEF Ordered
    <3>1. i \in 1 .. Len(s)
      BY <1>1, <1>3, <2>1
    <3>2. CASE j \in 1 .. Len(s)
      BY <1>3, <3>1, <3>2 DEF Ordered
    <3>3. CASE j = Len(s) + 1
      <4>1. c[i].ver <= a /\ c[j].ver = a + 1 /\ c[i].ver \in Nat
        BY <1>1, <1>3, <3>1, <3>3
      <4> QED
        BY <4>1
    <3> QED
      BY <2>1, <3>2, <3>3
  <2>3. KeyedOnce(c)
    BY <1>3, <2>1 DEF KeyedOnce
  <2> QED
    BY <1>3, <2>1, <2>2, <2>3 DEF c
<1>4. \/ /\ Len(c) = Len(s) /\ e.obj \notin Unkeyed
         /\ \A i \in 1 .. Len(s) : c[i] = IF s[i].obj = e.obj THEN e ELSE s[i]
      \/ /\ Len(c) = Len(s) + 1 /\ c[Len(s) + 1] = e
         /\ \A i \in 1 .. Len(s) : c[i] = s[i]
         /\ e.obj \notin Unkeyed => \A i \in 1 .. Len(s) : s[i].obj # e.obj
  BY CoalescedKeeps
<1> QED
  BY <1>2, <1>3, <1>4

LEMMA OrderStep ==
    ASSUME OrderInv, UNCHANGED <<sent, accepted>>,
           \A b \in BatchIds : batch'[b].events = batch[b].events,
           \A f \in Flushers : Sending(f)' =>
               /\ Sending(f) /\ flush'[f].out = flush[f].out
               /\ flush'[f].at = flush[f].at,
           \A f \in Flushers : Sending(f) => flush[f].at \in BatchIds
    PROVE  OrderInv'
<1>1. QueuesInOrder'
  BY DEF OrderInv, QueuesInOrder, Accepted, NotSent
<1>2. FramesInOrder'
  BY DEF OrderInv, FramesInOrder, Accepted
<1>3. OldestFirst'
  <2> SUFFICES ASSUME NEW f \in Flushers, Sending(f)', NEW i \in 1 .. Len(flush'[f].out)
               PROVE  LET x == flush'[f].at
                          o == flush'[f].out
                      IN /\ sent'[x][o[i].obj] < o[i].ver
                         /\ \A j \in 1 .. Len(batch'[x].events) :
                                batch'[x].events[j].obj = o[i].obj =>
                                    o[i].ver < batch'[x].events[j].ver
    BY DEF OldestFirst
  <2>1. PICK x \in BatchIds : x = flush[f].at /\ Sending(f)
    OBVIOUS
  <2> DEFINE o == flush[f].out
  <2>2. /\ sent[x][o[i].obj] < o[i].ver
        /\ \A j \in 1 .. Len(batch[x].events) :
               batch[x].events[j].obj = o[i].obj => o[i].ver < batch[x].events[j].ver
    BY <2>1 DEF OrderInv, OldestFirst
  <2>3. flush'[f].at = x /\ flush'[f].out = o /\ batch'[x].events = batch[x].events
    BY <2>1
  <2> QED
    BY <2>2, <2>3
<1> QED
  BY <1>1, <1>2, <1>3 DEF OrderInv

LEMMA AddEventInOrder ==
    ASSUME BatcherTypeOK, HoldInv, OrderInv, NEW o \in Objects, AddEvent(o)
    PROVE  OrderInv'
<1>0. Opened \in BatchIds /\ accepted \in Nat /\ accepted' = accepted + 1 /\ sent' = sent
  BY OpenedIsThere DEF AddEvent, BatcherTypeOK
<1>1. PICK b \in BatchIds : b = Opened
  BY <1>0
<1>2. PICK e \in Event : e = NewEvent(o)
  <2>1. ASSUME NEW v \in Nat PROVE [obj |-> o, ver |-> v] \in Event
    BY DEF Event
  <2>2. accepted + 1 \in Nat
    BY <1>0
  <2> QED
    BY <2>1, <2>2 DEF NewEvent
<1>3. PICK queue \in Seq(Event) : queue = batch[b].events
  BY DEF BatcherTypeOK, Batch
<1>4. PICK c \in Seq(Event) : c = Coalesced(queue, e)
  BY CoalescedKeeps
<1>5. e.ver = accepted + 1 /\ e.obj \in Objects
  BY <1>0, <1>2 DEF NewEvent
<1>6. batch'[b].events = c /\ \A x \in BatchIds \ {b} : batch'[x] = batch[x]
  <2>1. PICK bt \in Batch : batch' = [batch EXCEPT ![b] = bt] /\ bt.events = c
    BY <1>1, <1>2, <1>3, <1>4, AddEventDoes
  <2> QED
    BY <2>1 DEF BatcherTypeOK
<1>7. \A f \in Flushers : Sending(f)' => Sending(f) /\ flush'[f] = flush[f]
  <2>1. UNCHANGED flush \/ \E f \in Flushers : Start(f, SizeFlush(Opened))
    BY AddEventDoes
  <2> QED
    BY <2>1 DEF Start, Sending, SizeFlush, IdleThread, BatcherTypeOK
<1>8. \A f \in Flushers : Sending(f) => flush[f].at \in BatchIds /\ flush[f].out \in Seq(Event)
  BY PlacedInBatch DEF Sending, BatcherTypeOK, Thread
<1>9. /\ Ordered(queue) /\ KeyedOnce(queue) /\ Accepted(queue) /\ NotSent(queue, b)
      /\ \A x \in BatchIds, y \in Objects : sent[x][y] \in Nat /\ sent[x][y] <= accepted
  BY <1>3 DEF OrderInv, QueuesInOrder, BatcherTypeOK
<1>10. /\ Ordered(c) /\ KeyedOnce(c)
       /\ \A i \in 1 .. Len(c) : c[i] = e \/ \E p \in 1 .. Len(queue) : c[i] = queue[p]
  BY <1>0, <1>4, <1>5, <1>9, CoalescedInOrder DEF Accepted
<1>11. /\ Accepted(c)' /\ NotSent(c, b)'
  <2> SUFFICES ASSUME NEW i \in 1 .. Len(c)
               PROVE  c[i].ver <= accepted' /\ sent'[b][c[i].obj] < c[i].ver
    BY DEF Accepted, NotSent
  <2>1. CASE c[i] = e
    BY <1>0, <1>5, <1>9, <2>1
  <2>2. CASE \E p \in 1 .. Len(queue) : c[i] = queue[p]
    <3>1. PICK p \in 1 .. Len(queue) : c[i] = queue[p]
      BY <2>2
    <3>2. queue[p].ver <= accepted /\ queue[p].ver \in Nat /\ sent[b][queue[p].obj] < queue[p].ver
      BY <1>9, EventsOf DEF Accepted, NotSent
    <3> QED
      BY <1>0, <3>1, <3>2
  <2> QED
    BY <1>10, <2>1, <2>2
<1>12. ASSUME NEW x \in BatchIds, NEW s \in Seq(Event), Accepted(s), NotSent(s, x)
       PROVE  Accepted(s)' /\ NotSent(s, x)'
  <2>1. \A i \in 1 .. Len(s) : s[i].ver \in Nat
    BY EventsOf
  <2> QED
    BY <1>0, <1>12, <2>1 DEF Accepted, NotSent
<1>13. QueuesInOrder'
  <2>1. ASSUME NEW x \in BatchIds
        PROVE  /\ Ordered(batch[x].events)' /\ KeyedOnce(batch[x].events)'
               /\ Accepted(batch[x].events)' /\ NotSent(batch[x].events, x)'
    <3>1. CASE x = b
      BY <1>6, <1>10, <1>11, <3>1 DEF Accepted, NotSent, Ordered, KeyedOnce
    <3>2. CASE x # b
      <4>1. PICK s \in Seq(Event) : s = batch[x].events
        BY DEF BatcherTypeOK, Batch
      <4>2. Ordered(s) /\ KeyedOnce(s) /\ Accepted(s) /\ NotSent(s, x)
        BY <4>1 DEF OrderInv, QueuesInOrder
      <4>3. Accepted(s)' /\ NotSent(s, x)' /\ s = batch'[x].events
        BY <1>6, <1>12, <3>2, <4>1, <4>2
      <4> QED
        BY <4>2, <4>3 DEF Accepted, NotSent, Ordered, KeyedOnce
    <3> QED
      BY <3>1, <3>2
  <2>2. \A x \in BatchIds, y \in Objects : sent'[x][y] <= accepted'
    BY <1>0, <1>9
  <2> QED
    BY <2>1, <2>2 DEF QueuesInOrder
<1>14. FramesInOrder'
  <2> SUFFICES ASSUME NEW f \in Flushers, Sending(f)'
               PROVE  Ordered(flush[f].out)' /\ Accepted(flush[f].out)'
    BY DEF FramesInOrder
  <2>1. Sending(f) /\ flush'[f] = flush[f]
    BY <1>7
  <2>2. PICK s \in Seq(Event) : s = flush[f].out
    BY <1>8, <2>1
  <2>3. \A i \in 1 .. Len(s) : s[i].ver \in Nat /\ s[i].ver <= accepted
    BY <2>1, <2>2, EventsOf DEF OrderInv, FramesInOrder, Accepted
  <2>4. Ordered(s)
    BY <2>1, <2>2 DEF OrderInv, FramesInOrder
  <2>5. \A i \in 1 .. Len(s) : s[i].ver <= accepted'
    BY <1>0, <2>3
  <2> QED
    BY <2>1, <2>2, <2>4, <2>5 DEF Ordered, Accepted
<1>15. OldestFirst'
  <2> SUFFICES ASSUME NEW f \in Flushers, Sending(f)',
                      NEW i \in 1 .. Len(flush'[f].out)
               PROVE  LET x == flush'[f].at
                          out == flush'[f].out
                      IN /\ sent'[x][out[i].obj] < out[i].ver
                         /\ \A j \in 1 .. Len(batch'[x].events) :
                                batch'[x].events[j].obj = out[i].obj =>
                                    out[i].ver < batch'[x].events[j].ver
    BY DEF OldestFirst
  <2>1. Sending(f) /\ flush'[f] = flush[f]
    BY <1>7
  <2>2. PICK out \in Seq(Event), x \in BatchIds : out = flush[f].out /\ x = flush[f].at
    BY <1>8, <2>1
  <2>3. out[i].ver \in Nat /\ out[i].ver <= accepted /\ i \in 1 .. Len(out)
    BY <2>1, <2>2, EventsOf DEF OrderInv, FramesInOrder, Accepted
  <2>4. /\ sent[x][out[i].obj] < out[i].ver
        /\ \A j \in 1 .. Len(batch[x].events) :
               batch[x].events[j].obj = out[i].obj =>
                   out[i].ver < batch[x].events[j].ver
    BY <2>1, <2>2, <2>3 DEF OrderInv, OldestFirst
  <2>5. \A j \in 1 .. Len(batch'[x].events) :
            batch'[x].events[j].obj = out[i].obj => out[i].ver < batch'[x].events[j].ver
    <3>1. CASE x = b
      <4>1. \A j \in 1 .. Len(c) : c[j].obj = out[i].obj => out[i].ver < c[j].ver
        <5> SUFFICES ASSUME NEW j \in 1 .. Len(c), c[j].obj = out[i].obj
                     PROVE  out[i].ver < c[j].ver
          OBVIOUS
        <5>1. CASE c[j] = e
          BY <1>0, <1>5, <2>3, <5>1
        <5>2. CASE \E p \in 1 .. Len(queue) : c[j] = queue[p]
          BY <1>3, <2>4, <3>1, <5>2
        <5> QED
          BY <1>10, <5>1, <5>2
      <4> QED
        BY <1>6, <3>1, <4>1
    <3>2. CASE x # b
      BY <1>6, <2>4, <3>2
    <3> QED
      BY <3>1, <3>2
  <2> QED
    BY <1>0, <2>1, <2>2, <2>4, <2>5
<1> QED
  BY <1>13, <1>14, <1>15 DEF OrderInv

\* What is extracted is the queue in its order, newer than all that was sent.
LEMMA ExtractInOrder ==
    ASSUME BatcherTypeOK, HoldInv, OrderInv, NEW f \in Flushers, Extract(f)
    PROVE  OrderInv'
<1>0. /\ flush[f].at \in BatchIds /\ SendingFrom(flush[f].at) = {}
      /\ UNCHANGED <<sent, accepted>>
  BY PlacedInBatch DEF Extract
<1>1. PICK b \in BatchIds : b = flush[f].at
  BY <1>0
<1>2. \A g \in Flushers : Sending(g) => flush[g].at \in BatchIds
  BY PlacedInBatch DEF Sending
<1>3. CASE Return(f) /\ (UNCHANGED batch \/ batch' = [batch EXCEPT ![b].timer = "nil"])
  <2>1. \A x \in BatchIds : batch'[x].events = batch[x].events
    BY <1>3, BatchChanges
  <2>2. \A g \in Flushers : Sending(g)' => Sending(g) /\ flush'[g] = flush[g]
    BY <1>3, ReturnDoes DEF Sending, BatcherTypeOK
  <2> QED
    BY <1>0, <1>2, <2>1, <2>2, OrderStep
<1>4. CASE /\ flush' = [flush EXCEPT ![f].pc = "send",
                                     ![f].out = Fitting(batch[b].events)]
           /\ batch' = [batch EXCEPT ![b] = Extracted(b)]
  <2>1. PICK queue \in Seq(Event) : queue = batch[b].events
    BY DEF BatcherTypeOK, Batch
  <2>2. PICK out \in Seq(Event) :
           /\ out = Fitting(queue)
           /\ \A i \in 1 .. Len(out) : \E p \in 1 .. Len(queue) : out[i] = queue[p]
           /\ \A i, j \in 1 .. Len(out) : i < j =>
                 \E p, q \in 1 .. Len(queue) : p < q /\ out[i] = queue[p] /\ out[j] = queue[q]
    BY FittingIsInOrder
  <2>3. /\ flush'[f].pc = "send" /\ flush'[f].at = b /\ flush'[f].out = out
        /\ \A g \in Flushers \ {f} : flush'[g] = flush[g]
    BY <1>1, <1>4, <2>1, <2>2 DEF BatcherTypeOK, Thread
  <2>4. batch'[b].events = <<>> /\ \A x \in BatchIds \ {b} : batch'[x] = batch[x]
    BY <1>4, BatchChanges
  <2>5. /\ Ordered(queue) /\ Accepted(queue) /\ NotSent(queue, b)
    BY <2>1 DEF OrderInv, QueuesInOrder
  <2>6. /\ \A i \in 1 .. Len(out) : \E p \in 1 .. Len(queue) : out[i] = queue[p]
        /\ \A i, j \in 1 .. Len(out) : i < j =>
               \E p, q \in 1 .. Len(queue) : p < q /\ out[i] = queue[p] /\ out[j] = queue[q]
    BY <2>2
  <2>7. Ordered(out) /\ Accepted(out) /\ NotSent(out, b)
    <3>1. Ordered(out)
      <4> SUFFICES ASSUME NEW i \in 1 .. Len(out), NEW j \in 1 .. Len(out),
                          i < j, out[i].obj = out[j].obj
                   PROVE  out[i].ver < out[j].ver
        BY DEF Ordered
      <4>1. PICK p, q \in 1 .. Len(queue) :
                p < q /\ out[i] = queue[p] /\ out[j] = queue[q]
        BY <2>6
      <4> QED
        BY <2>5, <4>1 DEF Ordered
    <3>2. Accepted(out) /\ NotSent(out, b)
      BY <2>5, <2>6 DEF Accepted, NotSent
    <3> QED
      BY <3>1, <3>2
  <2>8. \A g \in Flushers \ {f} : Sending(g)' =>
            Sending(g) /\ flush'[g] = flush[g] /\ flush[g].at # b
    BY <1>0, <1>1, <2>3 DEF Sending, SendingFrom
  <2>9. QueuesInOrder'
    <3> SUFFICES ASSUME NEW x \in BatchIds
                 PROVE  /\ Ordered(batch[x].events)' /\ KeyedOnce(batch[x].events)'
                        /\ Accepted(batch[x].events)' /\ NotSent(batch[x].events, x)'
                        /\ \A y \in Objects : sent'[x][y] <= accepted'
      BY DEF QueuesInOrder
    <3>1. \A y \in Objects : sent'[x][y] <= accepted'
      BY <1>0 DEF OrderInv, QueuesInOrder
    <3>2. CASE x = b
      <4>1. 1 .. Len(batch'[x].events) = {}
        BY <2>4, <3>2
      <4> QED
        BY <3>1, <4>1 DEF Ordered, KeyedOnce, Accepted, NotSent
    <3>3. CASE x # b
      BY <1>0, <2>4, <3>1, <3>3
         DEF OrderInv, QueuesInOrder, Ordered, KeyedOnce, Accepted, NotSent
    <3> QED
      BY <3>2, <3>3
  <2>10. FramesInOrder'
    <3> SUFFICES ASSUME NEW g \in Flushers, Sending(g)'
                 PROVE  Ordered(flush[g].out)' /\ Accepted(flush[g].out)'
      BY DEF FramesInOrder
    <3>1. CASE g = f
      BY <1>0, <2>3, <2>7, <3>1 DEF Ordered, Accepted
    <3>2. CASE g # f
      BY <1>0, <2>8, <3>2 DEF OrderInv, FramesInOrder, Ordered, Accepted
    <3> QED
      BY <3>1, <3>2
  <2>11. OldestFirst'
    <3> SUFFICES ASSUME NEW g \in Flushers, Sending(g)',
                        NEW i \in 1 .. Len(flush'[g].out)
                 PROVE  LET x == flush'[g].at
                            o == flush'[g].out
                        IN /\ sent'[x][o[i].obj] < o[i].ver
                           /\ \A j \in 1 .. Len(batch'[x].events) :
                                  batch'[x].events[j].obj = o[i].obj =>
                                      o[i].ver < batch'[x].events[j].ver
      BY DEF OldestFirst
    <3>1. CASE g = f
      <4>1. 1 .. Len(batch'[b].events) = {}
        BY <2>4
      <4> QED
        BY <1>0, <2>3, <2>7, <3>1, <4>1 DEF NotSent
    <3>2. CASE g # f
      <4>1. Sending(g) /\ flush'[g] = flush[g] /\ batch'[flush[g].at] = batch[flush[g].at]
        BY <1>2, <2>4, <2>8, <3>2
      <4> QED
        BY <1>0, <4>1 DEF OrderInv, OldestFirst
    <3> QED
      BY <3>1, <3>2
  <2> QED
    BY <2>9, <2>10, <2>11 DEF OrderInv
<1> QED
  BY <1>1, <1>3, <1>4 DEF Extract

LEMMA SendFrameInOrder ==
    ASSUME BatcherTypeOK, HoldInv, OrderInv, NEW f \in Flushers, SendFrame(f)
    PROVE  OrderInv'
<1>0. UNCHANGED <<batch, accepted>> /\ flush[f].pc = "send"
  BY DEF SendFrame
<1>1. PICK out \in Seq(Event), b \in BatchIds : out = flush[f].out /\ b = flush[f].at
  BY <1>0, PlacedInBatch DEF BatcherTypeOK, Thread
<1>2. PICK n \in 0 .. Len(out) :
          /\ flush' = [flush EXCEPT ![f].out = SubSeq(@, n + 1, Len(@))]
          /\ SubSeq(out, n + 1, Len(out)) \in Seq(Event)
          /\ sent' \in [BatchIds -> [Objects -> Nat]]
          /\ \A x \in BatchIds \ {b} : sent'[x] = sent[x]
          /\ \A o \in Objects :
                 \/ sent'[b][o] = sent[b][o]
                 \/ \E k \in 1 .. n : out[k].obj = o /\ sent'[b][o] = out[k].ver
  <2>1. PICK n \in 0 .. Len(flush[f].out) :
               /\ flush' = [flush EXCEPT ![f].out = SubSeq(@, n + 1, Len(@))]
               /\ SubSeq(flush[f].out, n + 1, Len(flush[f].out)) \in Seq(Event)
               /\ sent' \in [BatchIds -> [Objects -> Nat]]
               /\ \A x \in BatchIds \ {flush[f].at} : sent'[x] = sent[x]
               /\ \A o \in Objects :
                      \/ sent'[flush[f].at][o] = sent[flush[f].at][o]
                      \/ \E i \in 1 .. n :
                             /\ flush[f].out[i].obj = o
                             /\ sent'[flush[f].at][o] = flush[f].out[i].ver
    BY SendFrameDoes
  <2>2. /\ \A x \in BatchIds \ {b} : sent'[x] = sent[x]
        /\ \A o \in Objects :
               \/ sent'[b][o] = sent[b][o]
               \/ \E k \in 1 .. n : out[k].obj = o /\ sent'[b][o] = out[k].ver
    BY <1>1, <2>1
  <2> QED
    BY <1>1, <2>1, <2>2
<1>3. PICK rest \in Seq(Event) : rest = SubSeq(out, n + 1, Len(out))
  BY <1>2
<1>4. /\ flush'[f].pc = "send" /\ flush'[f].at = b /\ flush'[f].out = rest
      /\ \A g \in Flushers \ {f} : flush'[g] = flush[g]
  BY <1>0, <1>1, <1>2, <1>3 DEF BatcherTypeOK, Thread
<1>5. Len(rest) = Len(out) - n /\ Len(out) \in Nat
      /\ \A i \in 1 .. Len(rest) : n + i \in 1 .. Len(out) /\ rest[i] = out[n + i]
  BY <1>3
<1>6. /\ Ordered(out) /\ Accepted(out) /\ NotSent(out, b)
      /\ \A i \in 1 .. Len(out), j \in 1 .. Len(batch[b].events) :
             batch[b].events[j].obj = out[i].obj =>
                 out[i].ver < batch[b].events[j].ver
  BY <1>0, <1>1 DEF OrderInv, FramesInOrder, OldestFirst, Sending, NotSent
<1>7. \A o \in Objects : sent'[b][o] <= accepted
  <2>1. \A o \in Objects : sent[b][o] <= accepted
    BY DEF OrderInv, QueuesInOrder
  <2>2. \A k \in 1 .. n : out[k].ver <= accepted
    BY <1>2, <1>6 DEF Accepted
  <2> QED
    BY <1>2, <2>1, <2>2
<1>8. NotSent(batch[b].events, b)'
  <2>1. PICK queue \in Seq(Event) : queue = batch[b].events
    BY DEF BatcherTypeOK, Batch
  <2>2. ASSUME NEW j \in 1 .. Len(queue)
        PROVE  sent'[b][queue[j].obj] < queue[j].ver
    <3>1. queue[j].obj \in Objects
      BY EventsOf
    <3>2. sent[b][queue[j].obj] < queue[j].ver
      BY <2>1 DEF OrderInv, QueuesInOrder, NotSent
    <3>3. ASSUME NEW k \in 1 .. n, out[k].obj = queue[j].obj
          PROVE  out[k].ver < queue[j].ver
      <4>1. k \in 1 .. Len(out)
        BY <1>2
      <4> QED
        BY <1>6, <2>1, <3>3, <4>1
    <3> QED
      BY <1>2, <3>1, <3>2, <3>3
  <2> QED
    BY <1>0, <2>1, <2>2 DEF NotSent
<1>9. \A i \in 1 .. Len(rest) : sent'[b][rest[i].obj] < rest[i].ver
  <2> TAKE i \in 1 .. Len(rest)
  <2>1. rest[i] = out[n + i] /\ n + i \in 1 .. Len(out) /\ rest[i].obj \in Objects
    BY <1>5, EventsOf
  <2>2. sent[b][rest[i].obj] < rest[i].ver
    BY <1>6, <2>1 DEF NotSent
  <2>3. ASSUME NEW k \in 1 .. n, out[k].obj = rest[i].obj
        PROVE  out[k].ver < rest[i].ver
    <3>1. k \in 1 .. Len(out) /\ k < n + i
      BY <1>2, <1>5, <2>1
    <3> QED
      BY <1>6, <2>1, <2>3, <3>1 DEF Ordered
  <2> QED
    BY <1>2, <2>1, <2>2, <2>3
<1>10. \A g \in Flushers \ {f} : Sending(g)' =>
           /\ Sending(g) /\ flush'[g] = flush[g]
           /\ flush[g].at # b /\ flush[g].at \in BatchIds
  BY <1>0, <1>1, <1>4, PlacedInBatch DEF Sending, HoldInv, OneSender
<1>11. QueuesInOrder'
  <2> SUFFICES ASSUME NEW x \in BatchIds
               PROVE  /\ Ordered(batch[x].events)' /\ KeyedOnce(batch[x].events)'
                      /\ Accepted(batch[x].events)' /\ NotSent(batch[x].events, x)'
                      /\ \A y \in Objects : sent'[x][y] <= accepted'
    BY DEF QueuesInOrder
  <2>1. /\ Ordered(batch[x].events)' /\ KeyedOnce(batch[x].events)'
        /\ Accepted(batch[x].events)'
    BY <1>0 DEF OrderInv, QueuesInOrder, Ordered, KeyedOnce, Accepted
  <2>2. CASE x = b
    BY <1>0, <1>7, <1>8, <2>1, <2>2
  <2>3. CASE x # b
    BY <1>0, <1>2, <2>1, <2>3 DEF OrderInv, QueuesInOrder, NotSent
  <2> QED
    BY <2>2, <2>3
<1>12. FramesInOrder'
  <2> SUFFICES ASSUME NEW g \in Flushers, Sending(g)'
               PROVE  Ordered(flush[g].out)' /\ Accepted(flush[g].out)'
    BY DEF FramesInOrder
  <2>1. CASE g = f
    <3>1. Ordered(rest)
      <4> SUFFICES ASSUME NEW i \in 1 .. Len(rest), NEW j \in 1 .. Len(rest),
                          i < j, rest[i].obj = rest[j].obj
                   PROVE  rest[i].ver < rest[j].ver
        BY DEF Ordered
      <4>1. n + i < n + j
        BY <1>2, <1>5
      <4> QED
        BY <1>5, <1>6, <4>1 DEF Ordered
    <3>2. Accepted(rest)
      BY <1>5, <1>6 DEF Accepted
    <3> QED
      BY <1>0, <1>4, <2>1, <3>1, <3>2 DEF Ordered, Accepted
  <2>2. CASE g # f
    BY <1>0, <1>10, <2>2 DEF OrderInv, FramesInOrder, Ordered, Accepted
  <2> QED
    BY <2>1, <2>2
<1>13. OldestFirst'
  <2> SUFFICES ASSUME NEW g \in Flushers, Sending(g)',
                      NEW i \in 1 .. Len(flush'[g].out)
               PROVE  LET x == flush'[g].at
                          o == flush'[g].out
                      IN /\ sent'[x][o[i].obj] < o[i].ver
                         /\ \A j \in 1 .. Len(batch'[x].events) :
                                batch'[x].events[j].obj = o[i].obj =>
                                    o[i].ver < batch'[x].events[j].ver
    BY DEF OldestFirst
  <2>1. CASE g = f
    <3>1. \A j \in 1 .. Len(batch[b].events) :
              batch[b].events[j].obj = rest[i].obj =>
                  rest[i].ver < batch[b].events[j].ver
      BY <1>4, <1>5, <1>6, <2>1
    <3> QED
      BY <1>0, <1>4, <1>9, <2>1, <3>1
  <2>2. CASE g # f
    <3>1. Sending(g) /\ flush'[g] = flush[g] /\ flush[g].at # b /\ flush[g].at \in BatchIds
      BY <1>10, <2>2
    <3>2. LET x == flush[g].at
              o == flush[g].out
          IN /\ sent[x][o[i].obj] < o[i].ver
             /\ \A j \in 1 .. Len(batch[x].events) :
                    batch[x].events[j].obj = o[i].obj => o[i].ver < batch[x].events[j].ver
      BY <3>1 DEF OrderInv, OldestFirst
    <3>3. sent'[flush[g].at] = sent[flush[g].at] /\ batch'[flush[g].at].events = batch[flush[g].at].events
      BY <1>0, <1>2, <3>1
    <3> QED
      BY <3>1, <3>2, <3>3
  <2> QED
    BY <2>1, <2>2
<1> QED
  BY <1>11, <1>12, <1>13 DEF OrderInv

LEMMA OrderInductive ==
    ASSUME BatcherTypeOK, HoldInv, OrderInv, [BatcherNext]_batcherVars
    PROVE  OrderInv'
<1>1. \A g \in Flushers : Sending(g) => flush[g].at \in BatchIds
  BY PlacedInBatch DEF Sending
<1>2. ASSUME UNCHANGED <<sent, accepted>>,
             \A b \in BatchIds : batch'[b].events = batch[b].events,
             \A g \in Flushers : Sending(g)' => Sending(g) /\ flush'[g] = flush[g]
      PROVE  OrderInv'
  BY <1>1, <1>2, OrderStep
<1>3. ASSUME NEW f \in Flushers, NEW t, Start(f, t), t.pc # "send"
      PROVE  \A g \in Flushers : Sending(g)' => Sending(g) /\ flush'[g] = flush[g]
  BY <1>3 DEF Start, Sending, BatcherTypeOK
<1>4. ASSUME NEW f \in Flushers, Return(f)
      PROVE  \A g \in Flushers : Sending(g)' => Sending(g) /\ flush'[g] = flush[g]
  BY <1>4, ReturnDoes DEF Sending, BatcherTypeOK
<1>5. CASE RefuseEvent \/ Close \/ Cancel \/ WaitGroupDone \/ UNCHANGED batcherVars
  <2>1. UNCHANGED <<batch, flush, sent, accepted>>
    BY <1>5 DEF RefuseEvent, Close, Cancel, WaitGroupDone, batcherVars
  <2> QED
    BY <1>2, <2>1 DEF Sending
<1>6. ASSUME NEW b \in BatchIds, NEW f \in Flushers, TimerFires(b, f) PROVE OrderInv'
  <2> DEFINE t == [IdleThread EXCEPT !.kind = "timer", !.pc = "lookup", !.born = b]
  <2>1. /\ batch' = [batch EXCEPT ![b] = [batch[b] EXCEPT !.timer = "fired"]]
        /\ Start(f, t) \/ UNCHANGED flush
        /\ UNCHANGED <<sent, accepted>>
    BY <1>6 DEF TimerFires
  <2>2. \A x \in BatchIds : batch'[x].events = batch[x].events
    <3>1. ASSUME NEW bt \in Batch PROVE [bt EXCEPT !.timer = "fired"].events = bt.events
      BY DEF Batch
    <3> QED
      BY <2>1, <3>1 DEF BatcherTypeOK
  <2>3. t.pc # "send"
    BY DEF IdleThread
  <2> HIDE DEF t
  <2> QED
    BY <1>2, <1>3, <2>1, <2>2, <2>3 DEF Sending
<1>7. ASSUME NEW f \in Flushers, NEW h \in Holders \cup {NoFlusher}, FlushTopic(f, h)
      PROVE  OrderInv'
  <2> DEFINE t == [IdleThread EXCEPT !.pc = "lookup", !.owner = h]
  <2>1. Start(f, t) /\ UNCHANGED <<batch, sent, accepted>>
    BY <1>7 DEF FlushTopic
  <2>2. t.pc # "send"
    BY DEF IdleThread
  <2> HIDE DEF t
  <2> QED
    BY <1>2, <1>3, <2>1, <2>2
<1>8. ASSUME NEW f \in Flushers, CleanupTopic(f) \/ ShutdownFlush(f) PROVE OrderInv'
  <2>1. /\ \/ UNCHANGED flush
           \/ \E k \in {"cleanup", "shutdown"} :
                Start(f, [IdleThread EXCEPT !.kind = k, !.pc = "lock",
                                            !.at = currentBatch])
        /\ UNCHANGED <<batch, sent, accepted>>
    BY <1>8 DEF CleanupTopic, ShutdownFlush
  <2>2. ASSUME NEW k \in {"cleanup", "shutdown"}
        PROVE  [IdleThread EXCEPT !.kind = k, !.pc = "lock", !.at = currentBatch].pc # "send"
    BY DEF IdleThread
  <2>3. \A g \in Flushers : Sending(g)' => Sending(g) /\ flush'[g] = flush[g]
    BY <1>3, <2>1, <2>2 DEF Sending
  <2> QED
    BY <1>2, <2>1, <2>3
<1>9. ASSUME NEW f \in Flushers, Lookup(f) PROVE OrderInv'
  <2>1. UNCHANGED <<batch, sent, accepted>>
    BY <1>9 DEF Lookup
  <2>2. \A g \in Flushers : Sending(g)' => Sending(g) /\ flush'[g] = flush[g]
    <3>1. CASE Return(f)
      BY <1>4, <3>1
    <3>2. CASE flush' = [flush EXCEPT ![f].pc = "lock", ![f].at = currentBatch]
      <4>1. flush'[f].pc = "lock" /\ \A g \in Flushers \ {f} : flush'[g] = flush[g]
        BY <3>2 DEF BatcherTypeOK, Thread
      <4> QED
        BY <4>1 DEF Sending
    <3> QED
      BY <1>9, <3>1, <3>2 DEF Lookup
  <2> QED
    BY <1>2, <2>1, <2>2
<1>10. ASSUME NEW f \in Flushers, FlushEnds(f) PROVE OrderInv'
  <2>1. Return(f) /\ UNCHANGED <<batch, sent, accepted>>
    BY <1>10 DEF FlushEnds
  <2> QED
    BY <1>2, <1>4, <2>1
<1>11. ASSUME NEW f \in Flushers, ResetFlushing(f) PROVE OrderInv'
  <2> DEFINE b == flush[f].born
  <2>1. /\ flush[f].pc = "after" /\ flush' = [flush EXCEPT ![f] = IdleThread]
        /\ batch' = [batch EXCEPT ![b] = [batch[b] EXCEPT !.flushing = FALSE]]
        /\ UNCHANGED <<sent, accepted>>
    BY <1>11 DEF ResetFlushing
  <2>2. \A x \in BatchIds : batch'[x].events = batch[x].events
    <3>1. ASSUME NEW bt \in Batch PROVE [bt EXCEPT !.flushing = FALSE].events = bt.events
      BY DEF Batch
    <3> QED
      BY <2>1, <3>1 DEF BatcherTypeOK
  <2>3. \A g \in Flushers : Sending(g)' => Sending(g) /\ flush'[g] = flush[g]
    BY <2>1 DEF Sending, IdleThread, BatcherTypeOK
  <2> QED
    BY <1>2, <2>1, <2>2, <2>3
<1>12. ASSUME NEW h \in Holders, HoldTopic(h) PROVE OrderInv'
  <2>1. /\ batch' = [batch EXCEPT ![Opened].held = @ + 1, ![Opened].timer = "nil"]
        /\ UNCHANGED <<flush, sent, accepted>> /\ Opened \in BatchIds
    BY <1>12, OpenedIsThere DEF HoldTopic
  <2>2. \A x \in BatchIds : batch'[x].events = batch[x].events
    BY <2>1 DEF BatcherTypeOK, Batch
  <2> QED
    BY <1>2, <2>1, <2>2 DEF Sending
<1>13. ASSUME NEW h \in Holders, Release(h) PROVE OrderInv'
  <2>1. UNCHANGED <<flush, sent, accepted>>
    BY <1>13 DEF Release
  <2>2. \A x \in BatchIds : batch'[x].events = batch[x].events
    BY <1>13, ReleaseDoes DEF BatcherTypeOK
  <2> QED
    BY <1>2, <2>1, <2>2 DEF Sending
<1> QED
  BY <1>5, <1>6, <1>7, <1>8, <1>9, <1>10, <1>11, <1>12, <1>13,
     AddEventInOrder, ExtractInOrder, SendFrameInOrder DEF BatcherNext
\* Drained batches stay drained while threads begin, look up and send.
SameWork(f) == /\ flush'[f].kind = flush[f].kind /\ flush'[f].pc = flush[f].pc
               /\ flush'[f].at = flush[f].at
NewWork(f) == /\ flush[f].pc \notin {"lock", "send"} /\ flush'[f].pc # "send"
              /\ flush'[f].kind # "shutdown"

LEMMA CalmDrains ==
    ASSUME HoldInv, NEW b \in BatchIds,
           \A f \in Flushers : SameWork(f) \/ NewWork(f),
           batch'[b].events # <<>> => batch[b].events # <<>>
    PROVE  /\ CleanupLocked(b) => CleanupLocked(b)'
           /\ Drained(b) => Drained(b)'
<1>1. CleanupLocked(b) => CleanupLocked(b)'
  BY DEF CleanupLocked, SameWork, NewWork
<1>2. CleaningUp(b) => CleaningUp(b)'
  <2>1. \A f \in Flushers : flush[f].kind = "cleanup" => flush[f].pc \in {"lock", "send"}
    BY DEF HoldInv, ThreadsPlaced, Placed
  <2> QED
    BY <2>1 DEF CleaningUp, Busy, SameWork, NewWork
<1>3. SendingFrom(b)' # {} => SendingFrom(b) # {}
  BY DEF SendingFrom, Sending, SameWork, NewWork
<1> QED
  BY <1>1, <1>2, <1>3 DEF Drained

LEMMA CalmStep ==
    ASSUME BatcherTypeOK, BatcherTypeOK', HoldInv, StrandInv,
           \A f \in Flushers : SameWork(f) \/ NewWork(f),
           shut' = shut, batchCount <= batchCount',
           \A b \in BatchIds :
               /\ batch'[b].events # <<>> =>
                    batch[b].events # <<>> \/ (b = currentBatch' /\ ~Cancelled)
               /\ batch'[b].timer # "nil" => batch'[b].events # <<>>
               /\ b = currentBatch /\ b # currentBatch' => Drained(b)',
           CurrentIsServed'
    PROVE  StrandInv'
<1>1. FreshIsEmpty'
  <2> SUFFICES ASSUME NEW b \in BatchIds, b > batchCount'
               PROVE  batch'[b].events = <<>>
    BY DEF FreshIsEmpty
  <2>1. batchCount \in Nat /\ batchCount' \in Nat /\ currentBatch' \in 0 .. batchCount' /\ b \in Nat
    BY DEF BatcherTypeOK, BatchIds
  <2>2. b # currentBatch' /\ b > batchCount
    BY <2>1
  <2> QED
    BY <2>2 DEF StrandInv, FreshIsEmpty
<1>2. TimedHasEvents'
  BY DEF TimedHasEvents
<1>3. LeftIsDrained'
  <2> SUFFICES ASSUME NEW b \in BatchIds, b # currentBatch' PROVE Drained(b)'
    BY DEF LeftIsDrained
  <2>1. CASE b = currentBatch
    BY <2>1
  <2>2. CASE b # currentBatch
    <3>1. Drained(b)
      BY <2>2 DEF StrandInv, LeftIsDrained
    <3> QED
      BY <3>1, CalmDrains
  <2> QED
    BY <2>1, <2>2
<1>4. ShutdownFlushes'
  <2>1. \A f \in Flushers : flush'[f].kind = "shutdown" => flush[f].kind = "shutdown" /\ SameWork(f)
    BY DEF SameWork, NewWork
  <2>2. CASE ~Cancelled
    BY <2>1, <2>2 DEF StrandInv, ShutdownFlushes, Cancelled
  <2>3. CASE Cancelled
    <3>1. \A b \in BatchIds : /\ batch'[b].events # <<>> => batch[b].events # <<>>
                              /\ CleanupLocked(b) => CleanupLocked(b)'
                              /\ Drained(b) => Drained(b)'
      BY <2>3, CalmDrains
    <3>2. shut' \in {"flushed", "done"} => \A b \in BatchIds : Drained(b)'
      BY <3>1 DEF StrandInv, ShutdownFlushes
    <3>3. ASSUME NEW f \in Flushers, flush'[f].kind = "shutdown"
          PROVE  /\ shut' = "cancelled"
                 /\ \A g \in Flushers : flush'[g].kind = "shutdown" => f = g
                 /\ \A b \in BatchIds :
                        IF b = flush'[f].at
                        THEN Sending(f)' /\ batch'[b].events # <<>> => CleanupLocked(b)'
                        ELSE Drained(b)'
      <4>1. /\ shut = "cancelled"
            /\ \A g \in Flushers : flush[g].kind = "shutdown" => f = g
            /\ \A b \in BatchIds :
                   IF b = flush[f].at
                   THEN Sending(f) /\ batch[b].events # <<>> => CleanupLocked(b)
                   ELSE Drained(b)
        BY <2>1, <3>3 DEF StrandInv, ShutdownFlushes
      <4>2. flush'[f].at = flush[f].at /\ (Sending(f)' => Sending(f))
        BY <2>1, <3>3 DEF SameWork, Sending
      <4> QED
        BY <2>1, <3>1, <4>1, <4>2
    <3> QED
      BY <3>2, <3>3 DEF ShutdownFlushes
  <2> QED
    BY <2>2, <2>3
<1> QED
  BY <1>1, <1>2, <1>3, <1>4 DEF StrandInv

\* The current batch stays served by whoever was to reach it.
LEMMA StillServed ==
    ASSUME BatcherTypeOK, StrandInv, shut' = shut,
           currentBatch' \in {0, currentBatch},
           \A f \in Flushers :
               \/ SameWork(f)
               \/ flush[f].pc \notin {"lock", "lookup"}
               \/ flush'[f].pc = "lock" /\ flush'[f].at = currentBatch
               \/ currentBatch = 0,
           \A b \in BatchIds : b = currentBatch =>
               \/ batch'[b] = batch[b]
               \/ batch'[b].events = <<>> \/ batch'[b].held # 0
               \/ batch'[b].timer = "armed"
               \/ /\ batch[b].events # <<>> /\ batch[b].held = 0
                  /\ batch[b].timer # "armed"
               \/ Served(b)'
    PROVE  CurrentIsServed'
<1> SUFFICES ASSUME ~Cancelled, currentBatch' # 0,
                    batch'[currentBatch'].events # <<>>,
                    batch'[currentBatch'].held = 0,
                    batch'[currentBatch'].timer # "armed"
             PROVE  Served(currentBatch)'
  BY DEF CurrentIsServed, Cancelled
<1>1. currentBatch' = currentBatch /\ currentBatch # 0 /\ currentBatch \in BatchIds
  BY BatcherNumbers DEF BatcherTypeOK, BatchIds
<1>2. CASE Served(currentBatch)
  BY <1>1, <1>2 DEF Served, SameWork
<1>3. CASE ~Served(currentBatch)
  <2>1. \/ batch[currentBatch].events = <<>> \/ batch[currentBatch].held # 0
        \/ batch[currentBatch].timer = "armed"
    BY <1>1, <1>3 DEF StrandInv, CurrentIsServed
  <2> DEFINE b == currentBatch
  <2>2. /\ batch'[b].events # <<>> /\ batch'[b].held = 0 /\ batch'[b].timer # "armed"
        /\ b \in BatchIds
    BY <1>1
  <2>3. Served(b)'
    BY <2>1, <2>2
  <2> QED
    BY <1>1, <2>3
<1> QED
  BY <1>2, <1>3

\* A flush that leaves its batch, or the lookup of one, with nothing of its own to
\* do there.
LEMMA ReturnKeepsStrands ==
    ASSUME BatcherTypeOK, BatcherTypeOK', HoldInv, StrandInv,
           NEW f \in Flushers, Return(f), flush[f].pc \in {"lock", "send"},
           NEW b \in BatchIds, b = flush[f].at, SendingFrom(b) \subseteq {f},
           UNCHANGED <<batchCount, currentBatch>>,
           \A x \in BatchIds \ {b} : batch'[x] = batch[x],
           batch'[b].events = batch[b].events, batch'[b].held = batch[b].held,
           batch'[b].timer \in {batch[b].timer, "nil"},
           \/ flush[f].pc = "send" /\ batch'[b] = batch[b]
           \/ batch[b].events = <<>>
           \/ batch[b].held > 0 /\ ~Forced(f)
    PROVE  StrandInv'
<1>1. \A x \in BatchIds : /\ batch'[x].events = batch[x].events
                          /\ batch'[x].timer # "nil" => batch[x].timer # "nil"
  OBVIOUS
<1>2. /\ flush'[f].pc \notin {"lookup", "lock", "send"} /\ flush'[f].kind # "shutdown"
      /\ \A g \in Flushers \ {f} : flush'[g] = flush[g]
      /\ shut' = IF flush[f].kind = "shutdown" THEN "flushed" ELSE shut
  <2>1. IdleThread.kind = "topic"
    BY DEF IdleThread
  <2>2. flush' = [flush EXCEPT ![f] = Returned(flush[f])]
    BY ReturnDoes
  <2>3. flush'[f] = Returned(flush[f]) /\ \A g \in Flushers \ {f} : flush'[g] = flush[g]
    BY <2>2 DEF BatcherTypeOK
  <2> QED
    BY <2>1, <2>3, ReturnDoes
<1>3. \A x \in BatchIds : CleanupLocked(x) /\ batch[x].events # <<>> => CleanupLocked(x)'
  <2> SUFFICES ASSUME NEW x \in BatchIds, batch[x].events # <<>>,
                      NEW c \in Flushers, flush[c].kind = "cleanup",
                      flush[c].pc = "lock", flush[c].at = x
               PROVE  c # f
    BY <1>2 DEF CleanupLocked
  <2> QED
    BY DEF Forced
<1>4. \A x \in BatchIds \ {b} : CleaningUp(x) => CleaningUp(x)'
  BY <1>2 DEF CleaningUp, Busy
<1>5. \A x \in BatchIds : SendingFrom(x)' \subseteq SendingFrom(x)
  BY <1>2 DEF SendingFrom, Sending
<1>6. SendingFrom(b)' = {}
  <2>1. f \notin SendingFrom(b)'
    BY <1>2 DEF SendingFrom, Sending
  <2> QED
    BY <1>1, <1>5, <2>1
<1>7. \A x \in BatchIds : Drained(x) => Drained(x)'
  BY <1>1, <1>3, <1>4, <1>5, <1>6 DEF Drained
<1>8. FreshIsEmpty' /\ TimedHasEvents' /\ LeftIsDrained'
  BY <1>1, <1>7 DEF StrandInv, FreshIsEmpty, TimedHasEvents, LeftIsDrained
<1>9. ShutdownFlushes'
  <2>1. CASE flush[f].kind = "shutdown"
    <3>1. /\ \A g \in Flushers : flush[g].kind = "shutdown" => f = g
          /\ \A x \in BatchIds \ {b} : Drained(x)
          /\ Sending(f) /\ batch[b].events # <<>> => CleanupLocked(b)
      BY <1>1, <2>1 DEF StrandInv, ShutdownFlushes
    <3>2. Drained(b)'
      <4>1. batch[b].events # <<>> => CleanupLocked(b)
        BY <2>1, <3>1 DEF Sending, Forced
      <4> QED
        BY <1>1, <1>3, <1>6, <4>1 DEF Drained
    <3>3. \A x \in BatchIds : Drained(x)'
      BY <1>7, <3>1, <3>2
    <3> QED
      BY <1>2, <3>1, <3>3 DEF ShutdownFlushes
  <2>2. CASE flush[f].kind # "shutdown"
    <3>1. ASSUME NEW g \in Flushers, flush'[g].kind = "shutdown"
          PROVE  /\ shut' = "cancelled"
                 /\ \A k \in Flushers : flush'[k].kind = "shutdown" => g = k
                 /\ \A x \in BatchIds :
                        IF x = flush'[g].at
                        THEN Sending(g)' /\ batch'[x].events # <<>> => CleanupLocked(x)'
                        ELSE Drained(x)'
      <4>1. flush'[g] = flush[g] /\ flush[g].kind = "shutdown"
        BY <1>2, <3>1
      <4>2. /\ shut = "cancelled"
            /\ \A k \in Flushers : flush[k].kind = "shutdown" => g = k
            /\ \A x \in BatchIds :
                   IF x = flush[g].at
                   THEN Sending(g) /\ batch[x].events # <<>> => CleanupLocked(x)
                   ELSE Drained(x)
        BY <4>1 DEF StrandInv, ShutdownFlushes
      <4>3. Sending(g)' => Sending(g)
        BY <4>1 DEF Sending
      <4> QED
        BY <1>1, <1>2, <1>3, <1>7, <2>2, <4>1, <4>2, <4>3
    <3>2. shut' \in {"flushed", "done"} => \A x \in BatchIds : Drained(x)'
      BY <1>2, <1>7, <2>2 DEF StrandInv, ShutdownFlushes
    <3> QED
      BY <3>1, <3>2 DEF ShutdownFlushes
  <2> QED
    BY <2>1, <2>2
<1>10. CurrentIsServed'
  <2> SUFFICES ASSUME ~Cancelled', currentBatch # 0,
                      batch'[currentBatch].events # <<>>,
                      batch'[currentBatch].held = 0,
                      batch'[currentBatch].timer # "armed"
               PROVE  Served(currentBatch)'
    BY DEF CurrentIsServed
  <2>1. shut' = shut \/ shut' = "flushed"
    BY <1>2
  <2>2. ~Cancelled /\ currentBatch \in BatchIds
    BY <2>1, BatcherNumbers DEF Cancelled, BatcherTypeOK, BatchIds
  <2>3. batch'[currentBatch] = batch[currentBatch] /\ (currentBatch = b => flush[f].pc = "send")
    BY <1>1, <2>2
  <2>4. PICK g \in Flushers : flush[g].pc = "lookup"
                              \/ (flush[g].pc = "lock" /\ flush[g].at = currentBatch)
    BY <2>2, <2>3 DEF StrandInv, CurrentIsServed, Served
  <2>5. g # f
    BY <2>3, <2>4
  <2> QED
    BY <1>2, <2>4, <2>5 DEF Served
<1> QED
  BY <1>8, <1>9, <1>10 DEF StrandInv

\* A flush that extracts leaves nothing queued, and a clean-up that had to see to
\* the batch still does.
LEMMA ExtractKeepsStrands ==
    ASSUME BatcherTypeOK, BatcherTypeOK', HoldInv, StrandInv,
           NEW f \in Flushers, Extract(f)
    PROVE  StrandInv'
<1>0. PICK b \in BatchIds : b = flush[f].at
  BY PlacedInBatch DEF Extract
<1>1. /\ flush[f].pc = "lock" /\ SendingFrom(b) = {} /\ b = flush[f].at
      /\ UNCHANGED <<batchCount, currentBatch, held>>
  BY <1>0 DEF Extract
<1>2. CASE batch[b].held > 0 /\ ~Forced(f) /\ Return(f) /\ UNCHANGED batch
  BY <1>1, <1>2, ReturnKeepsStrands
<1>3. CASE /\ batch[b].events = <<>> /\ Return(f)
           /\ batch' = [batch EXCEPT ![b].timer = "nil"]
  <2>1. /\ batch'[b].held = batch[b].held /\ batch'[b].timer = "nil"
        /\ batch'[b].events = batch[b].events
        /\ \A x \in BatchIds \ {b} : batch'[x] = batch[x]
    BY <1>1, <1>3, BatchChanges
  <2> QED
    BY <1>1, <1>3, <2>1, ReturnKeepsStrands
<1>4. CASE /\ batch[b].events # <<>>
           /\ flush' = [flush EXCEPT ![f].pc = "send",
                                     ![f].out = Fitting(batch[b].events)]
           /\ batch' = [batch EXCEPT ![b] = Extracted(b)]
           /\ UNCHANGED <<quiet, shut>>
  <2>1. /\ batch'[b].timer = "nil" /\ batch'[b].events = <<>>
        /\ \A x \in BatchIds \ {b} : batch'[x] = batch[x]
    BY <1>1, <1>4, BatchChanges
  <2>2. /\ flush'[f].pc = "send" /\ flush'[f].kind = flush[f].kind
        /\ flush'[f].at = b
        /\ \A g \in Flushers \ {f} : flush'[g] = flush[g]
    BY <1>1, <1>4 DEF BatcherTypeOK, Thread
  <2>3. \A x \in BatchIds \ {b} : CleanupLocked(x) => CleanupLocked(x)'
    BY <1>1, <2>2 DEF CleanupLocked
  <2>4. \A x \in BatchIds : CleaningUp(x) => CleaningUp(x)'
    BY <1>1, <2>2 DEF CleaningUp, Busy
  <2>5. \A x \in BatchIds \ {b} : SendingFrom(x)' = SendingFrom(x)
    BY <1>1, <2>2 DEF SendingFrom, Sending
  <2>6. \A x \in BatchIds : Drained(x) => Drained(x)'
    <3>1. Drained(b) => CleaningUp(b)
      BY <1>1, <1>4 DEF Drained, CleanupLocked, CleaningUp, Busy
    <3>2. Drained(b) => Drained(b)'
      BY <1>1, <2>1, <2>4, <3>1 DEF Drained
    <3>3. ASSUME NEW x \in BatchIds \ {b}, Drained(x) PROVE Drained(x)'
      BY <2>1, <2>3, <2>4, <2>5, <3>3 DEF Drained
    <3> QED
      BY <3>2, <3>3
  <2>7. FreshIsEmpty' /\ TimedHasEvents' /\ LeftIsDrained'
    BY <1>1, <2>1, <2>6 DEF StrandInv, FreshIsEmpty, TimedHasEvents, LeftIsDrained
  <2>8. ShutdownFlushes'
    <3>1. ASSUME NEW g \in Flushers, flush'[g].kind = "shutdown"
          PROVE  /\ shut' = "cancelled"
                 /\ \A k \in Flushers : flush'[k].kind = "shutdown" => g = k
                 /\ \A x \in BatchIds :
                        IF x = flush'[g].at
                        THEN Sending(g)' /\ batch'[x].events # <<>> => CleanupLocked(x)'
                        ELSE Drained(x)'
      <4>1. flush'[g].at = flush[g].at /\ flush[g].kind = "shutdown"
        BY <1>1, <2>2, <3>1
      <4>2. /\ shut = "cancelled"
            /\ \A k \in Flushers : flush[k].kind = "shutdown" => g = k
            /\ \A x \in BatchIds :
                   IF x = flush[g].at
                   THEN Sending(g) /\ batch[x].events # <<>> => CleanupLocked(x)
                   ELSE Drained(x)
        BY <4>1 DEF StrandInv, ShutdownFlushes
      <4>3. flush[g].at # b => (Sending(g)' => Sending(g))
        BY <1>1, <2>2 DEF Sending
      <4>4. \A k \in Flushers : flush'[k].kind = flush[k].kind
        BY <2>2
      <4>5. ASSUME NEW x \in BatchIds, x = flush[g].at, Sending(g)',
                   batch'[x].events # <<>>
            PROVE  CleanupLocked(x)'
        <5>1. x # b
          BY <2>1, <4>5
        <5> QED
          BY <2>1, <2>3, <4>2, <4>3, <4>5, <5>1
      <4> QED
        BY <1>4, <2>6, <4>1, <4>2, <4>4, <4>5
    <3>2. shut' \in {"flushed", "done"} => \A x \in BatchIds : Drained(x)'
      BY <1>4, <2>6 DEF StrandInv, ShutdownFlushes
    <3> QED
      BY <3>1, <3>2 DEF ShutdownFlushes
  <2>9. CurrentIsServed'
    <3> SUFFICES ASSUME ~Cancelled', currentBatch # 0,
                        batch'[currentBatch].events # <<>>,
                        batch'[currentBatch].held = 0,
                        batch'[currentBatch].timer # "armed"
                 PROVE  Served(currentBatch)'
      BY <1>1 DEF CurrentIsServed
    <3>1. ~Cancelled /\ currentBatch \in BatchIds /\ currentBatch # b
      BY <1>4, <2>1, BatcherNumbers DEF Cancelled, BatcherTypeOK, BatchIds
    <3>2. PICK g \in Flushers : flush[g].pc = "lookup"
                                \/ (flush[g].pc = "lock" /\ flush[g].at = currentBatch)
      BY <2>1, <3>1 DEF StrandInv, CurrentIsServed, Served
    <3>3. g # f
      BY <1>1, <3>1, <3>2
    <3> QED
      BY <1>1, <2>2, <3>2, <3>3 DEF Served
  <2> QED
    BY <2>7, <2>8, <2>9 DEF StrandInv
<1> QED
  BY <1>0, <1>2, <1>3, <1>4 DEF Extract

LEMMA FlushEndsKeepsStrands ==
    ASSUME BatcherTypeOK, BatcherTypeOK', HoldInv, StrandInv,
           NEW f \in Flushers, FlushEnds(f)
    PROVE  StrandInv'
<1>1. /\ flush[f].pc = "send" /\ Return(f) /\ batch' = batch
      /\ UNCHANGED <<batchCount, currentBatch>>
  BY DEF FlushEnds
<1>2. SendingFrom(flush[f].at) \subseteq {f}
  BY <1>1 DEF HoldInv, OneSender, SendingFrom, Sending
<1>3. flush[f].at \in BatchIds /\ \A x \in BatchIds : batch'[x] = batch[x]
  BY <1>1, PlacedInBatch
<1> QED
  BY <1>1, <1>2, <1>3, ReturnKeepsStrands

LEMMA StartedIs ==
    ASSUME BatcherTypeOK, NEW f \in Flushers, NEW t \in Thread, Start(f, t)
    PROVE  /\ flush'[f] = t /\ flush[f].pc = "idle"
           /\ \A g \in Flushers \ {f} : flush'[g] = flush[g] /\ SameWork(g)
  BY DEF Start, Busy, BatcherTypeOK, SameWork

\* Opening a batch leaves the others to whoever they are left to.
LEMMA OpenedLeaves ==
    ASSUME BatcherTypeOK, LockedBatch
    PROVE  \A b \in BatchIds : b = currentBatch => b = currentBatch'
  BY OpenedIsThere DEF BatchIds

LEMMA AddEventKeepsStrands ==
    ASSUME BatcherTypeOK, BatcherTypeOK', HoldInv, StrandInv,
           NEW o \in Objects, AddEvent(o)
    PROVE  StrandInv'
<1>1. PICK b \in BatchIds : b = Opened
  BY OpenedIsThere DEF AddEvent
<1>2. /\ ~Cancelled /\ shut' = shut /\ currentBatch' = b /\ batchCount <= batchCount'
      /\ currentBatch # 0 => b = currentBatch
      /\ currentBatch = 0 => b > batchCount
      /\ LockedBatch
  BY <1>1, OpenedIsThere DEF AddEvent
<1>3. PICK bt \in Batch :
          /\ batch' = [batch EXCEPT ![b] = bt]
          /\ bt.events = Coalesced(batch[b].events, NewEvent(o))
          /\ bt.held = batch[b].held
          /\ \/ /\ \E f \in Flushers : Start(f, SizeFlush(b))
                /\ bt.timer = "nil" /\ bt.held = 0
             \/ /\ UNCHANGED flush
                /\ bt.timer = IF batch[b].timer # "nil" \/ batch[b].held > 0
                              THEN batch[b].timer ELSE "armed"
  BY <1>1, AddEventDoes
<1>4. bt.events # <<>>
  <2>1. NewEvent(o) \in Event /\ batch[b] \in Batch
    BY DEF NewEvent, Event, BatcherTypeOK
  <2>2. batch[b].events \in Seq(Event)
    BY <2>1 DEF Batch
  <2> QED
    BY <1>3, <2>1, <2>2, CoalescedKeeps
<1>5. batch'[b] = bt /\ \A x \in BatchIds \ {b} : batch'[x] = batch[x]
  BY <1>3 DEF BatcherTypeOK
<1>6. \A x \in BatchIds :
          /\ batch'[x].events # <<>> =>
               batch[x].events # <<>> \/ (x = currentBatch' /\ ~Cancelled)
          /\ batch'[x].timer # "nil" => batch'[x].events # <<>>
          /\ x = currentBatch /\ x # currentBatch' => Drained(x)'
  <2>1. \A x \in BatchIds : batch[x].timer # "nil" => batch[x].events # <<>>
    BY DEF StrandInv, TimedHasEvents
  <2>2. \A x \in BatchIds : x = currentBatch => x = currentBatch'
    BY <1>2, OpenedLeaves
  <2> QED
    BY <1>2, <1>4, <1>5, <2>1, <2>2
<1>7. SizeFlush(b) \in Thread /\ SizeFlush(b).pc = "lookup" /\ SizeFlush(b).kind = "size"
  BY ThreadsAreThreads DEF SizeFlush, IdleThread
<1>8. CASE UNCHANGED flush /\ bt.timer = IF batch[b].timer # "nil" \/ batch[b].held > 0
                                         THEN batch[b].timer ELSE "armed"
  <2>1. \A f \in Flushers : SameWork(f)
    BY <1>8 DEF SameWork
  <2>2. CurrentIsServed'
    <3> SUFFICES ASSUME bt.held = 0, bt.timer # "armed" PROVE Served(b)'
      BY <1>2, <1>5 DEF CurrentIsServed
    <3>1. batch[b].timer # "nil" /\ batch[b].timer # "armed" /\ batch[b].held = 0
      BY <1>3, <1>8 DEF BatcherTypeOK, Batch
    <3>2. batch[b].events # <<>>
      BY <3>1 DEF StrandInv, TimedHasEvents
    <3>3. b = currentBatch
      BY <1>2, <3>2 DEF StrandInv, FreshIsEmpty
    <3>4. Served(b)
      <4>1. currentBatch # 0
        BY <3>3 DEF BatchIds
      <4> QED
        BY <1>2, <3>1, <3>2, <3>3, <4>1 DEF StrandInv, CurrentIsServed
    <3> QED
      BY <1>8, <3>4 DEF Served
  <2> QED
    BY <1>2, <1>6, <2>1, <2>2, CalmStep
<1>9. CASE \E f \in Flushers : Start(f, SizeFlush(b))
  <2>1. PICK f \in Flushers : Start(f, SizeFlush(b))
    BY <1>9
  <2>2. /\ flush'[f].pc = "lookup" /\ flush'[f].kind = "size" /\ flush[f].pc = "idle"
        /\ \A g \in Flushers \ {f} : SameWork(g)
    BY <1>7, <2>1, StartedIs
  <2>3. \A g \in Flushers : SameWork(g) \/ NewWork(g)
    BY <2>2 DEF NewWork
  <2>4. CurrentIsServed'
    BY <2>2 DEF CurrentIsServed, Served
  <2> QED
    BY <1>2, <1>6, <2>3, <2>4, CalmStep
<1> QED
  BY <1>3, <1>8, <1>9

LEMMA HoldTopicKeepsStrands ==
    ASSUME BatcherTypeOK, BatcherTypeOK', HoldInv, StrandInv,
           NEW h \in Holders, HoldTopic(h)
    PROVE  StrandInv'
<1>1. PICK b \in BatchIds : b = Opened
  BY OpenedIsThere DEF HoldTopic
<1>2. /\ shut' = shut /\ currentBatch' = b /\ batchCount <= batchCount' /\ LockedBatch
      /\ flush' = flush
      /\ batch' = [batch EXCEPT ![b].held = @ + 1, ![b].timer = "nil"]
  BY <1>1, OpenedIsThere DEF HoldTopic
<1>3. /\ batch'[b].events = batch[b].events /\ batch'[b].timer = "nil"
      /\ batch'[b].held # 0
      /\ \A x \in BatchIds \ {b} : batch'[x] = batch[x]
  <2>1. batch[b] \in Batch
    BY DEF BatcherTypeOK
  <2>2. batch'[b] = [batch[b] EXCEPT !.held = @ + 1, !.timer = "nil"]
    BY <1>2 DEF BatcherTypeOK
  <2>3. batch[b].held \in Nat
    BY <2>1 DEF Batch
  <2> QED
    BY <1>2, <2>1, <2>2, <2>3 DEF BatcherTypeOK, Batch
<1>4. \A f \in Flushers : SameWork(f)
  BY <1>2 DEF SameWork
<1>5. CurrentIsServed'
  BY <1>2, <1>3 DEF CurrentIsServed
<1>6. \A x \in BatchIds :
          /\ batch'[x].events # <<>> => batch[x].events # <<>>
          /\ batch'[x].timer # "nil" => batch'[x].events # <<>>
          /\ x = currentBatch /\ x # currentBatch' => Drained(x)'
  <2>1. \A x \in BatchIds : batch[x].timer # "nil" => batch[x].events # <<>>
    BY DEF StrandInv, TimedHasEvents
  <2> QED
    BY <1>2, <1>3, <2>1, OpenedLeaves
<1> QED
  BY <1>2, <1>4, <1>5, <1>6, CalmStep

LEMMA ReleaseKeepsStrands ==
    ASSUME BatcherTypeOK, BatcherTypeOK', HoldInv, StrandInv,
           NEW h \in Holders, Release(h)
    PROVE  StrandInv'
<1>1. PICK b \in BatchIds : b = held[h]
  BY ReleaseDoes
<1>2. PICK bt \in Batch :
          /\ batch' = [batch EXCEPT ![b] = bt]
          /\ bt.events = batch[b].events
          /\ bt.timer = IF bt.events = <<>> \/ bt.held > 0 THEN "nil" ELSE "armed"
  BY <1>1, ReleaseDoes
<1>3. batch'[b] = bt /\ \A x \in BatchIds \ {b} : batch'[x] = batch[x]
  BY <1>2 DEF BatcherTypeOK
<1>4. UNCHANGED <<batchCount, currentBatch, flush, shut>> /\ batchCount \in Nat
  BY DEF Release, BatcherTypeOK
<1>5. \A f \in Flushers : SameWork(f)
  BY <1>4 DEF SameWork
<1>6. \A x \in BatchIds :
          /\ batch'[x].events # <<>> => batch[x].events # <<>>
          /\ batch'[x].timer # "nil" => batch'[x].events # <<>>
  BY <1>2, <1>3 DEF StrandInv, TimedHasEvents
<1>7. CurrentIsServed'
  <2>1. \A x \in BatchIds : x = currentBatch =>
            \/ batch'[x] = batch[x]
            \/ batch'[x].events = <<>> \/ batch'[x].held # 0 \/ batch'[x].timer = "armed"
    <3>1. bt.held \in Nat
      BY DEF Batch
    <3> QED
      BY <1>2, <1>3, <3>1
  <2> QED
    BY <1>4, <1>5, <2>1, StillServed
<1> QED
  BY <1>4, <1>5, <1>6, <1>7, CalmStep

\* A step that leaves the batches alone.
LEMMA BatchesAlone ==
    ASSUME StrandInv, batch' = batch
    PROVE  \A b \in BatchIds :
               /\ batch'[b].events # <<>> => batch[b].events # <<>>
               /\ batch'[b].timer # "nil" => batch'[b].events # <<>>
  BY DEF StrandInv, TimedHasEvents

LEMMA ShutdownKeepsStrands ==
    ASSUME BatcherTypeOK, BatcherTypeOK', HoldInv, StrandInv,
           \/ Close \/ Cancel \/ WaitGroupDone
           \/ \E f \in Flushers : ShutdownFlush(f) /\ currentBatch = 0
    PROVE  StrandInv'
<1>1. UNCHANGED <<batch, batchCount, currentBatch, flush>>
  BY DEF Close, Cancel, WaitGroupDone, ShutdownFlush
<1>2. \A b \in BatchIds : Drained(b)' = Drained(b)
  BY <1>1 DEF Drained, CleanupLocked, CleaningUp, SendingFrom, Sending, Busy
<1>3. FreshIsEmpty' /\ TimedHasEvents' /\ LeftIsDrained'
  BY <1>1, <1>2 DEF StrandInv, FreshIsEmpty, TimedHasEvents, LeftIsDrained
<1>4. CurrentIsServed'
  <2>1. Cancelled' \/ (~Cancelled /\ ~Cancelled')
    BY DEF Close, Cancel, WaitGroupDone, ShutdownFlush, Cancelled
  <2>2. Served(currentBatch)' = Served(currentBatch)
    BY <1>1 DEF Served
  <2> QED
    BY <1>1, <2>1, <2>2 DEF StrandInv, CurrentIsServed
<1>5. ShutdownFlushes'
  <2>1. \A f \in Flushers : flush'[f].kind # "shutdown"
    <3>1. \A f \in Flushers : flush[f].kind = "shutdown" => shut = "cancelled"
      BY DEF StrandInv, ShutdownFlushes
    <3>2. ASSUME NEW f \in Flushers, ShutdownFlush(f)
          PROVE  \A g \in Flushers : flush[g].kind # "shutdown"
      <4>1. \A g \in Flushers : flush[g].kind = "shutdown" => Busy(g)
        BY DEF HoldInv, ThreadsPlaced, Placed, Busy
      <4> QED
        BY <3>2, <4>1 DEF ShutdownFlush
    <3> QED
      BY <1>1, <3>1, <3>2 DEF Close, Cancel, WaitGroupDone
  <2>2. shut' \in {"flushed", "done"} => \A b \in BatchIds : Drained(b)'
    <3>1. shut' \in {"flushed", "done"} =>
              \/ shut = "flushed"
              \/ currentBatch = 0
      BY <1>1 DEF Close, Cancel, WaitGroupDone
    <3>2. currentBatch = 0 => \A b \in BatchIds : Drained(b)
      BY DEF StrandInv, LeftIsDrained, BatchIds
    <3> QED
      BY <1>2, <3>1, <3>2 DEF StrandInv, ShutdownFlushes
  <2> QED
    BY <2>1, <2>2 DEF ShutdownFlushes
<1> QED
  BY <1>3, <1>4, <1>5 DEF StrandInv

LEMMA ShutdownFlushKeepsStrands ==
    ASSUME BatcherTypeOK, BatcherTypeOK', HoldInv, StrandInv,
           NEW f \in Flushers, ShutdownFlush(f), currentBatch # 0
    PROVE  StrandInv'
<1> DEFINE t == [IdleThread EXCEPT !.kind = "shutdown", !.pc = "lock",
                                   !.at = currentBatch]
<1>1. /\ Start(f, t) /\ shut = "cancelled" /\ shut' = shut
      /\ UNCHANGED <<batch, batchCount, currentBatch>>
      /\ \A g \in Flushers : Busy(g) => flush[g].kind # "shutdown"
  BY DEF ShutdownFlush
<1>2. /\ t \in Thread /\ t.kind = "shutdown" /\ t.pc = "lock" /\ t.at = currentBatch
  <2>1. currentBatch \in BatchIds
    BY BatcherNumbers DEF BatcherTypeOK, BatchIds
  <2> QED
    BY <2>1, ThreadsAreThreads DEF IdleThread
<1> HIDE DEF t
<1>3. /\ flush'[f] = t /\ flush[f].pc = "idle"
      /\ \A g \in Flushers \ {f} : flush'[g] = flush[g]
  BY <1>1, <1>2, StartedIs
<1>4. \A b \in BatchIds : Drained(b) => Drained(b)'
  <2>1. flush[f].kind # "cleanup"
    BY <1>3 DEF HoldInv, ThreadsPlaced, Placed
  <2>2. \A b \in BatchIds : /\ CleanupLocked(b) => CleanupLocked(b)'
                            /\ CleaningUp(b) => CleaningUp(b)'
    BY <1>3, <2>1 DEF CleanupLocked, CleaningUp, Busy
  <2>3. \A b \in BatchIds : SendingFrom(b)' \subseteq SendingFrom(b)
    BY <1>2, <1>3 DEF SendingFrom, Sending
  <2> QED
    BY <1>1, <2>2, <2>3 DEF Drained
<1>5. FreshIsEmpty' /\ TimedHasEvents' /\ LeftIsDrained' /\ CurrentIsServed'
  BY <1>1, <1>4
     DEF StrandInv, FreshIsEmpty, TimedHasEvents, LeftIsDrained, CurrentIsServed, Cancelled
<1>6. ShutdownFlushes'
  <2>1. \A g \in Flushers : flush'[g].kind = "shutdown" => g = f
    <3>1. \A g \in Flushers : flush[g].kind # "shutdown"
      BY <1>1 DEF HoldInv, ThreadsPlaced, Placed, Busy
    <3> QED
      BY <1>3, <3>1
  <2>2. \A b \in BatchIds \ {currentBatch} : Drained(b)'
    BY <1>4 DEF StrandInv, LeftIsDrained
  <2>3. ~Sending(f)' /\ flush'[f].at = currentBatch
    BY <1>2, <1>3 DEF Sending
  <2> QED
    BY <1>1, <2>1, <2>2, <2>3 DEF ShutdownFlushes
<1> QED
  BY <1>5, <1>6 DEF StrandInv

LEMMA CleanupKeepsStrands ==
    ASSUME BatcherTypeOK, BatcherTypeOK', HoldInv, StrandInv,
           NEW f \in Flushers, CleanupTopic(f)
    PROVE  StrandInv'
<1>1. PICK b \in BatchIds : b = currentBatch
  BY BatcherNumbers DEF CleanupTopic, BatcherTypeOK, BatchIds
<1> DEFINE t == [IdleThread EXCEPT !.kind = "cleanup", !.pc = "lock", !.at = b]
<1>2. /\ Start(f, t) /\ currentBatch' = 0
      /\ UNCHANGED <<batch, batchCount, shut>> /\ batchCount \in Nat
  BY <1>1 DEF CleanupTopic, BatcherTypeOK
<1>3. /\ t \in Thread /\ t.kind = "cleanup" /\ t.pc = "lock" /\ t.at = b
  BY ThreadsAreThreads DEF IdleThread
<1> HIDE DEF t
<1>4. /\ flush'[f] = t /\ flush[f].pc = "idle" /\ \A g \in Flushers \ {f} : SameWork(g)
  BY <1>2, <1>3, StartedIs
<1>5. \A g \in Flushers : SameWork(g) \/ NewWork(g)
  BY <1>3, <1>4 DEF NewWork
<1>6. Drained(b)'
  BY <1>3, <1>4 DEF Drained, CleanupLocked, CleaningUp, Busy
<1>7. CurrentIsServed'
  BY <1>2 DEF CurrentIsServed
<1>8. \A x \in BatchIds : x = currentBatch /\ x # currentBatch' => Drained(x)'
  <2>1. \A x \in BatchIds : x = currentBatch => x = b
    BY <1>1
  <2> QED
    BY <1>6, <2>1
<1> QED
  BY <1>2, <1>5, <1>7, <1>8, BatchesAlone, CalmStep

\* A thread that begins with a look-up, from a batch left as it is or whose timer
\* fires.
LEMMA LookupStarts ==
    ASSUME BatcherTypeOK, BatcherTypeOK', HoldInv, StrandInv,
           NEW f \in Flushers, NEW t \in Thread, t.pc = "lookup", t.kind # "shutdown",
           Start(f, t), UNCHANGED <<batchCount, currentBatch, shut>>,
           \A b \in BatchIds : /\ batch'[b].events = batch[b].events
                               /\ batch'[b].timer # "nil" => batch[b].timer # "nil"
    PROVE  StrandInv'
<1>1. /\ flush'[f] = t /\ flush[f].pc = "idle" /\ \A g \in Flushers \ {f} : SameWork(g)
  BY StartedIs
<1>2. \A g \in Flushers : SameWork(g) \/ NewWork(g)
  BY <1>1 DEF NewWork
<1>3. CurrentIsServed'
  BY <1>1 DEF CurrentIsServed, Served
<1>4. batchCount <= batchCount'
  BY DEF BatcherTypeOK
<1>5. \A b \in BatchIds : batch[b].timer # "nil" => batch[b].events # <<>>
  BY DEF StrandInv, TimedHasEvents
<1> QED
  BY <1>2, <1>3, <1>4, <1>5, CalmStep

LEMMA LookupKeepsStrands ==
    ASSUME BatcherTypeOK, BatcherTypeOK', HoldInv, StrandInv,
           NEW f \in Flushers, Lookup(f)
    PROVE  StrandInv'
<1>1. /\ flush[f].pc = "lookup" /\ UNCHANGED <<batch, batchCount, currentBatch>>
      /\ batchCount <= batchCount' /\ flush[f].kind # "shutdown"
  BY DEF Lookup, HoldInv, ThreadsPlaced, Placed, BatcherTypeOK
<1>2. CASE currentBatch = 0 /\ Return(f)
  <2>1. /\ flush'[f].pc \notin {"lookup", "lock", "send"} /\ flush'[f].kind # "shutdown"
        /\ \A g \in Flushers \ {f} : flush'[g] = flush[g]
        /\ shut' = shut
    <3>1. IdleThread.kind = "topic"
      BY DEF IdleThread
    <3>2. flush' = [flush EXCEPT ![f] = Returned(flush[f])]
      BY <1>2, ReturnDoes
    <3>3. flush'[f] = Returned(flush[f]) /\ \A g \in Flushers \ {f} : flush'[g] = flush[g]
      BY <3>2 DEF BatcherTypeOK
    <3> QED
      BY <1>1, <1>2, <3>1, <3>3, ReturnDoes
  <2>2. \A g \in Flushers : SameWork(g) \/ NewWork(g)
    BY <1>1, <2>1 DEF SameWork, NewWork
  <2>3. CurrentIsServed'
    BY <1>1, <1>2 DEF CurrentIsServed
  <2> QED
    BY <1>1, <2>1, <2>2, <2>3, BatchesAlone, CalmStep
<1>3. CASE /\ currentBatch # 0
           /\ flush' = [flush EXCEPT ![f].pc = "lock", ![f].at = currentBatch]
           /\ UNCHANGED <<quiet, shut>>
  <2>1. /\ flush'[f].pc = "lock" /\ flush'[f].at = currentBatch
        /\ flush'[f].kind = flush[f].kind
        /\ \A g \in Flushers \ {f} : flush'[g] = flush[g]
    BY <1>3 DEF BatcherTypeOK, Thread
  <2>2. \A g \in Flushers : SameWork(g) \/ NewWork(g)
    BY <1>1, <2>1 DEF SameWork, NewWork
  <2>3. \A g \in Flushers : SameWork(g) \/ (flush'[g].pc = "lock" /\ flush'[g].at = currentBatch)
    BY <2>1 DEF SameWork
  <2>4. CurrentIsServed'
    BY <1>1, <1>3, <2>3, StillServed
  <2> QED
    BY <1>1, <1>3, <2>2, <2>4, BatchesAlone, CalmStep
<1> QED
  BY <1>2, <1>3 DEF Lookup

LEMMA StrandInductive ==
    ASSUME BatcherTypeOK, BatcherTypeOK', HoldInv, StrandInv,
           [BatcherNext]_batcherVars
    PROVE  StrandInv'
<1>1. batchCount \in Nat
  BY DEF BatcherTypeOK
<1>2. ASSUME RefuseEvent PROVE StrandInv'
  <2>1. /\ Cancelled /\ Cancelled' /\ shut' = shut /\ LockedBatch
        /\ batch' = batch /\ flush' = flush
    BY <1>2 DEF RefuseEvent, Cancelled
  <2>2. \A f \in Flushers : SameWork(f)
    BY <2>1 DEF SameWork
  <2>3. CurrentIsServed'
    BY <2>1 DEF CurrentIsServed
  <2> QED
    BY <2>1, <2>2, <2>3, OpenedIsThere, OpenedLeaves, BatchesAlone, CalmStep
<1>3. ASSUME NEW b \in BatchIds, NEW f \in Flushers, TimerFires(b, f)
      PROVE  StrandInv'
  <2> DEFINE t == [IdleThread EXCEPT !.kind = "timer", !.pc = "lookup", !.born = b]
  <2>1. /\ (Start(f, t) /\ ~Cancelled) \/ (flush' = flush /\ Cancelled)
        /\ UNCHANGED <<batchCount, currentBatch, shut>>
        /\ batch' = [batch EXCEPT ![b] = [batch[b] EXCEPT !.timer = "fired"]]
        /\ batch[b].timer = "armed"
    BY <1>3 DEF TimerFires
  <2>2. t \in Thread /\ t.pc = "lookup" /\ t.kind = "timer"
    BY ThreadsAreThreads DEF IdleThread
  <2> HIDE DEF t
  <2>3. \A x \in BatchIds : /\ batch'[x].events = batch[x].events
                            /\ batch'[x].timer # "nil" => batch[x].timer # "nil"
    <3>1. ASSUME NEW bt \in Batch
          PROVE  [bt EXCEPT !.timer = "fired"].events = bt.events
      BY DEF Batch
    <3>2. /\ batch'[b] = [batch[b] EXCEPT !.timer = "fired"] /\ batch[b] \in Batch
          /\ \A x \in BatchIds \ {b} : batch'[x] = batch[x]
      BY <2>1 DEF BatcherTypeOK
    <3>3. batch'[b].events = batch[b].events
      BY <3>1, <3>2
    <3> QED
      BY <2>1, <3>2, <3>3
  <2>4. CASE Start(f, t)
    BY <2>1, <2>2, <2>3, <2>4, LookupStarts
  <2>5. CASE flush' = flush /\ Cancelled
    <3>1. CurrentIsServed' /\ \A g \in Flushers : SameWork(g)
      BY <2>1, <2>5 DEF CurrentIsServed, Cancelled, SameWork
    <3>2. \A x \in BatchIds : batch[x].timer # "nil" => batch[x].events # <<>>
      BY DEF StrandInv, TimedHasEvents
    <3> QED
      BY <1>1, <2>1, <2>3, <3>1, <3>2, CalmStep
  <2> QED
    BY <2>1, <2>4, <2>5
<1>4. ASSUME NEW f \in Flushers, NEW h \in Holders \cup {NoFlusher}, FlushTopic(f, h)
      PROVE  StrandInv'
  <2> DEFINE t == [IdleThread EXCEPT !.pc = "lookup", !.owner = h]
  <2>1. Start(f, t) /\ UNCHANGED <<batch, batchCount, currentBatch, shut>>
    BY <1>4 DEF FlushTopic
  <2>2. t \in Thread /\ t.pc = "lookup" /\ t.kind = "topic"
    BY ThreadsAreThreads DEF IdleThread
  <2> HIDE DEF t
  <2> QED
    BY <2>1, <2>2, LookupStarts
<1>5. ASSUME NEW f \in Flushers, SendFrame(f) PROVE StrandInv'
  <2>1. /\ flush[f].pc = "send"
        /\ UNCHANGED <<batch, batchCount, currentBatch, shut>>
    BY <1>5 DEF SendFrame
  <2>2. PICK out : flush' = [flush EXCEPT ![f].out = out]
    BY <1>5 DEF SendFrame
  <2>3. \A g \in Flushers : SameWork(g)
    BY <2>2 DEF BatcherTypeOK, Thread, SameWork
  <2>4. CurrentIsServed'
    BY <2>1, <2>3, StillServed
  <2> QED
    BY <1>1, <2>1, <2>3, <2>4, BatchesAlone, CalmStep
<1>6. ASSUME NEW f \in Flushers, ResetFlushing(f) PROVE StrandInv'
  <2>1. PICK b \in BatchIds : b = flush[f].born
    BY <1>6 DEF ResetFlushing, HoldInv, ThreadsPlaced, Placed
  <2>2. /\ flush[f].pc = "after" /\ flush' = [flush EXCEPT ![f] = IdleThread]
        /\ batch' = [batch EXCEPT ![b] = [batch[b] EXCEPT !.flushing = FALSE]]
        /\ UNCHANGED <<batchCount, currentBatch, shut>>
    BY <1>6, <2>1 DEF ResetFlushing
  <2>3. \A x \in BatchIds : /\ batch'[x].events = batch[x].events
                            /\ batch'[x].timer = batch[x].timer
                            /\ batch'[x].held = batch[x].held
    <3>1. PICK bt \in Batch : bt = batch[b]
      BY DEF BatcherTypeOK
    <3> DEFINE v == [bt EXCEPT !.flushing = FALSE]
    <3>2. v.events = bt.events /\ v.timer = bt.timer /\ v.held = bt.held
      BY DEF Batch
    <3>3. batch' = [batch EXCEPT ![b] = v]
      BY <2>2, <3>1
    <3> HIDE DEF v
    <3>4. batch'[b] = v /\ \A x \in BatchIds \ {b} : batch'[x] = batch[x]
      BY <3>3 DEF BatcherTypeOK
    <3> QED
      BY <3>1, <3>2, <3>4
  <2>4. flush'[f] = IdleThread /\ \A g \in Flushers \ {f} : flush'[g] = flush[g]
    BY <2>2 DEF BatcherTypeOK
  <2>5. \A g \in Flushers : SameWork(g) \/ NewWork(g)
    BY <2>2, <2>4 DEF SameWork, NewWork, IdleThread
  <2>6. \A g \in Flushers : SameWork(g) \/ flush[g].pc \notin {"lock", "lookup"}
    BY <2>2, <2>4 DEF SameWork
  <2>7. CurrentIsServed'
    BY <2>2, <2>3, <2>6, StillServed
  <2>8. \A x \in BatchIds : batch[x].timer # "nil" => batch[x].events # <<>>
    BY DEF StrandInv, TimedHasEvents
  <2> QED
    BY <1>1, <2>2, <2>3, <2>5, <2>7, <2>8, CalmStep
<1>7. CASE UNCHANGED batcherVars
  <2>1. UNCHANGED <<batch, batchCount, currentBatch, flush, shut>>
    BY <1>7 DEF batcherVars
  <2>2. (\A g \in Flushers : SameWork(g)) /\ CurrentIsServed'
    BY <2>1 DEF SameWork, StrandInv, CurrentIsServed, Served, Cancelled
  <2> QED
    BY <1>1, <2>1, <2>2, BatchesAlone, CalmStep
<1>8. ASSUME NEW f \in Flushers, ShutdownFlush(f) PROVE StrandInv'
  BY <1>8, ShutdownFlushKeepsStrands, ShutdownKeepsStrands
<1>9. CASE Close \/ Cancel \/ WaitGroupDone
  BY <1>9, ShutdownKeepsStrands
<1> QED
  BY <1>2, <1>3, <1>4, <1>5, <1>6, <1>7, <1>8, <1>9, AddEventKeepsStrands,
     HoldTopicKeepsStrands, ReleaseKeepsStrands, CleanupKeepsStrands,
     LookupKeepsStrands, ExtractKeepsStrands, FlushEndsKeepsStrands DEF BatcherNext

\* What the invariant says of events that wait and of Shutdown.
LEMMA NothingIsStranded ==
    ASSUME BatcherTypeOK, HoldInv, StrandInv
    PROVE  NoStrandedEvents /\ ShutdownDrains
<1>1. \A b \in BatchIds : CleanupLocked(b) => CleaningUp(b)
  BY DEF CleanupLocked, CleaningUp, Busy
<1>2. ShutdownDrains
  BY <1>1 DEF ShutdownDrains, StrandInv, ShutdownFlushes, Drained
<1>3. NoStrandedEvents
  <2> SUFFICES ASSUME NEW b \in BatchIds, batch[b].events # <<>>, batch[b].held = 0
               PROVE  \/ batch[b].timer = "armed" /\ ~Cancelled
                      \/ \E f \in Flushers :
                             \/ flush[f].pc = "lock" /\ flush[f].at = b
                             \/ flush[f].pc = "lookup" /\ b = currentBatch
                      \/ b = currentBatch /\ shut = "cancelled"
    BY DEF NoStrandedEvents
  <2>1. CASE Drained(b)
    BY <2>1 DEF Drained, CleanupLocked
  <2>2. CASE b = currentBatch /\ ~Cancelled
    BY <2>2 DEF StrandInv, CurrentIsServed, Served, BatchIds
  <2>3. CASE b = currentBatch /\ Cancelled
    BY <2>1, <2>3 DEF Cancelled, StrandInv, ShutdownFlushes
  <2> QED
    BY <2>1, <2>2, <2>3 DEF StrandInv, LeftIsDrained
<1> QED
  BY <1>2, <1>3

LEMMA BatcherInvInit == BatcherInit => HoldInv /\ QuietUnderHold /\ StrandInv /\ OrderInv
<1> SUFFICES ASSUME BatcherInit PROVE HoldInv /\ QuietUnderHold /\ StrandInv /\ OrderInv
  OBVIOUS
<1>1. /\ \A b \in BatchIds : /\ batch[b].events = <<>> /\ batch[b].timer = "nil"
                             /\ batch[b].held = 0
                             /\ \A o \in Objects : sent[b][o] = 0
      /\ \A f \in Flushers : flush[f] = IdleThread
      /\ batchCount = 0 /\ currentBatch = 0 /\ quiet = {} /\ accepted = 0
      /\ \A h \in Holders : held[h] = 0
      /\ shut = "running"
  BY DEF BatcherInit, EmptyBatch
<1>2. IdleThread.pc = "idle" /\ IdleThread.kind = "topic" /\ IdleThread.owner \notin Holders
  BY BatcherNumbers DEF IdleThread
<1>3. HoldInv
  <2>1. \A b \in BatchIds : HoldersAt(b) = {}
    BY <1>1 DEF HoldersAt, BatchIds
  <2>2. HoldsCounted
    <3>1. Cardinality({}) = 0 /\ 0 <= 0 /\ ~(0 > 0)
      BY FS_EmptySet
    <3>2. /\ \A h \in Holders : held[h] <= batchCount
          /\ \A b \in BatchIds : batch[b].held = 0 /\ ~(batch[b].held > 0)
      BY <1>1, <3>1
    <3> QED
      BY <2>1, <3>1, <3>2 DEF HoldsCounted
  <2> QED
    BY <1>1, <1>2, <2>2
       DEF HoldInv, ThreadsPlaced, Placed, OneFlushEach, OneSender, Sending, QuietHolds
<1>4. QuietUnderHold
  BY <1>1 DEF QuietUnderHold
<1>5. StrandInv
  <2>1. \A b \in BatchIds : SendingFrom(b) = {}
    BY <1>1, <1>2 DEF SendingFrom, Sending
  <2> QED
    BY <1>1, <1>2, <2>1 DEF StrandInv, FreshIsEmpty, TimedHasEvents, LeftIsDrained, Drained,
                            CurrentIsServed, ShutdownFlushes
<1>6. OrderInv
  <2>1. \A f \in Flushers : ~Sending(f)
    BY <1>1, <1>2 DEF Sending
  <2>2. Len(<<>>) = 0
    OBVIOUS
  <2>3. QueuesInOrder
    BY <1>1, <2>2 DEF QueuesInOrder, Ordered, KeyedOnce, Accepted, NotSent
  <2> QED
    BY <2>1, <2>3 DEF OrderInv, FramesInOrder, OldestFirst
<1> QED
  BY <1>3, <1>4, <1>5, <1>6

(* A topic's batcher keeps its word: queued events that no replay holds     *)
(* back are on their way out, one batch sends them in order, nothing unasked *)
(* for goes out between a held topic's pages, and Shutdown leaves nothing    *)
(* behind.  (batcher.go)                                                     *)
THEOREM BatcherKeepsItsWord == BatcherSpec => []BatcherIsSound
<1>1. BatcherInit => BatcherInv
  BY BatcherTypeInit, BatcherInvInit DEF BatcherInv
<1>2. BatcherInv /\ [BatcherNext]_batcherVars => BatcherInv'
  <2> SUFFICES ASSUME BatcherInv, [BatcherNext]_batcherVars PROVE BatcherInv'
    OBVIOUS
  <2>1. BatcherTypeOK /\ HoldInv /\ QuietUnderHold /\ StrandInv /\ OrderInv
    BY DEF BatcherInv
  <2>2. BatcherTypeOK'
    BY <2>1, BatcherTypeInductive
  <2>3. HoldInv' /\ QuietUnderHold'
    BY <2>1, <2>2, HoldInductive
  <2>4. StrandInv'
    BY <2>1, <2>2, StrandInductive
  <2>5. OrderInv'
    BY <2>1, OrderInductive
  <2> QED
    BY <2>2, <2>3, <2>4, <2>5 DEF BatcherInv
<1>3. BatcherInv => BatcherIsSound
  BY NothingIsStranded DEF BatcherInv, BatcherIsSound, OrderInv
<1> QED
  BY <1>1, <1>2, <1>3, PTL DEF BatcherSpec
=============================================================================
