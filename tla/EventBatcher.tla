--------------------------- MODULE EventBatcher ---------------------------
(***************************************************************************)
(* The batcher between the watch loops and the websocket hub               *)
(* (backend/internal/websocket/batcher.go, type EventBatcher), for one     *)
(* topic.  Topics share nothing but eb.mu and Shutdown, which treats each  *)
(* of them alike.                                                          *)
(*                                                                         *)
(* What runs under batch.mu is one action.  A flush is a thread: it looks  *)
(* the topic's batch up, takes flushMu and extracts the queued events, and *)
(* then broadcasts them frame by frame with only flushMu held.  Taking     *)
(* flushMu and extracting are one action: until it has extracted, a thread *)
(* that holds flushMu only keeps the other flushes waiting.                *)
(*                                                                         *)
(* CleanupTopic takes the batch out of the map, so a topic has a series of *)
(* batch objects; threads and the release of a hold keep the one they got. *)
(***************************************************************************)
EXTENDS Integers, Sequences, SequencesExt

CONSTANTS
    Objects,     \* what events are about: their coalescing keys
    Unkeyed,     \* objects coalesceKey has no key for
    Holders,     \* replays that hold the topic
    Flushers,    \* slots for the flush threads alive at once (a bound)
    NoFlusher,   \* the owner of a flush no holder waits for
    Size,        \* object -> bytes of its events, with their separator
    Budget,      \* frameBudget
    MaxBatch,    \* maxBatchSize
    MaxEvents,   \* bound on the events of a behaviour
    MaxBatches   \* bound on the batch objects of a behaviour

ASSUME ObjectAssumption == Unkeyed \subseteq Objects
ASSUME HolderAssumption == IsFiniteSet(Holders) /\ NoFlusher \notin Holders
ASSUME SizeAssumption == Size \in [Objects -> Nat \ {0}] /\ Budget \in Nat
ASSUME BatchAssumption ==
    /\ MaxBatch \in Nat \ {0}
    /\ MaxEvents \in Nat
    /\ MaxBatches \in Nat

VARIABLES
    batch,    \* the batch objects
    batchCount,  \* how many of them were created
    currentBatch, \* the one in eb.batches, 0 when there is none
    flush,    \* slot -> flush thread
    held,     \* holder -> batch its release is bound to, 0 when it has none
    quiet,    \* holders whose FlushTopic under the hold has returned
    accepted, \* events accepted so far: the version of the newest
    sent,     \* batch -> object -> newest version broadcast from it
    shut      \* how far Shutdown is

batcherVars == <<batch, batchCount, currentBatch, flush, held, quiet, accepted, sent, shut>>

BatchIds == 1 .. MaxBatches
Event == [obj : Objects, ver : Nat]

\* timer: nil, waiting, or non-nil although its callback was started.
Batch == [events : Seq(Event), timer : {"nil", "armed", "fired"},
          held : Nat, flushing : BOOLEAN]
EmptyBatch == [events |-> <<>>, timer |-> "nil", held |-> 0,
               flushing |-> FALSE]

\* at: the batch a thread works on; born: the batch whose AddEvent started it.
Thread == [kind : {"timer", "size", "topic", "cleanup", "shutdown"},
           pc : {"idle", "lookup", "lock", "send", "after"},
           at : BatchIds \cup {0}, born : BatchIds \cup {0},
           owner : Holders \cup {NoFlusher}, out : Seq(Event)]
IdleThread == [kind |-> "topic", pc |-> "idle", at |-> 0, born |-> 0,
               owner |-> NoFlusher, out |-> <<>>]

Busy(f) == flush[f].pc # "idle"
Forced(f) == flush[f].kind \in {"topic", "cleanup", "shutdown"}
Sending(f) == flush[f].pc = "send"
SendingFrom(b) == {f \in Flushers : Sending(f) /\ flush[f].at = b}

BatcherTypeOK ==
    /\ batch \in [BatchIds -> Batch]
    /\ batchCount \in 0 .. MaxBatches
    /\ currentBatch \in 0 .. batchCount
    /\ flush \in [Flushers -> Thread]
    /\ held \in [Holders -> BatchIds \cup {0}]
    /\ quiet \in SUBSET Holders
    /\ accepted \in Nat
    /\ sent \in [BatchIds -> [Objects -> Nat]]
    /\ shut \in {"running", "closed", "cancelled", "flushed", "done"}

BatcherInit ==
    /\ batch = [b \in BatchIds |-> EmptyBatch]
    /\ batchCount = 0
    /\ currentBatch = 0
    /\ flush = [f \in Flushers |-> IdleThread]
    /\ held = [h \in Holders |-> 0]
    /\ quiet = {}
    /\ accepted = 0
    /\ sent = [b \in BatchIds |-> [o \in Objects |-> 0]]
    /\ shut = "running"

\* eb.closed, set before the context is cancelled.
Closed == shut # "running"
Cancelled == shut \in {"cancelled", "flushed", "done"}

---------------------------------------------------------------------------
(* lockedBatch: the topic's batch, created when there is none.              *)
CanOpen == currentBatch # 0 \/ batchCount < MaxBatches
Opened == IF currentBatch # 0 THEN currentBatch ELSE batchCount + 1
LockedBatch ==
    /\ CanOpen
    /\ currentBatch' = Opened
    /\ batchCount' = IF currentBatch # 0 THEN batchCount ELSE batchCount + 1

Positions(s, o) == {i \in 1 .. Len(s) : s[i].obj = o}

(* A keyed event replaces the one already queued for its key, in its place. *)
Coalesced(s, e) ==
    IF e.obj \notin Unkeyed /\ Positions(s, e.obj) # {}
    THEN [i \in 1 .. Len(s) |-> IF i \in Positions(s, e.obj) THEN e ELSE s[i]]
    ELSE Append(s, e)

ScheduleFlush(bt) ==
    IF bt.timer # "nil" \/ bt.held > 0 THEN bt
                                       ELSE [bt EXCEPT !.timer = "armed"]

Start(f, thread) ==
    /\ ~Busy(f)
    /\ flush' = [flush EXCEPT ![f] = thread]

(* AddEvent, while the batcher takes events.                                *)
TooLarge(bt) ==
    Len(bt.events) >= MaxBatch /\ bt.held = 0 /\ ~bt.flushing /\ ~Closed

AddEvent(o) ==
    /\ ~Cancelled
    /\ accepted < MaxEvents
    /\ LockedBatch
    /\ accepted' = accepted + 1
    /\ LET b == Opened
           bt == ScheduleFlush([batch[b] EXCEPT !.events =
                     Coalesced(@, [obj |-> o, ver |-> accepted + 1])])
       IN \/ /\ TooLarge(bt)
             /\ \E f \in Flushers :
                    Start(f, [IdleThread EXCEPT !.kind = "size",
                                                !.pc = "lookup", !.born = b])
             /\ batch' = [batch EXCEPT ![b] = [bt EXCEPT !.flushing = TRUE,
                                                         !.timer = "nil"]]
          \/ /\ ~TooLarge(bt)
             /\ batch' = [batch EXCEPT ![b] = bt]
             /\ UNCHANGED flush
    /\ UNCHANGED <<held, quiet, sent, shut>>

(* AddEvent after Shutdown's cancel: ErrBatcherClosed, and nothing queued.  *)
RefuseEvent ==
    /\ Cancelled
    /\ LockedBatch
    /\ UNCHANGED <<batch, flush, held, quiet, accepted, sent, shut>>

(* The timer's callback gives up once the context is cancelled.             *)
TimerFires(b, f) ==
    /\ batch[b].timer = "armed"
    /\ batch' = [batch EXCEPT ![b].timer = "fired"]
    /\ \/ /\ ~Cancelled
          /\ Start(f, [IdleThread EXCEPT !.kind = "timer", !.pc = "lookup",
                                         !.born = b])
       \/ /\ Cancelled
          /\ UNCHANGED flush
    /\ UNCHANGED <<batchCount, currentBatch, held, quiet, accepted, sent, shut>>

---------------------------------------------------------------------------
(* A flush thread.                                                          *)
FlushTopic(f, h) ==
    /\ h # NoFlusher => /\ held[h] # 0
                        /\ \A g \in Flushers : Busy(g) => flush[g].owner # h
    /\ Start(f, [IdleThread EXCEPT !.pc = "lookup", !.owner = h])
    /\ quiet' = quiet \ {h}
    /\ UNCHANGED <<batch, batchCount, currentBatch, held, accepted, sent, shut>>

(* CleanupTopic: the batch leaves the map before it is flushed.             *)
CleanupTopic(f) ==
    /\ currentBatch # 0
    /\ currentBatch' = 0
    /\ Start(f, [IdleThread EXCEPT !.kind = "cleanup", !.pc = "lock",
                                   !.at = currentBatch])
    /\ UNCHANGED <<batch, batchCount, held, quiet, accepted, sent, shut>>

(* A flush returns: a size-triggered one has its flag to reset, and the     *)
(* owner of a FlushTopic goes on.                                           *)
Return(f) ==
    /\ flush' = [flush EXCEPT ![f] =
                     IF @.kind = "size" THEN [@ EXCEPT !.pc = "after", !.at = 0]
                                        ELSE IdleThread]
    /\ quiet' = quiet \cup ({flush[f].owner} \cap Holders)
    /\ shut' = IF flush[f].kind = "shutdown" THEN "flushed" ELSE shut

Lookup(f) ==
    /\ flush[f].pc = "lookup"
    /\ \/ /\ currentBatch # 0
          /\ flush' = [flush EXCEPT ![f].pc = "lock", ![f].at = currentBatch]
          /\ UNCHANGED <<quiet, shut>>
       \/ /\ currentBatch = 0
          /\ Return(f)
    /\ UNCHANGED <<batch, batchCount, currentBatch, held, accepted, sent>>

\* (mutation of Fitting: an event too large for any frame is kept)
FittingAll(s) == s

\* sendEvents first drops the events too large for any frame: of those left, the
\* k-th is the one with k of them up to it.
Fitting(s) ==
    LET small == {i \in 1 .. Len(s) : Size[s[i].obj] <= Budget}
        Nth(k) == CHOOSE i \in small : Cardinality(small \cap (1 .. i)) = k
    IN [k \in 1 .. Cardinality(small) |-> s[Nth(k)]]

(* flushExtracted up to the unlock of batch.mu.                             *)
Extracted(b) == [batch[b] EXCEPT !.events = <<>>, !.timer = "nil",
                                 !.flushing = FALSE]

\* (mutation of Extract: a timer's flush ignores the hold)
ExtractHeld(f) ==
    LET b == flush[f].at IN
    /\ flush[f].pc = "lock"
    /\ SendingFrom(b) = {}
    /\ \/ /\ batch[b].events = <<>>
          /\ Return(f)
          /\ batch' = [batch EXCEPT ![b].timer = "nil"]
       \/ /\ batch[b].events # <<>>
          /\ flush' = [flush EXCEPT ![f].pc = "send",
                                    ![f].out = Fitting(batch[b].events)]
          /\ batch' = [batch EXCEPT ![b] = Extracted(b)]
          /\ UNCHANGED <<quiet, shut>>
    /\ UNCHANGED <<batchCount, currentBatch, held, accepted, sent>>

Extract(f) ==
    LET b == flush[f].at IN
    /\ flush[f].pc = "lock"
    /\ SendingFrom(b) = {}
    /\ \/ /\ batch[b].held > 0 /\ ~Forced(f)
          /\ Return(f)
          /\ UNCHANGED batch
       \/ /\ batch[b].held = 0 \/ Forced(f)
          /\ batch[b].events = <<>>
          /\ Return(f)
          /\ batch' = [batch EXCEPT ![b].timer = "nil"]
       \/ /\ batch[b].held = 0 \/ Forced(f)
          /\ batch[b].events # <<>>
          /\ flush' = [flush EXCEPT ![f].pc = "send",
                                    ![f].out = Fitting(batch[b].events)]
          /\ batch' = [batch EXCEPT ![b] = Extracted(b)]
          /\ UNCHANGED <<quiet, shut>>
    /\ UNCHANGED <<batchCount, currentBatch, held, accepted, sent>>

Bytes(s) == FoldSeq(LAMBDA e, n : Size[e.obj] + n, 0, s)

(* The events of the next frame: as many as fit MaxBatch and the budget.    *)
Fits(s, n) == n <= MaxBatch /\ Bytes(SubSeq(s, 1, n)) <= Budget
FrameLength(s) == Max({n \in 0 .. Len(s) : \A i \in 1 .. n : Fits(s, i)})

SendFrame(f) ==
    LET b == flush[f].at
        out == flush[f].out
        n == FrameLength(out)
        frame == {out[i] : i \in 1 .. n}
    IN /\ flush[f].pc = "send"
       /\ out # <<>>
       /\ flush' = [flush EXCEPT ![f].out = SubSeq(out, n + 1, Len(out))]
       /\ sent' = [sent EXCEPT ![b] = [o \in Objects |->
              LET vers == {e.ver : e \in {d \in frame : d.obj = o}}
              IN IF vers = {} THEN @[o] ELSE Max(vers)]]
       /\ UNCHANGED <<batch, batchCount, currentBatch, held, quiet, accepted, shut>>

(* The last frame is out and flushMu is released.                           *)
FlushEnds(f) ==
    /\ flush[f].pc = "send"
    /\ flush[f].out = <<>>
    /\ Return(f)
    /\ UNCHANGED <<batch, batchCount, currentBatch, held, accepted, sent>>

(* The size-triggered goroutine resets the flag of its own batch.           *)
ResetFlushing(f) ==
    /\ flush[f].pc = "after"
    /\ batch' = [batch EXCEPT ![flush[f].born].flushing = FALSE]
    /\ flush' = [flush EXCEPT ![f] = IdleThread]
    /\ UNCHANGED <<batchCount, currentBatch, held, quiet, accepted, sent, shut>>

---------------------------------------------------------------------------
HoldTopic(h) ==
    /\ held[h] = 0
    /\ LockedBatch
    /\ held' = [held EXCEPT ![h] = Opened]
    /\ batch' = [batch EXCEPT ![Opened].held = @ + 1,
                              ![Opened].timer = "nil"]
    /\ UNCHANGED <<flush, quiet, accepted, sent, shut>>

(* release, which a replay calls after a FlushTopic of its own.             *)
Release(h) ==
    /\ h \in quiet
    /\ LET b == held[h]
           bt == [batch[b] EXCEPT !.held = @ - 1]
       IN batch' = [batch EXCEPT ![b] =
              IF bt.events # <<>> THEN ScheduleFlush(bt) ELSE bt]
    /\ held' = [held EXCEPT ![h] = 0]
    /\ quiet' = quiet \ {h}
    /\ UNCHANGED <<batchCount, currentBatch, flush, accepted, sent, shut>>

---------------------------------------------------------------------------
(* Shutdown: closed, cancel, a forced flush of every batch, wg.Wait.        *)
Close ==
    /\ shut = "running"
    /\ shut' = "closed"
    /\ UNCHANGED <<batch, batchCount, currentBatch, flush, held, quiet, accepted, sent>>

Cancel ==
    /\ shut = "closed"
    /\ shut' = "cancelled"
    /\ UNCHANGED <<batch, batchCount, currentBatch, flush, held, quiet, accepted, sent>>

ShutdownFlush(f) ==
    /\ shut = "cancelled"
    /\ \A g \in Flushers : Busy(g) => flush[g].kind # "shutdown"
    /\ \/ /\ currentBatch # 0
          /\ Start(f, [IdleThread EXCEPT !.kind = "shutdown", !.pc = "lock",
                                         !.at = currentBatch])
          /\ UNCHANGED shut
       \/ /\ currentBatch = 0
          /\ shut' = "flushed"
          /\ UNCHANGED flush
    /\ UNCHANGED <<batch, batchCount, currentBatch, held, quiet, accepted, sent>>

WaitGroupDone ==
    /\ shut = "flushed"
    /\ \A f \in Flushers : Busy(f) => flush[f].kind # "size"
    /\ shut' = "done"
    /\ UNCHANGED <<batch, batchCount, currentBatch, flush, held, quiet, accepted, sent>>

BatcherNext ==
    \/ \E o \in Objects : AddEvent(o)
    \/ RefuseEvent
    \/ \E b \in BatchIds, f \in Flushers : TimerFires(b, f)
    \/ \E f \in Flushers, h \in Holders \cup {NoFlusher} : FlushTopic(f, h)
    \/ \E f \in Flushers : CleanupTopic(f)
    \/ \E f \in Flushers : Lookup(f)
    \/ \E f \in Flushers : Extract(f)
    \/ \E f \in Flushers : SendFrame(f)
    \/ \E f \in Flushers : FlushEnds(f)
    \/ \E f \in Flushers : ResetFlushing(f)
    \/ \E h \in Holders : HoldTopic(h)
    \/ \E h \in Holders : Release(h)
    \/ Close
    \/ Cancel
    \/ \E f \in Flushers : ShutdownFlush(f)
    \/ WaitGroupDone

BatcherSpec == BatcherInit /\ [][BatcherNext]_batcherVars

(***************************************************************************)
(* Timers fire, goroutines run, flushMu is not kept from a waiting thread  *)
(* for ever, and a replay flushes its topic and releases it (a defer).     *)
(* Strong, because a step may find no free slot for its thread, which no   *)
(* goroutine ever waits for.  Nothing makes events come, holds be taken or *)
(* Shutdown be called, but Shutdown once called runs to its end.           *)
(***************************************************************************)
ThreadSteps(f) ==
    Lookup(f) \/ Extract(f) \/ SendFrame(f) \/ FlushEnds(f) \/ ResetFlushing(f)

BatcherFairness ==
    /\ \A f \in Flushers : SF_batcherVars(ThreadSteps(f))
    /\ \A b \in BatchIds : SF_batcherVars(\E f \in Flushers : TimerFires(b, f))
    /\ \A h \in Holders :
           /\ SF_batcherVars(h \notin quiet /\ \E f \in Flushers : FlushTopic(f, h))
           /\ SF_batcherVars(Release(h))
    /\ WF_batcherVars(Cancel)
    /\ SF_batcherVars(\E f \in Flushers : ShutdownFlush(f))
    /\ WF_batcherVars(WaitGroupDone)

BatcherFairSpec == BatcherSpec /\ BatcherFairness

---------------------------------------------------------------------------
(***************************************************************************)
(* Events queued on a topic nobody holds are on their way out: the timer   *)
(* is waiting, or a flush that has not extracted yet will reach this batch *)
(* or Shutdown will flush it.  (scheduleFlush, HoldTopic and              *)
(* flushExtracted each stop the timer or decline to arm it.)               *)
(***************************************************************************)
NoStrandedEvents ==
    \A b \in BatchIds :
        batch[b].events # <<>> /\ batch[b].held = 0 =>
            \/ batch[b].timer = "armed" /\ ~Cancelled
            \/ \E f \in Flushers :
                   \/ flush[f].pc = "lock" /\ flush[f].at = b
                   \/ flush[f].pc = "lookup" /\ b = currentBatch
            \/ b = currentBatch /\ shut = "cancelled"

(***************************************************************************)
(* What one batch sends of an object goes out oldest first: a frame still  *)
(* to be sent is newer than what was sent and older than what is queued.   *)
(* (flushMu keeps two flushes of a batch from overtaking each other.)      *)
(***************************************************************************)
OldestFirst ==
    \A f \in Flushers : Sending(f) =>
        LET b == flush[f].at
            out == flush[f].out
        IN \A i \in 1 .. Len(out) :
               /\ sent[b][out[i].obj] < out[i].ver
               /\ \A j \in 1 .. Len(batch[b].events) :
                      batch[b].events[j].obj = out[i].obj =>
                          out[i].ver < batch[b].events[j].ver

(***************************************************************************)
(* Once a replay's FlushTopic under its hold has returned, nothing but     *)
(* another forced flush sends from its topic until it releases the hold:   *)
(* no timer that fired earlier and no flush that was already sending puts  *)
(* an event between the pages (the comment on HoldTopic).                  *)
(***************************************************************************)
QuietUnderHold ==
    \A h \in quiet : held[h] = currentBatch =>
        \A f \in SendingFrom(currentBatch) : Forced(f)

(***************************************************************************)
(* When Shutdown has returned, nothing accepted is still queued or half    *)
(* sent, except in a batch that a CleanupTopic of its own is flushing (the *)
(* comment in AddEvent: "an event accepted here is always flushed").       *)
(***************************************************************************)
CleaningUp(b) ==
    \E f \in Flushers : Busy(f) /\ flush[f].kind = "cleanup" /\ flush[f].at = b

ShutdownDrains ==
    shut = "done" =>
        \A b \in BatchIds :
            batch[b].events # <<>> \/ SendingFrom(b) # {} => CleaningUp(b)

(***************************************************************************)
(* Every event that fits a frame is broadcast, or replaced by a newer one  *)
(* that is: queued events of a topic leave it, however holds, timers,      *)
(* size-triggered flushes, CleanupTopic and Shutdown interleave.           *)
(***************************************************************************)
Waiting(b, o) ==
    \/ \E i \in 1 .. Len(batch[b].events) : batch[b].events[i].obj = o
    \/ \E f \in SendingFrom(b) :
           \E i \in 1 .. Len(flush[f].out) : flush[f].out[i].obj = o

EventsLeave ==
    \A b \in BatchIds, o \in Objects : Waiting(b, o) ~> ~Waiting(b, o)

\* All four: what is accepted is broadcast, in order and not between pages.
BatcherIsSound == NoStrandedEvents /\ OldestFirst /\ QuietUnderHold /\ ShutdownDrains
=============================================================================
