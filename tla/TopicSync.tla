----------------------------- MODULE TopicSync -----------------------------
(***************************************************************************)
(* One list topic from the cluster to the rows on screen: the cluster's    *)
(* objects, the watch loop that lists and watches them, the topic's cache, *)
(* its snapshot passes (preload, list, replay), the event batcher, a       *)
(* connection that may drop a message, and the client's subscription.      *)
(* TopicState, TopicPass, EventBatcher and ResyncCoordinator model what is *)
(* taken as one step, or as given, here.                                   *)
(*                                                                         *)
(* Rows reach the client on three paths that do not wait for each other:   *)
(* pages and syncs are sent directly, events through the batcher, and a    *)
(* replay reads a cache the watch is writing.                              *)
(***************************************************************************)
EXTENDS Integers, FiniteSets, Sequences, SequencesExt

(***************************************************************************)
(* How the client turns the events of a list topic into the rows it shows  *)
(* (frontend/src/store/realtimeReducer.ts).  A row is known by its key     *)
(* (namespace and name); of what it holds only the object's uid, its       *)
(* version and whether it is the minimal projection matter here.           *)
(*                                                                         *)
(* The code numbers every event (seq) and remembers the number of the last *)
(* one about each key (touch) and of the first row of each listing         *)
(* (epochStart).  It only ever asks whether a key was touched since a      *)
(* listing began, so a listing is kept as the keys it has delivered and    *)
(* the keys touched since its first row.                                   *)
(***************************************************************************)

CONSTANT Keys      \* the names objects of the listed type can have

NoRow == [uid |-> 0, rv |-> 0, min |-> FALSE]
Present(rows) == {k \in Keys : rows[k] # NoRow}

\* What applyRealtimeEvents keeps between calls: the list, and the listings
\* under way (epochSeen, with epochStart and touch as said above).
NewSession(rows) == [rows |-> rows, open |-> <<>>]

\* What it returns beside the list.
NoResult == [changed |-> FALSE, epochRow |-> FALSE, sync |-> FALSE,
             incomplete |-> FALSE, failed |-> FALSE]

Touched(open, ks) ==
    [e \in DOMAIN open |-> [open[e] EXCEPT !.touched = @ \cup ks]]

(* The rows of a page, or of one event: page maps keys to rows.  The first *)
(* row of an epoch opens its listing.                                      *)
Opened(open, e, ks) ==
    IF e = 0 THEN open
    ELSE [x \in DOMAIN open \cup {e} |->
             IF x \notin DOMAIN open THEN [seen |-> ks, touched |-> {}]
             ELSE IF x = e THEN [open[x] EXCEPT !.seen = @ \cup ks]
             ELSE open[x]]

(* An older version of the object shown is dropped; an equal one replaces. *)
Supersedes(row, prev) == prev = NoRow \/ row.uid # prev.uid \/ row.rv >= prev.rv

ApplyRows(s, page, e) ==
    LET ks == DOMAIN page IN
    [rows |-> [k \in Keys |-> IF k \in ks /\ Supersedes(page[k], s.rows[k])
                              THEN page[k] ELSE s.rows[k]],
     open |-> Touched(Opened(s.open, e, ks), ks)]

(* A deletion of another incarnation of the object shown is not about it.  *)
ApplyDelete(s, k, uid) ==
    IF s.rows[k] = NoRow \/ s.rows[k].uid # uid THEN s
    ELSE [rows |-> [s.rows EXCEPT ![k] = NoRow],
          open |-> Touched(s.open, {k})]

(* A sync closes the listing of its epoch.  A listing that delivered as    *)
(* many rows as the sync announces prunes every row it did not deliver and *)
(* nothing touched since it began; one that did not prunes nothing.        *)
Listing(s, e) ==
    IF e \in DOMAIN s.open THEN s.open[e] ELSE [seen |-> {}, touched |-> {}]
Complete(s, e, count) == Cardinality(Listing(s, e).seen) >= count

\* (mutation of Covered: rows touched since the listing began are pruned)
CoveredBySeen(s, e) == Listing(s, e).seen

Covered(s, e) == Listing(s, e).seen \cup Listing(s, e).touched

ApplySync(s, e, count) ==
    [rows |-> IF Complete(s, e, count)
              THEN [k \in Keys |-> IF k \in Covered(s, e) THEN s.rows[k]
                                                          ELSE NoRow]
              ELSE s.rows,
     open |-> [x \in {y \in DOMAIN s.open : y > e} |-> s.open[x]]]

(* One event of a batch, with what the batch has said so far.              *)
ApplyEvent(acc, ev) ==
    LET s == acc.s  r == acc.r IN
    CASE ev.t = "rows" ->
            [s |-> ApplyRows(s, ev.page, ev.epoch),
             r |-> [r EXCEPT !.changed = @ \/ \E k \in DOMAIN ev.page :
                                 Supersedes(ev.page[k], s.rows[k]),
                             !.epochRow = @ \/ ev.epoch # 0]]
      [] ev.t = "del" ->
            LET d == ApplyDelete(s, ev.key, ev.uid) IN
            [s |-> d, r |-> [r EXCEPT !.changed = @ \/ d.rows # s.rows]]
      [] ev.t = "sync" /\ ev.epoch = 0 ->
            [s |-> s, r |-> [r EXCEPT !.failed = TRUE]]
      [] ev.t = "sync" /\ ev.epoch > 0 ->
            LET d == ApplySync(s, ev.epoch, ev.count) IN
            [s |-> d,
             r |-> [r EXCEPT !.sync = TRUE, !.failed = FALSE,
                             !.incomplete = ~Complete(s, ev.epoch, ev.count),
                             !.changed = @ \/ d.rows # s.rows]]

ApplyRealtimeEvents(s, events) ==
    FoldLeft(ApplyEvent, [s |-> s, r |-> NoResult], events)

(* pendingListing: the newest listing under way, 0 when there is none.     *)
PendingListing(s) ==
    IF DOMAIN s.open = {} THEN 0
    ELSE CHOOSE e \in DOMAIN s.open : \A x \in DOMAIN s.open : x <= e

-----------------------------------------------------------------------------

CONSTANTS
    Pinned,         \* names whose objects are never deleted
    FirstPageSize,  \* firstPageSize
    MaxIncomplete,  \* MAX_INCOMPLETE_RESUBSCRIBES
    MaxChanges,     \* bound on the changes of the cluster
    MaxLag,         \* bound on what is in flight when more is sent
    MaxLosses,      \* bound on the messages dropped
    MaxFails        \* bound on the failed lists, failed and expired watches

ASSUME SyncAssumption ==
    /\ Pinned \subseteq Keys
    /\ {FirstPageSize, MaxIncomplete, MaxChanges, MaxLag, MaxLosses,
        MaxFails}
           \subseteq Nat

VARIABLES
    hist,    \* the cluster's objects after each of its changes
    cache,   \* the topic's rows in the resource cache
    loop,    \* the watch loop
    health,  \* the topic's health: is it failing, are its rows unconfirmed
    emit,    \* the event written to the cache and not yet to the batcher
    batch,   \* the batcher's queue for the topic
    replay,  \* the replay that has the topic's pass, if one does
    epoch,   \* the last epoch handed out
    chan,    \* messages sent and not applied: on their way, or in pendingEvents
    owed,    \* a drop was noted that no resync has answered yet
    asked,   \* a subscribe of the client is unanswered
    losses,  \* messages dropped so far
    fails,   \* failures so far
    healed,  \* history: a listing began after the last drop
    ses,     \* the client's rows and listings
    rt       \* the rest of the client's runtime, with the topic's health in it

wire == <<chan, owed, asked, losses, healed>>
clientVars == <<ses, rt>>
syncVars == <<hist, cache, loop, health, emit, batch, replay, epoch, fails, wire,
          clientVars>>

Row(uid, rv) == [uid |-> uid, rv |-> rv, min |-> FALSE]
Minimal(rows) == [k \in DOMAIN rows |-> [rows[k] EXCEPT !.min = TRUE]]
Only(rows, ks) == [k \in ks |-> rows[k]]
NoRows == [k \in Keys |-> NoRow]
Old == [k \in Keys |-> Row(1, 1)]
Now == Len(hist)
Cluster == hist[Now]

\* Messages.  A frame of the batcher carries a sequence of events.
Rows(page, e) == [t |-> "rows", page |-> page, epoch |-> e]
Del(k, uid) == [t |-> "del", key |-> k, uid |-> uid]
Sync(e, n) == [t |-> "sync", epoch |-> e, count |-> n]
FailedSync == Sync(0, 0)
Status(ok) == [t |-> "status", ok |-> ok]
Frames(evs) == IF evs = <<>> THEN <<>> ELSE <<[t |-> "frame", events |-> evs]>>
Pages(rows, e) == IF DOMAIN rows = {} THEN <<>> ELSE <<Rows(rows, e)>>

NoReplay == [on |-> FALSE, epoch |-> 0, count |-> 0, failing |-> FALSE]

\* The rows on screen when the client subscribes are none, or an earlier
\* visit's; the disk snapshot holds none, or an earlier session's.
SyncInit ==
    /\ hist = <<Old>>
    /\ cache = NoRows
    /\ \E disk \in {NoRows, Old} :
          loop = [pc |-> "preload", at |-> 0, first |-> disk,
                  listed |-> FALSE, err |-> FALSE, retry |-> FALSE]
    /\ health = [failing |-> FALSE, unconfirmed |-> FALSE]
    /\ emit = <<>>
    /\ batch = <<>>
    /\ replay = NoReplay
    /\ epoch = 0
    /\ chan = <<>>
    /\ owed = FALSE
    /\ asked = FALSE
    /\ losses = 0
    /\ fails = 0
    /\ healed = TRUE
    /\ ses \in {NewSession(NoRows), NewSession(Old)}
    /\ rt = [synced |-> FALSE, live |-> FALSE, failing |-> "no",
             incomplete |-> 0, timer |-> FALSE]

---------------------------------------------------------------------------
(* The cluster creates, changes or deletes an object.                      *)
ClusterChange(k) ==
    /\ Now <= MaxChanges
    /\ \E row \in {NoRow, Row(Now + 1, Now + 1), Row(Cluster[k].uid, Now + 1)} :
          /\ IF Cluster[k] = NoRow THEN row.uid = Now + 1
                                   ELSE row.uid \in {0, Cluster[k].uid}
          /\ row = NoRow => k \notin Pinned
          /\ hist' = Append(hist, [Cluster EXCEPT ![k] = row])
    /\ UNCHANGED <<cache, loop, health, emit, batch, replay, epoch, fails,
                   wire, clientVars>>

(* Messages leave in order.  The connection may refuse one (its queue is   *)
(* full): it is gone, and the topic is noted for a resync.                 *)
Deliver(msgs, whole) ==
    /\ msgs = <<>> \/ Len(chan) < MaxLag
    /\ \/ /\ chan' = chan \o msgs
          /\ healed' = (healed \/ whole)
          /\ UNCHANGED losses
       \/ /\ losses < MaxLosses
          /\ \E i \in 1 .. Len(msgs) : chan' = chan \o RemoveAt(msgs, i)
          /\ healed' = FALSE
          /\ losses' = losses + 1

Send(msgs, whole) ==
    /\ Deliver(msgs, whole)
    /\ owed' = (owed \/ losses' # losses)
    /\ UNCHANGED <<asked, clientVars>>

---------------------------------------------------------------------------
(* The watch loop: the disk snapshot, then lists and watches.              *)

\* preloadSnapshot sends and caches the persisted rows, under an epoch of
\* their own that no sync closes.
PreloadSnapshot ==
    /\ loop.pc = "preload"
    /\ loop' = [loop EXCEPT !.pc = "list", !.first = NoRows]
    /\ \/ loop.first = NoRows /\ UNCHANGED <<cache, health, epoch, wire>>
       \/ /\ loop.first # NoRows
          /\ cache' = loop.first
          /\ health' = [health EXCEPT !.unconfirmed = TRUE]
          /\ epoch' = epoch + 1
          /\ Send(Pages(loop.first, epoch + 1), FALSE)
    /\ UNCHANGED <<hist, emit, batch, replay, fails, clientVars>>

Overlay(rows, page) ==
    [k \in Keys |-> IF k \in DOMAIN page THEN page[k] ELSE rows[k]]

\* The list takes the topic's pass, flushes the batcher and sends a first
\* page, as minimal rows and then as full ones.
FirstPages(rows) ==
    {ks \in SUBSET Present(rows) :
        Cardinality(ks) = IF Cardinality(Present(rows)) < FirstPageSize
                          THEN Cardinality(Present(rows)) ELSE FirstPageSize}

ListFirst ==
    /\ loop.pc = "list"
    /\ ~replay.on
    /\ epoch' = epoch + 1
    /\ \E ks \in FirstPages(Cluster) :
          LET page == Only(Cluster, ks) IN
          /\ loop' = [loop EXCEPT !.pc = "full", !.first = Overlay(NoRows, page)]
          /\ cache' = Overlay(cache, page)
          /\ Send(Frames(batch) \o Pages(Minimal(page), epoch + 1)
                      \o Pages(page, epoch + 1), TRUE)
    /\ batch' = <<>>
    /\ UNCHANGED <<hist, health, emit, replay, fails>>

\* The full list is read from the apiserver's watch cache (RV=0), which may
\* lag behind the first page; rows the first page sent as they are here are
\* not sent again.
ListFull ==
    /\ loop.pc = "full"
    /\ \E point \in 1 .. Now :
          LET rows == hist[point]
              page == Only(rows, {k \in Present(rows) : loop.first[k] # rows[k]})
          IN /\ loop' = [loop EXCEPT !.pc = "close", !.at = point]
             /\ cache' = Overlay(cache, page)
             /\ Send(Pages(page, epoch), FALSE)
    /\ UNCHANGED <<hist, health, emit, batch, replay, epoch, fails>>

\* Cached rows the list does not have are deleted, through the batcher, and
\* the sync is sent behind what the batcher holds.
Stale == Present(cache) \ Present(hist[loop.at])
StaleDels == [i \in 1 .. Cardinality(Stale) |->
                 LET k == SetToSeq(Stale)[i] IN Del(k, cache[k].uid)]

ListClose ==
    /\ loop.pc = "close"
    /\ cache' = Overlay(cache, [k \in Stale |-> NoRow])
    /\ loop' = [loop EXCEPT !.pc = "watch", !.first = NoRows, !.listed = TRUE,
                            !.err = FALSE, !.retry = FALSE]
    /\ health' = [failing |-> FALSE, unconfirmed |-> FALSE]
    /\ Send(Frames(batch \o StaleDels)
                \o <<Sync(epoch, Cardinality(Present(hist[loop.at])))>>
                \o (IF health.failing THEN <<Status(TRUE)>> ELSE <<>>), FALSE)
    /\ batch' = <<>>
    /\ UNCHANGED <<hist, emit, replay, epoch, fails>>

\* A list that fails gives the pass back with its sync unsent ...
ListFail ==
    /\ loop.pc \in {"list", "full"}
    /\ fails < MaxFails
    /\ fails' = fails + 1
    /\ loop' = [loop EXCEPT !.pc = "failed", !.first = NoRows, !.listed = TRUE,
                            !.err = TRUE]
    /\ UNCHANGED <<hist, cache, health, emit, batch, replay, epoch, wire,
                   clientVars>>

\* ... and takes it again to say so: a failed sync on the first failure of a
\* run of them, "failing" at first and from time to time after that.
NoteFailing(more) ==
    \E st \in {<<Status(FALSE)>>} \cup (IF health.failing THEN {<<>>} ELSE {}) :
        Send(more \o st, FALSE)

ReportFailure ==
    /\ loop.pc = "failed"
    /\ ~replay.on
    /\ NoteFailing(IF loop.retry THEN <<>> ELSE Frames(batch) \o <<FailedSync>>)
    /\ batch' = IF loop.retry THEN batch ELSE <<>>
    /\ health' = [health EXCEPT !.failing = TRUE]
    /\ loop' = [loop EXCEPT !.pc = "list", !.retry = TRUE]
    /\ UNCHANGED <<hist, cache, emit, replay, epoch, fails>>

\* A watch that breaks is opened again where it was, or listed again.
WatchFail ==
    /\ loop.pc = "watch"
    /\ emit = <<>>
    /\ fails < MaxFails
    /\ fails' = fails + 1
    /\ NoteFailing(<<>>)
    /\ health' = [health EXCEPT !.failing = TRUE]
    /\ loop' = [loop EXCEPT !.pc = "broken", !.retry = TRUE]
    /\ UNCHANGED <<hist, cache, emit, batch, replay, epoch>>

WatchRecovers ==
    /\ loop.pc = "broken"
    /\ health' = [health EXCEPT !.failing = FALSE]
    /\ Send(IF health.failing THEN <<Status(TRUE)>> ELSE <<>>, FALSE)
    /\ loop' = [loop EXCEPT !.pc = "watch", !.retry = FALSE]
    /\ UNCHANGED <<hist, cache, emit, batch, replay, epoch, fails>>

WatchExpires ==
    /\ \/ loop.pc = "broken" /\ UNCHANGED fails
       \/ /\ loop.pc = "watch" /\ emit = <<>>
          /\ fails < MaxFails /\ fails' = fails + 1
    /\ loop' = [loop EXCEPT !.pc = "list"]
    /\ UNCHANGED <<hist, cache, health, emit, batch, replay, epoch, wire,
                   clientVars>>

\* emitResourceEvent writes the cache and then gives the event to the
\* batcher, where it replaces one queued for the same object.
WatchEvent ==
    /\ loop.pc = "watch"
    /\ emit = <<>>
    /\ loop.at < Now
    /\ LET old == hist[loop.at]
           new == hist[loop.at + 1]
       IN \E k \in Keys :
             /\ old[k] # new[k]
             /\ cache' = [cache EXCEPT ![k] = new[k]]
             /\ emit' = IF new[k] = NoRow THEN <<Del(k, old[k].uid)>>
                        ELSE <<Rows(Only(new, {k}), 0)>>
    /\ loop' = [loop EXCEPT !.at = @ + 1]
    /\ UNCHANGED <<hist, health, batch, replay, epoch, fails, wire, clientVars>>

Uid(ev) == IF ev.t = "del" THEN ev.uid
           ELSE ev.page[CHOOSE k \in DOMAIN ev.page : TRUE].uid
Key(ev) == IF ev.t = "del" THEN ev.key ELSE CHOOSE k \in DOMAIN ev.page : TRUE
SameObject(e, f) == Uid(e) = Uid(f) /\ Key(e) = Key(f)

Broadcast ==
    /\ emit # <<>>
    /\ batch' = IF \E i \in DOMAIN batch : SameObject(batch[i], emit[1])
                THEN [i \in DOMAIN batch |->
                         IF SameObject(batch[i], emit[1]) THEN emit[1]
                                                          ELSE batch[i]]
                ELSE Append(batch, emit[1])
    /\ emit' = <<>>
    /\ UNCHANGED <<hist, cache, loop, health, replay, epoch, fails, wire,
                   clientVars>>

\* A replay holds the topic's events back.
FlushTimer ==
    /\ batch # <<>>
    /\ ~replay.on
    /\ Send(Frames(batch), FALSE)
    /\ batch' = <<>>
    /\ UNCHANGED <<hist, cache, loop, health, emit, replay, epoch, fails>>

---------------------------------------------------------------------------
(* A replay of the cache answers a subscribe, or a resync that is owed,    *)
(* when no list is under way.  It prunes by an epoch of its own only while *)
(* the cache is known to be current.                                       *)
Authoritative == ~loop.err /\ ~health.failing /\ ~health.unconfirmed

ReplayStart ==
    /\ owed \/ asked
    /\ ~replay.on
    /\ loop.listed /\ loop.pc \notin {"full", "close"}
    /\ LET e == IF Authoritative THEN epoch + 1 ELSE 0
           rows == Only(cache, Present(cache))
       IN /\ replay' = [on |-> TRUE, epoch |-> e, failing |-> health.failing,
                        count |-> Cardinality(Present(cache))]
          /\ epoch' = IF Authoritative THEN e ELSE epoch
          /\ Deliver(Frames(batch) \o Pages(rows, e), Authoritative)
    /\ owed' = (losses' # losses)
    /\ asked' = FALSE
    /\ batch' = <<>>
    /\ UNCHANGED <<hist, cache, loop, health, emit, fails, clientVars>>

\* Its sync follows the events held back, and reports the health it copied
\* when it began.
ReplayClose ==
    /\ replay.on
    /\ Send(Frames(batch)
                \o (IF replay.epoch = 0 THEN <<FailedSync>>
                    ELSE <<Sync(replay.epoch, replay.count)>>)
                \o (IF replay.failing THEN <<Status(FALSE)>> ELSE <<>>), FALSE)
    /\ replay' = NoReplay
    /\ batch' = <<>>
    /\ UNCHANGED <<hist, cache, loop, health, emit, epoch, fails>>

---------------------------------------------------------------------------
(* The client's runtime.                                                   *)

\* onTopicStatus
OnTopicStatus(ok) ==
    rt' = IF ok THEN [rt EXCEPT !.failing = "no", !.live = rt.synced]
          ELSE [rt EXCEPT !.failing = "reported", !.live = FALSE]

\* onEvent handles a status as it arrives, and leaves rows and syncs in
\* pendingEvents for the next flush: whatever came ahead of the status on
\* the wire may still be waiting there.
IsStatus(m) == m.t = "status"
FirstStatus == CHOOSE i \in DOMAIN chan :
    IsStatus(chan[i]) /\ \A j \in 1 .. i - 1 : ~IsStatus(chan[j])

OnStatus ==
    /\ \E i \in DOMAIN chan : IsStatus(chan[i])
    /\ OnTopicStatus(chan[FirstStatus].ok)
    /\ chan' = RemoveAt(chan, FirstStatus)
    /\ UNCHANGED <<hist, cache, loop, health, emit, batch, replay, epoch,
                   fails, owed, asked, losses, healed, ses>>

\* markFailing, markIncomplete and markLive, as outcomeOf calls them.
Incomplete(r) ==
    IF r.incomplete >= MaxIncomplete
    THEN [r EXCEPT !.synced = FALSE, !.live = IF r.failing = "incomplete"
                                              THEN @ ELSE FALSE,
                   !.failing = "incomplete"]
    ELSE [r EXCEPT !.synced = FALSE, !.live = FALSE, !.timer = TRUE,
                   !.incomplete = @ + 1]

OutcomeOf(r, res) ==
    CASE res.failed -> [r EXCEPT !.failing = "reported", !.live = FALSE]
      [] ~res.failed /\ res.incomplete -> Incomplete(r)
      [] ~res.failed /\ ~res.incomplete /\ res.sync ->
            [synced |-> TRUE, live |-> TRUE, failing |-> "no",
             incomplete |-> 0, timer |-> FALSE]
      [] OTHER ->
            IF res.changed /\ res.epochRow
            THEN [r EXCEPT !.synced = TRUE, !.live = TRUE] ELSE r

\* A flush takes what onEvent has queued: the messages that have arrived,
\* none of them a status not handled yet.
Events(m) == IF m.t = "frame" THEN m.events ELSE <<m>>

ProcessBatch ==
    /\ \E n \in DOMAIN chan :
          LET res == ApplyRealtimeEvents(
                         ses, FlattenSeq([i \in 1 .. n |-> Events(chan[i])]))
          IN /\ \A i \in 1 .. n : ~IsStatus(chan[i])
             /\ chan' = SubSeq(chan, n + 1, Len(chan))
             /\ ses' = res.s
             /\ rt' = OutcomeOf(rt, res.r)
    /\ UNCHANGED <<hist, cache, loop, health, emit, batch, replay, epoch,
                   fails, owed, asked, losses, healed>>

\* The timer of scheduleResubscribe.
Resubscribe ==
    /\ rt.timer
    /\ rt' = [rt EXCEPT !.timer = FALSE]
    /\ asked' = TRUE
    /\ UNCHANGED <<hist, cache, loop, health, emit, batch, replay, epoch,
                   fails, chan, owed, losses, healed, ses>>

---------------------------------------------------------------------------
ServerStep ==
    \/ PreloadSnapshot \/ ListFirst \/ ListFull \/ ListClose \/ ReportFailure
    \/ WatchEvent \/ Broadcast \/ FlushTimer \/ ReplayStart \/ ReplayClose
ClientStep == OnStatus \/ ProcessBatch \/ Resubscribe
Reopen == WatchRecovers \/ WatchExpires

(* Nothing is left to send, to answer or to apply.  A state that is not    *)
(* Quiet and has no step left is a deadlock.                               *)
Quiet ==
    /\ loop.pc = "watch" /\ loop.at = Now
    /\ emit = <<>> /\ batch = <<>> /\ chan = <<>>
    /\ ~replay.on /\ ~owed /\ ~asked /\ ~rt.timer
Rest == Quiet /\ UNCHANGED syncVars

SyncNext ==
    \/ ServerStep \/ ClientStep \/ ListFail \/ WatchFail \/ Reopen \/ Rest
    \/ \E k \in Keys : ClusterChange(k)

SyncSpec == SyncInit /\ [][SyncNext]_syncVars

---------------------------------------------------------------------------
(* Once everything in flight has arrived, and a whole listing began after  *)
(* the last dropped message, the client shows exactly the cluster's        *)
(* objects, each at its newest version and in full, and no listing is left *)
(* open: whatever order lists read from a lagging watch cache, replays and *)
(* coalesced live events came in (applyRealtimeEvents, replayLocked,       *)
(* fetchAndBroadcastListSync).                                             *)
RowsMatch ==
    Quiet /\ healed => ses.rows = Cluster /\ PendingListing(ses) = 0

(* Once everything in flight has arrived, a list whose watch runs is not   *)
(* shown as failing (noteTopicRecovered: a watch that delivers again has   *)
(* missed nothing, and says "ok").                                         *)
(* No run claims it: the code does not keep it (README, Disagreements).     *)
RecoveryIsShown == Quiet => rt.failing # "reported"

(* What the client shows as live was sent by a list of the cluster, or by  *)
(* a replay of a cache one had confirmed ("Rows from a cache or an earlier *)
(* visit are not: they wait for a sync before they count as live",         *)
(* realtimeSlice.ts outcomeOf).                                            *)
(* No run claims it: the code does not keep it (README, Disagreements).     *)
LiveRowsAreListed == rt.live => loop.listed \/ loop.pc \in {"full", "close"}

(* A row never goes back to an older version of the object it shows,       *)
(* although lists are read from a cache that lags (the version check of    *)
(* applyRealtimeEvents).                                                   *)
NeverOlder ==
    \A k \in Keys :
       LET a == ses.rows[k]  b == ses'.rows[k] IN
       a # NoRow /\ b # NoRow /\ a.uid = b.uid => b.rv >= a.rv

(* Both: the rows a client shows only grow newer, and end as the cluster's. *)
RowsAreCurrent == [][RowsMatch' /\ NeverOlder]_syncVars
=============================================================================
