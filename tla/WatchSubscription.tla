------------------------- MODULE WatchSubscription ------------------------
(***************************************************************************)
(* Who holds a watch: the (connection, topic) pairs of the websocket       *)
(* server and the watch references they own (websocket/setup.go,           *)
(* setup_watch.go, core/hub.go, transport/subscription_manager.go), for    *)
(* one topic.                                                              *)
(*                                                                         *)
(* A connection's messages are handled by one worker, in order.  Its pair  *)
(* is also removed behind the worker's back: by the disconnect, which      *)
(* waits for the worker but not for ever, and by any Broadcast that finds  *)
(* the connection closed.  A removal takes the pair away under the         *)
(* subscription manager's lock and runs its callback, and the StopWatch in *)
(* it, afterwards.                                                         *)
(***************************************************************************)
EXTENDS Integers, Sequences

CONSTANTS
    Conns,
    MaxMessages,   \* bound on the messages of a connection
    Closes,        \* connections are closed under a running worker
    Overlaps       \* a subscribe may overlap the removal of an earlier pair

ASSUME MaxMessagesAssumption == MaxMessages \in Nat
ASSUME FlagsAssumption == Closes \in BOOLEAN /\ Overlaps \in BOOLEAN

\* Who can be in the middle of a removal.
Removers == {"worker", "disconnect", "broadcast"}

VARIABLES
    sub,       \* connections subscribed to the topic
    records,   \* connection -> the watchRef objects made for it
    entry,     \* connection -> its record in watchRefs.refs, 0 when none
    worker,    \* connection -> its handler: where it is, and its ref
    removal,   \* connection -> remover -> what is left of its removal
    owned,     \* connection -> StartWatch calls minus StopWatch calls
    life,      \* connection -> how far its disconnect is
    closed,    \* connections whose Send fails for good
    messages   \* connection -> messages handled

subscriptionVars == <<sub, records, entry, worker, removal, owned, life, closed, messages>>

RefIds == 0 .. MaxMessages
WatchRef == [started : BOOLEAN, removed : BOOLEAN]
FreshRef == [started |-> FALSE, removed |-> FALSE]

Worker == [pc : {"idle", "reserved", "added", "subscribed", "starting",
                 "started", "failed", "stop", "unsubscribe", "removing"},
           ref : RefIds]
IdleWorker == [pc |-> "idle", ref |-> 0]

SubscriptionTypeOK ==
    /\ sub \subseteq Conns
    /\ records \in [Conns -> Seq(WatchRef)]
    /\ entry \in [Conns -> RefIds]
    /\ worker \in [Conns -> Worker]
    /\ removal \in [Conns -> [Removers -> {"none", "callback", "stop"}]]
    /\ owned \in [Conns -> Nat]
    /\ life \in [Conns -> {"reading", "draining", "gone"}]
    /\ closed \subseteq Conns
    /\ messages \in [Conns -> Nat]

SubscriptionInit ==
    /\ sub = {}
    /\ records = [c \in Conns |-> <<>>]
    /\ entry = [c \in Conns |-> 0]
    /\ worker = [c \in Conns |-> IdleWorker]
    /\ removal = [c \in Conns |-> [r \in Removers |-> "none"]]
    /\ owned = [c \in Conns |-> 0]
    /\ life = [c \in Conns |-> "reading"]
    /\ closed = {}
    /\ messages = [c \in Conns |-> 0]

At(c, pc) == worker[c].pc = pc
Go(c, pc) == worker' = [worker EXCEPT ![c].pc = pc]
Returns(c) == worker' = [worker EXCEPT ![c] = IdleWorker]

\* A new watchRef of the connection, put in the table.
Reserve(c) ==
    /\ records' = [records EXCEPT ![c] = Append(@, FreshRef)]
    /\ entry' = [entry EXCEPT ![c] = Len(records[c]) + 1]

\* The worker takes the next message, unless the disconnect has stopped it.
TakeMessage(c) ==
    /\ At(c, "idle")
    /\ life[c] = "reading"
    /\ c \in closed => Overlaps
    /\ messages[c] < MaxMessages
    /\ messages' = [messages EXCEPT ![c] = @ + 1]

---------------------------------------------------------------------------
(* subscribeItems, by the connection's worker.                              *)
ReserveFirst(c) ==
    /\ TakeMessage(c)
    /\ \/ /\ entry[c] = 0
          /\ Reserve(c)
          /\ worker' = [worker EXCEPT ![c] =
                            [pc |-> "reserved", ref |-> Len(records[c]) + 1]]
       \/ /\ entry[c] # 0
          /\ Closes => Overlaps
          /\ worker' = [worker EXCEPT ![c] = [pc |-> "reserved", ref |-> 0]]
          /\ UNCHANGED <<records, entry>>
    /\ UNCHANGED <<sub, removal, owned, life, closed>>

(* hub.Subscribe.  A pair that was there gives its reservation back and     *)
(* asks for a resync (module ResyncCoordinator).                            *)
Subscribe(c) ==
    /\ At(c, "reserved")
    /\ \/ /\ c \notin sub
          /\ sub' = sub \cup {c}
          /\ Go(c, "added")
          /\ UNCHANGED entry
       \/ /\ c \in sub
          /\ entry' = [entry EXCEPT ![c] = IF @ = worker[c].ref THEN 0 ELSE @]
          /\ Returns(c)
          /\ UNCHANGED sub
    /\ UNCHANGED <<records, removal, owned, life, closed, messages>>

(* A record that outlived its pair is replaced.                             *)
ReplaceRecord(c) ==
    /\ At(c, "added")
    /\ \/ /\ worker[c].ref # 0
          /\ Go(c, "subscribed")
          /\ UNCHANGED <<records, entry>>
       \/ /\ worker[c].ref = 0
          /\ Reserve(c)
          /\ worker' = [worker EXCEPT ![c] =
                            [pc |-> "subscribed", ref |-> Len(records[c]) + 1]]
    /\ UNCHANGED <<sub, removal, owned, life, closed, messages>>

CheckRemoved(c) ==
    /\ At(c, "subscribed")
    /\ IF records[c][worker[c].ref].removed THEN Returns(c) ELSE Go(c, "starting")
    /\ UNCHANGED <<sub, records, entry, removal, owned, life, closed, messages>>

(* StartWatch takes a reference, or fails without one.                      *)
StartWatch(c) ==
    /\ At(c, "starting")
    /\ \/ /\ owned' = [owned EXCEPT ![c] = @ + 1]
          /\ Go(c, "started")
       \/ /\ Go(c, "failed")
          /\ UNCHANGED owned
    /\ UNCHANGED <<sub, records, entry, removal, life, closed, messages>>

\* (mutation of FinishStart: a removal that came first is not looked at)
FinishStartBlind(c) ==
    /\ worker[c].pc \in {"started", "failed"}
    /\ \/ /\ At(c, "failed")
          /\ entry' = [entry EXCEPT ![c] = IF @ = worker[c].ref THEN 0 ELSE @]
          /\ Go(c, "unsubscribe")
          /\ UNCHANGED records
       \/ /\ At(c, "started")
          /\ records' = [records EXCEPT ![c][worker[c].ref].started = TRUE]
          /\ Returns(c)
          /\ UNCHANGED entry
    /\ UNCHANGED <<sub, removal, owned, life, closed, messages>>

FinishStart(c) ==
    LET ref == worker[c].ref IN
    /\ worker[c].pc \in {"started", "failed"}
    /\ \/ /\ records[c][ref].removed
          /\ Go(c, IF At(c, "started") THEN "stop" ELSE "unsubscribe")
          /\ UNCHANGED <<records, entry>>
       \/ /\ ~records[c][ref].removed
          /\ At(c, "failed")
          /\ entry' = [entry EXCEPT ![c] = IF @ = ref THEN 0 ELSE @]
          /\ Go(c, "unsubscribe")
          /\ UNCHANGED records
       \/ /\ ~records[c][ref].removed
          /\ At(c, "started")
          /\ records' = [records EXCEPT ![c][ref].started = TRUE]
          /\ Returns(c)
          /\ UNCHANGED entry
    /\ UNCHANGED <<sub, removal, owned, life, closed, messages>>

StopNow(c) ==
    /\ At(c, "stop")
    /\ owned' = [owned EXCEPT ![c] = @ - 1]
    /\ Returns(c)
    /\ UNCHANGED <<sub, records, entry, removal, life, closed, messages>>

---------------------------------------------------------------------------
(* A removal: the pair goes, and then the callback for it runs.             *)
RemovePair(c, r) ==
    /\ sub' = sub \ {c}
    /\ removal' = IF c \in sub THEN [removal EXCEPT ![c][r] = "callback"]
                               ELSE removal

(* The unsubscribe message, and the handler's own after a failed StartWatch.*)
Unsubscribe(c) ==
    /\ \/ TakeMessage(c)
       \/ At(c, "unsubscribe") /\ UNCHANGED messages
    /\ RemovePair(c, "worker")
    /\ IF c \in sub THEN Go(c, "removing") ELSE Returns(c)
    /\ UNCHANGED <<records, entry, owned, life, closed>>

WorkerGoesOn(c) ==
    /\ At(c, "removing")
    /\ removal[c]["worker"] = "none"
    /\ Returns(c)
    /\ UNCHANGED <<sub, records, entry, removal, owned, life, closed, messages>>

(* Broadcast finds the connection closed.                                   *)
BroadcastUnsubscribes(c) ==
    /\ c \in closed
    /\ c \in sub
    /\ removal[c]["broadcast"] = "none"
    /\ RemovePair(c, "broadcast")
    /\ UNCHANGED <<records, entry, worker, owned, life, closed, messages>>

(* watchRefs.onRemoved, whoever runs it.                                    *)
OnRemoved(c, r) ==
    LET ref == entry[c] IN
    /\ removal[c][r] = "callback"
    /\ entry' = [entry EXCEPT ![c] = 0]
    /\ \/ /\ ref = 0
          /\ removal' = [removal EXCEPT ![c][r] = "none"]
          /\ UNCHANGED records
       \/ /\ ref # 0
          /\ records[c][ref].started
          /\ removal' = [removal EXCEPT ![c][r] = "stop"]
          /\ UNCHANGED records
       \/ /\ ref # 0
          /\ ~records[c][ref].started
          /\ records' = [records EXCEPT ![c][ref].removed = TRUE]
          /\ removal' = [removal EXCEPT ![c][r] = "none"]
    /\ UNCHANGED <<sub, worker, owned, life, closed, messages>>

StopRemoved(c, r) ==
    /\ removal[c][r] = "stop"
    /\ owned' = [owned EXCEPT ![c] = @ - 1]
    /\ removal' = [removal EXCEPT ![c][r] = "none"]
    /\ UNCHANGED <<sub, records, entry, worker, life, closed, messages>>

---------------------------------------------------------------------------
(* The read loop ends, and with it the worker takes no more messages.       *)
Disconnect(c) ==
    /\ life[c] = "reading"
    /\ life' = [life EXCEPT ![c] = "draining"]
    /\ UNCHANGED <<sub, records, entry, worker, removal, owned, closed, messages>>

(* UnregisterConnection, once the worker is done or has been inside         *)
(* StartWatch, the one call that waits on a cluster, for the drain timeout. *)
Unregister(c) ==
    /\ life[c] = "draining"
    /\ worker[c].pc \in {"idle", "starting"}
    /\ life' = [life EXCEPT ![c] = "gone"]
    /\ RemovePair(c, "disconnect")
    /\ UNCHANGED <<records, entry, worker, owned, closed, messages>>

(* conn.Close: by the disconnect when its removals are over, by a handler   *)
(* that panicked or by the hub's shutdown while the connection is in use.   *)
CloseConn(c) ==
    /\ c \notin closed
    /\ \/ life[c] = "gone" /\ removal[c]["disconnect"] = "none"
       \/ life[c] # "gone" /\ Closes
    /\ closed' = closed \cup {c}
    /\ UNCHANGED <<sub, records, entry, worker, removal, owned, life, messages>>

SubscriptionNext ==
    \/ \E c \in Conns : ReserveFirst(c)
    \/ \E c \in Conns : Subscribe(c)
    \/ \E c \in Conns : ReplaceRecord(c)
    \/ \E c \in Conns : CheckRemoved(c)
    \/ \E c \in Conns : StartWatch(c)
    \/ \E c \in Conns : FinishStart(c)
    \/ \E c \in Conns : StopNow(c)
    \/ \E c \in Conns : Unsubscribe(c)
    \/ \E c \in Conns : WorkerGoesOn(c)
    \/ \E c \in Conns : BroadcastUnsubscribes(c)
    \/ \E c \in Conns, r \in Removers : OnRemoved(c, r)
    \/ \E c \in Conns, r \in Removers : StopRemoved(c, r)
    \/ \E c \in Conns : Disconnect(c)
    \/ \E c \in Conns : Unregister(c)
    \/ \E c \in Conns : CloseConn(c)

SubscriptionSpec == SubscriptionInit /\ [][SubscriptionNext]_subscriptionVars

(***************************************************************************)
(* A handler, a callback and a disconnect, once under way, go on; nothing  *)
(* makes a client send or leave, or a Broadcast come.                      *)
(***************************************************************************)
WorkerStep(c) ==
    \/ Subscribe(c) \/ ReplaceRecord(c) \/ CheckRemoved(c) \/ StartWatch(c)
    \/ FinishStart(c) \/ StopNow(c) \/ WorkerGoesOn(c)
    \/ At(c, "unsubscribe") /\ Unsubscribe(c)

SubscriptionFairness ==
    \A c \in Conns :
        /\ WF_subscriptionVars(WorkerStep(c))
        /\ WF_subscriptionVars(Unregister(c))
        /\ \A r \in Removers :
               WF_subscriptionVars(OnRemoved(c, r) \/ StopRemoved(c, r))

SubscriptionFairSpec == SubscriptionSpec /\ SubscriptionFairness

---------------------------------------------------------------------------
\* Nothing is under way for the connection.
Settled(c) ==
    /\ At(c, "idle")
    /\ \A r \in Removers : removal[c][r] = "none"

(***************************************************************************)
(* Whenever nothing is under way for a connection, it owns one watch       *)
(* reference if it is subscribed and none if it is not, however its        *)
(* removals interleaved with its subscribe (the comment on watchRefs).     *)
(***************************************************************************)
RefsMirrorPairs ==
    \A c \in Conns : Settled(c) => owned[c] = IF c \in sub THEN 1 ELSE 0

(***************************************************************************)
(* The half of it that costs something: a connection that is no longer     *)
(* subscribed keeps no watch alive (setup_watch.go: a pair owns its ref    *)
(* until its subscription is removed, whichever way and whenever).         *)
(***************************************************************************)
NoLeakedRef ==
    \A c \in Conns : Settled(c) /\ c \notin sub => owned[c] = 0

(***************************************************************************)
(* No StopWatch gives back a reference that the pair does not own: every   *)
(* stop still to come has its own StartWatch behind it.                    *)
(***************************************************************************)
StopsAreOwned ==
    \A c \in Conns :
        owned[c] >= (IF At(c, "stop") THEN 1 ELSE 0)
                    + (IF \E r \in Removers : removal[c][r] = "stop"
                       THEN 1 ELSE 0)

(***************************************************************************)
(* A connection that is gone ends up owning nothing, even if it left in    *)
(* the middle of a subscribe.                                              *)
(***************************************************************************)
GoneOwnsNothing ==
    \A c \in Conns : life[c] = "draining" ~> [](owned[c] = 0)

\* Both: a connection's pairs and its watch references agree.
SubscriptionIsSound == RefsMirrorPairs /\ StopsAreOwned
=============================================================================
