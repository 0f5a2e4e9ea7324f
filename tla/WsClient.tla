------------------------------ MODULE WsClient ------------------------------
(***************************************************************************)
(* The websocket manager of the user interface                             *)
(* (frontend/src/services/api/websocket.ts, class WebSocketManager): the   *)
(* sockets it opens and replaces, and the subscriptions it keeps alive     *)
(* across them.                                                            *)
(*                                                                         *)
(* A key names a subscription: a list or count topic (its handlers are     *)
(* registered, and it is asked for again by them), a stream of a           *)
(* replayable type (its start message is kept), or a log stream (its       *)
(* viewer starts it again on connection:restored).  A message is a start   *)
(* or a stop of a key; a start is told from an earlier one of its key by   *)
(* its number, as the code tells two message objects apart.                *)
(*                                                                         *)
(* JavaScript runs one handler at a time, so a handler is one action; what *)
(* follows an await in it is another, unless the promise is resolved       *)
(* already.  Time is left to the timers: each may fire whenever it is set. *)
(***************************************************************************)
EXTENDS Integers, FiniteSets, Sequences, SequencesExt

CONSTANTS
    WsTopics, Streams, Logs,   \* the keys, by how they come back
    OutboxLimit,  \* OUTBOX_LIMIT
    MaxRetries,   \* RATE_LIMIT_MAX_RETRIES
    MaxWaiting,   \* bound on the attempts that wait for the session secret
    MaxSockets,   \* bound on the sockets of a behaviour
    MaxCalls,     \* bound on what the application asks for
    MaxRejects    \* bound on the rate limited messages

RequestKeys == WsTopics \cup Streams \cup Logs
Sockets == 1 .. MaxSockets

ASSUME ClientAssumption ==
    /\ WsTopics \cap Streams = {} /\ WsTopics \cap Logs = {}
    /\ Streams \cap Logs = {}
    /\ {OutboxLimit, MaxRetries, MaxWaiting, MaxSockets, MaxCalls, MaxRejects}
         \subseteq Nat

VARIABLES
    sock,     \* socket -> its state, and whether its handlers are attached
    ws,       \* the manager's socket, 0 when it has none
    link,     \* the manager's flags and timers about the connection
    want,     \* keys the application has started and not stopped
    handlers, \* topics with a handler (wsHandlers)
    active,   \* topics of active clusters (activeClusters)
    box,      \* outbox, sentOnConnection, lastStart, replayable, retries
    made,     \* key -> start messages made for it
    up,       \* socket -> messages on their way to the backend
    srv,      \* socket -> subscriptions the backend has for it
    rej,      \* socket -> rejections on their way back
    calls, rejects

wsVars == <<sock, ws, link, want, handlers, active, box, made, up, srv, rej,
          calls, rejects>>

Start(k, m) == [key |-> k, op |-> "start", m |-> m]
Stop(k) == [key |-> k, op |-> "stop", m |-> 0]

SockState(s) == sock[s].st
IsOpen(w) == w # 0 /\ SockState(w) = "open"
Made == {s \in Sockets : SockState(s) # "new"}
CanMake(n) == Cardinality(Made) + n <= MaxSockets

NoRetry == [n |-> 0, m |-> 0]

WsInit ==
    /\ sock = [s \in Sockets |-> [st |-> "new", ears |-> FALSE]]
    /\ ws = 0
    /\ link = [ready |-> FALSE, secret |-> FALSE, connecting |-> FALSE,
               inits |-> 0, timer |-> FALSE, beat |-> FALSE, dog |-> FALSE,
               lost |-> FALSE, fails |-> 0, refreshing |-> 0]
    /\ want = {}
    /\ handlers = {}
    /\ active = WsTopics
    /\ box = [out |-> <<>>, sent |-> {}, last |-> [k \in RequestKeys |-> 0],
              repl |-> [k \in Streams |-> 0],
              retry |-> [k \in RequestKeys |-> NoRetry]]
    /\ made = [k \in RequestKeys |-> 0]
    /\ up = [s \in Sockets |-> <<>>]
    /\ srv = [s \in Sockets |-> {}]
    /\ rej = [s \in Sockets |-> <<>>]
    /\ calls = 0
    /\ rejects = 0

---------------------------------------------------------------------------
(* Sending.  x is the state of a handler under way: its outbox and         *)
(* bookkeeping b, and what it has put on the wire.                         *)

SendNow(x, msg, open) ==
    IF ~open THEN x
    ELSE [wire |-> Append(x.wire, msg),
          b |-> IF msg.op = "start"
                THEN [x.b EXCEPT !.sent = @ \cup {msg.key},
                                 !.last[msg.key] = msg.m]
                ELSE [x.b EXCEPT !.sent = @ \ {msg.key}, !.last[msg.key] = 0,
                                 !.retry[msg.key] = NoRetry]]

\* enqueue: a stop cancels the start that waits, a start replaces it.
Without(q, k) == SelectSeq(q, LAMBDA msg : msg.key # k)
Bounded(q) == IF Len(q) > OutboxLimit THEN Tail(q) ELSE q
Enqueue(x, msg) ==
    [x EXCEPT !.b.out = IF msg.op = "stop" THEN Without(@, msg.key)
                        ELSE Bounded(Append(Without(@, msg.key), msg))]

\* sendWS, but for ensureWSReady
SendWS(x, msg, open) ==
    LET y == IF msg.key \in Streams THEN [x EXCEPT !.b.repl[msg.key] = msg.m]
             ELSE x
    IN IF open THEN SendNow(y, msg, open) ELSE Enqueue(y, msg)

SendAll(x, msgs, open) ==
    FoldLeft(LAMBDA y, msg : SendWS(y, msg, open), x, msgs)

Sending == [b |-> box, wire |-> <<>>]
OnWire(x) ==
    /\ box' = x.b
    /\ up' = IF ws = 0 THEN up ELSE [up EXCEPT ![ws] = @ \o x.wire]

---------------------------------------------------------------------------
(* Connecting.                                                             *)

\* initWebSocket up to its await: skipped while an attempt or a socket is
\* there already.  Its socket is made at once when the secret is known, and
\* when it arrives otherwise.  The constructor may throw.
Busy(w, c) == c.connecting \/ (w # 0 /\ SockState(w) \in {"connecting", "open"})

NewSocket == CHOOSE s \in Sockets : SockState(s) = "new"
                                /\ \A r \in Sockets : SockState(r) = "new" => s <= r

\* Applied to the link c and the socket w a handler has left.
InitWebSocket(c, w, socks) ==
    \/ /\ Busy(w, c)
       /\ link' = c /\ ws' = w /\ sock' = socks
    \/ /\ ~Busy(w, c) /\ ~c.secret
       /\ c.inits < MaxWaiting /\ CanMake(c.inits + 1)
       /\ link' = [c EXCEPT !.connecting = TRUE, !.inits = @ + 1]
       /\ ws' = w /\ sock' = socks
    \/ /\ ~Busy(w, c) /\ c.secret
       /\ CanMake(1)
       /\ ws' = NewSocket
       /\ sock' = [socks EXCEPT ![NewSocket] = [st |-> "connecting", ears |-> TRUE]]
       /\ link' = [c EXCEPT !.connecting = TRUE, !.dog = TRUE]
    \/ /\ ~Busy(w, c) /\ c.secret
       /\ link' = [c EXCEPT !.connecting = FALSE, !.timer = TRUE]
       /\ ws' = w /\ sock' = socks

\* ensureWSReady
EnsureReady ==
    IF IsOpen(ws) THEN UNCHANGED <<link, ws, sock>>
    ELSE InitWebSocket(link, ws, sock)

\* The attempts that waited for the secret go on, each with a socket of its
\* own; the last one is the manager's.
SecretArrives ==
    /\ ~link.secret
    /\ LET n == Cardinality(Made) IN
       /\ sock' = [s \in Sockets |->
                     IF s \in n + 1 .. n + link.inits
                     THEN [st |-> "connecting", ears |-> TRUE] ELSE sock[s]]
       /\ ws' = IF link.inits = 0 THEN ws ELSE n + link.inits
       /\ link' = [link EXCEPT !.secret = TRUE, !.inits = 0,
                               !.dog = @ \/ link.inits > 0]
    /\ UNCHANGED <<want, handlers, active, box, made, up, srv, rej, calls,
                   rejects>>

\* markBackendReady, reached once /health answers
MarkBackendReady ==
    /\ ~link.ready /\ link.secret
    /\ InitWebSocket([link EXCEPT !.ready = TRUE], ws, sock)
    /\ UNCHANGED <<want, handlers, active, box, made, up, srv, rej, calls,
                   rejects>>

Dropped(c) == [c EXCEPT !.beat = FALSE, !.timer = FALSE, !.connecting = FALSE]

\* reconnectWebSocket drops the manager's socket, deaf, and opens another.
\* c is the link as its caller leaves it.
Lost == [link EXCEPT !.lost = TRUE]
ReconnectWebSocket(c) ==
    /\ LET socks == IF ws = 0 THEN sock
                    ELSE [sock EXCEPT ![ws] = [st |-> "closed", ears |-> FALSE]]
       IN InitWebSocket(Dropped(c), 0, socks)
    /\ up' = IF ws = 0 THEN up ELSE [up EXCEPT ![ws] = <<>>]
    /\ srv' = IF ws = 0 THEN srv ELSE [srv EXCEPT ![ws] = {}]
    /\ rej' = IF ws = 0 THEN rej ELSE [rej EXCEPT ![ws] = <<>>]
    /\ UNCHANGED <<want, handlers, active, box, made, calls, rejects>>

Online == ReconnectWebSocket(Lost)
Focus == ~IsOpen(ws) /\ ReconnectWebSocket(Lost)
Silence == link.beat /\ IsOpen(ws) /\ ReconnectWebSocket(Lost)
Watchdog ==
    /\ link.dog /\ ws # 0 /\ ~IsOpen(ws)
    /\ ReconnectWebSocket([Lost EXCEPT !.dog = FALSE])
BackendRecovers == link.ready /\ ~IsOpen(ws) /\ ReconnectWebSocket(link)

ReconnectTimer ==
    /\ link.timer
    /\ InitWebSocket([link EXCEPT !.timer = FALSE], ws, sock)
    /\ UNCHANGED <<want, handlers, active, box, made, up, srv, rej, calls,
                   rejects>>

\* onclose of a socket the backend or the network ended.  Three handshakes
\* in a row that fail send it to ask for the session secret again.
Closed(s) ==
    /\ SockState(s) \in {"connecting", "open"}
    /\ sock' = [sock EXCEPT ![s] = [st |-> "closed", ears |-> FALSE]]
    /\ up' = [up EXCEPT ![s] = <<>>]
    /\ srv' = [srv EXCEPT ![s] = {}]
    /\ rej' = [rej EXCEPT ![s] = <<>>]
    /\ UNCHANGED <<ws, want, handlers, active, box, made, calls, rejects>>

OnClose(s) ==
    /\ sock[s].ears
    /\ Closed(s)
    /\ \E handshake \in BOOLEAN :
          LET n == IF handshake THEN link.fails + 1 ELSE 0
              c == [link EXCEPT !.beat = FALSE, !.dog = FALSE,
                                !.connecting = FALSE, !.lost = TRUE]
          IN link' = IF n >= 3 THEN [c EXCEPT !.fails = 0, !.refreshing = @ + 1]
                     ELSE [c EXCEPT !.fails = n, !.timer = TRUE]

\* handleHandshakeFailure, after refreshSessionSecret: whether the secret was
\* refreshed or not, it retries.
HandshakeFailureHandled ==
    /\ link.refreshing > 0
    /\ link' = [link EXCEPT !.refreshing = @ - 1, !.timer = TRUE]
    /\ UNCHANGED <<sock, ws, want, handlers, active, box, made, up, srv, rej,
                   calls, rejects>>

---------------------------------------------------------------------------
(* onopen: restore listeners first, then the topics that have handlers,    *)
(* the replayable streams and the outbox, each leaving out what was        *)
(* started on this connection before it.                                   *)

\* Log viewers start again; the list on screen, if there is one, stops and
\* starts.  sendWS may find the manager's socket is not the one that opened.
RestoreMsgs(shown) ==
    [i \in 1 .. Cardinality(want \cap Logs) |->
        LET k == SetToSeq(want \cap Logs)[i] IN Start(k, made[k] + 1)]
    \o FlattenSeq([i \in 1 .. Cardinality(shown) |->
        LET k == SetToSeq(shown)[i] IN <<Stop(k), Start(k, made[k] + 1)>>])

ResubscribeMsgs(b, used) ==
    LET ks == {k \in handlers \cap active : k \notin b.sent} IN
    [i \in 1 .. Cardinality(ks) |->
        LET k == SetToSeq(ks)[i]
        IN Start(k, made[k] + (IF k \in used THEN 2 ELSE 1))]

ReplayStreams(x, open) ==
    LET ks == {k \in Streams : x.b.repl[k] # 0 /\ k \notin x.b.sent} IN
    FoldLeft(LAMBDA y, k : SendNow(y, Start(k, x.b.repl[k]), open), x,
             SetToSeq(ks))

FlushOutbox(x, open) ==
    FoldLeft(LAMBDA y, msg : IF msg.key \in y.b.sent THEN y
                             ELSE SendNow(y, msg, open),
             [x EXCEPT !.b.out = <<>>], x.b.out)

\* (mutation of ClearedBox: what the old connection had counts as started)
UnclearedBox == box

\* What was sent on the connection before is forgotten.
ClearedBox == [box EXCEPT !.sent = {}, !.last = [k \in RequestKeys |-> 0]]

OnOpen(s) ==
    /\ SockState(s) = "connecting"
    /\ sock' = [sock EXCEPT ![s].st = "open"]
    /\ link' = [link EXCEPT !.dog = FALSE, !.connecting = FALSE, !.fails = 0,
                            !.beat = TRUE, !.lost = FALSE]
    /\ \E shown \in {ks \in SUBSET (want \cap handlers) : Cardinality(ks) <= 1} :
          LET open == ws = s \/ IsOpen(ws)
              x0 == [b |-> ClearedBox, wire |-> <<>>]
              x1 == IF link.lost THEN SendAll(x0, RestoreMsgs(shown), open)
                    ELSE x0
              x2 == SendAll(x1, ResubscribeMsgs(x1.b, shown), open)
              x3 == FlushOutbox(ReplayStreams(x2, open), open)
          IN /\ ~link.lost => shown = {}
             /\ OnWire(x3)
             /\ handlers' = handlers \cap (active \cup x1.b.sent)
             /\ made' = [k \in RequestKeys |-> Max({made[k]} \cup
                   {msg.m : msg \in {n \in ToSet(x3.wire \o x3.b.out) : n.key = k}})]
    /\ UNCHANGED <<ws, want, active, srv, rej, calls, rejects>>

---------------------------------------------------------------------------
(* What the application asks for.                                          *)
Call ==
    /\ calls < MaxCalls
    /\ calls' = calls + 1
    /\ EnsureReady
    /\ UNCHANGED <<srv, rej, rejects>>

\* subscribeToItems, subscribeToCounts, openMetricsStream, subscribeLogStream;
\* of a key in want already, a list asked for again.
Subscribe(k) ==
    /\ k \in want => k \in WsTopics
    /\ k \in WsTopics => k \in active
    /\ Call
    /\ want' = want \cup {k}
    /\ handlers' = handlers \cup ({k} \cap WsTopics)
    /\ made' = [made EXCEPT ![k] = @ + 1]
    /\ OnWire(SendWS(Sending, Start(k, made[k] + 1), IsOpen(ws)))
    /\ UNCHANGED active

Unsubscribe(k) ==
    /\ k \in want
    /\ Call
    /\ want' = want \ {k}
    /\ handlers' = handlers \ {k}
    /\ OnWire(SendWS(Sending, Stop(k), IsOpen(ws)))
    /\ UNCHANGED <<active, made>>

\* forgetReplay: a stream that ended by itself is not asked for again.  (Each
\* discovery has a key of its own, so its end is never that of an earlier one.)
ForgetReplay(k) ==
    /\ IsOpen(ws) /\ \A msg \in ToSet(up[ws]) : msg.key # k
    /\ k \in want \cap Streams \cap srv[ws]
    /\ want' = want \ {k}
    /\ box' = [box EXCEPT !.repl[k] = 0]
    /\ srv' = [srv EXCEPT ![ws] = @ \ {k}]
    /\ UNCHANGED <<sock, ws, link, handlers, active, made, up, rej, calls, rejects>>

\* unregisterActiveCluster with cleanupClusterHandlers: the tab of the
\* cluster all these topics and streams are of is closed, and with it the views
\* that stop the streams.
UnregisterActiveCluster ==
    /\ active # {}
    /\ Call
    /\ active' = {}
    /\ want' = want \ (WsTopics \cup Streams)
    /\ handlers' = {}
    /\ OnWire(SendAll([Sending EXCEPT !.b.repl = [k \in Streams |-> 0]],
                      LET ks == SetToSeq(handlers \cup (want \cap Streams))
                      IN [i \in DOMAIN ks |-> Stop(ks[i])], IsOpen(ws)))
    /\ UNCHANGED made

---------------------------------------------------------------------------
(* The backend, and what it answers.                                       *)
Handle(s) ==
    /\ SockState(s) = "open"
    /\ up[s] # <<>>
    /\ LET msg == Head(up[s]) IN
       \/ /\ srv' = [srv EXCEPT ![s] = IF msg.op = "start"
                                       THEN @ \cup {msg.key} ELSE @ \ {msg.key}]
          /\ UNCHANGED <<rej, rejects>>
       \/ /\ msg.op = "start"
          /\ rejects < MaxRejects
          /\ rejects' = rejects + 1
          /\ rej' = [rej EXCEPT ![s] = Append(@, msg.key)]
          /\ UNCHANGED srv
    /\ up' = [up EXCEPT ![s] = Tail(@)]
    /\ UNCHANGED <<sock, ws, link, want, handlers, active, box, made, calls>>

\* retryRateLimited
GaveUp(k) == box.retry[k].n > MaxRetries
RateLimited(s) ==
    /\ sock[s].ears /\ rej[s] # <<>>
    /\ rej' = [rej EXCEPT ![s] = Tail(@)]
    /\ LET k == Head(rej[s])
           r == box.retry[k]
       IN box' = IF box.last[k] = 0 \/ r.m # 0 THEN box
                 ELSE IF r.n >= MaxRetries
                      THEN [box EXCEPT !.retry[k].n = MaxRetries + 1]
                      ELSE [box EXCEPT !.retry[k] =
                               [n |-> r.n + 1, m |-> box.last[k]]]
    /\ UNCHANGED <<sock, ws, link, want, handlers, active, made, up, srv, calls,
                   rejects>>

\* Its timer: a start that was stopped, or replaced, while it waited is not
\* sent again.
RetryTimer(k) ==
    /\ box.retry[k].m # 0
    /\ LET m == box.retry[k].m
           x == [Sending EXCEPT !.b.retry[k].m = 0]
       IN IF box.last[k] # m
          THEN OnWire(x) /\ UNCHANGED <<link, ws, sock>>
          ELSE OnWire(SendWS(x, Start(k, m), IsOpen(ws))) /\ EnsureReady
    /\ UNCHANGED <<want, handlers, active, made, srv, rej, calls, rejects>>

\* dispatchMessage: data of a topic nobody handles is unsubscribed from.
Unhandled(s, k) ==
    /\ sock[s].ears /\ SockState(s) = "open"
    /\ k \in (srv[s] \cap WsTopics) \ handlers
    /\ Stop(k) \notin {up[ws][i] : i \in IF ws = 0 THEN {} ELSE DOMAIN up[ws]}
    /\ OnWire(SendWS(Sending, Stop(k), IsOpen(ws)))
    /\ EnsureReady
    /\ UNCHANGED <<want, handlers, active, made, srv, rej, calls, rejects>>

---------------------------------------------------------------------------
WsNext ==
    \/ SecretArrives \/ MarkBackendReady \/ ReconnectTimer
    \/ Online \/ Focus \/ Silence \/ Watchdog \/ BackendRecovers
    \/ HandshakeFailureHandled \/ UnregisterActiveCluster
    \/ \E s \in Sockets : OnOpen(s) \/ OnClose(s) \/ Handle(s) \/ RateLimited(s)
    \/ \E k \in RequestKeys : Subscribe(k) \/ Unsubscribe(k) \/ ForgetReplay(k) \/ RetryTimer(k)
    \/ \E s \in Sockets, k \in RequestKeys : Unhandled(s, k)

WsSpec == WsInit /\ [][WsNext]_wsVars

---------------------------------------------------------------------------
(* Once the backend is up, a manager without an open socket is connecting  *)
(* or has something left that will connect it, whatever sockets, timers,   *)
(* handshake failures and window events raced before: no retry is lost to  *)
(* another one's guard (initWebSocket, reconnectWebSocket, onclose).       *)
NeverStranded ==
    link.ready /\ ~IsOpen(ws) =>
        \/ ws # 0 /\ SockState(ws) = "connecting" /\ sock[ws].ears
        \/ link.timer \/ link.refreshing > 0 \/ (~link.secret /\ link.inits > 0)

(* With nothing on the wire, the backend has for the open socket what the  *)
(* application wants: what was started while it was down, what its         *)
(* predecessor had and what was turned away as rate limited, whichever of  *)
(* the four ways a key comes back it depends on (onopen, sendWS,           *)
(* retryRateLimited).                                                      *)
Settled == IsOpen(ws) /\ up[ws] = <<>> /\ rej[ws] = <<>>
WantedIsSubscribed ==
    Settled => \A k \in want :
        k \in srv[ws] \/ box.retry[k].m # 0 \/ GaveUp(k)

(* With nothing on the wire and no retry to come, the backend serves no    *)
(* stream the application has stopped ("unless it was stopped meanwhile",  *)
(* retryRateLimited).                                                      *)
(* No run claims it: the code does not keep it (README, Disagreements).     *)
StoppedStaysStopped == Settled => srv[ws] \ WsTopics \subseteq want

(* A connection that opens gets one start of a key at most, although four  *)
(* mechanisms restart subscriptions and each is right to ("Each topic then *)
(* gets one subscribe per connection", onopen).                            *)
OneStartPerOpen ==
    \A s \in Sockets : SockState(s) = "connecting" /\ sock'[s].st = "open"
       => \A k \in RequestKeys : Cardinality({i \in DOMAIN up'[s] :
             up'[s][i].key = k /\ up'[s][i].op = "start"}) <= 1

(* All three: whatever is lost on the way, the connection comes back and    *)
(* carries what the application wants, once (websocket.ts).                 *)
ConnectionServesItsTopics ==
    [][NeverStranded' /\ WantedIsSubscribed' /\ OneStartPerOpen]_wsVars
=============================================================================
