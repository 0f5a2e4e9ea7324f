------------------------------ MODULE Terminals ------------------------------
(***************************************************************************)
(* A local terminal tab: the manager's session for it                      *)
(* (frontend/src/services/terminalManager.ts), the component that connects *)
(* it (components/Terminal.tsx), the panes it is split into                *)
(* (components/TerminalContainer.tsx) and the search above it; and the     *)
(* shell of a pod's container (components/PodShell.tsx, common/Shell.tsx,  *)
(* common/Terminal.tsx), whose socket ends with its component.             *)
(*                                                                         *)
(* The component comes and goes while the session stays; its effect runs   *)
(* again whenever the search is toggled or the session secret becomes      *)
(* known, and what an earlier run of it left awaiting still goes on.  A    *)
(* shell lives on the connection that created it.                          *)
(***************************************************************************)
EXTENDS Integers, FiniteSets, Sequences, SequencesExt

CONSTANTS
    Sockets,        \* ids of the sockets made, 1 .. n
    Words,          \* search term -> how often the buffer holds it
    MaxTermSteps,   \* bound on what the user does
    MaxDrops,       \* bound on connections lost and on refused connects
    MaxPanes,       \* bound on the panes
    PodContainers,  \* the containers of the pod, in order
    Shells          \* components of the pod's shell, 1 .. n

VARIABLES
    term,      \* the component and the manager's session
    calls,     \* connectWebSocket calls that await the secret or a retry
    socks,     \* socket -> its state
    vault,     \* does the main process have a session secret?
    search,    \* [word, count, at]: what the search shows
    termPanes,     \* pane id -> [split, parent, shows]
    focus,     \* focusedNodeId
    nodes,     \* nodeCounter
    exec,      \* the pod's shell: container chosen, component, sockets
    termSteps, drops

termVars == <<term, calls, socks, vault, search, termPanes, focus, nodes, exec, termSteps, drops>>

NoSocket == [st |-> "none", creates |-> FALSE, due |-> FALSE, shell |-> "no",
             life |-> 0]
NoTermSearch == [word |-> "", count |-> 0, at |-> 0]
Call(k, mine) == [k |-> k, mine |-> mine]
CallKinds == {Call(k, b) : k \in {"ask", "retry"}, b \in BOOLEAN}
TermMounted == [up |-> TRUE, secret |-> FALSE, reading |-> TRUE, timer |-> TRUE,
            recon |-> "no", session |-> FALSE, life |-> 0, ws |-> 0, sid |-> 0]

\* PodShell: no container is chosen in a pod that has none.
NoExec == [container |-> IF PodContainers = <<>> THEN "" ELSE PodContainers[1],
           at |-> 0, st |-> [i \in Shells |-> "none"], quits |-> {}]

TermInit ==
    /\ term = TermMounted
    /\ calls = [c \in CallKinds |-> 0]
    /\ socks = [s \in Sockets |-> NoSocket]
    /\ vault \in BOOLEAN
    /\ search = NoTermSearch
    /\ termPanes = [n \in {0} |-> [split |-> FALSE, parent |-> -1, shows |-> 0]]
    /\ focus = 0
    /\ nodes = 1
    /\ exec = NoExec
    /\ termSteps = 0
    /\ drops = 0

---------------------------------------------------------------------------
(* The manager.                                                            *)
Fresh == {s \in Sockets : socks[s].st = "none"}
TermCloses(ss, s) ==
    IF s = 0 THEN ss
    ELSE IF ss[s].st \in {"connecting", "open"}
    THEN [ss EXCEPT ![s].st = "closing", ![s].shell = "no"] ELSE ss

\* getOrCreateSession, attachToContainer
GetOrCreateSession(t) ==
    [t EXCEPT !.session = TRUE, !.life = IF t.session THEN @ ELSE @ + 1]

NewSocket(t) ==
    [NoSocket EXCEPT !.st = "connecting", !.creates = TRUE,
                     !.life = IF t.session THEN t.life ELSE 0]

\* (mutation of SetWebSocket: the socket before is left open)
SetWebSocketOnly(t, s) ==
    /\ term' = IF t.session THEN [t EXCEPT !.ws = s] ELSE t
    /\ socks' = [socks EXCEPT ![s] = NewSocket(t)]

\* setWebSocket of the socket connectWebSocket just made; a session that is
\* gone leaves the socket to itself.
SetWebSocket(t, s) ==
    LET ss == IF t.session THEN TermCloses(socks, t.ws) ELSE socks IN
    /\ term' = IF t.session THEN [t EXCEPT !.ws = s] ELSE t
    /\ socks' = [ss EXCEPT ![s] = NewSocket(t)]

\* closeSession: an open socket is closed, one still connecting is not.
CloseSession(t) ==
    /\ term' = [t EXCEPT !.session = FALSE, !.ws = 0, !.sid = 0]
    /\ socks' = IF t.session /\ t.ws # 0
                THEN IF socks[t.ws].st = "open" THEN TermCloses(socks, t.ws) ELSE socks
                ELSE socks

---------------------------------------------------------------------------
(* The component's effect.                                                 *)
\* The cleanup clears the reconnect timer and keeps its handle.
Cleanup(t) == [t EXCEPT !.timer = FALSE, !.recon = IF @ = "armed" THEN "stuck" ELSE @]
EffectAgain(t) == [Cleanup(t) EXCEPT !.timer = TRUE]

\* connectWebSocket, as far as the await
Connect(t) ==
    IF t.secret
    THEN \E s \in Fresh : SetWebSocket(t, s) /\ UNCHANGED calls
    ELSE /\ calls' = [calls EXCEPT ![Call("ask", t.up)] = @ + 1]
         /\ term' = t /\ UNCHANGED socks

Rest == UNCHANGED <<vault, search, termPanes, focus, nodes, exec, termSteps, drops>>

EffectTimer ==
    /\ term.timer
    /\ LET t == GetOrCreateSession([term EXCEPT !.timer = FALSE])
           st == IF t.ws = 0 THEN "closed" ELSE socks[t.ws].st
       IN CASE st = "closed" -> Connect(t)
            [] st = "connecting" -> /\ term' = t
                                    /\ socks' = [socks EXCEPT ![t.ws].creates = FALSE]
                                    /\ UNCHANGED calls
            [] OTHER -> term' = t /\ UNCHANGED <<socks, calls>>
    /\ Rest

\* The effect that reads the secret when the component is mounted
SecretRead ==
    /\ term.reading
    /\ LET t == [term EXCEPT !.reading = FALSE, !.secret = @ \/ vault] IN
       term' = IF vault /\ ~term.secret THEN EffectAgain(t) ELSE t
    /\ UNCHANGED <<calls, socks>> /\ Rest

\* connectWebSocket, after the await
SecretAnswered(mine) ==
    /\ calls[Call("ask", mine)] > 0
    /\ LET less == [calls EXCEPT ![Call("ask", mine)] = @ - 1]
           learns == mine /\ term.up /\ ~term.secret
       IN IF vault
          THEN /\ \E s \in Fresh :
                     SetWebSocket(IF learns THEN EffectAgain([term EXCEPT !.secret = TRUE])
                                  ELSE term, s)
               /\ calls' = less
          ELSE /\ calls' = [less EXCEPT ![Call("retry", mine)] = @ + 1]
               /\ UNCHANGED <<term, socks>>
    /\ Rest

RetrySecret(mine) ==
    /\ calls[Call("retry", mine)] > 0
    /\ calls' = [calls EXCEPT ![Call("retry", mine)] = @ - 1, ![Call("ask", mine)] = @ + 1]
    /\ UNCHANGED <<term, socks>> /\ Rest

Reconnect ==
    /\ term.recon = "armed"
    /\ Connect([term EXCEPT !.recon = "no"])
    /\ Rest

---------------------------------------------------------------------------
(* The socket's handlers.                                                  *)
OnOpen(s) ==
    /\ socks[s].st = "connecting"
    /\ socks' = [socks EXCEPT ![s].st = "open",
                              ![s].due = socks[s].creates /\ term.sid = 0]
    /\ UNCHANGED <<term, calls>> /\ Rest

\* The terminal's size is known 50 ms later, and the shell asked for.
SendCreate(s) ==
    /\ socks[s].due
    /\ socks' = [socks EXCEPT ![s].due = FALSE,
                              ![s].shell = IF socks[s].st = "open" THEN "asked" ELSE @]
    /\ UNCHANGED <<term, calls>> /\ Rest

OnCreated(s) ==
    /\ socks[s].st = "open" /\ socks[s].shell = "asked"
    /\ socks' = [socks EXCEPT ![s].shell = "up"]
    /\ term' = IF term.session THEN [term EXCEPT !.sid = s] ELSE term
    /\ UNCHANGED calls /\ Rest

OnClose(s) ==
    /\ socks[s].st = "closing"
    /\ socks' = [socks EXCEPT ![s].st = "closed", ![s].due = FALSE]
    /\ LET t == IF term.session /\ term.ws = s THEN [term EXCEPT !.sid = 0] ELSE term
       IN term' = IF term.up /\ term.recon = "no" THEN [t EXCEPT !.recon = "armed"] ELSE t
    /\ UNCHANGED calls /\ Rest

Drop(s) ==
    /\ socks[s].st \in {"connecting", "open"} /\ drops < MaxDrops
    /\ drops' = drops + 1
    /\ socks' = TermCloses(socks, s)
    /\ UNCHANGED <<term, calls, vault, search, termPanes, focus, nodes, exec, termSteps>>

VaultFills ==
    /\ ~vault
    /\ vault' = TRUE
    /\ UNCHANGED <<term, calls, socks, search, termPanes, focus, nodes, exec, termSteps, drops>>

---------------------------------------------------------------------------
(* What the user does.                                                     *)
TabOpen == DOMAIN termPanes # {}
Act ==
    /\ termSteps < MaxTermSteps
    /\ termSteps' = termSteps + 1
    /\ UNCHANGED <<vault, exec, drops>>

\* The search is a dependency of the effect.
ToggleSearch ==
    /\ Act /\ term.up
    /\ term' = EffectAgain(term)
    /\ search' = NoTermSearch
    /\ UNCHANGED <<calls, socks, termPanes, focus, nodes>>

\* handleSearch of a new word counts it in the buffer; the handler it leaves
\* is a new one, so the effect of TerminalSearch searches on at once.
Wrapped(n, count) == IF n > count THEN 1 ELSE IF n <= 0 THEN count ELSE n
SearchNew(w) ==
    /\ Act /\ w # search.word
    /\ search' = [word |-> w, count |-> Words[w],
                  at |-> IF Words[w] = 0 THEN 0 ELSE Wrapped(2, Words[w])]
    /\ UNCHANGED <<term, calls, socks, termPanes, focus, nodes>>

SearchOn(step) ==
    /\ Act /\ search.count > 0
    /\ search' = [search EXCEPT !.at = Wrapped(@ + step, search.count)]
    /\ UNCHANGED <<term, calls, socks, termPanes, focus, nodes>>

\* Another component for the same terminal; what the one before awaits goes on.
Remounted ==
    /\ term' = [TermMounted EXCEPT !.session = term.session, !.life = term.life,
                               !.ws = term.ws, !.sid = term.sid]
    /\ calls' = [c \in CallKinds |->
                   IF c.mine THEN 0 ELSE calls[c] + calls[Call(c.k, TRUE)]]

\* The tab moves between the dock and a pane: another component, and another
\* tree of panes, for the same session.
Remount ==
    /\ Act /\ TabOpen
    /\ Remounted
    /\ termPanes' = [n \in {0} |-> [split |-> FALSE, parent |-> -1, shows |-> 0]]
    /\ focus' = 0 /\ nodes' = 1
    /\ search' = NoTermSearch
    /\ UNCHANGED socks

\* closeBottomTab
Unmounted == [Cleanup(term) EXCEPT !.up = FALSE, !.reading = FALSE]
CloseTerminal ==
    /\ Act /\ TabOpen
    /\ CloseSession(Unmounted)
    /\ termPanes' = [n \in {} |-> 0]
    /\ UNCHANGED <<calls, search, focus, nodes>>

Above[m \in Int] ==
    IF m \notin DOMAIN termPanes \/ m = 0 THEN {} ELSE {termPanes[m].parent} \cup Above[termPanes[m].parent]
Under(p) == {m \in DOMAIN termPanes : p \in Above[m]}

\* handleSplit: the pane becomes a split of its terminal, mounted again, and a
\* new one.
SplitTerminal(n) ==
    /\ Act /\ ~termPanes[n].split /\ Cardinality(DOMAIN termPanes) < MaxPanes
    /\ nodes' = nodes + 2
    /\ LET new == nodes
           old == nodes + 1
           leaf(t) == [split |-> FALSE, parent |-> n, shows |-> t]
       IN termPanes' = [m \in DOMAIN termPanes \cup {new, old} |->
                      CASE m = n -> [termPanes[n] EXCEPT !.split = TRUE]
                        [] m = new -> leaf(new) [] m = old -> leaf(termPanes[n].shows)
                        [] OTHER -> termPanes[m]]
    /\ IF termPanes[n].shows = 0 THEN Remounted ELSE UNCHANGED <<term, calls>>
    /\ UNCHANGED <<socks, search, focus>>

\* handleClose: the other child takes the place and the id of the parent, and
\* the terminals under it are mounted again.
ClosePane(n) ==
    /\ Act /\ n # 0 /\ ~termPanes[n].split
    /\ LET p == termPanes[n].parent
           o == CHOOSE m \in DOMAIN termPanes : m # n /\ termPanes[m].parent = p
       IN termPanes' = [m \in DOMAIN termPanes \ {n, o} |->
                      IF m = p THEN [termPanes[o] EXCEPT !.parent = termPanes[p].parent]
                      ELSE IF termPanes[m].parent = o THEN [termPanes[m] EXCEPT !.parent = p]
                      ELSE termPanes[m]]
    /\ IF termPanes[n].shows = 0 THEN CloseSession(Unmounted) /\ UNCHANGED calls
       ELSE /\ IF \E m \in Under(termPanes[n].parent) : ~termPanes[m].split /\ termPanes[m].shows = 0
               THEN Remounted ELSE UNCHANGED <<term, calls>>
            /\ UNCHANGED socks
    /\ UNCHANGED <<search, focus, nodes>>

FocusPane(n) ==
    /\ Act /\ ~termPanes[n].split /\ focus # n
    /\ focus' = n
    /\ UNCHANGED <<term, calls, socks, search, termPanes, nodes>>

---------------------------------------------------------------------------
(* The shell of a pod's container.                                         *)
ExecOnly == UNCHANGED <<term, calls, socks, vault, search, termPanes, focus, nodes, termSteps, drops>>

\* The cleanup: a socket still connecting closes as soon as it opens.
Disposed(x) ==
    IF x.at = 0 THEN x
    ELSE [x EXCEPT !.st[x.at] = IF @ \in {"timer", "open"} THEN "closed" ELSE @,
                   !.quits = IF x.st[x.at] = "connecting" THEN @ \cup {x.at} ELSE @]

\* A component for another container, or for the shell tab shown again
ShowShell(c) ==
    /\ \E i \in Shells :
          /\ exec.st[i] = "none"
          /\ exec' = [Disposed(exec) EXCEPT !.container = c, !.at = i, !.st[i] = "timer"]
    /\ ExecOnly

HideShell ==
    /\ exec.at # 0
    /\ exec' = [Disposed(exec) EXCEPT !.at = 0]
    /\ ExecOnly

ExecConnect(i) ==
    /\ exec.at = i /\ exec.st[i] = "timer"
    /\ exec' = [exec EXCEPT !.st[i] = "connecting"]
    /\ ExecOnly

ExecOpened(i) ==
    /\ exec.st[i] = "connecting"
    /\ exec' = [exec EXCEPT !.st[i] = IF i \in exec.quits THEN "closed" ELSE "open"]
    /\ ExecOnly

ExecClosed(i) ==
    /\ exec.st[i] \in {"connecting", "open"}
    /\ exec' = [exec EXCEPT !.st[i] = "closed"]
    /\ ExecOnly

ExecNext ==
    \/ HideShell
    \/ \E n \in DOMAIN PodContainers : ShowShell(PodContainers[n])
    \/ \E i \in Shells : ExecConnect(i) \/ ExecOpened(i) \/ ExecClosed(i)

TermNext ==
    \/ EffectTimer \/ SecretRead \/ Reconnect \/ VaultFills
    \/ \E mine \in BOOLEAN : SecretAnswered(mine) \/ RetrySecret(mine)
    \/ \E s \in Sockets : OnOpen(s) \/ SendCreate(s) \/ OnCreated(s) \/ OnClose(s) \/ Drop(s)
    \/ ToggleSearch \/ Remount \/ CloseTerminal
    \/ \E w \in DOMAIN Words : SearchNew(w)
    \/ \E step \in {-1, 1} : SearchOn(step)
    \/ \E n \in DOMAIN termPanes : SplitTerminal(n) \/ ClosePane(n) \/ FocusPane(n)

TermSpec == TermInit /\ [][TermNext \/ ExecNext]_termVars

---------------------------------------------------------------------------
(* A terminal has one socket: whatever runs of the effect, late secrets,   *)
(* retries and reconnects overlap, every other socket made for it while    *)
(* its session lives is closed or closing, so no second shell stays on     *)
(* (setWebSocket).  A pod's shell whose component is gone has no open      *)
(* socket either, even when it was still connecting (the cleanup of        *)
(* common/Terminal.tsx).                                                   *)
OneSocketPerTerminal ==
    /\ \A i \in Shells : exec.st[i] = "open" => i = exec.at
    /\ term.session =>
        \A s \in Sockets : socks[s].life = term.life /\ socks[s].st \in {"connecting", "open"}
                           => s = term.ws

(* The shell the terminal writes to is one its own connection created: the *)
(* session id of a connection that closed is forgotten, "so the reconnect  *)
(* sends a fresh `create` instead of writing into a session that no longer *)
(* exists" (ws.onclose).                                                   *)
(* No run claims it: the code does not keep it (README, Disagreements).     *)
ShellIsLive ==
    term.session /\ term.sid # 0 /\ term.ws # 0 =>
        \/ socks[term.ws].st # "open"
        \/ term.sid = term.ws

-----------------------------------------------------------------------------
(***************************************************************************)
(* A log viewer: the feed of one pod or workload across its restarts       *)
(* (frontend/src/components/logs/logFeedState.ts, useLogFeed.ts), the      *)
(* buffer of its lines (logEngine.ts) and what the viewer shows of them    *)
(* (LogViewer.tsx).                                                        *)
(*                                                                         *)
(* A stream sends batches with a sequence number; a batch may be sent      *)
(* again.  A line is the stream and batch it came in, with its pod and     *)
(* level; what its text looks like is left out.  A viewer whose options    *)
(* change asks for a stream it did not have before; one that goes back to  *)
(* options it just left is not modelled.                                   *)
(***************************************************************************)

CONSTANTS
    LogPods, LogLevels,
    MaxLines, TrimTo,     \* MAX_LINES, TRIM_TO
    MaxBatches,           \* bound on the batches of a stream
    MaxStreams,           \* bound on the streams of the viewer
    MaxLogSteps           \* bound on what the user does

VARIABLES
    feed,     \* lastSeq, started, replacing, status, error, end, the stream's number
    buffer,   \* [lines, counts, nextId]
    stream,   \* the stream at the backend: [n, st, sent]
    pods,     \* the pods the stream told of
    look,     \* follow, pausedAt, levels, podFilter, query, filterMode, active
    logSteps

logVars == <<feed, buffer, stream, pods, look, logSteps>>

None == {"(all)"}        \* a filter that is not set
NoCounts == [l \in LogLevels \cup {"none"} |-> 0]
EmptyBuffer(id) == [lines |-> <<>>, counts |-> NoCounts, nextId |-> id]
NewFeed == [seq |-> 0, started |-> FALSE, replacing |-> FALSE, status |-> "connecting",
            error |-> FALSE, end |-> "no"]

LogInit ==
    /\ feed = [NewFeed EXCEPT !.started = TRUE]
    /\ buffer = EmptyBuffer(1)
    /\ stream = [n |-> 1, st |-> "up", sent |-> 0]
    /\ pods = LogPods
    /\ look = [follow |-> TRUE, paused |-> -1, levels |-> None, podFilter |-> None,
               query |-> FALSE, only |-> FALSE, active |-> 0, detached |-> 0]
    /\ logSteps = 0

---------------------------------------------------------------------------
(* The buffer.                                                             *)
Trimmed(ls) ==
    IF Len(ls) > MaxLines THEN SubSeq(ls, Len(ls) - TrimTo + 1, Len(ls)) ELSE ls
CountsOf(ls) ==
    [l \in LogLevels \cup {"none"} |-> Cardinality({i \in DOMAIN ls : ls[i].level = l})]
Removed(ls) == SubSeq(ls, 1, Len(ls) - Len(Trimmed(ls)))

AppendLine(b, line) ==
    LET ls == Append(b.lines, [line EXCEPT !.id = b.nextId]) IN
    [lines |-> Trimmed(ls), nextId |-> b.nextId + 1,
     counts |-> [l \in DOMAIN b.counts |->
        b.counts[l] + (IF l = line.level THEN 1 ELSE 0) - CountsOf(Removed(ls))[l]]]

AppendMarker(b) ==
    [b EXCEPT !.lines = Append(@, [id |-> b.nextId, of |-> 0, seq |-> 0, pod |-> "",
                                   level |-> "none", hit |-> FALSE]),
              !.counts["none"] = @ + 1, !.nextId = @ + 1]

Clear(b) == EmptyBuffer(b.nextId)

---------------------------------------------------------------------------
(* createLogFeedState.                                                     *)
Restart(f) == [f EXCEPT !.seq = 0, !.started = TRUE, !.replacing = f.started,
                        !.status = "connecting", !.error = FALSE, !.end = "no"]

ReplaceOld(f, b) == IF f.replacing THEN Clear(b) ELSE b

Connected ==
    /\ stream.st = "up"
    /\ feed' = [feed EXCEPT !.status = "live"]
    /\ UNCHANGED <<buffer, stream, pods, look, logSteps>>

\* handle: batch
BatchApplied(seq, line) ==
    IF seq <= feed.seq THEN UNCHANGED <<feed, buffer>>
    ELSE /\ feed' = [feed EXCEPT !.seq = seq, !.replacing = FALSE,
                                 !.status = IF @ = "connecting" THEN "live" ELSE @]
         /\ buffer' = AppendLine(ReplaceOld(feed, buffer), line)

Batch(seq, pod, level, hit) ==
    /\ stream.st = "up" /\ seq \in 1 .. stream.sent + 1 /\ seq <= MaxBatches
    /\ stream' = [stream EXCEPT !.sent = IF seq > @ THEN seq ELSE @]
    /\ BatchApplied(seq, [id |-> 0, of |-> stream.n, seq |-> seq, pod |-> pod,
                          level |-> level, hit |-> hit])
    /\ UNCHANGED <<pods, look, logSteps>>

\* handle: end, of a resource that is gone or for another reason
StreamGone ==
    /\ stream.st = "up"
    /\ stream' = [stream EXCEPT !.st = "over"]
    /\ buffer' = IF buffer.lines = <<>> THEN buffer ELSE AppendMarker(buffer)
    /\ feed' = [feed EXCEPT !.replacing = FALSE, !.status = "ended", !.end = "not_found"]
    /\ UNCHANGED <<pods, look, logSteps>>

StreamEnded(how) ==
    /\ stream.st = "up"
    /\ stream' = [stream EXCEPT !.st = "over"]
    /\ buffer' = ReplaceOld(feed, buffer)
    /\ feed' = [feed EXCEPT !.replacing = FALSE, !.status = how, !.error = how = "error"]
    /\ UNCHANGED <<pods, look, logSteps>>

\* handle: pods
PodsTold(ps) ==
    /\ stream.st = "up" /\ ps # pods
    /\ pods' = ps
    /\ UNCHANGED <<feed, buffer, stream, look, logSteps>>

\* subscribeLogStream: the connection is lost, and the stream asked for again.
Disconnected ==
    /\ stream.st # "lost" /\ stream.n < MaxStreams
    /\ stream' = [stream EXCEPT !.st = "lost"]
    /\ feed' = [feed EXCEPT !.status = "connecting"]
    /\ UNCHANGED <<buffer, pods, look, logSteps>>

Resubscribed ==
    /\ stream.st = "lost"
    /\ stream' = [n |-> stream.n + 1, st |-> "up", sent |-> 0]
    /\ feed' = Restart(feed)
    /\ UNCHANGED <<buffer, pods, look, logSteps>>

---------------------------------------------------------------------------
(* The viewer.                                                             *)
Look == logSteps < MaxLogSteps /\ logSteps' = logSteps + 1

\* Another container, tail or instance: useLogFeed makes a new feed.
ChangeStream ==
    /\ Look /\ stream.n < MaxStreams
    /\ feed' = Restart(NewFeed)
    /\ buffer' = Clear(buffer)
    /\ stream' = [n |-> stream.n + 1, st |-> "up", sent |-> 0]
    /\ UNCHANGED <<pods, look>>

\* What is in view: the lines up to the pause, of the levels and pods chosen,
\* and with filterMode only those that match.
InView(line) ==
    /\ look.paused = -1 \/ line.id <= look.paused
    /\ look.levels = None \/ line.level \in look.levels
    /\ look.podFilter = None \/ line.pod = "" \/ line.pod \in look.podFilter
    /\ look.only /\ look.query => line.hit
Rows == SelectSeq(buffer.lines, InView)
Matches == IF look.query THEN SelectSeq(Rows, LAMBDA l : l.hit) ELSE <<>>
Panel ==
    CASE feed.status = "connecting" /\ buffer.lines = <<>> -> "loading"
      [] Rows # <<>> -> "rows"
      [] buffer.lines = <<>> -> "no logs"
      [] OTHER -> "no match"

Set(v) == Look /\ look' = v /\ UNCHANGED <<feed, buffer, stream, pods>>

Detached == [look EXCEPT !.follow = FALSE, !.detached = Len(buffer.lines)]
ScrollUp == look.follow /\ Set(Detached)
JumpToLatest == Set([look EXCEPT !.paused = -1, !.follow = TRUE])
TogglePause ==
    IF look.paused # -1 THEN JumpToLatest
    ELSE Set([look EXCEPT !.follow = FALSE,
                !.paused = IF buffer.lines = <<>> THEN 0 ELSE Last(buffer.lines).id])

ToggleLevel(l) ==
    LET s == IF look.levels = None THEN {l}
             ELSE IF l \in look.levels THEN look.levels \ {l} ELSE look.levels \cup {l}
    IN Set([look EXCEPT !.levels = IF s = {} THEN None ELSE s])

\* activePods, togglePod: a choice of as many pods as there are is all.
ActivePods == IF look.podFilter = None THEN pods ELSE look.podFilter
TogglePod(p) ==
    LET s == IF p \in ActivePods THEN ActivePods \ {p} ELSE ActivePods \cup {p}
    IN Set([look EXCEPT !.podFilter = IF Cardinality(s) = Cardinality(pods) THEN None ELSE s])

EditQuery == Set([look EXCEPT !.query = ~@, !.active = 0])
ToggleFilterMode == Set([look EXCEPT !.only = ~@, !.active = 0])

\* gotoMatch: from the last match, then around.
GotoMatch(dir) ==
    LET at == SelectInSeq(Matches, LAMBDA l : l.id = look.active)
        n == Len(Matches)
        next == IF at = 0 THEN n ELSE ((at - 1 + dir + n) % n) + 1
    IN /\ Matches # <<>>
       /\ Set([Detached EXCEPT !.active = Matches[next].id])

LogNext ==
    \/ Connected \/ StreamGone \/ Disconnected \/ Resubscribed \/ ChangeStream
    \/ \E how \in {"ended", "error"} : StreamEnded(how)
    \/ \E seq \in 1 .. MaxBatches, p \in LogPods, l \in LogLevels, hit \in BOOLEAN :
          Batch(seq, p, l, hit)
    \/ \E ps \in SUBSET LogPods : PodsTold(ps)
    \/ ScrollUp \/ JumpToLatest \/ TogglePause \/ EditQuery \/ ToggleFilterMode
    \/ \E l \in LogLevels : ToggleLevel(l)
    \/ \E p \in pods : TogglePod(p)
    \/ \E dir \in {-1, 1} : GotoMatch(dir)

LogSpec == LogInit /\ [][LogNext]_logVars

---------------------------------------------------------------------------
(* The lines of the running stream stand in the order they were sent, each *)
(* once, and never behind lines of an earlier stream, whatever batches     *)
(* came twice and however often the feed was restarted, ended or trimmed   *)
(* (handle, replaceOld); and the counts on the level chips are those of    *)
(* the lines kept (append).                                                *)
LinesOfOneStream ==
    /\ \A i, j \in DOMAIN buffer.lines :
          i < j /\ buffer.lines[j].of = stream.n =>
             /\ buffer.lines[i].of = stream.n
             /\ buffer.lines[i].seq < buffer.lines[j].seq
    /\ buffer.counts = CountsOf(buffer.lines)

(* Both: a session on screen is the one the user opened: no line, key or    *)
(* shell of the one before it.                                              *)
SessionsAreTheirs == OneSocketPerTerminal /\ LinesOfOneStream
=============================================================================
