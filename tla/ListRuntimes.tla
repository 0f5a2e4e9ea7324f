---------------------------- MODULE ListRuntimes ----------------------------
(***************************************************************************)
(* The list subscriptions of the user interface                            *)
(* (frontend/src/store/realtimeSlice.ts): which lists are subscribed, how  *)
(* their rows reach the tabs and split panes that show them, and what a    *)
(* tab says about its list (loading, received, failed).                    *)
(*                                                                         *)
(* One runtime is active (the list on screen); the lists of tabs that were *)
(* left stay open, parked, up to a limit that split panes are exempt from. *)
(* A topic is a cluster and a resource.  The rows of a list are            *)
(* represented by the version of the list they are (0 is no rows): how     *)
(* events are applied to rows is the matter of TopicSync.                  *)
(*                                                                         *)
(* A handler runs to its end or to an await, so it is one action.  The     *)
(* operators between Init and the actions map the state x = ui to the one  *)
(* a function of the slice leaves.                                         *)
(***************************************************************************)
EXTENDS Integers, FiniteSets, Sequences, SequencesExt

CONSTANTS
    Clusters, Resources,
    Page,         \* a selected node that is no list (overview, settings...)
    First,        \* the cluster tab on screen at the start
    MaxParked,    \* MAX_PARKED_TOPICS
    MaxRowChanges,   \* bound on the changes of the lists
    MaxFaults,    \* bound on failures of a list and of the connection
    MaxUser       \* bound on what the user does

Topics == Clusters \X Resources
Selectable == Resources \cup {Page}
RtIds == 1 .. Cardinality(Topics) + 1

ASSUME RuntimesAssumption ==
    /\ Page \notin Resources /\ First \in Clusters
    /\ {MaxParked, MaxRowChanges, MaxFaults, MaxUser} \subseteq Nat

VARIABLES
    ui,      \* runtimes, subscriptions, tabs: the record x below
    ver,     \* topic -> version of the list in the cluster
    timers,  \* startRealtime's burst and retry timers, an effect not run yet
    ready,   \* is the socket open?
    changes, faults, steps

runtimeVars == <<ui, ver, timers, ready, changes, faults, steps>>

NoRt == [t |-> <<>>, items |-> 0, synced |-> FALSE, fail |-> "no",
         pv |-> 0, pend |-> "none", flush |-> FALSE, load |-> FALSE,
         ripe |-> FALSE, old |-> FALSE]
NewTab == [sel |-> Page, other |-> Page, list |-> [r |-> Page, v |-> 0],
           rows |-> [r \in Resources |-> 0], loading |-> FALSE,
           received |-> FALSE, err |-> FALSE]

RuntimesInit ==
    /\ ui = [rts |-> [i \in RtIds |-> NoRt], act |-> 0, parked |-> <<>>,
             hand |-> [t \in Topics |-> {}], owed |-> {}, fed |-> {},
             live |-> {}, cur |-> First, tabs |-> [c \in Clusters |-> NewTab]]
    /\ ver = [t \in Topics |-> 1]
    /\ timers = [burst |-> "no", retry |-> "no", due |-> FALSE]
    /\ ready = TRUE
    /\ changes = 0
    /\ faults = 0
    /\ steps = 0

---------------------------------------------------------------------------
(* What is shown.                                                          *)
Tab(x) == x.tabs[x.cur]
ShownTopic(x) == <<x.cur, Tab(x).sel>>
IsList(x) == Tab(x).sel # Page

\* paneTabsShowing: the lists a cluster tab split in two shows.
Panes(tab) == IF tab.other = Page THEN {} ELSE {tab.sel, tab.other} \ {Page}
InPane(x, t) == t[1] = x.cur /\ t[2] \in Panes(Tab(x))
InAnyPane(x, t) == t[2] \in Panes(x.tabs[t[1]])

\* liveItemsFor: the open runtime of a topic that has its list, 0 if there is
\* none.
LiveRt(x, t) ==
    LET is == {i \in RtIds : /\ x.rts[i].t = t /\ x.rts[i].synced
                             /\ i = x.act \/ i \in ToSet(x.parked)}
    IN IF is = {} THEN 0 ELSE CHOOSE i \in is : TRUE

PatchTab(x, tab) == [x EXCEPT !.tabs[x.cur] = tab]

\* commitList: the tab's list and every list tab of the same resource.
CommitList(x, v) ==
    PatchTab(x, [Tab(x) EXCEPT !.list = [r |-> Tab(x).sel, v |-> v],
                               !.rows[Tab(x).sel] = v])

\* writePaneTabs
WritePane(x, i) ==
    [x EXCEPT !.tabs[x.rts[i].t[1]].rows[x.rts[i].t[2]] = x.rts[i].items]

---------------------------------------------------------------------------
(* Runtimes.                                                               *)
SubscribePane(x, i) ==
    LET t == x.rts[i].t IN
    [x EXCEPT !.hand[t] = @ \cup {i}, !.owed = @ \cup {t}]

\* closeRuntime: the last handler of a topic unsubscribes it.
CloseRuntime(x, i) ==
    LET t == x.rts[i].t
        last == x.hand[t] \ {i} = {}
    IN [x EXCEPT !.rts[i] = NoRt, !.hand[t] = @ \ {i},
                 !.owed = IF last THEN @ \ {t} ELSE @,
                 !.fed = IF last THEN @ \ {t} ELSE @]

CloseAll(x, is) ==
    FoldSet(LAMBDA i, y : CloseRuntime(y, i), x, is)

\* createRuntime, with the load timer its callers arm, subscribed
FreeId(x) == CHOOSE i \in RtIds : x.rts[i] = NoRt /\ i # x.act

CreateRuntime(x, t, v) ==
    [x EXCEPT !.rts[FreeId(x)] = [NoRt EXCEPT !.t = t, !.items = v, !.load = TRUE],
              !.live = @ \ {t}]

\* parkActive: the oldest parked runtimes over the limit that no split pane
\* shows are closed.
Surplus(x) == Len(x.parked) - MaxParked
Evictable(x) == SelectSeq(x.parked, LAMBDA i : ~InAnyPane(x, x.rts[i].t))
Evicted(x) ==
    IF Surplus(x) <= 0 THEN {}
    ELSE LET q == Evictable(x)
         IN {q[n] : n \in 1 .. IF Surplus(x) < Len(q) THEN Surplus(x) ELSE Len(q)}

Unpark(q, is) == SelectSeq(q, LAMBDA i : i \notin is)

ParkActive(x) ==
    LET i == x.act
        y == [x EXCEPT !.act = 0]
        t == x.rts[i].t
    IN IF i = 0 THEN y
       ELSE IF x.hand[t] = {} THEN CloseRuntime(y, i)
       ELSE LET same == {j \in ToSet(x.parked) : x.rts[j].t = t}
                z == [CloseAll(y, same) EXCEPT
                        !.parked = Append(Unpark(@, same), i)]
                gone == Evicted(z)
            IN [CloseAll(z, gone) EXCEPT !.parked = Unpark(@, gone)]

\* ensurePaneSubscriptions
EnsurePane(x, t) ==
    LET ours == {i \in ToSet(x.parked) : x.rts[i].t = t}
        i == CHOOSE j \in ours : TRUE
        y == [CloseAll(x, ours) EXCEPT !.parked = Unpark(@, ours)]
        new == FreeId(y)
    IN IF x.act # 0 /\ x.rts[x.act].t = t THEN x
       ELSE IF ours # {} /\ x.hand[t] # {}
            THEN IF x.rts[i].synced THEN WritePane(x, i) ELSE x
            ELSE SubscribePane([CreateRuntime(y, t, Tab(x).rows[t[2]])
                               EXCEPT !.parked = Append(@, new)], new)

EnsurePaneSubscriptions(x) ==
    FoldSet(LAMBDA r, y : EnsurePane(y, <<x.cur, r>>), x, Panes(Tab(x)))

\* startShownList when the list is subscribed already: the rows on screen
\* become the subscription's, and one without its list is asked for again.
RefreshShown(x, force) ==
    LET i == x.act
        y == IF force /\ ~x.rts[i].synced THEN SubscribePane(x, i) ELSE x
    IN IF x.rts[i].synced THEN CommitList(y, x.rts[i].items) ELSE y

\* ... when it is parked and has its list
ResumeSynced(x, i) ==
    LET y == CommitList([x EXCEPT !.act = i], x.rts[i].items)
    IN PatchTab(y, [Tab(y) EXCEPT !.loading = FALSE, !.received = TRUE,
                                  !.err = x.rts[i].fail # "no"])

\* ... when it has to wait for its list: rows that are there stay, as rows
\* still loading.
Kept(x) ==
    LET tab == Tab(x) IN
    IF tab.list.v # 0 THEN tab.list ELSE [r |-> tab.sel, v |-> tab.rows[tab.sel]]

Loading(x) ==
    PatchTab(x, [Tab(x) EXCEPT !.loading = TRUE, !.received = FALSE,
                               !.err = FALSE, !.list = Kept(x)])

ResumeWaiting(x, i) ==
    LET y == Loading([x EXCEPT !.act = i])
    IN IF x.rts[i].fail # "no"
       THEN PatchTab(y, [Tab(y) EXCEPT !.loading = FALSE, !.err = TRUE])
       ELSE [y EXCEPT !.rts[i].load = TRUE]

StartNew(x) ==
    LET y == CreateRuntime(Loading(x), ShownTopic(x), Kept(x).v)
    IN SubscribePane([y EXCEPT !.act = FreeId(x)], FreeId(x))

StartParked(x) ==
    LET ours == {i \in ToSet(x.parked) : x.rts[i].t = ShownTopic(x)}
        i == CHOOSE j \in ours : TRUE
        y == [x EXCEPT !.parked = Unpark(@, ours)]
    IN IF ours = {} THEN StartNew(y)
       ELSE IF x.hand[ShownTopic(x)] # {} /\ x.rts[i].synced THEN ResumeSynced(y, i)
       ELSE IF x.hand[ShownTopic(x)] # {} /\ ~x.rts[i].old THEN ResumeWaiting(y, i)
       ELSE StartNew(CloseRuntime(y, i))

StartShownList(x, force) ==
    IF ~IsList(x) THEN x
    ELSE IF x.act # 0 /\ x.rts[x.act].t = ShownTopic(x)
            /\ x.hand[ShownTopic(x)] # {}
         THEN RefreshShown(x, force)
         ELSE StartParked(ParkActive(x))

\* releaseRealtimeTopics
Release(x, ts) ==
    LET is == {i \in ToSet(x.parked) \cup {x.act} : i # 0 /\ x.rts[i].t \in ts}
    IN [CloseAll(x, is) EXCEPT !.act = IF x.act \in is THEN 0 ELSE x.act,
                               !.parked = Unpark(@, is)]

\* stopRealtime: a parked list a pane on screen shows stays, and is asked for
\* again.
StopRealtime(x) ==
    LET keep == {i \in ToSet(x.parked) : InPane(x, x.rts[i].t)}
        gone == (ToSet(x.parked) \cup {x.act}) \ (keep \cup {0})
        y == FoldSet(LAMBDA i, z : SubscribePane(z, i), x, keep)
    IN [CloseAll(y, gone) EXCEPT !.act = 0, !.parked = Unpark(@, gone)]

---------------------------------------------------------------------------
(* startRealtime: at once, and once more at the end of a burst of calls.   *)
(* While the socket is down, _startRealtimeInternal tries again later.     *)
StartInternal(x, tm, force) ==
    IF ready
    THEN /\ ui' = EnsurePaneSubscriptions(StartShownList(x, force))
         /\ timers' = tm
    ELSE /\ ui' = x
         /\ timers' = [tm EXCEPT !.retry = IF force THEN "forced" ELSE "plain"]

\* (mutation of StartRealtime: calls within a burst are dropped)
StartRealtimeOnce(x, tm, force) ==
    IF tm.burst = "no" THEN StartInternal(x, [tm EXCEPT !.burst = "first"], force)
    ELSE ui' = x /\ timers' = tm

StartRealtime(x, tm, force) ==
    IF tm.burst = "no" THEN StartInternal(x, [tm EXCEPT !.burst = "first"], force)
    ELSE ui' = x /\ timers' = [tm EXCEPT !.burst = "again"]

Ripened(x) ==
    [x EXCEPT !.rts = [i \in RtIds |-> [x.rts[i] EXCEPT !.ripe = x.rts[i].load]]]

BurstTimer ==
    /\ timers.burst # "no"
    /\ IF timers.burst = "again"
       THEN StartInternal(Ripened(ui), [timers EXCEPT !.burst = "no"], FALSE)
       ELSE ui' = Ripened(ui) /\ timers' = [timers EXCEPT !.burst = "no"]
    /\ UNCHANGED <<ver, ready, changes, faults, steps>>

PaneRetryTimer ==
    /\ timers.retry # "no"
    /\ StartInternal(ui, [timers EXCEPT !.retry = "no"], timers.retry = "forced")
    /\ UNCHANGED <<ver, ready, changes, faults, steps>>

\* The effect of ResourceList that starts the list of a node or tab selected.
Effect ==
    /\ timers.due
    /\ IF IsList(ui) THEN StartRealtime(ui, [timers EXCEPT !.due = FALSE], FALSE)
       ELSE ui' = ui /\ timers' = [timers EXCEPT !.due = FALSE]
    /\ UNCHANGED <<ver, ready, changes, faults, steps>>

---------------------------------------------------------------------------
(* What the user does.  React runs the effects of an input before the next *)
(* one, and no third input comes within the 50 ms of a burst whose second  *)
(* start is set.  list is the tab's list as loadListItems and withLiveItems leave   *)
(* it: the rows of an open subscription, or none.                          *)
Do ==
    /\ steps < MaxUser /\ ~timers.due /\ timers.burst # "again"
    /\ steps' = steps + 1
    /\ UNCHANGED <<ver, ready, changes, faults>>

ShowLive(x) ==
    LET i == LiveRt(x, ShownTopic(x)) IN
    IF i # 0
    THEN PatchTab(CommitList(x, x.rts[i].items),
                  [Tab(CommitList(x, x.rts[i].items)) EXCEPT
                      !.loading = FALSE, !.received = TRUE, !.err = FALSE])
    ELSE PatchTab(x, [Tab(x) EXCEPT !.list = [r |-> Tab(x).sel, v |-> 0],
                                    !.received = FALSE])

Select(x, r) == PatchTab(x, [Tab(x) EXCEPT !.sel = r])

\* A list opened in the focused pane: openResourceListTab, selectNode,
\* loadListItems.
OpenList(r) ==
    /\ r # Tab(ui).sel /\ r # Tab(ui).other
    /\ Do
    /\ ui' = IF r = Page THEN Select(ui, r) ELSE ShowLive(Select(ui, r))
    /\ timers' = [timers EXCEPT !.due = TRUE]

\* handleSplitAndOpenResource: a list opened in a new pane beside the one on
\* screen, which keeps its own.
SplitPane(r) ==
    /\ Tab(ui).other = Page /\ r # Tab(ui).sel /\ IsList(ui)
    /\ Do
    /\ ui' = ShowLive(PatchTab(ui, [Tab(ui) EXCEPT !.sel = r, !.other = Tab(ui).sel]))
    /\ timers' = [timers EXCEPT !.due = TRUE]

\* setActiveResourceListTabForPane: the other pane gets the focus.  The tab's
\* list stays until startRealtime, unless the pane's own is live.
FocusPane ==
    /\ Tab(ui).other # Page
    /\ Do
    /\ LET x == PatchTab(ui, [Tab(ui) EXCEPT !.sel = Tab(ui).other,
                                             !.other = Tab(ui).sel])
           i == LiveRt(x, ShownTopic(x))
           tab == [Tab(x) EXCEPT !.rows[Tab(x).sel] = x.rts[i].items,
                                 !.loading = FALSE, !.received = TRUE, !.err = FALSE]
       IN StartRealtime(IF i # 0 THEN PatchTab(x, tab) ELSE x,
                        [timers EXCEPT !.due = TRUE], TRUE)

\* closeResourceListTab of the other pane's list
ClosePane ==
    /\ Tab(ui).other # Page
    /\ Do
    /\ ui' = Release(PatchTab(ui, [Tab(ui) EXCEPT !.other = Page,
                                      !.rows[Tab(ui).other] = 0]),
                     {<<ui.cur, Tab(ui).other>>})
    /\ UNCHANGED timers

\* setCurrentTab: parkRealtime drops the start timers too.
SwitchTab(c) ==
    /\ c # ui.cur
    /\ Do
    /\ StartRealtime([ParkActive(ui) EXCEPT !.cur = c],
                     [burst |-> "no", retry |-> "no", due |-> TRUE], FALSE)

\* closeTab of a cluster tab in the background, which may be opened again
CloseTab(c) ==
    /\ c # ui.cur /\ ui.tabs[c] # NewTab
    /\ Do
    /\ ui' = [Release(ui, {t \in Topics : t[1] = c}) EXCEPT !.tabs[c] = NewTab]
    /\ UNCHANGED timers

\* reloadListItems
Reload ==
    /\ IsList(ui)
    /\ Do
    /\ LET x == Release(ui, {ShownTopic(ui)})
           tab == [Tab(x) EXCEPT !.list = [r |-> Tab(x).sel, v |-> 0],
                                 !.rows[Tab(x).sel] = 0, !.loading = TRUE,
                                 !.received = FALSE, !.err = FALSE]
       IN StartRealtime(PatchTab(x, tab), timers, TRUE)

\* retryList of a pane that is not the focused one
RetryPane ==
    /\ Tab(ui).other # Page
    /\ Do
    /\ StartRealtime(Release(ui, {<<ui.cur, Tab(ui).other>>}), timers, TRUE)

---------------------------------------------------------------------------
(* The backend and the connection.                                         *)
\* onEvent: what arrives waits for the next flush.  A sync ends the wait the
\* load timer guards.
Arrives(x, t, what, v) ==
    [x EXCEPT !.rts = [i \in RtIds |->
        IF i \notin x.hand[t] THEN x.rts[i]
        ELSE [x.rts[i] EXCEPT !.pv = v, !.flush = TRUE,
                !.pend = IF what = "change" /\ @ # "none" THEN @ ELSE what,
                !.load = @ /\ what = "change",
                !.ripe = @ /\ what = "change"]]]

Server(x) == ui' = x /\ UNCHANGED <<timers, ready, steps>>

Answer(t) ==
    /\ ready /\ t \in ui.owed
    /\ Server([Arrives(ui, t, "sync", ver[t]) EXCEPT !.owed = @ \ {t},
                                                     !.fed = @ \cup {t}])
    /\ UNCHANGED <<ver, changes, faults>>

AnswerFailed(t) ==
    /\ ready /\ t \in ui.owed /\ faults < MaxFaults
    /\ faults' = faults + 1
    /\ Server(Arrives(ui, t, "failed", 0))
    /\ UNCHANGED <<ver, changes>>

Change(t) ==
    /\ changes < MaxRowChanges
    /\ changes' = changes + 1
    /\ ver' = [ver EXCEPT ![t] = @ + 1]
    /\ Server(IF t \in ui.fed THEN Arrives(ui, t, "change", ver'[t]) ELSE ui)
    /\ UNCHANGED faults

\* onTopicStatus, failing: the backend lists again later.
PatchShown(x, i, patch) ==
    IF i = x.act /\ IsList(x) /\ x.rts[i].t = ShownTopic(x) THEN PatchTab(x, patch)
    ELSE x

MarkFailing(x, i, why) ==
    [x EXCEPT !.rts[i].fail = why, !.rts[i].load = FALSE,
              !.rts[i].ripe = FALSE, !.live = @ \ {x.rts[i].t}]

StatusFailing(t) ==
    /\ ready /\ t \in ui.fed /\ faults < MaxFaults
    /\ faults' = faults + 1
    /\ LET x == FoldSet(LAMBDA i, y : PatchShown(MarkFailing(y, i, "reported"), i,
                           [Tab(y) EXCEPT !.loading = FALSE, !.err = TRUE]),
                        ui, ui.hand[t])
       IN Server([x EXCEPT !.owed = @ \cup {t}, !.fed = @ \ {t}])
    /\ UNCHANGED <<ver, changes>>

\* The load timer, after LOAD_TIMEOUT_MS: never in the burst that armed it.
LoadTimeout(i) ==
    /\ ui.rts[i].load /\ (ui.rts[i].ripe \/ timers.burst = "no")
    /\ LET rt == ui.rts[i]
           x == [ui EXCEPT !.rts[i].load = FALSE, !.rts[i].ripe = FALSE,
                         !.rts[i].old = TRUE]
           y == IF i = x.act /\ Tab(x).loading /\ ~Tab(x).received
                THEN PatchTab(x, [Tab(x) EXCEPT !.loading = FALSE, !.err = TRUE])
                ELSE x
       IN Server(IF ~rt.synced /\ rt.fail = "no" THEN MarkFailing(y, i, "timeout")
                 ELSE y)
    /\ UNCHANGED <<ver, changes, faults>>

\* processBatch: on screen the rows and flags of the tab follow, off screen
\* the panes that show the list.
Applied(rt) ==
    [rt EXCEPT !.items = IF rt.pend = "failed" THEN @ ELSE rt.pv,
               !.synced = @ \/ rt.pend = "sync",
               !.fail = CASE rt.pend = "sync" -> "no"
                          [] rt.pend = "failed" -> "reported"
                          [] OTHER -> @,
               !.load = IF rt.pend = "failed" THEN FALSE ELSE @,
               !.pv = 0, !.pend = "none", !.flush = FALSE]

OnScreen(x, i) == i = x.act /\ IsList(x) /\ x.rts[i].t = ShownTopic(x)

ProcessEvents(i) ==
    /\ ui.rts[i].flush
    /\ LET what == ui.rts[i].pend
           t == ui.rts[i].t
           x == [ui EXCEPT !.rts[i] = Applied(@),
                           !.live = CASE what = "sync" -> @ \cup {t}
                                      [] what = "failed" -> @ \ {t}
                                      [] OTHER -> @]
           y == CommitList(x, x.rts[i].items)
           tab == [Tab(y) EXCEPT
                     !.loading = IF what = "change" THEN @ ELSE FALSE,
                     !.received = IF what = "sync" THEN TRUE ELSE @,
                     !.err = IF what = "change" THEN @ ELSE what = "failed"]
       IN Server(IF OnScreen(x, i) THEN PatchTab(y, tab)
                 ELSE IF InPane(x, t) THEN WritePane(x, i) ELSE x)
    /\ UNCHANGED <<ver, changes, faults>>

Disconnect ==
    /\ ready /\ faults < MaxFaults
    /\ faults' = faults + 1
    /\ ready' = FALSE
    /\ ui' = [ui EXCEPT !.owed = {}, !.fed = {}]
    /\ UNCHANGED <<ver, timers, changes, steps>>

\* connection:restored (Layout), then resubscribeAllTopics
Resubscribed(x) == [x EXCEPT !.owed = {t \in Topics : x.hand[t] # {}}]
Reconnect ==
    /\ ~ready
    /\ ready' = TRUE
    /\ LET x == Resubscribed(StopRealtime(ui))
           started == EnsurePaneSubscriptions(StartShownList(x, TRUE))
       IN IF ~IsList(ui)
          THEN ui' = Resubscribed(ui) /\ UNCHANGED timers
          ELSE IF timers.burst = "no"
               THEN /\ ui' = Resubscribed(started)
                    /\ timers' = [timers EXCEPT !.burst = "first", !.retry = "no"]
               ELSE /\ ui' = x
                    /\ timers' = [timers EXCEPT !.burst = "again", !.retry = "no"]
    /\ UNCHANGED <<ver, changes, faults, steps>>

---------------------------------------------------------------------------
RuntimesNext ==
    \/ BurstTimer \/ PaneRetryTimer \/ Effect
    \/ FocusPane \/ ClosePane \/ Reload \/ RetryPane
    \/ \E r \in Selectable : OpenList(r)
    \/ \E r \in Resources : SplitPane(r)
    \/ \E c \in Clusters : SwitchTab(c) \/ CloseTab(c)
    \/ \E t \in Topics : Answer(t) \/ AnswerFailed(t) \/ Change(t) \/ StatusFailing(t)
    \/ \E i \in RtIds : LoadTimeout(i) \/ ProcessEvents(i)
    \/ Disconnect \/ Reconnect

RuntimesSpec == RuntimesInit /\ [][RuntimesNext]_runtimeVars

---------------------------------------------------------------------------
(* No start of the list on screen, and no timer of one, is pending.        *)
Started == timers = [burst |-> "no", retry |-> "no", due |-> FALSE] /\ ready

(* Once the starts have run, the list on screen has an open subscription,  *)
(* and so has every list a pane beside it shows, whatever tabs, bursts,    *)
(* evictions and reconnects came before (startRealtime, parkActive,        *)
(* ensurePaneSubscriptions).                                               *)
Subscribed(t) ==
    \E i \in RtIds : /\ ui.rts[i].t = t /\ i \in ui.hand[t]
                     /\ i = ui.act \/ i \in ToSet(ui.parked)
ShownIsSubscribed ==
    Started => /\ IsList(ui) => ui.act # 0 /\ ui.rts[ui.act].t = ShownTopic(ui)
                                /\ Subscribed(ShownTopic(ui))
               /\ \A r \in Panes(Tab(ui)) : Subscribed(<<ui.cur, r>>)

(* A list presented as live is current: once nothing of it waits, the rows *)
(* of the tab, and of each pane, are those of the cluster (processBatch,   *)
(* ResumeSynced, writePaneTabs).                                           *)
Caught(t) ==
    /\ t \in ui.fed /\ t \notin ui.owed
    /\ \A i \in ui.hand[t] : ~ui.rts[i].flush
LiveIsCurrent ==
    Started =>
        /\ IsList(ui) /\ Tab(ui).received /\ Caught(ShownTopic(ui))
              => Tab(ui).list = [r |-> Tab(ui).sel, v |-> ver[ShownTopic(ui)]]
        /\ \A r \in Panes(Tab(ui)) : Caught(<<ui.cur, r>>) /\ <<ui.cur, r>> \in ui.live
              => Tab(ui).rows[r] = ver[<<ui.cur, r>>]

(* A list shown as loading has a timer, an answer or a start that will end *)
(* it (armLoadTimer, the resume of a parked list that still waits), or the *)
(* report of its failure, which the backend repeats.                       *)
LoadingEnds ==
    Started /\ IsList(ui) /\ Tab(ui).loading =>
        /\ ui.act # 0
        /\ \/ ui.rts[ui.act].load \/ ui.rts[ui.act].flush
           \/ ui.rts[ui.act].fail = "reported"

(* Every open subscription belongs to the active or a parked runtime, and  *)
(* a topic has one: none is left behind that nobody will close             *)
(* (parkActive, startShownList, releaseRealtimeTopics).                    *)
NoLeakedRuntime ==
    /\ \A i \in RtIds : ui.rts[i] # NoRt => i = ui.act \/ i \in ToSet(ui.parked)
    /\ \A i, j \in RtIds : ui.rts[i] # NoRt /\ ui.rts[i].t = ui.rts[j].t => i = j

(* All four: the lists on screen are subscribed, current and answered for, *)
(* and no subscription is left behind (realtimeSlice.ts).                  *)
ListsStayLive == ShownIsSubscribed /\ LiveIsCurrent /\ LoadingEnds /\ NoLeakedRuntime
=============================================================================
