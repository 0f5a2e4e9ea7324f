----------------------------- MODULE Dashboards -----------------------------
(***************************************************************************)
(* The overview of a cluster, streamed over the socket (components/        *)
(* ClusterDashboard.tsx, dashboardFreshness.ts), its cost page, polled     *)
(* over HTTP (components/finops/), and the cost tab of one resource.       *)
(*                                                                         *)
(* A value is the number of the update or stream it came with; nothing     *)
(* else about it is kept.                                                  *)
(***************************************************************************)
EXTENDS Integers, FiniteSets, Sequences, FiniteSetsExt

CONSTANTS
    DashClusters,     \* clusters whose tabs are open
    DashSections,     \* DASHBOARD_SECTIONS; "events" among them
    MaxUpdates,       \* bound on the updates the server sends
    MaxMounts,        \* bound on the tabs switched to
    HELD_MAX,         \* clusters whose costs are held
    PRICING_POLL_LIMIT,
    CostNamespaces,   \* records [ns, workloads], workloads a set of [name, eff]
    MaxStreamed,      \* bound on the cost streams started
    MaxCostSteps      \* bound on what the user does on the cost page

VARIABLES
    overview,   \* the mounted overview: c, data, fresh, seq, filter
    boards,     \* clusterDashboardCache: what was published, by cluster
    tabBoards,  \* dashboardData of every tab's state
    serverRead, \* per cluster: the last metrics of the server's handler
    updates, mounts

overVars == <<overview, boards, tabBoards, serverRead, updates, mounts>>

---------------------------------------------------------------------------
(* The overview.  A section holds the update it was read for, 0: none.     *)
FRESH_DASHBOARD == [stale |-> FALSE, error |-> FALSE, asOf |-> 0, sections |-> {}]
NoData == [s \in DashSections |-> 0]
NoBoard == [data |-> NoData, fresh |-> FRESH_DASHBOARD, held |-> FALSE]

CachedBoard(c) == IF boards[c].held THEN boards[c] ELSE tabBoards[c]
HasCounts(data) == data["resourceCounts"] # 0

InitialOverview(c) ==
    [c |-> c, data |-> CachedBoard(c).data, fresh |-> CachedBoard(c).fresh,
     seq |-> 0, loading |-> ~CachedBoard(c).held, filter |-> "all"]

OverviewInit ==
    /\ boards = [c \in DashClusters |-> NoBoard]
    /\ tabBoards = [c \in DashClusters |-> NoBoard]
    /\ serverRead = [c \in DashClusters |-> [s \in DashSections |-> [at |-> 0, full |-> FALSE]]]
    /\ \E c \in DashClusters :
          overview = [c |-> c, data |-> NoData, fresh |-> FRESH_DASHBOARD,
                      seq |-> 0, loading |-> TRUE, filter |-> "all"]
    /\ updates = 0 /\ mounts = 0

\* The view of a tab is mounted anew, and its stream started.
ShowOverview(c) ==
    /\ mounts < MaxMounts /\ mounts' = mounts + 1
    /\ c # overview.c
    /\ overview' = InitialOverview(c)
    /\ UNCHANGED <<boards, tabBoards, serverRead, updates>>

\* A cluster's tab is closed and opened again: only the module's cache is left.
ReopenOverview ==
    /\ mounts < MaxMounts /\ mounts' = mounts + 1
    /\ tabBoards' = [tabBoards EXCEPT ![overview.c] = NoBoard]
    /\ overview' = InitialOverview(overview.c)
    /\ UNCHANGED <<boards, serverRead, updates>>

\* (mutation of NextDashboardFreshness: carried sections stamped as current)
FreshnessNow(prev, n, stale, since) ==
    IF stale # {} THEN [stale |-> TRUE, error |-> FALSE, asOf |-> n, sections |-> stale]
    ELSE [stale |-> FALSE, error |-> FALSE, asOf |-> n, sections |-> {}]

NextDashboardFreshness(prev, n, stale, since) ==
    IF stale # {}
    THEN [stale |-> TRUE, error |-> FALSE, asOf |-> IF since > 0 THEN since ELSE prev.asOf,
          sections |-> stale]
    ELSE [stale |-> FALSE, error |-> FALSE, asOf |-> n, sections |-> {}]

ErrorFreshness(prev) ==
    [stale |-> TRUE, error |-> TRUE, asOf |-> prev.asOf, sections |-> DashSections]

\* The effect keyed on the message counter: the module's cache, then the tab.
Published(o) ==
    LET board == [data |-> o.data, fresh |-> o.fresh, held |-> TRUE]
    IN /\ boards' = [boards EXCEPT ![o.c] = board]
       /\ tabBoards' = [tabBoards EXCEPT ![o.c] = board]

\* What the server could not read it carries over from its last update and
\* names as stale (dashboard_handler.go); the events it reads may be none.
Metrics(c, read, quiet) ==
    [s \in DashSections |-> IF s \in read
        THEN [at |-> updates + 1, full |-> ~(s = "events" /\ quiet)]
        ELSE serverRead[c][s]]

\* handleDashboardUpdate, of a message with data: what it lacks, and events it
\* has none of, keep what is shown.
DashboardUpdate(read, quiet) ==
    LET c == overview.c
        m == Metrics(c, read, quiet)
        stale == {s \in DashSections \ read : m[s].at # 0}
        since == IF stale = {} THEN 0 ELSE Min({m[s].at : s \in stale})
        data == [s \in DashSections |-> IF m[s].full THEN m[s].at ELSE overview.data[s]]
        counted == HasCounts(data)
        o == [overview EXCEPT !.data = data, !.loading = FALSE,
                !.fresh = NextDashboardFreshness(overview.fresh, updates + 1, stale, since),
                !.seq = IF m["resourceCounts"].full THEN @ + 1 ELSE @]
    IN /\ updates < MaxUpdates /\ updates' = updates + 1
       /\ "resourceCounts" \in read \/ counted
       /\ serverRead' = [serverRead EXCEPT ![c] = m]
       /\ overview' = o
       /\ IF o.seq # overview.seq THEN Published(o) ELSE UNCHANGED <<boards, tabBoards>>
       /\ UNCHANGED mounts

\* A message with an error: the cluster could not be read at all.
DashboardError ==
    LET o == [overview EXCEPT !.fresh = ErrorFreshness(@), !.loading = FALSE, !.seq = @ + 1]
    IN /\ updates < MaxUpdates /\ updates' = updates + 1
       /\ overview' = o /\ Published(o)
       /\ UNCHANGED <<serverRead, mounts>>

OverviewView == IF overview.loading /\ ~tabBoards[overview.c].held THEN "skeleton" ELSE "board"

SetEventFilter(f) ==
    /\ OverviewView = "board" /\ f # overview.filter
    /\ overview' = [overview EXCEPT !.filter = f]
    /\ UNCHANGED <<boards, tabBoards, serverRead, updates, mounts>>

OverviewNext ==
    \/ \E c \in DashClusters : ShowOverview(c)
    \/ ReopenOverview \/ DashboardError
    \/ \E read \in (SUBSET DashSections) \ {{}}, quiet \in BOOLEAN : DashboardUpdate(read, quiet)
    \/ \E f \in {"all", "warning"} : SetEventFilter(f)

\* What is drawn of a section, and whether it says how old it is.
IsSectionStale(s) == overview.fresh.stale /\ s \in overview.fresh.sections
Drawing(s) == [section |-> s, at |-> overview.data[s], marked |-> IsSectionStale(s)]
MetricCards == {Drawing("resourceCounts")}
AlertList == {Drawing(s) : s \in {s \in DashSections \cap {"criticalAlerts"} : overview.data[s] # 0}}
CapacityPanel == {Drawing(s) : s \in DashSections \cap {"resourceCapacity"}}
StatusPies ==
    {Drawing(s) : s \in {s \in DashSections \cap {"podStatus", "workloadStatus"} : overview.data[s] # 0}}
BoardDrawn ==
    IF OverviewView = "skeleton" THEN {}
    ELSE MetricCards \cup AlertList \cup CapacityPanel \cup StatusPies

---------------------------------------------------------------------------
(* The cost page.  A part of it is the stream it came with and the cluster  *)
(* that stream was for.                                                    *)
VARIABLES
    costs,       \* the page's state and refs
    heldCosts,   \* held: sequence of [c, parts], the latest last
    boardStreams,     \* streamFinOpsDashboard calls under way, aborted ones too
    hiddenPage,  \* document.hidden
    costFilter,  \* FinOpsFilterState, and what is expanded
    streamed, costSteps

costVars == <<costs, heldCosts, boardStreams, hiddenPage, costFilter, streamed, costSteps>>

Parts == {"summary", "nodes", "namespaces"}
NoPart == [of |-> "(none)", n |-> 0]
NoParts == [p \in Parts |-> NoPart]
DEFAULT_FINOPS_FILTERS == [search |-> "", selected |-> {}, flag |-> "none"]
NoFilter == [f |-> DEFAULT_FINOPS_FILTERS, panel |-> FALSE, open |-> {}]

BoardHeldFor(c) == LET at == {i \in 1..Len(heldCosts) : heldCosts[i].c = c}
              IN IF at = {} THEN NoParts ELSE heldCosts[Max(at)].parts

Remember(c, parts) ==
    LET moved == Append(SelectSeq(heldCosts, LAMBDA h : h.c # c), [c |-> c, parts |-> parts])
    IN IF Len(moved) > HELD_MAX THEN Tail(moved) ELSE moved

BoardShown(parts) == parts["summary"] # NoPart

\* load: a hidden window doesn't poll; a new stream aborts the one under way.
LoadCosts(k, refresh) ==
    IF ~refresh /\ hiddenPage
    THEN /\ costs' = [k EXCEPT !.skipped = TRUE, !.timer = FALSE]
         /\ UNCHANGED <<boardStreams, streamed>>
    ELSE /\ streamed < MaxStreamed /\ streamed' = streamed + 1
         /\ costs' = [k EXCEPT !.skipped = FALSE, !.current = streamed + 1, !.timer = FALSE,
                               !.refreshing = IF refresh THEN TRUE ELSE @]
         /\ boardStreams' = boardStreams \cup {[n |-> streamed + 1, c |-> k.c, acc |-> NoParts, failed |-> FALSE]}

\* The effect of a cluster, run after the cleanup of the last one.
MountedCosts(c, held) ==
    [c |-> c, parts |-> held, loading |-> ~BoardShown(held), refreshing |-> BoardShown(held), error |-> FALSE,
     current |-> 0, timer |-> FALSE, skipped |-> FALSE, pricing |-> 0]

CostInit ==
    /\ \E c \in DashClusters :
        /\ costs = [MountedCosts(c, NoParts) EXCEPT !.current = 1]
        /\ boardStreams = {[n |-> 1, c |-> c, acc |-> NoParts, failed |-> FALSE]}
    /\ heldCosts = <<>> /\ hiddenPage = FALSE
    /\ costFilter = NoFilter
    /\ streamed = 1 /\ costSteps = 0

CostStep == costSteps < MaxCostSteps /\ costSteps' = costSteps + 1

OpenCosts(c) ==
    /\ CostStep /\ c # costs.c
    /\ LoadCosts(MountedCosts(c, BoardHeldFor(c)), FALSE)
    /\ costFilter' = NoFilter
    /\ UNCHANGED <<heldCosts, hiddenPage>>

\* "Recalculate now", not while it loads; Retry of the error, at any time
Recalculate ==
    /\ CostStep
    /\ costs.error \/ (~costs.refreshing /\ ~costs.loading)
    /\ LoadCosts(costs, TRUE)
    /\ UNCHANGED <<heldCosts, hiddenPage, costFilter>>

PollTimer ==
    /\ costs.timer
    /\ LoadCosts(costs, FALSE)
    /\ UNCHANGED <<heldCosts, hiddenPage, costFilter, costSteps>>

HideBoards ==
    /\ CostStep /\ ~hiddenPage
    /\ hiddenPage' = TRUE
    /\ UNCHANGED <<costs, heldCosts, boardStreams, costFilter, streamed>>

\* onVisible: the poll that was skipped
ShowBoards ==
    /\ hiddenPage /\ hiddenPage' = FALSE
    /\ IF costs.skipped
       THEN /\ streamed < MaxStreamed /\ streamed' = streamed + 1
            /\ costs' = [costs EXCEPT !.skipped = FALSE, !.current = streamed + 1, !.timer = FALSE]
            /\ boardStreams' = boardStreams \cup
                    {[n |-> streamed + 1, c |-> costs.c, acc |-> NoParts, failed |-> FALSE]}
       ELSE UNCHANGED <<costs, boardStreams, streamed>>
    /\ UNCHANGED <<heldCosts, costFilter, costSteps>>

\* One part of the stream.  "What hasn't streamed in yet keeps the costs
\* already shown."
StreamedPart(st, p) ==
    LET acc == [st.acc EXCEPT ![p] = [of |-> st.c, n |-> st.n]]
        next == [q \in Parts |-> IF acc[q] # NoPart THEN acc[q] ELSE BoardHeldFor(st.c)[q]]
    IN /\ st \in boardStreams /\ st.acc[p] = NoPart
       /\ boardStreams' = (boardStreams \ {st}) \cup {[st EXCEPT !.acc = acc]}
       /\ IF st.n = costs.current /\ acc["summary"] # NoPart
          THEN /\ heldCosts' = Remember(st.c, next)
               /\ costs' = [costs EXCEPT !.parts = next]
          ELSE UNCHANGED <<heldCosts, costs>>
       /\ UNCHANGED <<hiddenPage, costFilter, streamed, costSteps>>

StreamedError(st) ==
    /\ st \in boardStreams /\ ~st.failed /\ st.n = costs.current
    /\ boardStreams' = (boardStreams \ {st}) \cup {[st EXCEPT !.failed = TRUE]}
    /\ UNCHANGED <<costs, heldCosts, hiddenPage, costFilter, streamed, costSteps>>

\* The stream ends or fails; `pending': prices are still missing.  The next
\* poll is timed by the stream that is still the current one.
BoardStreamEnds(st, ok, pending) ==
    LET fast == pending /\ st.acc["summary"] # NoPart
    IN /\ st \in boardStreams
       /\ boardStreams' = boardStreams \ {st}
       /\ costs' = IF st.n # costs.current THEN costs
                   ELSE [costs EXCEPT !.error = ~ok \/ st.failed, !.loading = FALSE,
                            !.refreshing = FALSE, !.timer = TRUE,
                            !.pricing = IF ~fast THEN 0
                                        ELSE IF @ < PRICING_POLL_LIMIT THEN @ + 1 ELSE @]
       /\ UNCHANGED <<heldCosts, hiddenPage, costFilter, streamed, costSteps>>

---------------------------------------------------------------------------
(* The tables of the cost page, filtered.                                  *)
CostView == IF costs.loading /\ ~BoardShown(costs.parts) THEN "skeleton"
            ELSE IF BoardShown(costs.parts) THEN "tables" ELSE "none"

IsFilteredCosts == costFilter.f # DEFAULT_FINOPS_FILTERS

WorkloadPassesFlags(w, f) ==
    CASE f.flag = "over" -> w.eff = "low"
      [] f.flag = "committed" -> w.eff = "high"
      [] OTHER -> TRUE

\* filterNamespaces: a namespace whose own name matches keeps its workloads.
FilteredWorkloads(ns, f) ==
    {w \in ns.workloads : /\ f.search \in {"", ns.ns, w.name}
                          /\ WorkloadPassesFlags(w, f)}
FilterNamespaces(f) ==
    {ns \in CostNamespaces :
        /\ f.selected = {} \/ ns.ns \in f.selected
        /\ f.search \in {"", ns.ns} \/ FilteredWorkloads(ns, f) # {}
        /\ f.flag = "none" \/ FilteredWorkloads(ns, f) # {}}

ListedNamespaces == IF costs.parts["namespaces"] = NoPart THEN {} ELSE FilterNamespaces(costFilter.f)

\* The search box, and the controls of the panel that is folded out.
SetFilter(f) ==
    /\ CostStep /\ CostView = "tables" /\ f # costFilter.f
    /\ f.search = costFilter.f.search => costFilter.panel
    /\ costFilter' = [costFilter EXCEPT !.f = f]
    /\ UNCHANGED <<costs, heldCosts, boardStreams, hiddenPage, streamed>>

TogglePanel ==
    /\ CostStep /\ CostView = "tables"
    /\ costFilter' = [costFilter EXCEPT !.panel = ~@]
    /\ UNCHANGED <<costs, heldCosts, boardStreams, hiddenPage, streamed>>

ResetBoardFilters ==
    /\ CostStep /\ CostView = "tables" /\ IsFilteredCosts
    /\ costFilter' = [costFilter EXCEPT !.f = DEFAULT_FINOPS_FILTERS, !.panel = FALSE]
    /\ UNCHANGED <<costs, heldCosts, boardStreams, hiddenPage, streamed>>

\* A row of the namespace table is expanded; it stays so when it is filtered
\* out and comes back.
ToggleCostRow(ns) ==
    /\ CostStep /\ CostView = "tables" /\ ns \in ListedNamespaces
    /\ costFilter' = [costFilter EXCEPT !.open = IF ns.ns \in @ THEN @ \ {ns.ns} ELSE @ \cup {ns.ns}]
    /\ UNCHANGED <<costs, heldCosts, boardStreams, hiddenPage, streamed>>

CostNext ==
    \/ \E c \in DashClusters : OpenCosts(c)
    \/ Recalculate \/ PollTimer \/ HideBoards \/ ShowBoards \/ TogglePanel \/ ResetBoardFilters
    \/ \E st \in boardStreams : \/ \E p \in Parts : StreamedPart(st, p)
                           \/ StreamedError(st)
                           \/ \E ok, pending \in BOOLEAN : BoardStreamEnds(st, ok, pending)
    \/ \E search \in {""} \cup {ns.ns : ns \in CostNamespaces}, flag \in {"none", "over"} :
          SetFilter([costFilter.f EXCEPT !.search = search, !.flag = flag])
    \/ \E ns \in CostNamespaces : ToggleCostRow(ns)

---------------------------------------------------------------------------
\* "The overview keeps what it shows in both cases and says how old it is"
\* (dashboardFreshness.ts): nothing drawn is older than the time the banner
\* gives, a section without a mark is as new as any other, and a remount or
\* another tab starts from the latest update the cluster's view was sent.
\* (The events are left out: an update with none keeps the old ones unmarked.)
OverviewSaysItsAge ==
    /\ \A b \in BoardDrawn : b.at # 0 => b.at >= overview.fresh.asOf
    /\ \A b, d \in BoardDrawn : ~b.marked /\ b.at # 0 => d.at <= b.at
    /\ boards[overview.c].held =>
          \A s \in DashSections : overview.data[s] >= boards[overview.c].data[s]

\* load and onVisible: the cost page never stops polling. There is a timer, a
\* stream that will set one, or a skipped poll that a window coming into view
\* runs; and the costs shown are the cluster's own, whichever streams of
\* another cluster are still answering.
CostsStayLive ==
    /\ costs.timer \/ costs.skipped \/ \E st \in boardStreams : st.n = costs.current
    /\ costs.skipped => hiddenPage
    /\ \A p \in Parts : costs.parts[p].of \in {costs.c, "(none)"}

\* Both: no board passes for newer than it is, and none stops asking.
DashboardsAreLive ==
  OverviewSaysItsAge /\ CostsStayLive
=============================================================================
