------------------------------ MODULE Workbench ------------------------------
(* The frame of the user interface: the split panes of the center and the tabs *)
(* they hold (CenterPaneSplitContainer, CenterPaneSplitPane, ResourceList's    *)
(* tab strip, BottomDock), the errors of clusters and their retries (Layout,   *)
(* clusterRetry, ClusterErrorBanner) and the bar of cluster tabs (TabBar).     *)
(* The three are separate machines: panes, errors, bar.                        *)
EXTENDS Naturals, Sequences, FiniteSets, SequencesExt, FiniteSetsExt, Functions

CONSTANTS WorkClusters,     \* the clusters with a tab; the first shown is any of them
          ListKinds,        \* the resources whose lists can be opened
          MaxPaneId,        \* the highest pane number a split may give out
          MaxPaneTabs,      \* how many tabs are ever opened
          MaxWorkSteps      \* how many things the user does

ASSUME WorkAssumption == WorkClusters # {} /\ ListKinds # {} /\ MaxPaneId \in Nat /\ MaxPaneTabs \in Nat

VARIABLES workShown,   \* currentTab
          panes,       \* centerPaneLayout of each cluster: [root, kids], kids empty for a pane
          paneFocus,   \* focusedCenterPaneId of each cluster, as stored
          keyFocus,    \* focusedNodeId of the mounted container
          nodeCounter, \* nodeCounter of the mounted container
          paneTabs,    \* the tabs by id: list, detail and bottom tabs
          closings,    \* timers that look whether a pane is empty
          workSteps
paneVars == <<panes, paneFocus, keyFocus, nodeCounter, paneTabs, closings>>

VARIABLES clusterErrors, \* the error shown for each cluster, "none" without one
          vclusterState, \* vclusterStatuses
          reachable,     \* whether the cluster answers (outside the program)
          statusHealthy, \* clusterStatuses[c].healthy
          treeLoaded,    \* whether the tree of the cluster's tab is there
          listLive,      \* whether the list on screen has its subscription
          retries,       \* where the retry of each cluster stands, "idle" without one
          isRetrying,    \* the banner's button
          signIns,       \* sign-ins started from the banner, by the cluster it showed
          authTimer,     \* whether the 1.2 s timer after a sign-in runs
          authLeft       \* the clusters its pass still has to look at
errorVars == <<clusterErrors, vclusterState, reachable, statusHealthy, treeLoaded, listLive, retries, isRetrying, signIns, authTimer, authLeft>>

VARIABLES tabOrder,    \* activeTabs
          barCurrent,  \* currentTab
          dragged,     \* draggedIndex, 0 without a drag
          lastDrop,    \* the last drop: the tab, the tab it fell on and the side
          tooltip,     \* the tooltip: its tab and whether its timer still runs
          overlays     \* the dialogs open over the layout
barVars == <<tabOrder, barCurrent, dragged, lastDrop, tooltip, overlays>>

workVars == <<workShown, workSteps, paneVars, errorVars, barVars>>

-----------------------------------------------------------------------------
(* Panes. Pane 0 is "root", pane n is "pane-n".                              *)

RootPane == 0
Dock == MaxPaneId + 9
Nowhere == MaxPaneId + 10
FreshLayout == [root |-> RootPane, kids |-> [n \in {RootPane} |-> <<>>]]
NodesOf(l) == DOMAIN l.kids
LeavesOf(l) == {n \in NodesOf(l) : l.kids[n] = <<>>}

FirstLeaf(l) ==
  LET down[n \in NodesOf(l)] == IF l.kids[n] = <<>> THEN n ELSE down[l.kids[n][1]]
  IN  down[l.root]

(* hasPane finds the nodes that are split as well as the panes.              *)
ResolvePaneId(l, wanted) == IF wanted \in NodesOf(l) THEN wanted ELSE FirstLeaf(l)

ParentOf(l, n) == CHOOSE p \in NodesOf(l) : n \in Range(l.kids[p])

SplitLayout(l, n, new, box, before) ==
  [root |-> IF l.root = n THEN box ELSE l.root,
   kids |-> [m \in NodesOf(l) \cup {new, box} |->
               CASE m = new -> <<>>
                 [] m = box -> IF before THEN <<new, n>> ELSE <<n, new>>
                 [] OTHER -> [i \in DOMAIN l.kids[m] |-> IF l.kids[m][i] = n THEN box ELSE l.kids[m][i]]]]

(* The other child takes the place, and the id, of the split node.           *)
SiblingOf(l, n) == CHOOSE s \in Range(l.kids[ParentOf(l, n)]) : s # n
CloseLayout(l, n) ==
  LET p == ParentOf(l, n)
      s == SiblingOf(l, n)
  IN  [l EXCEPT !.kids = [m \in NodesOf(l) \ {n, s} |-> IF m = p THEN l.kids[s] ELSE l.kids[m]]]

Mine(t) == t.kind = "bottom" \/ t.cluster = workShown
InPane(ts, p) == {i \in DOMAIN ts : ts[i].pane = p /\ Mine(ts[i])}
Without(ts, gone) == Restrict(ts, DOMAIN ts \ gone)
Moved(ts, moving, p) == [i \in DOMAIN ts |-> IF i \in moving THEN [ts[i] EXCEPT !.pane = p] ELSE ts[i]]

ReassignTabPaneIds(ts, from, to) == Moved(ts, InPane(ts, from), to)

(* handleClose: what is left of the layout, the tabs and the focus.          *)
CanClose(l, n) == n # RootPane /\ n \in NodesOf(l) /\ l.root # n
AfterCloseKeeping(st, n) ==
  [lay |-> CloseLayout(st.lay, n), tabs |-> Without(st.tabs, InPane(st.tabs, n)), focus |-> ParentOf(st.lay, n)]

AfterClose(st, n) ==
  LET gone == Without(st.tabs, InPane(st.tabs, n))
      p == ParentOf(st.lay, n)
  IN  [lay |-> CloseLayout(st.lay, n), tabs |-> ReassignTabPaneIds(gone, SiblingOf(st.lay, n), p), focus |-> p]

Shown == panes[workShown]
HandleClose(n, focus) ==
  IF CanClose(Shown, n)
  THEN LET after == AfterClose([lay |-> Shown, tabs |-> paneTabs, focus |-> keyFocus], n)
       IN  /\ panes' = [panes EXCEPT ![workShown] = after.lay]
           /\ paneTabs' = after.tabs
           /\ keyFocus' = IF focus = Nowhere THEN after.focus ELSE focus
           /\ paneFocus' = [paneFocus EXCEPT ![workShown] = keyFocus']
  ELSE UNCHANGED <<panes, paneTabs, keyFocus, paneFocus>>

WorkStep == workSteps < MaxWorkSteps /\ workSteps' = workSteps + 1

(* handleSplit from the keyboard splits the focused pane and focuses the new *)
(* one; a click on a pane's own button bubbles on to that pane's focus.      *)
CanSplit(n) == n \in LeavesOf(Shown) /\ nodeCounter + 1 <= MaxPaneId
HandleSplit(n, focus) ==
  /\ panes' = [panes EXCEPT ![workShown] = SplitLayout(@, n, nodeCounter, nodeCounter + 1, FALSE)]
  /\ nodeCounter' = nodeCounter + 2
  /\ keyFocus' = focus
  /\ paneFocus' = [paneFocus EXCEPT ![workShown] = focus]
SplitByKey ==
  /\ WorkStep /\ CanSplit(keyFocus) /\ HandleSplit(keyFocus, nodeCounter)
  /\ UNCHANGED <<workShown, paneTabs, closings>>
SplitByClick(n) ==
  /\ WorkStep /\ CanSplit(n) /\ HandleSplit(n, n)
  /\ UNCHANGED <<workShown, paneTabs, closings>>

HandleFocus(n) ==
  /\ WorkStep /\ n \in LeavesOf(Shown) /\ n # keyFocus
  /\ keyFocus' = n
  /\ paneFocus' = [paneFocus EXCEPT ![workShown] = n]
  /\ UNCHANGED <<workShown, panes, nodeCounter, paneTabs, closings>>

FreeIds == 1..MaxPaneTabs \ DOMAIN paneTabs
ListTab(r, c, p, pinned) == [kind |-> "list", res |-> r, cluster |-> c, pane |-> p, pinned |-> pinned]
SameList(t, r, c, p) == t.kind = "list" /\ t.res = r /\ t.cluster = c /\ t.pane = p

(* openResourceListTab: the tab the pane already has, or a new one in place  *)
(* of the pane's preview. `ts` is read before a switch of the cluster.       *)
TabsAfterOpen(ts, r, c, p, pinned) ==
  LET same == {i \in DOMAIN ts : SameList(ts[i], r, c, p)}
      previews == {i \in DOMAIN ts : ts[i].kind = "list" /\ ts[i].cluster = c /\ ts[i].pane = p /\ ~ts[i].pinned}
      kept == IF pinned THEN ts ELSE Without(ts, previews)
  IN  IF same # {}
      THEN LET i == Min(same) IN [ts EXCEPT ![i].pinned = @ \/ pinned]
      ELSE kept @@ (Min(1..MaxPaneTabs \ DOMAIN kept) :> ListTab(r, c, p, pinned))

OpenResourceListTab(r, pinned) ==
  /\ WorkStep /\ FreeIds # {}
  /\ LET p == ResolvePaneId(Shown, paneFocus[workShown])
     IN  /\ paneTabs' = TabsAfterOpen(paneTabs, r, workShown, p, pinned)
         /\ paneFocus' = [paneFocus EXCEPT ![workShown] = IF @ = Nowhere THEN @ ELSE p]
  /\ UNCHANGED <<workShown, panes, keyFocus, nodeCounter, closings>>

(* A resource dropped on an edge opens in a pane of its own; dropped in the  *)
(* middle it opens in that pane.                                             *)
DropResource(r, n, edge) ==
  /\ WorkStep /\ FreeIds # {} /\ n \in LeavesOf(Shown)
  /\ \/ /\ edge /\ CanSplit(n)
        /\ \E before \in BOOLEAN : panes' = [panes EXCEPT ![workShown] = SplitLayout(@, n, nodeCounter, nodeCounter + 1, before)]
        /\ nodeCounter' = nodeCounter + 2
        /\ keyFocus' = nodeCounter
        /\ paneFocus' = [paneFocus EXCEPT ![workShown] = nodeCounter]
        /\ paneTabs' = TabsAfterOpen(paneTabs, r, workShown, nodeCounter, TRUE)
     \/ /\ ~edge
        /\ paneTabs' = TabsAfterOpen(paneTabs, r, workShown, n, TRUE)
        /\ UNCHANGED <<panes, nodeCounter, keyFocus, paneFocus>>
  /\ UNCHANGED <<workShown, closings>>

(* A detail tab opens in the detail pane, a bottom tab in the dock.          *)
OpenDockTab(kind) ==
  /\ WorkStep /\ FreeIds # {}
  /\ paneTabs' = paneTabs @@ (Min(FreeIds) :> [kind |-> kind, res |-> "", cluster |-> workShown, pane |-> Dock, pinned |-> TRUE])
  /\ UNCHANGED <<workShown, panes, paneFocus, keyFocus, nodeCounter, closings>>

(* The 50 ms timer of a pane's strip keeps the bottom tabs of its own render; *)
(* the event of a drop reads the store when it arrives.                      *)
Closing(p, seen) == [pane |-> p, cluster |-> workShown, bottoms |-> seen]
BottomsIn(p) == {i \in DOMAIN paneTabs : paneTabs[i].kind = "bottom" /\ paneTabs[i].pane = p}

(* moveResourceListTabToPane: onto a pane that has the list already, the tab *)
(* is closed instead.                                                        *)
TabsAfterMove(i, p) ==
  LET t == paneTabs[i]
      dups == {j \in DOMAIN paneTabs \ {i} : SameList(paneTabs[j], t.res, t.cluster, p)}
  IN  IF dups # {} THEN Without(paneTabs, {i}) ELSE Moved(paneTabs, {i}, p)

(* A list tab dropped on a pane is moved there and, on an edge, on into a    *)
(* pane split off; other tabs of the center only move to an edge, and those  *)
(* of the dock or the detail pane only to the pane itself.                   *)
DropTab(i, n, edge) ==
  /\ WorkStep /\ i \in DOMAIN paneTabs /\ Mine(paneTabs[i]) /\ n \in LeavesOf(Shown)
  /\ LET from == paneTabs[i].pane
         list == paneTabs[i].kind = "list"
         moved == IF list THEN TabsAfterMove(i, n) ELSE IF from = Dock THEN Moved(paneTabs, {i}, n) ELSE paneTabs
         splits == edge /\ from # Dock
     IN  /\ from # n \/ splits
         /\ list \/ from = Dock \/ splits
         /\ closings' = closings \cup (IF from \notin {n, RootPane, Dock} /\ (list \/ splits) THEN {Closing(from, {})} ELSE {})
         /\ \/ /\ splits /\ CanSplit(n)
               /\ \E before \in BOOLEAN : panes' = [panes EXCEPT ![workShown] = SplitLayout(@, n, nodeCounter, nodeCounter + 1, before)]
               /\ nodeCounter' = nodeCounter + 2
               /\ keyFocus' = nodeCounter
               /\ paneFocus' = [paneFocus EXCEPT ![workShown] = nodeCounter]
               /\ paneTabs' = Moved(moved, {i} \cap DOMAIN moved, nodeCounter)
            \/ /\ ~splits
               /\ paneTabs' = moved
               /\ UNCHANGED <<panes, nodeCounter, keyFocus, paneFocus>>
  /\ UNCHANGED workShown

DropOnDock(i) ==
  /\ WorkStep /\ i \in DOMAIN paneTabs /\ paneTabs[i].kind = "bottom" /\ paneTabs[i].pane # Dock
  /\ paneTabs' = Moved(paneTabs, {i}, Dock)
  /\ UNCHANGED <<workShown, panes, paneFocus, keyFocus, nodeCounter, closings>>

Drawn(i) == Mine(paneTabs[i]) /\ paneTabs[i].pane \in LeavesOf(Shown) \cup {Dock}
CloseTabButton(i) ==
  /\ WorkStep /\ i \in DOMAIN paneTabs /\ Drawn(i)
  /\ LET p == paneTabs[i].pane
     IN  closings' = closings \cup IF p \in {Dock, RootPane} THEN {} ELSE {Closing(p, BottomsIn(p))}
  /\ paneTabs' = Without(paneTabs, {i})
  /\ UNCHANGED <<workShown, panes, paneFocus, keyFocus, nodeCounter>>

(* closeOthers and closeAll of a tab's menu take the tabs of its kind in its *)
(* pane, and nothing looks whether the pane is empty.                        *)
HandleTabContextAction(i, others) ==
  /\ WorkStep /\ i \in DOMAIN paneTabs /\ Drawn(i) /\ paneTabs[i].pane # Dock
  /\ paneTabs' = Without(paneTabs, {j \in InPane(paneTabs, paneTabs[i].pane) :
                                      paneTabs[j].kind = paneTabs[i].kind /\ (others => j # i)})
  /\ UNCHANGED <<workShown, panes, paneFocus, keyFocus, nodeCounter, closings>>

(* The close button of a pane: the click bubbles on to the pane's focus, which *)
(* looks the pane up in the layout still stored.                              *)
ClosePaneButton(n) ==
  /\ WorkStep /\ n \in LeavesOf(Shown) /\ CanClose(Shown, n)
  /\ \E focus \in {Nowhere, n} : HandleClose(n, focus)
  /\ UNCHANGED <<workShown, nodeCounter, closings>>

(* checkAndClosePaneIfEmpty and centerPane:requestClose. A timer of another  *)
(* cluster's strip counts the tabs of the one shown and has nothing to close. *)
CloseIfEmpty(x) ==
  /\ x \in closings
  /\ closings' = closings \ {x}
  /\ IF x.cluster = workShown /\ InPane(paneTabs, x.pane) = {} /\ x.bottoms = {}
     THEN HandleClose(x.pane, Nowhere)
     ELSE UNCHANGED <<panes, paneTabs, keyFocus, paneFocus>>
  /\ UNCHANGED <<workShown, workSteps, nodeCounter>>

(* The container is keyed by the cluster: another one mounts from that       *)
(* cluster's own state and adopts the list tabs no pane of it shows.         *)
Mounted(c) ==
  /\ keyFocus' = ResolvePaneId(panes[c], paneFocus[c])
  /\ nodeCounter' = Max(NodesOf(panes[c])) + 1
  /\ paneTabs' = [i \in DOMAIN paneTabs |->
                    IF paneTabs[i].kind = "list" /\ paneTabs[i].cluster = c
                    THEN [paneTabs[i] EXCEPT !.pane = ResolvePaneId(panes[c], @)]
                    ELSE paneTabs[i]]
ShowCluster(c) ==
  /\ WorkStep /\ c # workShown
  /\ workShown' = c
  /\ Mounted(c)
  /\ UNCHANGED <<panes, paneFocus, closings>>

PanesNext ==
  \/ SplitByKey
  \/ \E n \in 0..MaxPaneId : SplitByClick(n) \/ HandleFocus(n) \/ ClosePaneButton(n)
  \/ \E r \in ListKinds, pinned \in BOOLEAN : OpenResourceListTab(r, pinned)
  \/ \E r \in ListKinds, n \in 0..MaxPaneId, edge \in BOOLEAN : DropResource(r, n, edge)
  \/ \E kind \in {"detail", "bottom"} : OpenDockTab(kind)
  \/ \E i \in 1..MaxPaneTabs, n \in 0..MaxPaneId, edge \in BOOLEAN : DropTab(i, n, edge)
  \/ \E i \in 1..MaxPaneTabs : DropOnDock(i) \/ CloseTabButton(i) \/ \E others \in BOOLEAN : HandleTabContextAction(i, others)
  \/ \E x \in closings : CloseIfEmpty(x)
  \/ \E c \in WorkClusters : ShowCluster(c)

(* Every list tab, and every detail tab moved to the center, belongs to a     *)
(* node of its own cluster's layout, however panes were split, closed and    *)
(* dragged into one another: a tab whose pane is not in the layout is drawn  *)
(* by nobody. (Bottom tabs share one list over all clusters and are left to  *)
(* the hazards.)                                                             *)
TabsHaveAPane ==
  \A i \in DOMAIN paneTabs :
    LET t == paneTabs[i]
    IN  t.kind # "bottom" /\ t.pane # Dock => t.pane \in NodesOf(panes[t.cluster])

(* What centerPaneLayout.ts says of the focused pane ("a resource tab opened *)
(* in a pane the container is not rendering is invisible. The focused pane   *)
(* is therefore always one the layout contains"): every list tab of the      *)
(* cluster on screen sits in a pane that is drawn.                           *)
(* No run claims it: the code does not keep it (README, Disagreements).     *)
ListTabsAreDrawn ==
  \A i \in DOMAIN paneTabs :
    paneTabs[i].kind = "list" /\ paneTabs[i].cluster = workShown => paneTabs[i].pane \in LeavesOf(Shown)

-----------------------------------------------------------------------------
(* Errors of clusters and their retries.                                     *)

Transient(c) == vclusterState[c] \in {"connecting", "reconnecting"}
BannerUp(errs, c) == errs[c] # "none"
(* What the banner over the shown cluster offers: nothing while a virtual    *)
(* cluster connects, a sign-in for an error of its credentials, a retry.     *)
BannerOffers(c) ==
  IF Transient(c) \/ ~BannerUp(clusterErrors, c) THEN {}
  ELSE (IF isRetrying THEN {} ELSE {"retry"}) \cup (IF clusterErrors[c] = "auth" /\ c \notin signIns THEN {"sign-in"} ELSE {})
(* A banner that goes away takes its button's state with it.                 *)
ButtonAfter(errs, c, retrying) == retrying /\ BannerUp(errs, c)

ClusterTurns(c) ==
  /\ WorkStep
  /\ reachable' = [reachable EXCEPT ![c] = ~@]
  /\ UNCHANGED <<workShown, clusterErrors, vclusterState, statusHealthy, treeLoaded, listLive, retries, isRetrying, signIns, authTimer, authLeft>>

(* cluster:error, which a virtual cluster still connecting does not report.  *)
HandleClusterError(c, code) ==
  /\ ~reachable[c] /\ clusterErrors[c] = "none" /\ ~Transient(c)
  /\ clusterErrors' = [clusterErrors EXCEPT ![c] = code]
  /\ UNCHANGED <<workShown, workSteps, vclusterState, reachable, statusHealthy, treeLoaded, listLive, retries, isRetrying, signIns, authTimer, authLeft>>

NeedsReload(c) == ~statusHealthy[c] \/ ~treeLoaded[c]
RetriesAfter(rs, c) == IF rs[c] = "idle" THEN [rs EXCEPT ![c] = "refresh"] ELSE rs
ResumeShownList(c) == listLive' = (listLive \/ c = workShown)

HandleClusterErrorCleared(c) ==
  /\ reachable[c] /\ clusterErrors[c] # "none"
  /\ clusterErrors' = [clusterErrors EXCEPT ![c] = "none"]
  /\ isRetrying' = ButtonAfter(clusterErrors', workShown, isRetrying)
  /\ IF NeedsReload(c)
     THEN retries' = RetriesAfter(retries, c) /\ UNCHANGED listLive
     ELSE ResumeShownList(c) /\ UNCHANGED retries
  /\ UNCHANGED <<workShown, workSteps, vclusterState, reachable, statusHealthy, treeLoaded, signIns, authTimer, authLeft>>

HandleVClusterStatus(c, state) ==
  /\ WorkStep /\ vclusterState[c] # state
  /\ vclusterState' = [vclusterState EXCEPT ![c] = state]
  /\ clusterErrors' = IF state = "healthy" THEN [clusterErrors EXCEPT ![c] = "none"] ELSE clusterErrors
  /\ isRetrying' = ButtonAfter(clusterErrors', workShown, isRetrying)
  /\ UNCHANGED <<workShown, reachable, statusHealthy, treeLoaded, listLive, retries, signIns, authTimer, authLeft>>

(* cluster:retry-done: only the banner of that cluster hears it.             *)
RetryDone(c, healthy) ==
  /\ retries' = [retries EXCEPT ![c] = "idle"]
  /\ IF c = workShown /\ BannerUp(clusterErrors, c)
     THEN /\ isRetrying' = FALSE
          /\ clusterErrors' = IF healthy THEN [clusterErrors EXCEPT ![c] = "none"] ELSE clusterErrors
     ELSE UNCHANGED <<isRetrying, clusterErrors>>

(* retryCluster, an await at a time.                                         *)
RetryRefreshed(c) ==
  /\ retries[c] = "refresh"
  /\ \/ /\ retries' = [retries EXCEPT ![c] = "status"]
        /\ UNCHANGED <<isRetrying, clusterErrors>>
     \/ RetryDone(c, FALSE)
  /\ UNCHANGED <<workShown, workSteps, vclusterState, reachable, statusHealthy, treeLoaded, listLive, signIns, authTimer, authLeft>>

CheckedList(live, c) == live
RetryChecked(c) ==
  /\ retries[c] = "status"
  /\ statusHealthy' = [statusHealthy EXCEPT ![c] = reachable[c]]
  /\ listLive' = CheckedList(listLive, c)
  /\ IF reachable[c]
     THEN retries' = [retries EXCEPT ![c] = "tree"] /\ UNCHANGED <<isRetrying, clusterErrors>>
     ELSE RetryDone(c, FALSE)
  /\ UNCHANGED <<workShown, workSteps, vclusterState, reachable, treeLoaded, signIns, authTimer, authLeft>>
RetryTreeLoaded(c) ==
  /\ retries[c] = "tree"
  /\ \E ok \in BOOLEAN : treeLoaded' = [treeLoaded EXCEPT ![c] = @ \/ ok]
  /\ IF c = workShown
     THEN /\ listLive' = FALSE
          /\ retries' = [retries EXCEPT ![c] = "list"]
          /\ UNCHANGED <<isRetrying, clusterErrors>>
     ELSE RetryDone(c, TRUE) /\ UNCHANGED listLive
  /\ UNCHANGED <<workShown, workSteps, vclusterState, reachable, statusHealthy, signIns, authTimer, authLeft>>
RetryListLoaded(c) ==
  /\ retries[c] = "list"
  /\ listLive' = TRUE
  /\ \E loaded \in BOOLEAN : RetryDone(c, loaded)
  /\ UNCHANGED <<workShown, workSteps, vclusterState, reachable, statusHealthy, treeLoaded, signIns, authTimer, authLeft>>

HandleRetry ==
  /\ WorkStep /\ "retry" \in BannerOffers(workShown)
  /\ isRetrying' = TRUE
  /\ retries' = RetriesAfter(retries, workShown)
  /\ UNCHANGED <<workShown, clusterErrors, vclusterState, reachable, statusHealthy, treeLoaded, listLive, signIns, authTimer, authLeft>>

(* A sign-in from the banner ends in a retry of the cluster it was started   *)
(* for; the button it sets is that of the banner on screen by then.          *)
HandleSignIn ==
  /\ WorkStep /\ "sign-in" \in BannerOffers(workShown)
  /\ signIns' = signIns \cup {workShown}
  /\ UNCHANGED <<workShown, clusterErrors, vclusterState, reachable, statusHealthy, treeLoaded, listLive, retries, isRetrying, authTimer, authLeft>>
SignInEnds(c, ok) ==
  /\ c \in signIns
  /\ signIns' = signIns \ {c}
  /\ isRetrying' = (isRetrying \/ (ok /\ BannerUp(clusterErrors, workShown)))
  /\ retries' = IF ok THEN RetriesAfter(retries, c) ELSE retries
  /\ authTimer' = (authTimer \/ ok)
  /\ UNCHANGED <<workShown, workSteps, clusterErrors, vclusterState, reachable, statusHealthy, treeLoaded, listLive, authLeft>>

(* cloud:auth-changed: the timer's pass over the clusters failing for want   *)
(* of credentials; the one shown when it began is retried, the others only   *)
(* have their status read.                                                   *)
AuthTimerFires ==
  /\ authTimer
  /\ authTimer' = FALSE
  /\ authLeft' = {[cluster |-> c, shown |-> c = workShown] : c \in {d \in WorkClusters : clusterErrors[d] = "auth"}}
  /\ UNCHANGED <<workShown, workSteps, clusterErrors, vclusterState, reachable, statusHealthy, treeLoaded, listLive, retries, isRetrying, signIns>>
AuthPass(x) ==
  /\ x \in authLeft
  /\ authLeft' = authLeft \ {x}
  /\ IF x.shown
     THEN retries' = RetriesAfter(retries, x.cluster) /\ UNCHANGED <<statusHealthy, clusterErrors, isRetrying>>
     ELSE /\ statusHealthy' = [statusHealthy EXCEPT ![x.cluster] = reachable[x.cluster]]
          /\ clusterErrors' = IF reachable[x.cluster] THEN [clusterErrors EXCEPT ![x.cluster] = "none"] ELSE clusterErrors
          /\ isRetrying' = ButtonAfter(clusterErrors', workShown, isRetrying)
          /\ UNCHANGED retries
  /\ UNCHANGED <<workShown, workSteps, vclusterState, reachable, treeLoaded, listLive, signIns, authTimer>>

(* setCurrentTab parks the list of one cluster and starts that of the other; *)
(* the banner's effect releases its button.                                  *)
ShowFailing(c) ==
  /\ WorkStep /\ c # workShown
  /\ workShown' = c
  /\ listLive' = TRUE
  /\ isRetrying' = FALSE
  /\ UNCHANGED <<clusterErrors, vclusterState, reachable, statusHealthy, treeLoaded, retries, signIns, authTimer, authLeft>>

(* connection:restored and sso:refreshed stop and start the shown list; the  *)
(* second reads the status of the cluster first. clusters:refreshed empties  *)
(* the statuses until they are read again.                                   *)
HandleConnectionRestored ==
  /\ WorkStep
  /\ listLive' = TRUE
  /\ \E c \in {workShown} : statusHealthy' \in {statusHealthy, [statusHealthy EXCEPT ![c] = reachable[c]]}
  /\ UNCHANGED <<workShown, clusterErrors, vclusterState, reachable, treeLoaded, retries, isRetrying, signIns, authTimer, authLeft>>
HandleClustersRefreshed ==
  /\ WorkStep
  /\ statusHealthy' \in {[c \in WorkClusters |-> FALSE], reachable}
  /\ UNCHANGED <<workShown, clusterErrors, vclusterState, reachable, treeLoaded, listLive, retries, isRetrying, signIns, authTimer, authLeft>>

ErrorsNext ==
  \/ \E c \in WorkClusters :
       \/ ClusterTurns(c) \/ HandleClusterErrorCleared(c) \/ ShowFailing(c)
       \/ RetryRefreshed(c) \/ RetryChecked(c) \/ RetryTreeLoaded(c) \/ RetryListLoaded(c)
       \/ \E code \in {"auth", "net"} : HandleClusterError(c, code)
       \/ \E state \in {"connecting", "healthy", "failed"} : HandleVClusterStatus(c, state)
       \/ \E ok \in BOOLEAN : SignInEnds(c, ok)
  \/ HandleRetry \/ HandleSignIn \/ AuthTimerFires
  \/ \E x \in authLeft : AuthPass(x)
  \/ HandleConnectionRestored \/ HandleClustersRefreshed

(* A retry that finds its cluster still failing, that fails half way, or     *)
(* during which the user moves on, never leaves the list on screen without   *)
(* its subscription: it is missing only while a retry's own load is running, *)
(* and that load ends by starting it.                                        *)
RetriesKeepTheList == listLive \/ \E c \in WorkClusters : retries[c] = "list"

-----------------------------------------------------------------------------
(* The bar of cluster tabs.                                                  *)

NoDrop == [tab |-> "", on |-> "", side |-> "left"]
NoTooltip == [tab |-> "", timer |-> FALSE]
IndexOfTab(c) == CHOOSE i \in DOMAIN tabOrder : tabOrder[i] = c

(* reorderTabs: splice out, splice in.                                       *)
ReorderTabs(ts, from, to) == InsertAt(RemoveAt(ts, from), to, ts[from])

HandleDragStart(i) ==
  /\ WorkStep /\ i \in DOMAIN tabOrder /\ dragged = 0
  /\ dragged' = i
  /\ tooltip' = NoTooltip
  /\ UNCHANGED <<tabOrder, barCurrent, lastDrop, overlays>>

DropIndex(from, on, side) ==
  LET to == IF side = "right" THEN on + 1 ELSE on
  IN  IF from < on THEN to - 1 ELSE to
HandleDrop(on, side) ==
  /\ dragged # 0 /\ on \in DOMAIN tabOrder
  /\ dragged' = 0
  /\ tooltip' = NoTooltip
  /\ IF on = dragged
     THEN UNCHANGED <<tabOrder, lastDrop>>
     ELSE /\ tabOrder' = ReorderTabs(tabOrder, dragged, DropIndex(dragged, on, side))
          /\ lastDrop' = [tab |-> tabOrder[dragged], on |-> tabOrder[on], side |-> side]
  /\ UNCHANGED <<workSteps, barCurrent, overlays>>
HandleDragEnd ==
  /\ dragged # 0
  /\ dragged' = 0
  /\ tooltip' = NoTooltip
  /\ UNCHANGED <<workSteps, tabOrder, barCurrent, lastDrop, overlays>>

(* closeTab, for every tab the menu's entry takes; the bar's effects drop the *)
(* tooltip when the tabs or the current one change.                           *)
CloseTabs(gone) ==
  /\ tabOrder' = SelectSeq(tabOrder, LAMBDA c : c \notin gone)
  /\ barCurrent' = IF barCurrent \notin gone THEN barCurrent ELSE IF tabOrder' = <<>> THEN "" ELSE tabOrder'[1]
  /\ lastDrop' = NoDrop

CleanTooltip == NoTooltip
TabMenu(i, entry) ==
  /\ WorkStep /\ i \in DOMAIN tabOrder /\ dragged = 0
  /\ CloseTabs(CASE entry = "close" -> {tabOrder[i]}
                 [] entry = "others" -> Range(tabOrder) \ {tabOrder[i]}
                 [] entry = "right" -> {tabOrder[j] : j \in i + 1 .. Len(tabOrder)}
                 [] entry = "all" -> Range(tabOrder))
  /\ tooltip' = CleanTooltip
  /\ UNCHANGED <<dragged, overlays>>

(* meta+n, a click and the tray.                                             *)
SwitchTab(i) ==
  /\ WorkStep /\ i \in DOMAIN tabOrder /\ tabOrder[i] # barCurrent
  /\ barCurrent' = tabOrder[i]
  /\ tooltip' = CleanTooltip
  /\ UNCHANGED <<tabOrder, dragged, lastDrop, overlays>>

HandleMouseEnter(i) ==
  /\ WorkStep /\ i \in DOMAIN tabOrder /\ dragged = 0
  /\ tooltip' = [tab |-> tabOrder[i], timer |-> TRUE]
  /\ UNCHANGED <<tabOrder, barCurrent, dragged, lastDrop, overlays>>
TooltipShows ==
  /\ tooltip.timer
  /\ tooltip' = [tooltip EXCEPT !.timer = FALSE]
  /\ UNCHANGED <<workSteps, tabOrder, barCurrent, dragged, lastDrop, overlays>>
MouseLeaves ==
  /\ tooltip # NoTooltip
  /\ tooltip' = NoTooltip
  /\ UNCHANGED <<workSteps, tabOrder, barCurrent, dragged, lastDrop, overlays>>

(* With no cluster tab the selector opens by itself; choosing one opens it.  *)
AutoOpenSelector ==
  /\ tabOrder = <<>> /\ "selector" \notin overlays
  /\ overlays' = overlays \cup {"selector"}
  /\ UNCHANGED <<workSteps, tabOrder, barCurrent, dragged, lastDrop, tooltip>>
SelectCluster(c) ==
  /\ WorkStep /\ "selector" \in overlays
  /\ overlays' = overlays \ {"selector"}
  /\ tabOrder' = IF c \in Range(tabOrder) THEN tabOrder ELSE Append(tabOrder, c)
  /\ barCurrent' = c
  /\ lastDrop' = NoDrop
  /\ tooltip' = CleanTooltip
  /\ UNCHANGED dragged
OpenOverlay(o) ==
  /\ WorkStep /\ o \notin overlays
  /\ o = "library" => "themes" \in overlays
  /\ overlays' = overlays \cup {o}
  /\ UNCHANGED <<tabOrder, barCurrent, dragged, lastDrop, tooltip>>
(* Escape takes the component library first, then the settings under it.     *)
EscapeOverlay ==
  /\ overlays \cap {"themes", "library"} # {}
  /\ overlays' = overlays \ {IF "library" \in overlays THEN "library" ELSE "themes"}
  /\ UNCHANGED <<workSteps, tabOrder, barCurrent, dragged, lastDrop, tooltip>>

BarNext ==
  \/ \E i \in 1..Cardinality(WorkClusters) :
       \/ HandleDragStart(i) \/ SwitchTab(i) \/ HandleMouseEnter(i)
       \/ \E side \in {"left", "right"} : HandleDrop(i, side)
       \/ \E entry \in {"close", "others", "right", "all"} : TabMenu(i, entry)
  \/ HandleDragEnd \/ TooltipShows \/ MouseLeaves \/ AutoOpenSelector \/ EscapeOverlay
  \/ \E c \in WorkClusters : SelectCluster(c)
  \/ \E o \in {"selector", "themes", "library"} : OpenOverlay(o)

(* A tab dropped left or right of another one ends up right there, whichever *)
(* way it was dragged; the bar's tooltip and its current tab are tabs that   *)
(* are still open.                                                           *)
BarIsTrue ==
  /\ lastDrop # NoDrop =>
       LET at == IndexOfTab(lastDrop.tab)
           on == IndexOfTab(lastDrop.on)
       IN  at = IF lastDrop.side = "left" THEN on - 1 ELSE on + 1
  /\ tooltip.tab # "" => tooltip.tab \in Range(tabOrder)
  /\ barCurrent # "" => barCurrent \in Range(tabOrder)

WorkInit ==
  /\ workShown \in WorkClusters /\ workSteps = 0
  /\ panes = [c \in WorkClusters |-> FreshLayout]
  /\ paneFocus = [c \in WorkClusters |-> Nowhere]
  /\ keyFocus = RootPane /\ nodeCounter = 1
  /\ paneTabs = [i \in {} |-> 0] /\ closings = {}
  /\ clusterErrors = [c \in WorkClusters |-> "none"]
  /\ vclusterState = [c \in WorkClusters |-> "none"]
  /\ reachable = [c \in WorkClusters |-> TRUE]
  /\ statusHealthy = [c \in WorkClusters |-> TRUE] /\ treeLoaded \in [WorkClusters -> BOOLEAN]
  /\ listLive = TRUE /\ retries = [c \in WorkClusters |-> "idle"]
  /\ isRetrying = FALSE /\ signIns = {} /\ authTimer = FALSE /\ authLeft = {}
  /\ tabOrder = SetToSeq(WorkClusters) /\ barCurrent = workShown
  /\ dragged = 0 /\ lastDrop = NoDrop /\ tooltip = NoTooltip /\ overlays = {}

\* All three: no tab, retry or drop is lost between the panes.
WorkbenchIsWhole ==
  TabsHaveAPane /\ RetriesKeepTheList /\ BarIsTrue
=============================================================================
