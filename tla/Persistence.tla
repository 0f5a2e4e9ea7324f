---------------------------- MODULE Persistence ----------------------------
(***************************************************************************)
(* The saved workspace of the user interface                               *)
(* (frontend/src/store/persistence.ts, hydrateFromStorage and              *)
(* restoreWorkspaceContent of index.ts, restoreBottomTabs of               *)
(* restoreWorkspace.ts, tabSlice.ts, bottomTabSlice.ts): one snapshot per  *)
(* open cluster, written at most once a second by a subscriber of the      *)
(* store, read back at the next launch.                                    *)
(*                                                                         *)
(* Of a cluster's tab only two things are told apart: a revision standing  *)
(* for every field tabStateChanged compares, and the tabs of the dock      *)
(* (bottomTabs), which come back later than the rest because their         *)
(* objects are loaded again.                                               *)
(***************************************************************************)
EXTENDS Integers, FiniteSets, Sequences, SequencesExt

CONSTANTS
    SavedClusters,
    DockIds,        \* ids of dock tabs; each cluster has its own
    NoSnapshot,     \* nothing stored, and no active dock tab
    MaxEdits,       \* bound on what the user does
    MaxLaunches     \* bound on the launches

ASSUME PersistAssumption ==
    /\ MaxEdits \in Nat
    /\ NoSnapshot \notin SavedClusters \cup DockIds
    /\ \A r \in 0 .. MaxEdits, ds \in SUBSET DockIds, act \in DockIds \cup {NoSnapshot} :
          [rev |-> r, dock |-> ds, act |-> act] # NoSnapshot

VARIABLES
    app,       \* is it running, hydrated, and what does it show?
    wtabs,     \* open clusters, in order
    rev,       \* cluster -> revision of its tab state
    dock,      \* cluster -> its dock tabs; they outlive its tab
    actDock,   \* <<cluster, id>> of the active dock tab
    saves,     \* clusters with a save scheduled (pending)
    content,   \* cluster -> snapshot its dock is still to be rebuilt from
    dockLoads,     \* rebuilds under way: <<cluster, snapshot>>
    trees,     \* clusters whose tree is loading
    dropped,   \* cluster -> dock tabs whose object the rebuild did not get
    disk,      \* localStorage
    edits

persistVars == <<app, wtabs, rev, dock, actDock, saves, content, dockLoads, trees, dropped, disk, edits>>

NoDock == <<NoSnapshot, NoSnapshot>>
Snapshot(r, ds, act) == [rev |-> r, dock |-> ds, act |-> act]
NewWorkspace == Snapshot(0, {}, NoSnapshot)

\* buildTabSnapshot, of what the store holds
BuildTabSnapshot(c) ==
    Snapshot(rev[c], dock[c], IF actDock[1] = c THEN actDock[2] ELSE NoSnapshot)
StoredOf(c) == IF disk.snap[c] = NoSnapshot THEN NewWorkspace ELSE disk.snap[c]

OpenClusters == ToSet(wtabs)
NothingSaved == [c \in SavedClusters |-> NoSnapshot]

\* A launch begins with an empty store.
EmptyStore ==
    /\ wtabs' = <<>>
    /\ rev' = [c \in SavedClusters |-> 0]
    /\ dock' = [c \in SavedClusters |-> {}]
    /\ actDock' = NoDock
    /\ saves' = {} /\ content' = NothingSaved /\ dockLoads' = {} /\ trees' = {}
    /\ dropped' = [c \in SavedClusters |-> {}]

PersistInit ==
    /\ app = [up |-> FALSE, hydrated |-> FALSE, current |-> NoSnapshot, launches |-> 0]
    /\ wtabs = <<>>
    /\ rev = [c \in SavedClusters |-> 0]
    /\ dock = [c \in SavedClusters |-> {}]
    /\ actDock = NoDock
    /\ saves = {} /\ content = NothingSaved /\ dockLoads = {} /\ trees = {}
    /\ dropped = [c \in SavedClusters |-> {}]
    /\ disk = [open |-> <<>>, current |-> NoSnapshot, snap |-> NothingSaved, keys |-> {}]
    /\ edits = 0

---------------------------------------------------------------------------
(* The subscriber of installPersistence: what a change of the store makes  *)
(* it schedule.                                                            *)

\* (mutation of TouchedByDock: only the clusters with dock tabs now)
TouchedByDockNow(now) == {c \in SavedClusters : now[c] # {}}

\* Both the dock tabs there are and those there were.
TouchedByDock(now) == {c \in SavedClusters : now[c] # {} \/ dock[c] # {}}

\* cs: open clusters whose tab is new or whose persisted fields changed
Changed(cs, dock2, act2) ==
    saves' = saves \cup
        IF ~app.hydrated THEN {}
        ELSE cs \cup (IF dock2 # dock \/ act2 # actDock THEN TouchedByDock(dock2) ELSE {})

\* saveCluster: a closed tab must not bring its snapshot back.
SaveCluster(snap, c) ==
    IF c \in OpenClusters THEN [snap EXCEPT ![c] = BuildTabSnapshot(c)] ELSE snap

\* The timer of schedule
SaveDue(c) ==
    /\ c \in saves
    /\ saves' = saves \ {c}
    /\ disk' = [disk EXCEPT !.snap = SaveCluster(@, c)]
    /\ UNCHANGED <<app, wtabs, rev, dock, actDock, content, dockLoads, trees, dropped, edits>>

---------------------------------------------------------------------------
(* Launch and end.                                                         *)
Launch ==
    /\ ~app.up /\ app.launches < MaxLaunches
    /\ app' = [up |-> TRUE, hydrated |-> FALSE, current |-> NoSnapshot,
               launches |-> app.launches + 1]
    /\ EmptyStore
    /\ UNCHANGED <<disk, edits>>

\* pruneClusterScopedKeys
Pruned(open) ==
    [disk EXCEPT !.keys = @ \cap open,
                 !.snap = [c \in SavedClusters |-> IF c \in open THEN @[c] ELSE NoSnapshot]]

\* hydrateFromStorage, when clusters were open.  Their dock waits until they
\* are shown.  It runs in an effect of Layout, once the store is made.
HydrateFromStorage ==
    /\ app.up /\ ~app.hydrated /\ disk.open # <<>>
    /\ LET open == ToSet(disk.open) IN
       /\ wtabs' = disk.open
       /\ disk' = Pruned(open)
       /\ rev' = [c \in SavedClusters |-> IF c \in open THEN StoredOf(c).rev ELSE 0]
       /\ content' = [c \in SavedClusters |-> IF c \in open THEN disk.snap[c] ELSE NoSnapshot]
       /\ trees' = open
       /\ app' = [app EXCEPT !.hydrated = TRUE,
                     !.current = IF disk.current = NoSnapshot THEN disk.open[1]
                                 ELSE disk.current]
    /\ UNCHANGED <<dock, actDock, saves, dockLoads, dropped, edits>>

\* With no cluster open there is nothing to read back.
HydrateNothing ==
    /\ app.up /\ ~app.hydrated /\ disk.open = <<>>
    /\ app' = [app EXCEPT !.hydrated = TRUE]
    /\ UNCHANGED <<wtabs, rev, dock, actDock, saves, content, dockLoads, trees, dropped, disk, edits>>

\* loadClusters with no tab open: hydrateFromStorage opens the first cluster,
\* without storing that it is open.
LoadClusters(c) ==
    /\ app.hydrated /\ wtabs = <<>> /\ app.current = NoSnapshot
    /\ wtabs' = <<c>>
    /\ trees' = trees \cup {c}
    /\ rev' = [rev EXCEPT ![c] = 0]
    /\ app' = [app EXCEPT !.current = c]
    /\ Changed({c}, dock, actDock)
    /\ UNCHANGED <<dock, actDock, content, dockLoads, dropped, disk, edits>>

\* beforeunload: what is pending is written at once.
Quit ==
    /\ app.up /\ app.hydrated
    /\ app' = [app EXCEPT !.up = FALSE, !.hydrated = FALSE]
    /\ disk' = [disk EXCEPT !.snap =
                  [c \in SavedClusters |-> IF c \in saves THEN SaveCluster(@, c)[c] ELSE @[c]]]
    /\ EmptyStore
    /\ UNCHANGED edits

\* The process is killed: nothing is flushed.
Crash ==
    /\ app.up
    /\ app' = [app EXCEPT !.up = FALSE, !.hydrated = FALSE]
    /\ EmptyStore
    /\ UNCHANGED <<disk, edits>>

---------------------------------------------------------------------------
(* What comes back.                                                        *)

\* The effect of Layout that calls restoreWorkspaceContent runs first.
WriteSettled ==
    /\ app.hydrated
    /\ app.current # NoSnapshot => content[app.current] = NoSnapshot

\* loadTreeData answers: the restored nodes expand again, in a new Set.
TreeLoaded(c) ==
    /\ WriteSettled /\ c \in trees
    /\ trees' = trees \ {c}
    /\ IF c \in OpenClusters THEN Changed({c}, dock, actDock) ELSE UNCHANGED saves
    /\ UNCHANGED <<app, wtabs, rev, dock, actDock, content, dockLoads, dropped, disk, edits>>

\* restoreWorkspaceContent, of the cluster shown
RestoreWorkspaceContent ==
    LET c == app.current IN
    /\ app.hydrated /\ c # NoSnapshot /\ content[c] # NoSnapshot
    /\ content' = [content EXCEPT ![c] = NoSnapshot]
    /\ dockLoads' = dockLoads \cup (IF content[c].dock \subseteq dock[c] THEN {}
                            ELSE {<<c, content[c]>>})
    /\ UNCHANGED <<app, wtabs, rev, dock, actDock, saves, trees, dropped, disk, edits>>

\* restoreBottomTabs: the objects of some were found.
RestoreBottomTabs(load, found) ==
    LET c == load[1]
        dock2 == [dock EXCEPT ![c] = @ \cup found]
        act2 == IF actDock = NoDock /\ load[2].act \in found \ dock[c]
                THEN <<c, load[2].act>> ELSE actDock
    IN /\ dockLoads' = dockLoads \ {load}
       /\ IF c \in OpenClusters
          THEN dock' = dock2 /\ actDock' = act2 /\ Changed({}, dock2, act2)
          ELSE UNCHANGED <<dock, actDock, saves>>
       /\ dropped' = [dropped EXCEPT ![c] = @ \cup (load[2].dock \ found)]
       /\ UNCHANGED <<app, wtabs, rev, content, trees, disk, edits>>

---------------------------------------------------------------------------
(* What the user does.                                                     *)
Edit ==
    /\ WriteSettled /\ edits < MaxEdits
    /\ edits' = edits + 1

\* openTab of a cluster that is not open; its tree loads.
OpenTab(c) ==
    /\ Edit /\ c \notin OpenClusters
    /\ wtabs' = Append(wtabs, c)
    /\ app' = [app EXCEPT !.current = c]
    /\ rev' = [rev EXCEPT ![c] = 0]
    /\ trees' = trees \cup {c}
    /\ disk' = [disk EXCEPT !.open = Append(wtabs, c), !.current = c]
    /\ Changed({c}, dock, actDock)
    /\ UNCHANGED <<dock, actDock, content, dockLoads, dropped>>

\* closeTab: the save scheduled for it is cancelled and its keys removed.
CloseTab(c) ==
    \E i \in DOMAIN wtabs :
    LET rest == RemoveAt(wtabs, i)
        cur == IF app.current # c THEN app.current
               ELSE IF rest = <<>> THEN NoSnapshot ELSE rest[1]
    IN /\ Edit /\ wtabs[i] = c
       /\ wtabs' = rest
       /\ app' = [app EXCEPT !.current = cur]
       /\ saves' = saves \ {c}
       /\ disk' = [disk EXCEPT !.open = rest, !.current = cur, !.keys = @ \ {c},
                               !.snap[c] = NoSnapshot]
       /\ UNCHANGED <<rev, dock, actDock, content, dockLoads, trees, dropped>>

SetCurrentTab(c) ==
    /\ Edit /\ c \in OpenClusters /\ c # app.current
    /\ app' = [app EXCEPT !.current = c]
    /\ disk' = [disk EXCEPT !.current = c]
    /\ UNCHANGED <<wtabs, rev, dock, actDock, saves, content, dockLoads, trees, dropped>>

\* updateCurrentTabState; a change of namespace is also written at once.
UpdateCurrentTabState ==
    LET c == app.current IN
    /\ Edit /\ c \in OpenClusters
    /\ rev' = [rev EXCEPT ![c] = edits + 1]
    /\ disk' \in {disk, [disk EXCEPT !.keys = @ \cup {c}]}
    /\ Changed({c}, dock, actDock)
    /\ UNCHANGED <<app, wtabs, dock, actDock, content, dockLoads, trees, dropped>>

DockChange(dock2, act2) ==
    /\ Edit
    /\ dock' = dock2 /\ actDock' = act2
    /\ Changed({}, dock2, act2)
    /\ UNCHANGED <<app, wtabs, rev, content, dockLoads, trees, dropped, disk>>

StillToRebuild(c) ==
    (IF content[c] = NoSnapshot THEN {} ELSE content[c].dock)
        \cup UNION {l[2].dock : l \in {m \in dockLoads : m[1] = c}}

\* openBottomTab: an id of its own, or the tab of that object again.
OpenBottomTab(c, i) ==
    /\ c = app.current /\ c \in OpenClusters
    /\ i \notin StillToRebuild(c) \cup dropped[c]
    /\ DockChange([dock EXCEPT ![c] = @ \cup {i}], <<c, i>>)

\* closeBottomTab; another one of the dock becomes active.
CloseBottomTab(c, i) ==
    LET dock2 == [dock EXCEPT ![c] = @ \ {i}]
        others == {t \in SavedClusters \X DockIds : t[2] \in dock2[t[1]]}
    IN /\ i \in dock[c]
       /\ \E act2 \in IF actDock # <<c, i>> THEN {actDock}
                      ELSE IF others = {} THEN {NoDock} ELSE others :
             DockChange(dock2, act2)

\* setActiveBottomTab
SetActiveBottomTab(c, i) ==
    /\ i \in dock[c] /\ actDock # <<c, i>>
    /\ DockChange(dock, <<c, i>>)

---------------------------------------------------------------------------
PersistNext ==
    \/ Launch \/ HydrateFromStorage \/ HydrateNothing \/ Quit \/ Crash
    \/ RestoreWorkspaceContent \/ UpdateCurrentTabState
    \/ \E c \in SavedClusters :
          \/ SaveDue(c) \/ LoadClusters(c) \/ TreeLoaded(c)
          \/ OpenTab(c) \/ CloseTab(c) \/ SetCurrentTab(c)
          \/ \E i \in DockIds : \/ OpenBottomTab(c, i) \/ CloseBottomTab(c, i)
                                \/ SetActiveBottomTab(c, i)
    \/ \E l \in dockLoads : \E found \in SUBSET l[2].dock : RestoreBottomTabs(l, found)

PersistSpec == PersistInit /\ [][PersistNext]_persistVars

---------------------------------------------------------------------------
(* What is stored of an open cluster is what the store holds of it, or a   *)
(* save of it is scheduled, or its dock is still to be rebuilt from what   *)
(* is stored: quitting at any moment keeps the workspace                   *)
(* (installPersistence, flushPendingSnapshots).                            *)
SavedOrPending ==
    app.hydrated =>
        \A c \in OpenClusters \ saves :
            LET s == StoredOf(c) IN
            /\ s.rev = rev[c]
            /\ \/ /\ s.dock \ dropped[c] = dock[c]
                  /\ s.act \in {BuildTabSnapshot(c).act} \cup dropped[c]
               \/ content[c] # NoSnapshot
               \/ \E l \in dockLoads : l[1] = c

(* Nothing is written of a cluster whose tab is closed, whatever was       *)
(* scheduled or loading when it was and whatever of its dock is left: it   *)
(* reopens afresh (closeTab, cancelPendingSnapshot, saveCluster).          *)
ClosedStaysForgotten ==
    \A c \in SavedClusters \ OpenClusters :
      /\ disk'.snap[c] \in {disk.snap[c], NoSnapshot}
      /\ c \in disk'.keys => c \in disk.keys

(* "Saving starts once the stored workspace has been read back, so the     *)
(* empty state a launch begins with can never overwrite it"                *)
(* (persistence.ts:356): while the dock of an open cluster is still to be  *)
(* rebuilt, what is stored of it stays.                                    *)
(* No run claims it: the code does not keep it (README, Disagreements).     *)
LaunchNeverOverwrites ==
    [][\A c \in SavedClusters :
         content[c] # NoSnapshot /\ c \in OpenClusters /\ ~(c \notin ToSet(wtabs') /\ app'.up)
            => StoredOf(c).dock \subseteq
                  (IF disk'.snap[c] = NoSnapshot THEN {} ELSE disk'.snap[c].dock)]_persistVars

(* Both: a workspace survives quitting at any moment, and a closed one does *)
(* not come back.                                                           *)
WorkspaceIsKept == [][SavedOrPending' /\ ClosedStaysForgotten]_persistVars
=============================================================================
