--------------------------------- MODULE MCLists ---------------------------------
(***************************************************************************)
(* The list, the panels of an object and the other tools of a cluster, for *)
(* TLC: ListView, Inspector, Terminals, CommandPalette, Workbench, GitOps, *)
(* QueryPages, ClusterPicker.  The machines of these modules share no      *)
(* state, so a behaviour is one of one machine; "which" says whose, and    *)
(* what the others could start from is fixed.                              *)
(***************************************************************************)
EXTENDS ListView, Inspector, Terminals, CommandPalette, Workbench, GitOps,
        QueryPages, ClusterPicker, TLC

LR(i, n, w, a, b) ==
    [id |-> i, ns |-> n, words |-> w, vals |-> [name |-> a, age |-> b]]
MCListRows == {LR("a", "n1", {"x"}, 1, 2), LR("b", "n2", {"x", "y"}, 2, 1), LR("c", "n1", {"y"}, 3, 1)}
MCPickNames == <<"a", "b">>
AP(c, k, x) == [cluster |-> c, kind |-> k, xr |-> x]
MCActPlaces == {AP("c1", "deployment", FALSE), AP("c1", "cronjob", FALSE),
                AP("c2", "node", FALSE), AP("c2", "pod", TRUE)}
MCOwner == ("p" :> "d") @@ ("q" :> "d2") @@ ("d" :> "-")
MCPanelTabs == ("c1" :> {"x", "y"}) @@ ("c2" :> {"z"})
MCWords == "a" :> 3
MCPodContainers == <<"a", "b">>
PR(i, s, c, k) == [id |-> i, sec |-> s, cl |-> c, kind |-> k]
MCSearchAnswers == {<<PR("a", 1, "c1", "k1")>>,
                    <<PR("a", 2, "c2", "k2"), PR("b", 0, "c1", "k1"), PR("c", 1, "c1", "k2")>>}
MCAppHealth == ("a" :> "ok") @@ ("b" :> "bad")
MCNoGroups == db = [order |-> <<1, 2>>, place |-> [c \in AllPicks |-> 0], alias |-> [c \in AllPicks |-> ""]]
MCPickClusters == <<"a", "b">>
MCMatching == ("" :> {"a", "b"}) @@ ("x" :> {"b"})

VARIABLE which
mcVars == <<which, listVars, inspVars, termVars, logVars, palVars,
            workVars, argoVars, appVars, pageVars, pickerVars>>

MCInit ==
  /\ which \in {"rows", "picks", "table", "actions", "editor",
               "release", "object", "panel", "terminal", "exec",
               "logs", "palette", "panes", "errors", "bar", "argo",
               "app", "pages", "groups", "find"}
  /\ IF which = "picks" THEN TRUE ELSE nodeOf = [t \in PickTabs |-> CHOOSE n \in PickNodes : TRUE]
  /\ ListInit
  /\ IF which = "editor" THEN TRUE ELSE editing = "edit"
  /\ IF which = "object" THEN TRUE ELSE shownObj = "p"
  /\ IF which = "panel" THEN TRUE ELSE onScreen = "c1"
  /\ EditorInit /\ ReleaseInit /\ ObjectInit /\ PanelInit /\ inspSteps = 0
  /\ IF which \in {"terminal", "exec"} THEN TRUE ELSE vault = FALSE
  /\ TermInit /\ LogInit
  /\ IF which = "palette" THEN TRUE ELSE app = [tab |-> "c1", rev |-> 0, node |-> [d \in PalClusters |-> "(none)"]]
  /\ PalInit
  /\ IF which = "errors" THEN TRUE ELSE workShown = "c1" /\ treeLoaded = [c \in WorkClusters |-> TRUE]
  /\ WorkInit
  /\ inspector = NewApp("c1")
  /\ ArgoInit /\ AppInit
  /\ IF which = "pages" THEN TRUE ELSE page = "access"
  /\ PagesInit
  /\ IF which = "groups" THEN TRUE ELSE MCNoGroups
  /\ GroupsInit /\ FindInit /\ pickSteps = 0

ListViewSteps ==
  \/ which = "rows" /\ RowsNext /\ UNCHANGED <<pickVars, tableVars, actVars>>
  \/ which = "picks" /\ PicksNext /\ UNCHANGED <<rowVars, tableVars, actVars>>
  \/ which = "table" /\ TableNext /\ UNCHANGED <<rowVars, pickVars, actVars>>
  \/ which = "actions" /\ ActsNext /\ UNCHANGED <<rowVars, pickVars, tableVars>>

InspectorSteps ==
  \/ which = "editor" /\ EditorNext /\ UNCHANGED <<relVars, objVars, panelVars>>
  \/ which = "release" /\ ReleaseNext /\ UNCHANGED <<editVars, objVars, panelVars>>
  \/ which = "object" /\ ObjectNext /\ UNCHANGED <<editVars, relVars, panelVars>>
  \/ which = "panel" /\ PanelNext /\ UNCHANGED <<editVars, relVars, objVars>>

TerminalsSteps ==
  \/ which = "terminal" /\ TermNext /\ UNCHANGED logVars
  \/ which = "exec" /\ ExecNext /\ UNCHANGED logVars
  \/ which = "logs" /\ LogNext /\ UNCHANGED termVars

CommandPaletteSteps ==
  which = "palette" /\ PalNext

WorkbenchSteps ==
  \/ which = "panes" /\ PanesNext /\ UNCHANGED <<errorVars, barVars>>
  \/ which = "errors" /\ ErrorsNext /\ UNCHANGED <<paneVars, barVars>>
  \/ which = "bar" /\ BarNext /\ UNCHANGED <<workShown, paneVars, errorVars>>

GitOpsSteps ==
  \/ which = "argo" /\ ArgoNext /\ UNCHANGED appVars
  \/ which = "app" /\ AppNext /\ UNCHANGED argoVars

QueryPagesSteps ==
  which = "pages" /\ PagesNext

ClusterPickerSteps ==
  \/ which = "groups" /\ GroupsNext
  \/ which = "find" /\ FindNext

MCNext ==
  /\ UNCHANGED which
  /\ \/ ListViewSteps /\ UNCHANGED <<inspVars, termVars, logVars,
          palVars, workVars, argoVars, appVars, pageVars, pickerVars>>
     \/ InspectorSteps /\ UNCHANGED <<listVars, termVars, logVars,
          palVars, workVars, argoVars, appVars, pageVars, pickerVars>>
     \/ TerminalsSteps /\ UNCHANGED <<listVars, inspVars, palVars,
          workVars, argoVars, appVars, pageVars, pickerVars>>
     \/ CommandPaletteSteps /\ UNCHANGED <<listVars, inspVars,
          termVars, logVars, workVars, argoVars, appVars, pageVars,
          pickerVars>>
     \/ WorkbenchSteps /\ UNCHANGED <<listVars, inspVars, termVars,
          logVars, palVars, argoVars, appVars, pageVars, pickerVars>>
     \/ GitOpsSteps /\ UNCHANGED <<listVars, inspVars, termVars,
          logVars, palVars, workVars, pageVars, pickerVars>>
     \/ QueryPagesSteps /\ UNCHANGED <<listVars, inspVars, termVars,
          logVars, palVars, workVars, argoVars, appVars, pickerVars>>
     \/ ClusterPickerSteps /\ UNCHANGED <<listVars, inspVars,
          termVars, logVars, palVars, workVars, argoVars, appVars,
          pageVars>>

MCSpec == MCInit /\ [][MCNext]_mcVars
=============================================================================
