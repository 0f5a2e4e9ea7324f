------------------------------- MODULE GitOps -------------------------------
(***************************************************************************)
(* Argo CD in the interface: the applications page of a cluster with its   *)
(* filters, selection and bulk actions (components/                        *)
(* ArgoApplicationsPage.tsx), and the inspector of one application with    *)
(* its sync, rollback and refresh (detailView/resourceTypes/               *)
(* ApplicationDetailView.tsx, ApplicationTopology.tsx, dialogs/            *)
(* ArgoSyncDialog.tsx).                                                    *)
(*                                                                         *)
(* An application is its name and its health, which the page filters and   *)
(* groups by; the inspector is reused when the same name is opened in      *)
(* another cluster, so what it shows is a cluster here.                    *)
(***************************************************************************)
EXTENDS Integers, FiniteSets, Sequences

CONSTANTS
    Apps, AppHealth,     \* AppHealth: app -> its health
    AppViews,            \* the cluster tabs the application is open in
    Histories,           \* ids of its deployments
    MaxArgoSteps,        \* bound on what the user does
    MaxArgoLoads,        \* bound on loads under way
    MaxArgoRuns          \* bound on the syncs and refreshes started

VARIABLES
    argo,       \* the page: items, loading, error, stale, busy, rowBusy
    pick,       \* selected, filterHealth, collapsed, focused
    pendingSync,
    argoLoads,  \* loads under way
    argoRuns,   \* syncs and refreshes under way
    argoSteps, argoStarted

argoVars == <<argo, pick, pendingSync, argoLoads, argoRuns, argoSteps, argoStarted>>

VARIABLES
    inspector,  \* its cluster, summary, loading, error, busy, pendingOp, dialogs
    appLoads, appRuns, appSteps, appCount

appVars == <<inspector, appLoads, appRuns, appSteps, appCount>>

Healths == {AppHealth[a] : a \in Apps}
NoSync == [apps |-> {}, prune |-> FALSE]

ArgoInit ==
    /\ argo = [items |-> {}, loading |-> TRUE, error |-> FALSE, stale |-> FALSE,
               busy |-> FALSE, rowBusy |-> {}]
    /\ pick = [selected |-> {}, health |-> {}, collapsed |-> {}, focused |-> "(none)"]
    /\ pendingSync = NoSync
    /\ argoLoads = {[n |-> 1, silent |-> FALSE, had |-> FALSE]}
    /\ argoRuns = {} /\ argoSteps = 0 /\ argoStarted = 1

ArgoStep == argoSteps < MaxArgoSteps /\ argoSteps' = argoSteps + 1

---------------------------------------------------------------------------
(* The rows.                                                               *)
Filtered == {a \in argo.items : pick.health = {} \/ AppHealth[a] \in pick.health}
FlatRows == {a \in Filtered : AppHealth[a] \notin pick.collapsed}

SelectedEntries == FlatRows \cap pick.selected
Targets == IF SelectedEntries # {} THEN SelectedEntries ELSE FlatRows \cap {pick.focused}

ArgoView ==
    IF argo.loading /\ argo.items = {} THEN "skeleton"
    ELSE IF Filtered = {} THEN "none" ELSE "groups"

TogglePivot(h) ==
    /\ ArgoStep
    /\ pick' = [pick EXCEPT !.health = IF h \in @ THEN @ \ {h} ELSE @ \cup {h}]
    /\ UNCHANGED <<argo, pendingSync, argoLoads, argoRuns, argoStarted>>

ToggleGroupCollapsed(h) ==
    /\ ArgoStep /\ ArgoView = "groups" /\ h \in {AppHealth[a] : a \in Filtered}
    /\ pick' = [pick EXCEPT !.collapsed = IF h \in @ THEN @ \ {h} ELSE @ \cup {h}]
    /\ UNCHANGED <<argo, pendingSync, argoLoads, argoRuns, argoStarted>>

ToggleSelect(a) ==
    /\ ArgoStep /\ a \in FlatRows
    /\ pick' = [pick EXCEPT !.selected = IF a \in @ THEN @ \ {a} ELSE @ \cup {a}]
    /\ UNCHANGED <<argo, pendingSync, argoLoads, argoRuns, argoStarted>>

ToggleAll ==
    /\ ArgoStep /\ FlatRows # {}
    /\ pick' = [pick EXCEPT !.selected = IF FlatRows \subseteq @ THEN {} ELSE @ \cup FlatRows]
    /\ UNCHANGED <<argo, pendingSync, argoLoads, argoRuns, argoStarted>>

\* A click, or the arrow keys.
FocusRow(a) ==
    /\ ArgoStep /\ a \in FlatRows \ {pick.focused}
    /\ pick' = [pick EXCEPT !.focused = a]
    /\ UNCHANGED <<argo, pendingSync, argoLoads, argoRuns, argoStarted>>

---------------------------------------------------------------------------
(* Loading.  A load looks at whether there were rows when it was made.     *)
ArgoLoad(silent, items) ==
    /\ Cardinality(argoLoads) < MaxArgoLoads /\ argoStarted < MaxArgoRuns
    /\ argoLoads' = argoLoads \cup
            {[n |-> argoStarted + 1, silent |-> silent, had |-> items # {}]}
    /\ argoStarted' = argoStarted + 1

ArgoPoll ==
    /\ ArgoLoad(TRUE, argo.items)
    /\ UNCHANGED <<argo, pick, pendingSync, argoRuns, argoSteps>>

RetryNow ==
    /\ ArgoStep /\ argo.stale
    /\ ArgoLoad(FALSE, argo.items)
    /\ argo' = [argo EXCEPT !.loading = TRUE]
    /\ UNCHANGED <<pick, pendingSync, argoRuns>>

\* An empty answer where there were rows is not believed.
ArgoFilled(l, found) ==
    IF found = {} /\ l.had THEN [argo EXCEPT !.stale = TRUE]
    ELSE [argo EXCEPT !.items = found, !.stale = FALSE, !.error = FALSE]

Failed(l) == IF l.had THEN [argo EXCEPT !.stale = TRUE] ELSE [argo EXCEPT !.error = TRUE]

\* A load that changed the number of rows is made anew, and run.
ArgoLoaded(l, found, ok) ==
    LET a == IF ok THEN ArgoFilled(l, found) ELSE Failed(l)
        again == Cardinality(a.items) # Cardinality(argo.items) /\ argoStarted < MaxArgoRuns
    IN /\ l \in argoLoads
       /\ argoLoads' = (argoLoads \ {l}) \cup
            (IF again THEN {[n |-> argoStarted + 1, silent |-> FALSE, had |-> a.items # {}]} ELSE {})
       /\ argoStarted' = IF again THEN argoStarted + 1 ELSE argoStarted
       /\ argo' = [a EXCEPT !.loading = IF again THEN TRUE ELSE IF l.silent THEN @ ELSE FALSE]
       /\ UNCHANGED <<pick, pendingSync, argoRuns, argoSteps>>

---------------------------------------------------------------------------
(* Syncing and refreshing.  "A sync changes the cluster, so it always asks *)
(* first."                                                                 *)
RequestSync(apps, prune) ==
    /\ ArgoStep /\ apps # {} /\ pendingSync = NoSync
    /\ pendingSync' = [apps |-> apps, prune |-> prune]
    /\ UNCHANGED <<argo, pick, argoLoads, argoRuns, argoStarted>>

CancelSync ==
    /\ ArgoStep /\ pendingSync # NoSync
    /\ pendingSync' = NoSync
    /\ UNCHANGED <<argo, pick, argoLoads, argoRuns, argoStarted>>

Started(kind, apps) ==
    /\ argoStarted < MaxArgoRuns
    /\ argoStarted' = argoStarted + 1
    /\ argo' = [argo EXCEPT !.busy = TRUE, !.rowBusy = @ \cup apps]
    /\ argoRuns' = argoRuns \cup {[n |-> argoStarted + 1, kind |-> kind, apps |-> apps, at |-> "sent"]}

\* runSync, from the dialog only
ConfirmSync ==
    /\ ArgoStep /\ pendingSync # NoSync
    /\ pendingSync' = NoSync
    /\ Started("sync", pendingSync.apps)
    /\ UNCHANGED <<pick, argoLoads>>

RunRefresh(apps) ==
    /\ ArgoStep /\ apps # {} /\ pendingSync = NoSync
    /\ Started("refresh", apps)
    /\ UNCHANGED <<pick, pendingSync, argoLoads>>

\* Every request settled: loaded again, and two seconds later the rows are no
\* longer busy, whichever other run has them.
RunSettled(r) ==
    /\ r \in argoRuns /\ r.at = "sent"
    /\ argoRuns' = (argoRuns \ {r}) \cup {[r EXCEPT !.at = "spin"]}
    /\ IF Cardinality(argoLoads) < MaxArgoLoads /\ argoStarted < MaxArgoRuns
       THEN ArgoLoad(TRUE, argo.items) ELSE UNCHANGED <<argoLoads, argoStarted>>
    /\ UNCHANGED <<argo, pick, pendingSync, argoSteps>>

RunOver(r) ==
    /\ r \in argoRuns /\ r.at = "spin"
    /\ argoRuns' = argoRuns \ {r}
    /\ argo' = [argo EXCEPT !.busy = FALSE, !.rowBusy = @ \ r.apps]
    /\ UNCHANGED <<pick, pendingSync, argoLoads, argoSteps, argoStarted>>

ArgoNext ==
    \/ \E h \in Healths : TogglePivot(h) \/ ToggleGroupCollapsed(h)
    \/ \E a \in Apps : ToggleSelect(a) \/ FocusRow(a)
    \/ ToggleAll \/ ArgoPoll \/ RetryNow \/ CancelSync \/ ConfirmSync
    \/ \E l \in argoLoads, found \in SUBSET Apps, ok \in BOOLEAN : ArgoLoaded(l, found, ok)
    \/ \E prune \in BOOLEAN : RequestSync(Targets, prune)
    \/ RunRefresh(Targets)
    \/ \E r \in argoRuns : RunSettled(r) \/ RunOver(r)

---------------------------------------------------------------------------
(* The inspector of one application.                                       *)
NoSummary == [of |-> "(none)", running |-> FALSE, op |-> 0]
NoRollback == 0
NewApp(c) == [c |-> c, sum |-> NoSummary, loading |-> TRUE, error |-> FALSE, busy |-> "no",
              op |-> 0, dialog |-> FALSE, rollback |-> NoRollback, rolling |-> FALSE]
AppLoad(c, n, silent) == [c |-> c, n |-> n, silent |-> silent, by |-> "load"]

AppInit ==
    /\ \E c \in AppViews : /\ inspector = NewApp(c)
                           /\ appLoads = {AppLoad(c, 1, FALSE)}
    /\ appRuns = {} /\ appSteps = 0 /\ appCount = 1

AppStep == appSteps < MaxArgoSteps /\ appSteps' = appSteps + 1
Counted(n) == appCount + n <= MaxArgoRuns /\ appCount' = appCount + n

\* The same name opened in another cluster: what is shown is dropped, what
\* dialogs are open stay open.
OpenElsewhere(c) ==
    /\ AppStep /\ Counted(1) /\ c # inspector.c
    /\ inspector' = [NewApp(c) EXCEPT !.dialog = inspector.dialog, !.rollback = inspector.rollback,
                                 !.rolling = inspector.rolling]
    /\ appLoads' = appLoads \cup {AppLoad(c, appCount + 1, FALSE)}
    /\ UNCHANGED appRuns

\* (mutation of TreeLoaded: whichever application is shown by now)
TreeLoadedAny(l, sum, ok) ==
    inspector' = IF ok THEN [inspector EXCEPT !.sum = sum, !.error = FALSE, !.loading = FALSE]
            ELSE [inspector EXCEPT !.error = TRUE, !.loading = FALSE]

\* load: only the application shown, and an operation that is seen to have
\* started is no longer pending.
TreeLoaded(l, sum, ok) ==
    inspector' = IF l.c # inspector.c THEN inspector
            ELSE LET a == IF ok THEN [inspector EXCEPT !.sum = sum, !.error = FALSE,
                                        !.op = IF sum.op >= @ THEN 0 ELSE @]
                          ELSE [inspector EXCEPT !.error = TRUE]
                 IN [a EXCEPT !.loading = IF l.silent THEN @ ELSE FALSE]

AppLoaded(l, running, ok) ==
    /\ l \in appLoads
    /\ appLoads' = appLoads \ {l}
    /\ TreeLoaded(l, [of |-> l.c, running |-> running, op |-> IF running THEN l.n ELSE 0], ok)
    /\ UNCHANGED <<appRuns, appSteps, appCount>>

AppView ==
    IF inspector.loading /\ inspector.sum = NoSummary THEN "loading"
    ELSE IF inspector.error THEN "error" ELSE IF inspector.sum = NoSummary THEN "none" ELSE "summary"

\* useVisibleInterval, every 2 s while an operation runs and every 10 s else
AppPoll ==
    /\ Counted(1) /\ AppView # "loading"
    /\ appLoads' = appLoads \cup {AppLoad(inspector.c, appCount + 1, TRUE)}
    /\ UNCHANGED <<inspector, appRuns, appSteps>>

PendingLapses ==
    /\ inspector.op # 0
    /\ inspector' = [inspector EXCEPT !.op = 0]
    /\ UNCHANGED <<appLoads, appRuns, appSteps, appCount>>

\* runSync and runRefresh: one at a time; the shortcut works in every view and
\* whether or not an operation runs.
AppRun(kind) ==
    /\ AppStep /\ Counted(1) /\ inspector.busy = "no"
    /\ inspector' = [inspector EXCEPT !.busy = kind, !.op = IF kind = "sync" THEN appCount + 1 ELSE @]
    /\ appRuns' = appRuns \cup {[n |-> appCount + 1, c |-> inspector.c, kind |-> kind, id |-> 0]}
    /\ UNCHANGED appLoads

\* The dialog of options, opened by its button or shortcut.
SyncOptions(open) ==
    /\ AppStep /\ inspector.dialog # open /\ (open => inspector.busy = "no")
    /\ inspector' = [inspector EXCEPT !.dialog = open]
    /\ UNCHANGED <<appLoads, appRuns, appCount>>

AskAppRollback(h) ==
    /\ AppStep /\ AppView = "summary" /\ inspector.busy = "no" /\ h # inspector.rollback
    /\ inspector' = [inspector EXCEPT !.rollback = h]
    /\ UNCHANGED <<appLoads, appRuns, appCount>>

ConfirmRollback ==
    /\ AppStep /\ Counted(1) /\ inspector.rollback # NoRollback /\ ~inspector.rolling
    /\ inspector' = [inspector EXCEPT !.rolling = TRUE, !.op = appCount + 1]
    /\ appRuns' = appRuns \cup
            {[n |-> appCount + 1, c |-> inspector.c, kind |-> "rollback", id |-> inspector.rollback]}
    /\ UNCHANGED appLoads

\* The request is answered, whatever the inspector shows by now.
AppAnswered(r, ok) ==
    LET freed == IF r.kind = "rollback" THEN [inspector EXCEPT !.rolling = FALSE]
                 ELSE [inspector EXCEPT !.busy = "no"]
    IN /\ r \in appRuns /\ Counted(1)
       /\ appRuns' = appRuns \ {r}
       /\ inspector' = CASE ok /\ r.kind = "rollback" -> [freed EXCEPT !.rollback = NoRollback]
                    [] ok /\ r.kind = "sync" -> [freed EXCEPT !.dialog = FALSE]
                    [] ~ok /\ r.kind # "refresh" -> [freed EXCEPT !.op = 0]
                    [] OTHER -> freed
       /\ appLoads' = IF ok THEN appLoads \cup {AppLoad(r.c, appCount + 1, TRUE)} ELSE appLoads
       /\ UNCHANGED appSteps

AppNext ==
    \/ \E c \in AppViews : OpenElsewhere(c)
    \/ \E l \in appLoads, running, ok \in BOOLEAN : AppLoaded(l, running, ok)
    \/ AppPoll \/ PendingLapses \/ ConfirmRollback
    \/ \E kind \in {"sync", "refresh"} : AppRun(kind)
    \/ \E open \in BOOLEAN : SyncOptions(open)
    \/ \E h \in Histories \cup {NoRollback} : AskAppRollback(h)
    \/ \E r \in appRuns, ok \in BOOLEAN : AppAnswered(r, ok)

\* The page and the inspector have nothing in common.
GitOpsNext ==
    \/ ArgoNext /\ UNCHANGED appVars
    \/ AppNext /\ UNCHANGED argoVars

GitOpsSpec == ArgoInit /\ AppInit /\ [][GitOpsNext]_<<argoVars, appVars>>

---------------------------------------------------------------------------
\* "A sync changes the cluster, so it always asks first"
\* (ArgoApplicationsPage.tsx): what the dialog asks to sync are rows the user
\* sees at that moment, never a selected one that a filter or a closed group
\* hides, and a sync that starts is the one the dialog asked for.
SyncsAreAskedFor ==
    /\ pendingSync' # pendingSync /\ pendingSync' # NoSync => pendingSync'.apps \subseteq FlatRows
    /\ \A r \in argoRuns' : (\A q \in argoRuns : q.n # r.n) /\ r.kind = "sync"
            => r.apps = pendingSync.apps /\ pendingSync # NoSync

\* load's activeKeyRef: an answer for the application of another cluster is
\* never shown, however late it comes.
SummaryIsTheApps == inspector.sum.of \in {inspector.c, "(none)"}

\* Both: the page acts on, and shows, the applications it says.
GitOpsIsTrue == [][SyncsAreAskedFor /\ SummaryIsTheApps']_<<argoVars, appVars>>
=============================================================================
