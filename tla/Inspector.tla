----------------------------- MODULE Inspector -----------------------------
(***************************************************************************)
(* The inspector and the YAML editor.                                      *)
(*                                                                         *)
(* EditorNext: one YamlEditor (components/YamlEditor.tsx) over an object,  *)
(* a release's values or a new object, beside other writers of it.         *)
(* ReleaseNext: the Helm release view (HelmReleaseDetailView.tsx).         *)
(* ObjectNext: the preview tab's view of an object, one component instance *)
(* for every object shown in it (TabContent.tsx, ResourceDetailView.tsx).  *)
(* PanelNext: the panel itself (DetailView.tsx): collapse, drags, refresh. *)
(*                                                                         *)
(* A text is its source, the version it was read at and the writes it      *)
(* holds.  The API server and Helm are external: a request is served at    *)
(* some moment and its answer comes at another.                            *)
(***************************************************************************)
EXTENDS Integers, FiniteSets

CONSTANTS
  MaxEditSteps,    \* bound: what the user does in the editor
  MaxTheirs,       \* bound: writes by others
  MaxReleaseSteps, \* bound: clicks in the release view
  Objects,         \* objects shown in the preview tab
  Owner,           \* [object -> the object its parent link names]
  MaxObjectSteps,  \* bound: clicks in the object view
  PanelTabs,       \* [cluster -> objects its panel can show]
  MaxPanelSteps    \* bound: clicks, drags and ticks of the panel

ASSUME InspectorAssumption ==
  /\ {MaxEditSteps, MaxTheirs, MaxReleaseSteps, MaxObjectSteps, MaxPanelSteps} \subseteq Nat
  /\ Objects # {}

VARIABLES
  inspSteps,    \* steps of the user so far
  \* editor
  editing,      \* "edit", "create" or "helm"
  object,       \* the object at the server [ver, writes, gone]
  accepted,     \* writes the server has answered for
  text,         \* yamlContent [src, ver, writes, valid]
  dirty,        \* isDirty
  notice,       \* sourceNotice: "none", "cached", "deleted"
  err,          \* error is shown
  succ,         \* success: "none", "shown"; its timer runs with it
  marked,       \* yamlError
  lint,         \* the 150 ms check is armed
  reqs,         \* requests under way [op, text, got]
  saving, refreshing, dryRunning,
  \* release
  sections,     \* sections something is held for
  skeletons,    \* sections whose loading flag is set
  pending,      \* [section or action -> requests under way, the toggle's aside]
  toggleReq,    \* the toggle effect's own request is under way, not cancelled
  showAll,      \* showAllValues
  rollback,     \* rollbackRevision is set
  uninstall,    \* showUninstallConfirm
  acting,       \* actionLoading
  \* object view
  shownObj,     \* the object of the preview tab
  parent,       \* the parent link: an object, or NoObj
  parentReqs,   \* resolveParent under way [of, live]
  dialogs,      \* open dialogs
  opsBusy,      \* isScaling, isRestarting, isTriggering, isDeleting
  opReqs,       \* calls under way [op, of]
  toasts,       \* failures told
  forwards,     \* running port forwards [id, of]
  held,         \* portForwards: set of ids under the one port key
  portBusy,     \* loadingPorts holds the key
  portReqs,     \* port calls under way [op, id, of]
  linkClick,    \* clickTimer: a link clicked once, or NoObj
  history,      \* inspectorView is "history"
  \* panel
  onScreen,     \* currentTab
  tabs,         \* [cluster -> objects with a visible detail tab]
  active,       \* [cluster -> the active one, or NoObj]
  collapsed,    \* [cluster -> isDetailsPanelCollapsed]
  prevCount,    \* prevVisibleCountRef
  collapseDue,  \* the auto-collapse timer runs
  panelDragging,     \* "no", "tab", "row", "center"
  dragShown,    \* isDragging
  dropZone,     \* showDropZone
  wide,         \* the window is above the threshold
  versions,     \* [object -> version at the server]
  events,       \* changes announced, not yet heard
  stale,        \* detailDirtyRef
  recent,       \* lastRefreshRef is within DETAIL_STALE_MS
  askedOf         \* [object -> version at the last request for it]

editVars == <<editing, object, accepted, text, dirty, notice, err, succ, marked, lint, reqs,
              saving, refreshing, dryRunning>>
relVars == <<sections, skeletons, pending, toggleReq, showAll, rollback,
             uninstall, acting>>
objVars == <<shownObj, parent, parentReqs, dialogs, opsBusy, opReqs, toasts, forwards, held,
             portBusy, portReqs, linkClick, history>>
panelVars == <<onScreen, tabs, active, collapsed, prevCount, collapseDue, panelDragging, dragShown,
               dropZone, wide, versions, events, stale, recent, askedOf>>
inspVars == <<inspSteps, editVars, relVars, objVars, panelVars>>

NoObj == "-"
UserStep(max) == inspSteps < max /\ inspSteps' = inspSteps + 1
----------------------------------------------------------------------------
(***************************************************************************)
(* The editor.                                                             *)
(***************************************************************************)
NoText == [src |-> "none", ver |-> 0, writes |-> {}, valid |-> TRUE]
Given == [src |-> "given", ver |-> 1, writes |-> {}, valid |-> TRUE]
Template == [src |-> "template", ver |-> 0, writes |-> {}, valid |-> TRUE]
toEditableYaml(o) == [src |-> "server", ver |-> o.ver, writes |-> o.writes, valid |-> TRUE]
NotServed == [ver |-> 0, writes |-> {}, gone |-> FALSE]
Refused == [ver |-> -1, writes |-> {}, gone |-> FALSE]
Request(op) == [op |-> op, text |-> text, got |-> NotServed]

EditorInit ==
  /\ editing \in {"edit", "create", "helm"}
  /\ object = [ver |-> 1, writes |-> {}, gone |-> FALSE] /\ accepted = {}
  /\ text = IF editing = "create" THEN Template ELSE NoText
  /\ dirty = (editing = "create")
  /\ reqs = IF editing = "create" THEN {} ELSE {[op |-> "load", text |-> NoText, got |-> NotServed]}
  /\ notice = "none" /\ err = FALSE /\ succ = "none" /\ marked = FALSE /\ lint = TRUE
  /\ saving = FALSE /\ refreshing = FALSE /\ dryRunning = FALSE

\* Another writer changes the object, or deletes it.
TheirWrite ==
  /\ editing # "create" /\ ~object.gone /\ object.ver <= MaxTheirs
  /\ LET w == <<"their", object.ver>>
     IN /\ object' = [object EXCEPT !.ver = @ + 1, !.writes = @ \cup {w}]
        /\ accepted' = accepted \cup {w}
  /\ UNCHANGED <<inspSteps, editing, text, dirty, notice, err, succ, marked, lint, reqs, saving, refreshing, dryRunning>>

TheirDelete ==
  /\ editing = "edit" /\ ~object.gone
  /\ object' = [object EXCEPT !.gone = TRUE] /\ UNCHANGED <<inspSteps, editing, accepted, text, dirty, notice,
       err, succ, marked, lint, reqs, saving, refreshing, dryRunning>>

ConflictsNever(r) == editing = "edit" /\ object.gone

\* Kubernetes takes a write only at the version it was read at.
Conflicts(r) == editing = "edit" /\ (object.gone \/ r.text.ver # object.ver)
Written(r) == [ver |-> object.ver + 1, writes |-> r.text.writes, gone |-> FALSE]

\* The server handles a request.
PanelServed(r) ==
  /\ r \in reqs /\ r.got = NotServed
  /\ LET writes == r.op = "save" /\ ~Conflicts(r)
         got == IF writes THEN Written(r)
                ELSE IF r.op = "save" \/ (object.gone /\ r.op \in {"load", "refresh"}) THEN Refused
                ELSE object
     IN /\ object' = IF writes THEN got ELSE object
        /\ accepted' = IF writes THEN accepted \cup r.text.writes ELSE accepted
        /\ reqs' = (reqs \ {r}) \cup {[r EXCEPT !.got = got]}
  /\ UNCHANGED <<inspSteps, editing, text, dirty, notice, err, succ, marked, lint, saving, refreshing, dryRunning>>

SetText(t) == text' = t /\ lint' = TRUE

\* The load effect's answer.
LoadAnswers(r) ==
  /\ r \in reqs /\ r.op = "load" /\ r.got.ver > 0
  /\ SetText(toEditableYaml(r.got)) /\ dirty' = FALSE /\ err' = FALSE
  /\ notice' = IF editing = "edit" THEN "none" ELSE notice
  /\ reqs' = reqs \ {r} /\ UNCHANGED <<inspSteps, editing, object, accepted, succ, marked, saving, refreshing, dryRunning>>

cachedCopyNotice(r) == IF r.got = Refused THEN "deleted" ELSE "cached"
ReleaseLoadFails(r) ==
  /\ r \in reqs /\ r.op = "load" /\ r.got.ver <= 0
  /\ SetText(Given) /\ dirty' = FALSE /\ err' = FALSE
  /\ notice' = IF editing = "edit" THEN cachedCopyNotice(r) ELSE notice
  /\ reqs' = reqs \ {r} /\ UNCHANGED <<inspSteps, editing, object, accepted, succ, marked, saving, refreshing, dryRunning>>

\* A keystroke; it may break the YAML, mend it, or remove the version.
HandleEditorChange(valid, keepsVersion) ==
  /\ UserStep(MaxEditSteps)
  /\ SetText([text EXCEPT !.writes = @ \cup {<<"mine", inspSteps>>}, !.valid = valid,
                          !.ver = IF keepsVersion THEN @ ELSE 0])
  /\ dirty' = TRUE /\ err' = FALSE /\ succ' = "none"
  /\ UNCHANGED <<editing, object, accepted, notice, marked, reqs, saving, refreshing, dryRunning>>

HandleTemplateSelect ==
  /\ editing = "create" /\ UserStep(MaxEditSteps)
  /\ SetText(Template) /\ dirty' = TRUE /\ err' = FALSE /\ succ' = "none"
  /\ UNCHANGED <<editing, object, accepted, notice, marked, reqs, saving, refreshing, dryRunning>>

LintRuns ==
  /\ lint /\ lint' = FALSE /\ marked' = ~text.valid
  /\ UNCHANGED <<inspSteps, editing, object, accepted, text, dirty, notice, err, succ, reqs, saving, refreshing, dryRunning>>

CanSave == dirty /\ ~saving /\ ~dryRunning /\ ~marked

\* handleSave, from the button or from the shortcut, which asks less.
HandleSave ==
  /\ UserStep(MaxEditSteps) /\ dirty /\ ~saving
  /\ IF ~text.valid
     THEN err' = TRUE /\ UNCHANGED <<saving, reqs>>
     ELSE IF editing = "edit" /\ text.ver = 0
     THEN err' = TRUE /\ UNCHANGED <<saving, reqs>>
     ELSE saving' = TRUE /\ reqs' = reqs \cup {Request("save")} /\ UNCHANGED err
  /\ UNCHANGED <<editing, object, accepted, text, dirty, notice, succ, marked, lint, refreshing, dryRunning>>

SaveAnswers(r) ==
  /\ r \in reqs /\ r.op = "save" /\ r.got.ver > 0
  /\ IF editing = "helm" THEN UNCHANGED <<text, lint>> ELSE SetText(toEditableYaml(r.got))
  /\ dirty' = FALSE /\ err' = FALSE /\ succ' = "shown" /\ saving' = FALSE
  /\ notice' = IF editing = "edit" THEN "none" ELSE notice
  /\ reqs' = reqs \ {r} /\ UNCHANGED <<inspSteps, editing, object, accepted, marked, refreshing, dryRunning>>

\* Several documents of a new object: the text stays; with errors it stays dirty.
CreateAnswers(r) ==
  /\ r \in reqs /\ editing = "create" /\ r.op = "save" /\ r.got.ver > 0
  /\ \E partial \in BOOLEAN :
       /\ dirty' = (partial /\ dirty) /\ err' = partial /\ succ' = IF partial THEN succ ELSE "shown"
  /\ saving' = FALSE /\ reqs' = reqs \ {r}
  /\ UNCHANGED <<inspSteps, editing, object, accepted, text, notice, marked, lint, refreshing, dryRunning>>

\* Refused, or its answer lost on the way, whether it was done or not.
SaveFails(r) ==
  /\ r \in reqs /\ r.op = "save"
  /\ err' = TRUE /\ saving' = FALSE /\ reqs' = reqs \ {r}
  /\ UNCHANGED <<inspSteps, editing, object, accepted, text, dirty, notice, succ, marked, lint, refreshing, dryRunning>>

\* handleRefresh, by the button or by the shortcut, which is never disabled;
\* with unsaved changes the user has confirmed.
HandleRefresh ==
  /\ editing # "create" /\ UserStep(MaxEditSteps)
  /\ refreshing' = TRUE /\ reqs' = reqs \cup {Request("refresh")}
  /\ UNCHANGED <<editing, object, accepted, text, dirty, notice, err, succ, marked, lint, saving, dryRunning>>

RefreshAnswers(r) ==
  /\ r \in reqs /\ r.op = "refresh" /\ r.got.ver > 0
  /\ SetText(toEditableYaml(r.got)) /\ dirty' = FALSE /\ err' = FALSE /\ succ' = "none" /\ notice' = "none"
  /\ refreshing' = FALSE /\ reqs' = reqs \ {r}
  /\ UNCHANGED <<inspSteps, editing, object, accepted, marked, saving, dryRunning>>

RefreshFails(r) ==
  /\ r \in reqs /\ r.op = "refresh" /\ r.got.ver <= 0
  /\ notice' = cachedCopyNotice(r) /\ err' = (err \/ r.got # Refused)
  /\ refreshing' = FALSE /\ reqs' = reqs \ {r}
  /\ UNCHANGED <<inspSteps, editing, object, accepted, text, dirty, succ, marked, lint, saving, dryRunning>>

HandleDryRun ==
  /\ editing = "helm" /\ CanSave /\ UserStep(MaxEditSteps)
  /\ IF text.valid
     THEN dryRunning' = TRUE /\ err' = FALSE /\ reqs' = reqs \cup {Request("dry")}
     ELSE err' = TRUE /\ UNCHANGED <<dryRunning, reqs>>
  /\ UNCHANGED <<editing, object, accepted, text, dirty, notice, succ, marked, lint, saving, refreshing>>

DryRunAnswers(r) ==
  /\ r \in reqs /\ r.op = "dry"
  /\ \E ok \in BOOLEAN : succ' = (IF ok THEN "shown" ELSE succ) /\ err' = ~ok
  /\ dryRunning' = FALSE /\ reqs' = reqs \ {r}
  /\ UNCHANGED <<inspSteps, editing, object, accepted, text, dirty, notice, marked, lint, saving, refreshing>>

\* The banner's button, Escape, or the five seconds of a success.
Dismiss ==
  /\ \/ err /\ err' = FALSE /\ UNCHANGED succ
     \/ ~err /\ succ = "shown" /\ succ' = "none" /\ UNCHANGED err
  /\ UNCHANGED <<inspSteps, editing, object, accepted, text, dirty, notice, marked, lint, reqs, saving, refreshing, dryRunning>>

EditorNext ==
  \/ TheirWrite \/ TheirDelete \/ LintRuns \/ HandleSave \/ HandleRefresh \/ HandleDryRun
  \/ HandleTemplateSelect \/ Dismiss
  \/ \E v, k \in BOOLEAN : HandleEditorChange(v, k)
  \/ \E r \in reqs : \/ PanelServed(r) \/ LoadAnswers(r) \/ ReleaseLoadFails(r) \/ SaveAnswers(r) \/ CreateAnswers(r)
                     \/ SaveFails(r) \/ RefreshAnswers(r) \/ RefreshFails(r) \/ DryRunAnswers(r)

(***************************************************************************)
(* Editing an object loses nobody's work in silence: a write the server    *)
(* took is in the object until someone who saw it replaces it (the version *)
(* the text was read at goes with every save); a text that is the copy     *)
(* Kanivet had, and not the server's, has its notice; and an editor that   *)
(* claims no unsaved changes holds nothing the server did not take.        *)
(***************************************************************************)
EditorKeepsWork ==
  editing = "edit" =>
    /\ ~object.gone => accepted \subseteq object.writes
    /\ text.src = "given" => notice # "none"
    /\ ~dirty => text.writes \subseteq accepted
----------------------------------------------------------------------------
(***************************************************************************)
(* The view of a Helm release.                                             *)
(***************************************************************************)
HelmSections == {"detail", "history", "values", "manifest"}
RelActions == {"rollback", "uninstall"}
More(secs) == [s \in DOMAIN pending |-> IF s \in secs THEN pending[s] + 1 ELSE pending[s]]
Less(s) == [pending EXCEPT ![s] = @ - 1]

ReleaseInit ==
  /\ sections = {} /\ skeletons = HelmSections
  /\ pending = [s \in HelmSections \cup RelActions |-> IF s \in HelmSections THEN 1 ELSE 0]
  /\ toggleReq = FALSE /\ showAll = FALSE /\ rollback = FALSE /\ uninstall = FALSE /\ acting = FALSE

\* An answer or a failure of the progressive loads, of a reload or of "more".
SectionEnds(s, ok) ==
  /\ pending[s] > 0 /\ pending' = Less(s)
  /\ sections' = IF ok THEN sections \cup {s} ELSE sections
  /\ UNCHANGED <<inspSteps, showAll, rollback, uninstall, acting>>

\* New detail runs the toggle effect: it asks for the values again.
DetailEnds(ok) ==
  /\ SectionEnds("detail", ok)
  /\ toggleReq' = (toggleReq \/ ok)
  /\ skeletons' = (skeletons \ {"detail"}) \cup (IF ok THEN {"values"} ELSE {})

OtherEnds(s, ok) ==
  /\ s # "detail" /\ SectionEnds(s, ok) /\ skeletons' = skeletons \ {s} /\ UNCHANGED toggleReq

\* The toggle effect's answer; a request it has cancelled answers to nobody.
ToggleEnds(ok) ==
  /\ toggleReq /\ toggleReq' = FALSE /\ skeletons' = skeletons \ {"values"}
  /\ sections' = IF ok THEN sections \cup {"values"} ELSE sections
  /\ UNCHANGED <<inspSteps, pending, showAll, rollback, uninstall, acting>>

ShowComputed ==
  /\ UserStep(MaxReleaseSteps) /\ showAll' = ~showAll
  /\ IF "detail" \notin sections THEN UNCHANGED <<toggleReq, skeletons>>
     ELSE toggleReq' = TRUE /\ skeletons' = skeletons \cup {"values"}
  /\ UNCHANGED <<sections, pending, rollback, uninstall, acting>>

\* "Load 10 more revisions", disabled while the history loads.
HandleLoadMoreHistory ==
  /\ UserStep(MaxReleaseSteps) /\ "history" \in sections /\ "history" \notin skeletons
  /\ skeletons' = skeletons \cup {"history"} /\ pending' = More({"history"})
  /\ UNCHANGED <<sections, toggleReq, showAll, rollback, uninstall, acting>>

AskRollback ==
  /\ UserStep(MaxReleaseSteps) /\ "history" \in sections /\ ~uninstall /\ rollback' = TRUE
  /\ UNCHANGED <<sections, skeletons, pending, toggleReq, showAll, uninstall, acting>>

AskUninstall ==
  /\ UserStep(MaxReleaseSteps) /\ ~rollback /\ uninstall' = TRUE
  /\ UNCHANGED <<sections, skeletons, pending, toggleReq, showAll, rollback, acting>>

\* Escape and the overlay close a dialog even while it works.
CloseReleaseDialog ==
  /\ rollback \/ uninstall
  /\ rollback' = FALSE /\ uninstall' = FALSE
  /\ UNCHANGED <<inspSteps, sections, skeletons, pending, toggleReq, showAll, acting>>

ConfirmRelease ==
  /\ rollback \/ uninstall
  /\ ~acting /\ acting' = TRUE /\ pending' = More({IF uninstall THEN "uninstall" ELSE "rollback"})
  /\ UNCHANGED <<inspSteps, sections, skeletons, toggleReq, showAll, rollback, uninstall>>

\* A rollback done reloads every section, with no guard on the answers.
RollbackAnswers ==
  /\ pending["rollback"] > 0 /\ rollback' = FALSE /\ acting' = FALSE /\ skeletons' = HelmSections
  /\ pending' = [More(HelmSections) EXCEPT !["rollback"] = @ - 1]
  /\ UNCHANGED <<inspSteps, sections, toggleReq, showAll, uninstall>>

\* A failure only reaches the console; the dialog stays.
ReleaseActionEnds(a, ok) ==
  /\ pending[a] > 0 /\ (ok => a = "uninstall")
  /\ pending' = Less(a) /\ acting' = FALSE /\ uninstall' = (uninstall /\ ~ok)
  /\ UNCHANGED <<inspSteps, sections, skeletons, toggleReq, showAll, rollback>>

ReleaseNext ==
  \/ ShowComputed \/ HandleLoadMoreHistory \/ AskRollback \/ AskUninstall \/ CloseReleaseDialog \/ ConfirmRelease
  \/ RollbackAnswers
  \/ \E ok \in BOOLEAN :
       \/ DetailEnds(ok) \/ ToggleEnds(ok)
       \/ \E s \in HelmSections : OtherEnds(s, ok)
       \/ \E a \in RelActions : ReleaseActionEnds(a, ok)

(***************************************************************************)
(* No section of a release waits for nothing: while its skeleton or its    *)
(* "Loading..." is drawn, some request that will end it is under way,      *)
(* whichever of the overlapping ones was cancelled.  A confirmed action    *)
(* that holds the dialogs' buttons is under way too, and only one is.      *)
(***************************************************************************)
ReleaseSettles ==
  /\ \A s \in skeletons : pending[s] > 0 \/ (s = "values" /\ toggleReq)
  /\ pending["rollback"] + pending["uninstall"] = IF acting THEN 1 ELSE 0
----------------------------------------------------------------------------
(***************************************************************************)
(* The preview tab's view of an object: the tab has one constant id, so    *)
(* what the components remember outlives the object they were opened for.  *)
(***************************************************************************)
Ops == {"scale", "restart", "trigger", "delete"}

ObjectInit ==
  /\ shownObj \in Objects /\ parent = NoObj /\ parentReqs = {[of |-> shownObj, live |-> TRUE]}
  /\ dialogs = {} /\ opsBusy = {} /\ opReqs = {} /\ toasts = 0
  /\ forwards = {} /\ held = {} /\ portBusy = FALSE /\ portReqs = {} /\ linkClick = NoObj /\ history = FALSE

\* The owner effect of TabContent runs for the object shown.
ParentEffect(o) ==
  /\ parent' = NoObj
  /\ parentReqs' = {[q EXCEPT !.live = FALSE] : q \in parentReqs} \cup {[of |-> o, live |-> TRUE]}

ShowObject(o) ==
  /\ UserStep(MaxObjectSteps) /\ o # shownObj /\ shownObj' = o /\ ParentEffect(o) /\ history' = FALSE
  /\ UNCHANGED <<dialogs, opsBusy, opReqs, toasts, forwards, held, portBusy, portReqs, linkClick>>

ParentResolved(q) ==
  /\ q \in parentReqs /\ parentReqs' = parentReqs \ {q}
  /\ parent' = IF q.live THEN Owner[q.of] ELSE parent
  /\ UNCHANGED <<inspSteps, shownObj, dialogs, opsBusy, opReqs, toasts, forwards, held, portBusy, portReqs, linkClick, history>>

\* View parent: another preview.
HandleViewParent == parent # NoObj /\ parent \in Objects /\ ShowObject(parent)

\* A link in the view: once opens a preview after 200 ms, twice pins.
HandleResourceClick(o) ==
  /\ UserStep(MaxObjectSteps) /\ o # shownObj
  /\ linkClick' = IF linkClick = NoObj THEN o ELSE NoObj
  /\ UNCHANGED <<shownObj, parent, parentReqs, dialogs, opsBusy, opReqs, toasts, forwards, held, portBusy, portReqs, history>>

LinkTimer ==
  /\ linkClick # NoObj /\ linkClick' = NoObj /\ shownObj' = linkClick
  /\ IF linkClick # shownObj THEN ParentEffect(linkClick) /\ history' = FALSE ELSE UNCHANGED <<parent, parentReqs, history>>
  /\ UNCHANGED <<inspSteps, dialogs, opsBusy, opReqs, toasts, forwards, held, portBusy, portReqs>>

SetInspectorView ==
  /\ UserStep(MaxObjectSteps) /\ history' = ~history
  /\ UNCHANGED <<shownObj, parent, parentReqs, dialogs, opsBusy, opReqs, toasts, forwards, held, portBusy, portReqs, linkClick>>

\* The buttons: disabled while their call is under way.
OpenOp(op) ==
  /\ UserStep(MaxObjectSteps) /\ op \notin opsBusy /\ dialogs = {} /\ dialogs' = {op}
  /\ UNCHANGED <<shownObj, parent, parentReqs, opsBusy, opReqs, toasts, forwards, held, portBusy, portReqs, linkClick, history>>

\* Escape and the overlay close a dialog even while it works.
CloseOp(op) ==
  /\ op \in dialogs /\ dialogs' = dialogs \ {op}
  /\ UNCHANGED <<inspSteps, shownObj, parent, parentReqs, opsBusy, opReqs, toasts, forwards, held, portBusy, portReqs, linkClick, history>>

\* The dialog's confirm button is disabled while its call is under way.
OpIdle(op) == op \notin opsBusy
ConfirmOp(op) ==
  /\ op \in dialogs /\ OpIdle(op) /\ Cardinality(opReqs) < 3
  /\ opsBusy' = opsBusy \cup {op} /\ opReqs' = opReqs \cup {[op |-> op, of |-> shownObj, n |-> Cardinality(opReqs)]}
  /\ UNCHANGED <<inspSteps, shownObj, parent, parentReqs, dialogs, toasts, forwards, held, portBusy, portReqs, linkClick, history>>

\* A delete that fails says nothing; the others raise a toast.
OpEnds(q, ok) ==
  /\ q \in opReqs /\ opReqs' = opReqs \ {q} /\ opsBusy' = opsBusy \ {q.op}
  /\ dialogs' = IF ok THEN dialogs \ {q.op} ELSE dialogs
  /\ toasts' = IF ~ok /\ q.op # "delete" THEN 1 ELSE toasts
  /\ UNCHANGED <<inspSteps, shownObj, parent, parentReqs, forwards, held, portBusy, portReqs, linkClick, history>>

\* handlePortForward of one port: the key is the container and the port, not the pod.
PortFree == ~portBusy

HandlePortForward ==
  /\ UserStep(MaxObjectSteps) /\ PortFree /\ portBusy' = TRUE
  /\ portReqs' = portReqs \cup {IF held = {} THEN [op |-> "create", id |-> inspSteps, of |-> shownObj]
                                ELSE [op |-> "stop", id |-> CHOOSE i \in held : TRUE, of |-> shownObj]}
  /\ UNCHANGED <<shownObj, parent, parentReqs, dialogs, opsBusy, opReqs, toasts, forwards, held, linkClick, history>>

PortAnswers(q) ==
  /\ q \in portReqs /\ portReqs' = portReqs \ {q} /\ portBusy' = FALSE
  /\ IF q.op = "create"
     THEN forwards' = forwards \cup {[id |-> q.id, of |-> q.of]} /\ held' = {q.id}
     ELSE forwards' = {f \in forwards : f.id # q.id} /\ held' = {}
  /\ UNCHANGED <<inspSteps, shownObj, parent, parentReqs, dialogs, opsBusy, opReqs, toasts, linkClick, history>>

PortFails(q) ==
  /\ q \in portReqs /\ portReqs' = portReqs \ {q} /\ portBusy' = FALSE
  /\ UNCHANGED <<inspSteps, shownObj, parent, parentReqs, dialogs, opsBusy, opReqs, toasts, forwards, held, linkClick, history>>

ObjectNext ==
  \/ HandleViewParent \/ LinkTimer \/ SetInspectorView \/ HandlePortForward
  \/ \E o \in Objects : ShowObject(o) \/ HandleResourceClick(o)
  \/ \E q \in parentReqs : ParentResolved(q)
  \/ \E op \in Ops : OpenOp(op) \/ CloseOp(op) \/ ConfirmOp(op)
  \/ \E q \in opReqs, ok \in BOOLEAN : OpEnds(q, ok)
  \/ \E q \in portReqs : PortAnswers(q) \/ PortFails(q)

(***************************************************************************)
(* The view keeps up with the object shown: its parent link leads to that  *)
(* object's owner, however late the owners of earlier objects are known;   *)
(* no action of it is under way twice, though its dialog can be closed and *)
(* opened again meanwhile; and every forward it started can be stopped     *)
(* from it, none is lost behind a second one.                              *)
(***************************************************************************)
ObjectViewKeepsUp ==
  /\ parent # NoObj => parent = Owner[shownObj]
  /\ \A op \in Ops : Cardinality({q \in opReqs : q.op = op}) <= 1
  /\ {f.id : f \in forwards} \subseteq held
----------------------------------------------------------------------------
(***************************************************************************)
(* The panel.                                                              *)
(***************************************************************************)
Clusters == DOMAIN PanelTabs
AllTabs == UNION {PanelTabs[c] : c \in Clusters}
Count == Cardinality(tabs[onScreen])

\* refreshKey: the active tab's object while the panel is open.
RefreshKey(a, col, c) == IF col[c] THEN NoObj ELSE a[c]

PanelInit ==
  /\ onScreen \in Clusters /\ tabs = [c \in Clusters |-> {}] /\ active = [c \in Clusters |-> NoObj]
  /\ collapsed = [c \in Clusters |-> FALSE] /\ prevCount = 0 /\ collapseDue = FALSE
  /\ panelDragging = "no" /\ dragShown = FALSE /\ dropZone = FALSE /\ wide = TRUE
  /\ versions = [o \in AllTabs |-> 1] /\ events = {} /\ stale = TRUE /\ recent = FALSE
  /\ askedOf = [o \in AllTabs |-> 0]

\* The effects that follow a render: auto-collapse when the tabs are gone, and
\* a new refresh key makes the detail stale.
Rendered ==
  /\ prevCount' = Cardinality(tabs'[onScreen'])
  /\ collapseDue' = (collapseDue \/ (prevCount > 0 /\ prevCount' = 0 /\ ~collapsed'[onScreen']
                                     /\ ~dropZone' /\ ~dragShown'))
  /\ LET rekeyed == RefreshKey(active', collapsed', onScreen') # RefreshKey(active, collapsed, onScreen)
     IN stale' = (stale \/ rekeyed) /\ recent' = (recent /\ ~rekeyed)

\* openDetailTab from anywhere.
OpenTab(o) ==
  /\ UserStep(MaxPanelSteps) /\ o \in PanelTabs[onScreen]
  /\ tabs' = [tabs EXCEPT ![onScreen] = @ \cup {o}] /\ active' = [active EXCEPT ![onScreen] = o]
  /\ collapsed' = [collapsed EXCEPT ![onScreen] = FALSE]
  /\ UNCHANGED <<onScreen, panelDragging, dragShown, dropZone, wide>> /\ Rendered /\ UNCHANGED <<versions, events, askedOf>>

\* A close, or a drag to the center: the active tab goes to a neighbour.
CloseTab(o) ==
  /\ UserStep(MaxPanelSteps) /\ o \in tabs[onScreen]
  /\ tabs' = [tabs EXCEPT ![onScreen] = @ \ {o}]
  /\ \E n \in (tabs[onScreen] \ {o}) \cup {NoObj} :
       /\ n = NoObj <=> tabs[onScreen] = {o}
       /\ active' = [active EXCEPT ![onScreen] = IF @ = o THEN n ELSE @]
  /\ UNCHANGED <<onScreen, collapsed, panelDragging, dragShown, dropZone, wide>> /\ Rendered /\ UNCHANGED <<versions, events, askedOf>>

SwitchCluster(c) ==
  /\ UserStep(MaxPanelSteps) /\ c # onScreen /\ onScreen' = c
  /\ UNCHANGED <<tabs, active, collapsed, panelDragging, dragShown, dropZone, wide>> /\ Rendered /\ UNCHANGED <<versions, events, askedOf>>

ToggleDetailsPanel ==
  /\ UserStep(MaxPanelSteps) /\ collapsed' = [collapsed EXCEPT ![onScreen] = ~@]
  /\ UNCHANGED <<onScreen, tabs, active, panelDragging, dragShown, dropZone, wide>> /\ Rendered /\ UNCHANGED <<versions, events, askedOf>>

CollapseTimer ==
  /\ collapseDue /\ collapsed' = [collapsed EXCEPT ![onScreen] = TRUE] /\ collapseDue' = FALSE
  /\ stale' = (stale \/ (active[onScreen] # NoObj /\ ~collapsed[onScreen]))
  /\ recent' = recent
  /\ UNCHANGED <<inspSteps, onScreen, tabs, active, prevCount, panelDragging, dragShown, dropZone, wide, versions, events, askedOf>>

Resize ==
  /\ UserStep(MaxPanelSteps) /\ wide' = ~wide
  /\ collapsed' = IF wide /\ ~collapsed[onScreen] /\ Count > 0 THEN [collapsed EXCEPT ![onScreen] = TRUE] ELSE collapsed
  /\ UNCHANGED <<onScreen, tabs, active, panelDragging, dragShown, dropZone>> /\ Rendered /\ UNCHANGED <<versions, events, askedOf>>

\* A drag starts: of a detail tab of the center, of a tab here, or of a row.
EditorDragStart(what) ==
  /\ UserStep(MaxPanelSteps) /\ panelDragging = "no" /\ panelDragging' = what /\ dragShown' = TRUE
  /\ UNCHANGED <<onScreen, tabs, active, collapsed, dropZone, wide>> /\ Rendered /\ UNCHANGED <<versions, events, askedOf>>

DragOver ==
  /\ panelDragging = "center" /\ dropZone' = ~dropZone
  /\ UNCHANGED <<inspSteps, onScreen, tabs, active, collapsed, panelDragging, dragShown, wide>> /\ Rendered
  /\ UNCHANGED <<versions, events, askedOf>>

\* The drag ends; isDragging goes 100 ms later.
EditorDragEnd ==
  /\ panelDragging # "no" /\ panelDragging' = "no" /\ dropZone' = FALSE
  /\ UNCHANGED <<inspSteps, onScreen, tabs, active, collapsed, dragShown, wide>> /\ Rendered
  /\ UNCHANGED <<versions, events, askedOf>>

DragTimer ==
  /\ panelDragging = "no" /\ dragShown /\ dragShown' = FALSE
  /\ UNCHANGED <<inspSteps, onScreen, tabs, active, collapsed, panelDragging, dropZone, wide>> /\ Rendered
  /\ UNCHANGED <<versions, events, askedOf>>

\* A tab of the center dropped on the zone or on the panel.
HandleDetailDrop(o) ==
  /\ panelDragging = "center"
  /\ dropZone \/ Count > 0
  /\ o \in PanelTabs[onScreen] \ tabs[onScreen]
  /\ tabs' = [tabs EXCEPT ![onScreen] = @ \cup {o}] /\ active' = [active EXCEPT ![onScreen] = o]
  /\ panelDragging' = "no" /\ dropZone' = FALSE
  /\ UNCHANGED <<inspSteps, onScreen, collapsed, dragShown, wide>> /\ Rendered
  /\ UNCHANGED <<versions, events, askedOf>>

\* A row dropped on the panel opens pinned once its details came.
HandleResourceDrop(o) ==
  /\ panelDragging = "row" /\ Count > 0 /\ o \in PanelTabs[onScreen]
  /\ tabs' = [tabs EXCEPT ![onScreen] = @ \cup {o}] /\ active' = [active EXCEPT ![onScreen] = o]
  /\ collapsed' = [collapsed EXCEPT ![onScreen] = FALSE] /\ panelDragging' = "no"
  /\ UNCHANGED <<inspSteps, onScreen, dragShown, dropZone, wide>> /\ Rendered
  /\ UNCHANGED <<versions, events, askedOf>>

\* The object changes; the live watch will announce it.
ObjectChanges(o) ==
  /\ versions[o] <= MaxTheirs /\ versions' = [versions EXCEPT ![o] = @ + 1] /\ events' = events \cup {o}
  /\ UNCHANGED <<inspSteps, onScreen, tabs, active, collapsed, prevCount, collapseDue, panelDragging, dragShown, dropZone, wide, stale, recent, askedOf>>

\* kanivet:detail-item-changed, heard for the active tab's object.
OnChanged(o) ==
  /\ o \in events /\ events' = events \ {o} /\ stale' = (stale \/ active[onScreen] = o)
  /\ UNCHANGED <<inspSteps, onScreen, tabs, active, collapsed, prevCount, collapseDue, panelDragging, dragShown, dropZone, wide, versions, recent, askedOf>>

\* The tick of refreshDetails: live, it asks only when something is to ask.
RefreshDetails(live) ==
  /\ UserStep(MaxPanelSteps)
  /\ LET o == RefreshKey(active, collapsed, onScreen)
     IN /\ o # NoObj /\ (live => stale \/ ~recent)
        /\ askedOf' = [askedOf EXCEPT ![o] = versions[o]]
  /\ stale' = FALSE /\ recent' = TRUE
  /\ UNCHANGED <<onScreen, tabs, active, collapsed, prevCount, collapseDue, panelDragging, dragShown, dropZone, wide, versions, events>>

StaleTimer ==
  /\ recent /\ recent' = FALSE
  /\ UNCHANGED <<inspSteps, onScreen, tabs, active, collapsed, prevCount, collapseDue, panelDragging, dragShown, dropZone, wide, versions, events, stale, askedOf>>

PanelNext ==
  \/ ToggleDetailsPanel \/ CollapseTimer \/ Resize \/ DragOver \/ EditorDragEnd \/ DragTimer \/ StaleTimer
  \/ \E o \in AllTabs : \/ OpenTab(o) \/ CloseTab(o) \/ HandleDetailDrop(o) \/ HandleResourceDrop(o)
                        \/ ObjectChanges(o) \/ OnChanged(o)
  \/ \E c \in Clusters : SwitchCluster(c)
  \/ \E w \in {"center", "tab", "row"} : EditorDragStart(w)
  \/ \E live \in BOOLEAN : RefreshDetails(live)

(***************************************************************************)
(* A change the watch told the panel of is never settled unseen: the       *)
(* object in the open panel was asked for after its last announced change, *)
(* or its details are still marked stale and the next tick asks, whichever *)
(* tab, cluster or collapsed panel the announcement fell on.               *)
(***************************************************************************)
ChangesAreFetched ==
  LET o == RefreshKey(active, collapsed, onScreen)
  IN o # NoObj /\ o \notin events /\ askedOf[o] < versions[o] => stale

----------------------------------------------------------------------------
\* The four share nothing but the budget of the user's steps.
InspectorInit == EditorInit /\ ReleaseInit /\ ObjectInit /\ PanelInit /\ inspSteps = 0

InspectorNext ==
  \/ EditorNext /\ UNCHANGED <<relVars, objVars, panelVars>>
  \/ ReleaseNext /\ UNCHANGED <<editVars, objVars, panelVars>>
  \/ ObjectNext /\ UNCHANGED <<editVars, relVars, panelVars>>
  \/ PanelNext /\ UNCHANGED <<editVars, relVars, objVars>>

InspectorSpec == InspectorInit /\ [][InspectorNext]_inspVars

\* All four: the panels of an object lose no work and miss no change.
InspectorKeepsUp ==
  EditorKeepsWork /\ ReleaseSettles /\ ObjectViewKeepsUp /\ ChangesAreFetched
=============================================================================
