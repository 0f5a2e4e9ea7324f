----------------------------- MODULE Assistant -----------------------------
(***************************************************************************)
(* The AI chats of the client (store/aiChatStore.ts, components/ai/).      *)
(*                                                                         *)
(* ChatNext: the chat store behind the side panel, the diagnosis sheet,    *)
(* the history and the fix chooser.  The backend is external: it serves a  *)
(* request at one moment, its answer comes at another, and an agent works  *)
(* on a chat until it ends or is stopped.  A chat is its version, whether  *)
(* its agent runs, and the state of the one patch it may have proposed.    *)
(* AgentsNext: the settings' list of agent clients (ClientInstallList.tsx) *)
(* and the server switch (AISettingsDialog.tsx).                           *)
(*                                                                         *)
(* Drafts, chips and error lines are data the properties do not tell apart *)
(* and are left out.                                                       *)
(*                                                                         *)
(* A request that fails was not served: an answer lost after the backend   *)
(* acted is left out, the backend being a process of the same machine.     *)
(***************************************************************************)
EXTENDS Integers, FiniteSets

CONSTANTS
  ChatIds,       \* ids the backend gives to chats
  Repos,         \* code locations
  DirtyRepos,    \* those with uncommitted changes
  MaxAskSteps,   \* bound: clicks in the chats
  MaxAgentTurns, \* bound: what the agents report, over all chats
  AiClients,     \* agent clients of the install list
  MaxSetupSteps  \* bound: clicks in the settings

ASSUME AssistantAssumption ==
  /\ DirtyRepos \subseteq Repos
  /\ {MaxAskSteps, MaxAgentTurns, MaxSetupSteps} \subseteq Nat
  /\ 0 \notin ChatIds

VARIABLES
  askSteps,    \* clicks so far
  agentTurns,  \* reports of the agents so far
  kept,        \* the backend's chats [id -> [st, ver, patch]]
  chats,       \* the store's copies; NoCopy where it holds none
  listed,      \* list: ids in the history
  activeId,    \* the chat on show, 0: none
  view,        \* "chat", "history" or "review"
  panelOpen, sheetOpen,
  pendingFix,  \* the fix chooser is shown
  repo, fixMode, \* its choice
  dirtyRepo,   \* repository reported dirty, or "none"
  chatBusy,    \* busy
  pollers,     \* [id -> "none", "timer" or "asking"]
  chatReqs,    \* requests under way [n, op, id, since, then, repo, force, got]
  confirming,  \* the proposal card asks to confirm
  \* ghosts
  newest,      \* [id -> newest version an answer has shown]
  overtaken,   \* ids an older answer overtook, or with a read that failed
  warned,      \* repositories whose changes the user was told of
  \* settings
  setupSteps,
  installed,   \* clients with Kanivet's server, at the backend
  rows,        \* clients: the rows' state, "none" before the first load
  installMode, \* mode
  dialog,      \* pending [id, action, mode, plan], NoDialog when none
  setupBusy,   \* busy: a client, "*" or "none"
  setupReqs,   \* requests under way [n, op, of, got]
  serverOn,    \* the MCP server's switch at the backend
  switch,      \* status.enabled as shown
  settingBusy, \* busy of the dialog
  planned      \* ghost: plans the user was shown

askVars == <<askSteps, agentTurns, kept, chats, listed, activeId, view, panelOpen, sheetOpen,
  pendingFix, repo, fixMode, dirtyRepo, chatBusy, pollers,
  chatReqs, confirming, newest, overtaken, warned>>
setupVars == <<setupSteps, installed, rows, installMode, dialog, setupBusy, setupReqs,
  serverOn, switch, settingBusy, planned>>
assistVars == <<askVars, setupVars>>

----------------------------------------------------------------------------
(* The chats.                                                              *)

NoCopy == [st |-> "none", ver |-> -1, patch |-> "none"]
Unchanged == [st |-> "unchanged", ver |-> -1, patch |-> "none"]
NotAnswered == [st |-> "waiting", ver |-> -1, patch |-> "none"]

\* loadList, told by the backend in one step.
ListLoaded == {i \in ChatIds : kept[i].st \in {"running", "idle"}}

\* The store of a page just loaded, its history open, beside a backend that
\* may hold a chat of an earlier page whose agent still works.
ChatInit ==
  /\ askSteps = 0 /\ agentTurns = 0
  /\ kept \in [ChatIds -> {NoCopy, [st |-> "running", ver |-> 0, patch |-> "proposed"]}]
  /\ Cardinality({i \in ChatIds : kept[i] # NoCopy}) =< 1
  /\ chats = [i \in ChatIds |-> NoCopy]
  /\ listed = ListLoaded /\ activeId = 0 /\ view = "history"
  /\ panelOpen = TRUE /\ sheetOpen = FALSE
  /\ pendingFix = FALSE /\ repo = "none" /\ fixMode = "code" /\ dirtyRepo = "none"
  /\ chatBusy = FALSE
  /\ pollers = [i \in ChatIds |-> "none"]
  /\ chatReqs = {} /\ confirming = FALSE
  /\ newest = [i \in ChatIds |-> -1] /\ overtaken = {} /\ warned = {}

Copy == IF activeId = 0 THEN NoCopy ELSE chats[activeId]
ChatShown == Copy # NoCopy

\* poll: a chain of ticks per chat, one at most.
Polled(p, i) == IF p[i] = "none" THEN [p EXCEPT ![i] = "timer"] ELSE p

Req(op, i, then, r, force) ==
  [n |-> IF op = "tick" THEN 0 ELSE askSteps, op |-> op, id |-> i, then |-> then,
   since |-> IF op = "tick" THEN chats[i].ver ELSE -1, repo |-> r, force |-> force, got |-> NotAnswered]

\* An answer with a chat goes into the store whole, whatever is there.
Stored(i, c) ==
  /\ chats' = [chats EXCEPT ![i] = c]
  /\ newest' = [newest EXCEPT ![i] = IF c.ver > @ THEN c.ver ELSE @]
  /\ overtaken' = IF c.ver < newest[i] THEN overtaken \cup {i} ELSE overtaken

ChatClick == askSteps < MaxAskSteps /\ askSteps' = askSteps + 1

FixUntouched == UNCHANGED <<repo, fixMode, dirtyRepo>>
StoreUntouched == UNCHANGED <<agentTurns, kept, chats, pollers, newest, overtaken, warned>>

\* create: one request; nothing keeps a second one from being sent.
SendCreate(then, r, force) ==
  /\ chatReqs' = chatReqs \cup {Req("create", 0, then, r, force)}
  /\ chatBusy' = TRUE

\* open with no seed (the palette's "Ask AI", toggleAskAI).
OpenPanel ==
  /\ ChatClick /\ ~panelOpen
  /\ panelOpen' = TRUE /\ sheetOpen' = FALSE
  /\ view' = IF activeId = 0 THEN (IF listed # {} THEN "history" ELSE "chat") ELSE view
  /\ UNCHANGED <<listed, activeId, pendingFix, chatBusy, chatReqs, confirming>>
  /\ StoreUntouched /\ FixUntouched

\* open with the seed of a page's fix button: the chooser, no request yet.
OpenFix ==
  /\ ChatClick
  /\ panelOpen' = TRUE /\ sheetOpen' = FALSE
  /\ pendingFix' = TRUE /\ activeId' = 0 /\ view' = "chat" /\ dirtyRepo' = "none"
  /\ repo' \in Repos \cup {"none"} \* the suggestion's, if one is found
  /\ fixMode' = "code" /\ confirming' = FALSE
  /\ UNCHANGED <<listed, chatBusy, chatReqs>> /\ StoreUntouched

\* open with a seed that is only a draft.
OpenDraft ==
  /\ ChatClick
  /\ panelOpen' = TRUE /\ sheetOpen' = FALSE
  /\ activeId' = 0 /\ view' = "chat"
  /\ pendingFix' = FALSE /\ confirming' = FALSE
  /\ UNCHANGED <<listed, chatBusy, chatReqs>> /\ FixUntouched /\ StoreUntouched

\* open with a question of a page, and openSheet with one of the palette.
AskNow(sheet) ==
  /\ ChatClick
  /\ panelOpen' = ~sheet /\ sheetOpen' = sheet
  /\ pendingFix' = FALSE /\ dirtyRepo' = "none"
  /\ SendCreate("ask", "none", FALSE)
  /\ UNCHANGED <<listed, activeId, view, repo, fixMode, confirming>>
  /\ StoreUntouched

\* sheetToPanel: Escape, ⌘J, the sheet's buttons; the run goes on.
SheetToPanel ==
  /\ sheetOpen /\ sheetOpen' = FALSE /\ panelOpen' = TRUE /\ view' = "chat"
  /\ UNCHANGED <<askSteps, listed, activeId, pendingFix, chatBusy, chatReqs, confirming>>
  /\ StoreUntouched /\ FixUntouched

ClosePanel ==
  /\ ChatClick /\ panelOpen /\ panelOpen' = FALSE
  /\ confirming' = FALSE
  /\ UNCHANGED <<listed, activeId, view, sheetOpen, pendingFix, chatBusy, chatReqs>>
  /\ StoreUntouched /\ FixUntouched

\* setView: the history loads the list; review needs a chat.
SetView(v) ==
  /\ ChatClick /\ panelOpen /\ v # view /\ (v = "review" => ChatShown)
  /\ view' = v
  /\ listed' = IF v = "history" THEN ListLoaded ELSE listed
  /\ confirming' = FALSE
  /\ UNCHANGED <<activeId, panelOpen, sheetOpen, pendingFix, chatBusy, chatReqs>>
  /\ StoreUntouched /\ FixUntouched

NewChat ==
  /\ ChatClick /\ panelOpen
  /\ activeId' = 0 /\ view' = "chat" /\ pendingFix' = FALSE
  /\ confirming' = FALSE
  /\ UNCHANGED <<listed, panelOpen, sheetOpen, chatBusy, chatReqs>>
  /\ FixUntouched /\ StoreUntouched

\* send: a new chat from a draft, or a turn of the one on show; the composer
\* takes none while that one runs.
Send ==
  /\ ChatClick /\ (panelOpen \/ sheetOpen) /\ ~pendingFix
  /\ Copy.st # "running"
  /\ IF activeId = 0
       THEN SendCreate("ask", "none", FALSE) /\ dirtyRepo' = "none"
       ELSE /\ chatReqs' = chatReqs \cup {Req("send", activeId, "poll", "none", FALSE)}
            /\ UNCHANGED <<chatBusy, dirtyRepo>>
  /\ UNCHANGED <<listed, activeId, view, panelOpen, sheetOpen, pendingFix, repo, fixMode, confirming>>
  /\ StoreUntouched

----------------------------------------------------------------------------
(* The fix chooser.                                                        *)

FixShown == pendingFix /\ panelOpen /\ view = "chat"

\* Another repository, or the other way to fix.
ChooseFix ==
  /\ FixShown
  /\ \/ repo' \in Repos \ {repo} /\ fixMode' = fixMode
     \/ fixMode' \in {"code", "ask"} \ {fixMode} /\ repo' = repo
  /\ UNCHANGED <<askSteps, listed, activeId, view, panelOpen, sheetOpen, pendingFix, dirtyRepo, chatBusy, chatReqs, confirming>>
  /\ StoreUntouched

\* The warning is drawn for the repository it is about.
DirtyShown == dirtyRepo # "none" /\ dirtyRepo = repo

\* Start, or "Continue on current branch" under the warning.
StartFix(force) ==
  /\ ChatClick /\ FixShown
  /\ IF force THEN fixMode = "code" /\ DirtyShown
              ELSE ~chatBusy /\ (fixMode = "code" => repo # "none")
  /\ SendCreate("fix", IF fixMode = "code" THEN repo ELSE "none", force)
  /\ dirtyRepo' = "none"
  /\ UNCHANGED <<listed, activeId, view, panelOpen, sheetOpen, pendingFix, repo, fixMode, confirming>>
  /\ StoreUntouched

CancelFix ==
  /\ FixShown /\ pendingFix' = FALSE /\ dirtyRepo' = "none"
  /\ UNCHANGED <<askSteps, listed, activeId, view, panelOpen, sheetOpen, chatBusy, chatReqs, repo, fixMode, confirming>>
  /\ StoreUntouched

----------------------------------------------------------------------------
(* A chat of the history, and what is done to it.                          *)

\* select: shown at once from the store, read again, polled if it runs.
Select(i) ==
  /\ ChatClick /\ panelOpen /\ view = "history" /\ i \in listed
  /\ activeId' = i /\ view' = "chat" /\ pendingFix' = FALSE
  /\ chatReqs' = chatReqs \cup {Req("get", i, "pollIfRunning", "none", FALSE)}
  /\ confirming' = FALSE
  /\ UNCHANGED <<listed, panelOpen, sheetOpen, chatBusy>>
  /\ FixUntouched /\ StoreUntouched

\* rename and remove, of any chat of the history.
EditHistory(op, i) ==
  /\ ChatClick /\ panelOpen /\ view = "history" /\ i \in listed /\ op \in {"rename", "remove"}
  /\ chatReqs' = chatReqs \cup {Req(op, i, "list", "none", FALSE)}
  /\ UNCHANGED <<listed, activeId, view, panelOpen, sheetOpen, pendingFix, chatBusy, confirming>>
  /\ FixUntouched /\ StoreUntouched

\* cancel: the composer's stop button.
Stop ==
  /\ ChatClick /\ ChatShown /\ Copy.st = "running" /\ (panelOpen \/ sheetOpen)
  /\ chatReqs' = chatReqs \cup {Req("cancel", activeId, "none", "none", FALSE)}
  /\ UNCHANGED <<listed, activeId, view, panelOpen, sheetOpen, pendingFix, chatBusy, confirming>>
  /\ FixUntouched /\ StoreUntouched

CardShown == ChatShown /\ view = "chat" /\ (panelOpen \/ sheetOpen) /\ ~pendingFix
CardBusy == \E r \in chatReqs : r.op \in {"dry-run", "apply", "reject"}

\* The proposal card's buttons by the patch's status.
CardOffers(a) ==
  CASE a = "dry-run" -> Copy.patch \in {"proposed", "dry-run-failed"}
    [] a = "apply" -> confirming
    [] a = "reject" -> Copy.patch \in {"proposed", "dry-run-ok", "dry-run-failed"} /\ ~confirming

AskConfirm ==
  /\ CardShown /\ ~CardBusy
  /\ \/ Copy.patch = "dry-run-ok" /\ ~confirming /\ confirming' = TRUE
     \/ confirming /\ confirming' = FALSE
  /\ UNCHANGED <<askSteps, listed, activeId, view, panelOpen, sheetOpen, pendingFix, chatBusy, chatReqs>>
  /\ FixUntouched /\ StoreUntouched

ProposalAction(a) ==
  /\ ChatClick /\ CardShown /\ ~CardBusy /\ CardOffers(a)
  /\ chatReqs' = chatReqs \cup {Req(a, activeId, "refresh", "none", FALSE)}
  /\ UNCHANGED <<listed, activeId, view, panelOpen, sheetOpen, pendingFix, chatBusy, confirming>>
  /\ FixUntouched /\ StoreUntouched

----------------------------------------------------------------------------
(* The backend and its answers.                                            *)

UiUntouched == UNCHANGED <<activeId, view, panelOpen, sheetOpen, pendingFix,
                           repo, fixMode, dirtyRepo, chatBusy, confirming>>
CopiesUntouched == UNCHANGED <<chats, newest, overtaken>>

\* An agent reports, or ends its run and may propose a patch.
AgentReports(i) ==
  /\ agentTurns < MaxAgentTurns /\ agentTurns' = agentTurns + 1
  /\ kept[i].st = "running"
  /\ \E st \in {"running", "idle"}, p \in {kept[i].patch, "proposed"} :
       kept' = [kept EXCEPT ![i] = [st |-> st, ver |-> @.ver + 1, patch |-> p]]
  /\ UNCHANGED <<askSteps, listed, pollers, chatReqs, warned>> /\ UiUntouched /\ CopiesUntouched

Served(r, c) == chatReqs' = (chatReqs \ {r}) \cup {[r EXCEPT !.got = c]}
Moved(c, st, p) == [st |-> st, ver |-> c.ver + 1, patch |-> p]

\* The backend serves a request; what it answers is fixed here.
Serve(r) ==
  /\ r.got = NotAnswered
  /\ CASE r.op = "create" ->
            IF r.repo \in DirtyRepos /\ ~r.force
            THEN Served(r, [st |-> "dirty", ver |-> 0, patch |-> "none"]) /\ UNCHANGED kept
            ELSE \E i \in ChatIds :
                   /\ kept[i].st = "none"
                   /\ kept' = [kept EXCEPT ![i] = [st |-> "running", ver |-> 0, patch |-> "none"]]
                   /\ chatReqs' = (chatReqs \ {r}) \cup {[r EXCEPT !.got = kept'[i], !.id = i]}
       [] r.op \in {"get", "tick"} ->
            Served(r, IF kept[r.id].ver = r.since THEN Unchanged ELSE kept[r.id]) /\ UNCHANGED kept
       [] r.op \in {"send", "rename", "cancel", "remove", "dry-run", "apply", "reject"} ->
            LET c == kept[r.id]
                c2 == CASE r.op = "send" -> {Moved(c, "running", c.patch)}
                        [] r.op = "rename" -> {Moved(c, c.st, c.patch)}
                        [] r.op = "cancel" -> {IF c.st = "running" THEN Moved(c, "idle", c.patch) ELSE c}
                        [] r.op = "remove" -> {[c EXCEPT !.st = "gone"]}
                        [] r.op = "dry-run" -> {Moved(c, c.st, p) : p \in {"dry-run-ok", "dry-run-failed"}}
                        [] r.op = "apply" -> {Moved(c, c.st, "applied")}
                        [] r.op = "reject" -> {Moved(c, c.st, "rejected")}
            IN /\ c.st \in {"idle", "running"}
               /\ r.op = "send" => c.st = "idle"
               /\ \E x \in c2 : kept' = [kept EXCEPT ![r.id] = x] /\ Served(r, x)
  /\ UNCHANGED <<askSteps, agentTurns, listed, pollers, warned>> /\ UiUntouched /\ CopiesUntouched

\* create answers with a chat: it is shown, and every draft is dropped,
\* whatever the user has turned to meanwhile.
ChatIsCreated(r) ==
  /\ r.op = "create" /\ r.got.st \notin {"waiting", "dirty"}
  /\ chatReqs' = chatReqs \ {r}
  /\ Stored(r.id, r.got)
  /\ activeId' = r.id /\ view' = "chat" /\ chatBusy' = FALSE
  /\ pendingFix' = FALSE
  /\ pollers' = Polled(pollers, r.id)
  /\ listed' = ListLoaded
  /\ confirming' = FALSE
  /\ UNCHANGED <<askSteps, agentTurns, kept, panelOpen, sheetOpen, repo, fixMode, dirtyRepo, warned>>

\* The repository has changes of the user's: the chooser warns of it.
CreateIsDirty(r) ==
  /\ r.op = "create" /\ r.got.st = "dirty"
  /\ chatReqs' = chatReqs \ {r}
  /\ chatBusy' = FALSE /\ dirtyRepo' = r.repo /\ warned' = warned \cup {r.repo}
  /\ UNCHANGED <<askSteps, listed, activeId, view, panelOpen, sheetOpen,
                 pendingFix, repo, fixMode, confirming, agentTurns, kept, chats, pollers, newest, overtaken>>

\* Whatever fails to be served: the error is shown, nothing else changes,
\* except that a failed read goes on to what was to follow it.
AskFails(r) ==
  /\ r.got = NotAnswered /\ r.op # "tick"
  /\ chatReqs' = chatReqs \ {r}
  /\ chatBusy' = IF r.op = "create" THEN FALSE ELSE chatBusy
  /\ pollers' = IF \/ r.op = "get" /\ r.then = "poll"
                   \/ r.op = "get" /\ r.then = "pollIfRunning" /\ chats[r.id].st = "running"
                THEN Polled(pollers, r.id) ELSE pollers
  /\ overtaken' = IF r.op = "get" THEN overtaken \cup {r.id} ELSE overtaken
  /\ UNCHANGED <<askSteps, listed, activeId, view, panelOpen, sheetOpen, pendingFix,
                 repo, fixMode, dirtyRepo, confirming, agentTurns, kept, chats, newest, warned>>

\* A write is answered: the chat is read again where the code does, and a
\* removed one leaves the store (its poller, if any, is left running).
WriteAnswers(r) ==
  /\ r.op \in {"send", "rename", "cancel", "remove", "dry-run", "apply", "reject"} /\ r.got # NotAnswered
  /\ chatReqs' = (chatReqs \ {r}) \cup
       IF r.op \in {"cancel", "remove"} THEN {}
       ELSE {[Req("get", r.id, r.then, "none", FALSE) EXCEPT !.n = r.n]}
  /\ IF r.op = "remove"
       THEN /\ chats' = [chats EXCEPT ![r.id] = NoCopy]
            /\ activeId' = IF activeId = r.id THEN 0 ELSE activeId
            /\ listed' = ListLoaded
       ELSE UNCHANGED <<chats, activeId, listed>>
  /\ UNCHANGED <<askSteps, view, panelOpen, sheetOpen, pendingFix, repo, fixMode,
                 dirtyRepo, chatBusy, confirming, agentTurns, kept, pollers, newest, overtaken, warned>>

\* A plausible slip: a chat taken from the history is not polled.
AfterReadSendOnly(p, i, then, c) == IF then = "poll" THEN Polled(p, i) ELSE p

\* What follows a read of the chat.
AfterRead(p, i, then, c) ==
  IF then = "poll" \/ (then = "pollIfRunning" /\ c.st = "running") THEN Polled(p, i) ELSE p

\* refresh answers; a chat that is gone answers an error.
ReadAnswers(r) ==
  /\ r.op = "get" /\ r.got # NotAnswered
  /\ chatReqs' = chatReqs \ {r}
  /\ IF r.got.st = "gone"
       THEN CopiesUntouched
       ELSE Stored(r.id, r.got)
  /\ pollers' = AfterRead(pollers, r.id, r.then, chats'[r.id])
  /\ listed' = IF r.then = "list" THEN ListLoaded ELSE listed
  /\ confirming' = IF r.then = "refresh" THEN FALSE ELSE confirming
  /\ UNCHANGED <<askSteps, activeId, view, panelOpen, sheetOpen, pendingFix, repo,
                 fixMode, dirtyRepo, chatBusy, agentTurns, kept, warned>>

\* A tick's timer fires and asks for the chat.
Tick(i) ==
  /\ pollers[i] = "timer"
  /\ pollers' = [pollers EXCEPT ![i] = "asking"]
  /\ chatReqs' = chatReqs \cup {Req("tick", i, "none", "none", FALSE)}
  /\ UNCHANGED <<askSteps, listed, agentTurns, kept, warned>> /\ UiUntouched /\ CopiesUntouched

\* The tick's answer, or the store's copy where nothing has changed: a chat
\* at rest ends the polling, and any failure, a removed chat's too, only asks
\* again later.
TickEnds(c) == c.st = "idle"

TickAnswers(r) ==
  /\ r.op = "tick"
  /\ chatReqs' = chatReqs \ {r}
  /\ IF r.got.st \in {"waiting", "gone"}
       THEN CopiesUntouched /\ pollers' = [pollers EXCEPT ![r.id] = "timer"] /\ listed' = listed
       ELSE /\ IF r.got = Unchanged THEN CopiesUntouched ELSE Stored(r.id, r.got)
            /\ pollers' = [pollers EXCEPT ![r.id] = IF TickEnds(chats'[r.id]) THEN "none" ELSE "timer"]
            /\ listed' = IF TickEnds(chats'[r.id]) THEN ListLoaded ELSE listed
  /\ UNCHANGED <<askSteps, agentTurns, kept, warned>> /\ UiUntouched

ChatNext ==
  /\ \/ OpenPanel \/ OpenFix \/ OpenDraft \/ \E b \in BOOLEAN : AskNow(b)
     \/ SheetToPanel \/ ClosePanel \/ \E v \in {"chat", "history", "review"} : SetView(v)
     \/ NewChat \/ Send
     \/ ChooseFix \/ CancelFix \/ \E b \in BOOLEAN : StartFix(b)
     \/ \E i \in ChatIds : Select(i) \/ \E op \in {"rename", "remove"} : EditHistory(op, i)
     \/ Stop \/ AskConfirm \/ \E a \in {"dry-run", "apply", "reject"} : ProposalAction(a)
     \/ \E i \in ChatIds : AgentReports(i) \/ Tick(i)
     \/ \E r \in chatReqs : \/ Serve(r) \/ ChatIsCreated(r) \/ CreateIsDirty(r) \/ AskFails(r)
                            \/ WriteAnswers(r) \/ ReadAnswers(r) \/ TickAnswers(r)
  /\ UNCHANGED setupVars

----------------------------------------------------------------------------
(* The settings: agent clients and the server's switch.                    *)

NoDialog == [id |-> "none", action |-> "none", mode |-> "none", plan |-> "none"]
NoRows == {"none"}

SetupInit ==
  /\ setupSteps = 0 /\ installed \in SUBSET AiClients
  /\ rows = NoRows /\ installMode = "readonly" /\ dialog = NoDialog
  /\ setupBusy = "none"
  /\ setupReqs = {[n |-> 0, op |-> "clients", of |-> NoDialog, got |-> NoRows]}
  /\ serverOn \in BOOLEAN /\ switch = serverOn /\ settingBusy = FALSE
  /\ planned = {}

SetupClick == setupSteps < MaxSetupSteps /\ setupSteps' = setupSteps + 1
SetupReq(op, of, got) == [n |-> setupSteps, op |-> op, of |-> of, got |-> got]

\* setMode
PickMode ==
  /\ SetupClick /\ installMode' \in {"readonly", "full"} \ {installMode}
  /\ UNCHANGED <<installed, rows, dialog, setupBusy, setupReqs, serverOn, switch, settingBusy, planned>>

\* ask: the dialog opens without its plan, which is asked for.
AskPlan(c) ==
  /\ SetupClick /\ rows # NoRows /\ setupBusy = "none"
  /\ LET d == [id |-> c, action |-> IF c \in rows THEN "uninstall" ELSE "install",
               mode |-> installMode, plan |-> "none"]
     IN /\ dialog' = d
        /\ setupReqs' = setupReqs \cup {SetupReq("plan", d, NoRows)}
  /\ UNCHANGED <<installed, rows, installMode, setupBusy, serverOn, switch, settingBusy, planned>>

\* What a plan's answer makes of the dialog: it carries what it was asked for.
WithPlan(d, of) == [of EXCEPT !.plan = of.id]

\* The plan comes, or its error; a cancelled dialog opens again.
PlanAnswers(r, ok) ==
  /\ r.op = "plan" /\ setupReqs' = setupReqs \ {r}
  /\ dialog' = IF ok THEN WithPlan(dialog, r.of) ELSE r.of
  /\ planned' = IF ok THEN planned \cup {r.of} ELSE planned
  /\ UNCHANGED <<setupSteps, installed, rows, installMode, setupBusy, serverOn, switch, settingBusy>>

CancelPlan ==
  /\ dialog # NoDialog /\ dialog' = NoDialog
  /\ UNCHANGED <<setupSteps, installed, rows, installMode, setupBusy, setupReqs, serverOn, switch, settingBusy, planned>>

\* run: confirmed under a plan; a run under way does not disable it.
RunPlan ==
  /\ SetupClick /\ dialog.plan # "none"
  /\ setupBusy' = dialog.id /\ dialog' = NoDialog
  /\ setupReqs' = setupReqs \cup {SetupReq(dialog.action, dialog, NoRows)}
  /\ UNCHANGED <<installed, rows, installMode, serverOn, switch, settingBusy, planned>>

\* updateAll: the outdated ones, here any that are installed.
UpdateAll ==
  /\ SetupClick /\ setupBusy = "none" /\ rows # NoRows /\ rows # {}
  /\ setupBusy' = "*"
  /\ setupReqs' = setupReqs \cup {SetupReq("update", NoDialog, NoRows)}
  /\ UNCHANGED <<installed, rows, installMode, dialog, serverOn, switch, settingBusy, planned>>

\* The backend edits the client's configuration and answers.
ServeSetup(r) ==
  /\ r.got = NoRows /\ r.op # "plan"
  /\ installed' = CASE r.op = "install" -> installed \cup {r.of.id}
                    [] r.op = "uninstall" -> installed \ {r.of.id}
                    [] OTHER -> installed
  /\ serverOn' = IF r.op = "switch" THEN ~serverOn ELSE serverOn
  /\ setupReqs' = (setupReqs \ {r}) \cup
       {[r EXCEPT !.got = IF r.op \in {"switch", "status"} THEN (IF serverOn' THEN {"on"} ELSE {}) ELSE installed']}
  /\ UNCHANGED <<setupSteps, rows, installMode, dialog, setupBusy, switch, settingBusy, planned>>

\* A run's answer changes its own row, load's and updateAll's every row; the
\* spinner is cleared by whichever ends.
SetupAnswers(r) ==
  /\ r.got # NoRows /\ r.op \notin {"switch", "status"} /\ setupReqs' = setupReqs \ {r}
  /\ rows' = CASE r.op \in {"clients", "update"} -> r.got
               [] rows = NoRows -> rows
               [] r.of.id \in r.got -> rows \cup {r.of.id}
               [] OTHER -> rows \ {r.of.id}
  /\ setupBusy' = IF r.op = "clients" THEN setupBusy ELSE "none"
  /\ UNCHANGED <<setupSteps, installed, installMode, dialog, serverOn, switch, settingBusy, planned>>

SetupFails(r) ==
  /\ r.got = NoRows /\ r.op # "plan" /\ setupReqs' = setupReqs \ {r}
  /\ setupBusy' = IF r.op \in {"install", "uninstall", "update"} THEN "none" ELSE setupBusy
  /\ settingBusy' = IF r.op = "switch" THEN FALSE ELSE settingBusy
  /\ UNCHANGED <<setupSteps, installed, rows, installMode, dialog, serverOn, switch, planned>>

\* The switch: disabled while one is under way; every change, and a rotated
\* token, has the client list read again.
FlipServer ==
  /\ SetupClick /\ ~settingBusy /\ settingBusy' = TRUE
  /\ setupReqs' = setupReqs \cup {SetupReq("switch", NoDialog, NoRows)}
  /\ UNCHANGED <<installed, rows, installMode, dialog, setupBusy, serverOn, switch, planned>>

\* The status is read every few seconds too (AIStatusIndicator).
ReadStatus ==
  /\ ~\E r \in setupReqs : r.op = "status"
  /\ setupReqs' = setupReqs \cup {[SetupReq("status", NoDialog, NoRows) EXCEPT !.n = 0]}
  /\ UNCHANGED <<setupSteps, installed, rows, installMode, dialog, setupBusy, serverOn, switch, settingBusy, planned>>

StatusAnswers(r) ==
  /\ r.op \in {"switch", "status"} /\ r.got # NoRows /\ setupReqs' = setupReqs \ {r}
  /\ switch' = (r.got = {"on"})
  /\ settingBusy' = IF r.op = "switch" THEN FALSE ELSE settingBusy
  /\ UNCHANGED <<setupSteps, installed, rows, installMode, dialog, setupBusy, serverOn, planned>>

RotateToken ==
  /\ SetupClick /\ ~settingBusy
  /\ setupReqs' = setupReqs \cup {SetupReq("clients", NoDialog, NoRows)}
  /\ UNCHANGED <<installed, rows, installMode, dialog, setupBusy, serverOn, switch, settingBusy, planned>>

AgentsNext ==
  /\ \/ PickMode \/ \E c \in AiClients : AskPlan(c)
     \/ CancelPlan \/ RunPlan \/ UpdateAll \/ FlipServer \/ ReadStatus \/ RotateToken
     \/ \E r \in setupReqs : \/ \E b \in BOOLEAN : PlanAnswers(r, b)
                             \/ ServeSetup(r) \/ SetupAnswers(r) \/ SetupFails(r) \/ StatusAnswers(r)
  /\ UNCHANGED askVars

----------------------------------------------------------------------------
\* The chats and the settings have nothing in common.
AssistInit == ChatInit /\ SetupInit

AssistSpec == AssistInit /\ [][ChatNext \/ AgentsNext]_assistVars

----------------------------------------------------------------------------
(* Properties.                                                             *)

\* A run is followed to its end: a chat on show whose agent works is polled
\* or has a request under way, through sends, page loads, selections from the
\* history and failed reads (poll, send and select, aiChatStore.ts).  Excepted
\* are a chat whose older answer landed last, which can end the polling of a
\* newer run, and one whose read failed after a select or a send.
RunIsFollowed ==
  \A i \in ChatIds :
    (i = activeId /\ chats[i] # NoCopy /\ kept[i].st = "running" /\ i \notin overtaken) =>
      pollers[i] # "none" \/ \E r \in chatReqs : r.id = i

\* Uncommitted work is touched only by consent to that repository's warning:
\* a fix that may use a dirty tree names a repository the user was warned of,
\* whatever was chosen between the warning and the click (FixChooser.tsx).
DirtyIsAccepted ==
  \A r \in chatReqs : r.op = "create" /\ r.force => r.repo \in warned

\* What is confirmed is what the plan described: every change of a client's
\* configuration was shown with its own plan first, however the answers of
\* the plans and the dialogs crossed (ask and run, ClientInstallList.tsx).
PlansAreTheirOwn ==
  \A r \in setupReqs : r.op \in {"install", "uninstall"} =>
    r.of.plan = r.of.id /\ [r.of EXCEPT !.plan = "none"] \in planned

\* The assistant acts on what was shown: the parts above together.
AssistantKeepsItsWord == RunIsFollowed /\ DirtyIsAccepted /\ PlansAreTheirOwn
=============================================================================
