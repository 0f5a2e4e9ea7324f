---------------------------- MODULE CloudAccess ----------------------------
(***************************************************************************)
(* Cloud identities in the user interface: the sign-ins kept by            *)
(* store/cloudAuthSlice.ts and drawn by components/CloudAccountsMenu.tsx,  *)
(* the discovery page (components/CloudDiscovery.tsx) and the choice of an *)
(* IAM Identity Center role for a cluster (cloud/ClusterSSOConnect.tsx).   *)
(*                                                                         *)
(* Three machines that share only the step budget:                         *)
(*   SignInNext    one waiter per portal, provider or profile, the polls,  *)
(*                 cancellation and the reloads of the sign-in summary;    *)
(*   DiscoverNext  discovery runs and their streams, the background pass,  *)
(*                 single and batch imports, the stored list;              *)
(*   ConnectNext   the portals that grant an account, the chosen role.     *)
(*                                                                         *)
(* The back end is external: a sign-in job is pending until the user       *)
(* approves, refuses or cancels it and is forgotten some time after.       *)
(***************************************************************************)
EXTENDS Integers, FiniteSets, Sequences

CONSTANTS
  SsoPortals,     \* AWS access portals, by normalised start URL
  CliProviders,   \* "gcp", "azure": sign-in by the provider's CLI
  AwsProfiles,    \* profiles of ~/.aws/config signed in with the AWS CLI
  MaxAuthLoads,   \* bound: summary requests under way at once
  SsoSource, ProfileSource, ProjectSource,   \* one discovery source of each sort
  CloudClusters,  \* clusters a discovery can find
  MaxRuns,        \* bound: discovery runs
  RolesOf,        \* [portal -> roles it grants in the cluster's account]
  MaxCloudSteps   \* bound: clicks of the user

ASSUME CloudAssumption ==
  /\ MaxAuthLoads \in Nat /\ MaxRuns \in Nat /\ MaxCloudSteps \in Nat
  /\ IsFiniteSet(CloudClusters)

LoginKeys == SsoPortals \cup CliProviders \cup AwsProfiles

VARIABLES
  cloudClicks,  \* clicks so far
  \* sign-in
  tokens,       \* back end: keys signed in
  jobs,         \* back end: [key -> state of its last sign-in job]
  logins,       \* ssoLogins, providerLogins and profileLogins
  waiters,      \* ssoWaiters and providerWaiters: [key -> how far its wait is]
  cancels,      \* cancelSSOLogin / cancelProviderLogin calls under way
  authLoads,    \* getAuthSummary requests under way
  authShown,    \* keys the summary on screen calls signed in
  inflightLoad, \* the request a further load joins, 0 if none
  accounts,     \* the menu's account lists: [portal -> "no", "loading", "listed"]
  \* discovery
  source,       \* which provider tab is active
  chosen,       \* the selected sources
  projects,     \* gcpProjects / azureSubs: "no", "loading", "listed"
  runs,         \* handleDiscover calls: [phase, known, all, open, picked]
  runStreams,      \* registered stream handlers: [run, src]
  discovering,  \* the button's spinner
  backPass,     \* runBackgroundDiscovery: "idle", "armed", "running", "done"
  found,        \* discoveredClusters: [id, imported, run], run 0 the background pass or the store
  storedFound,  \* ids kept in localStorage
  imported,     \* back end: clusters in the kubeconfig
  batch,        \* the batch import: "no", "asked", "job", "ended"
  \* connect
  signedPortals, \* signedInPortals(ssoSessions)
  options,      \* portals that grant the account, or Checking
  optionsOf,    \* the portals the running check asks
  picked,       \* startUrl
  role,         \* the role in the select
  binding,      \* the cluster's binding [portal, role] or NoBinding
  busy          \* a bind or unbind call under way: [portal, role], NoBinding, NotBusy

signVars == <<tokens, jobs, logins, waiters, cancels, authLoads, authShown, inflightLoad, accounts>>
discoverVars == <<source, chosen, projects, runs, runStreams, discovering, backPass, found, storedFound, imported, batch>>
connectVars == <<signedPortals, options, optionsOf, picked, role, binding, busy>>
cloudVars == <<cloudClicks, signVars, discoverVars, connectVars>>

CloudClick == cloudClicks < MaxCloudSteps /\ cloudClicks' = cloudClicks + 1

-----------------------------------------------------------------------------
(* Sign-in. *)

NeedsSignIn(k) == k \notin authShown

NoKey == [kind |-> "none", key |-> ""]

CanLoad == Cardinality(authLoads) < MaxAuthLoads

\* A request asked for: by its number, what the back end knows, what waits for it.
Forced(loads, op, snap) ==
  loads \cup {[n |-> CHOOSE i \in 1..(Cardinality(loads) + 1) : \A l \in loads : l.n # i,
               snap |-> snap, op |-> op]}

NewLoad(after, before) == (CHOOSE l \in after \ before : TRUE).n

\* loadAuthSummary(true): ask again whatever is under way.
LoadSummary(op, snap) ==
  /\ CanLoad
  /\ authLoads' = Forced(authLoads, op, snap)
  /\ inflightLoad' = NewLoad(authLoads', authLoads)

\* The answer holds what the back end knew when it was asked or knows by now.
\* The older of two requests clears the other's place too.
SummaryAnswers(l) ==
  /\ l.op.kind = "none"
  /\ authLoads' = authLoads \ {l} /\ inflightLoad' = 0
  /\ \E snap \in {l.snap, tokens, authShown} : authShown' = snap
  /\ UNCHANGED <<tokens, jobs, logins, waiters, cancels, accounts, cloudClicks>>

\* useCloudAuthSync's interval, the menu's opening and the back end's push.
Reload ==
  /\ CloudClick /\ LoadSummary(NoKey, tokens)
  /\ UNCHANGED <<tokens, jobs, logins, waiters, cancels, authShown, accounts>>

\* The buttons of a portal's row: a pending login hides or disables them.
SessionOffersSignIn(p) == logins[p] # "pending"

SessionOffersSignOut(p) == ~NeedsSignIn(p)

\* What LoginProgress draws under the row.
LoginPanel(k) ==
  IF logins[k] \in {"none", "authorized", "cancelled"} THEN "hidden" ELSE logins[k]

\* A provider's row: its button is disabled while the CLI runs.
ProviderOffersSignIn(k) == logins[k] # "pending"

\* One sign-in per key; a second call joins the first.
Begins(k) == waiters' = [waiters EXCEPT ![k] = IF @ = "none" THEN "begin" ELSE @]

SignInSSO(p) ==
  /\ p \in SsoPortals /\ SessionOffersSignIn(p) /\ CloudClick /\ Begins(p)
  /\ UNCHANGED <<tokens, jobs, logins, cancels, authLoads, authShown, inflightLoad, accounts>>

SignInProvider(k) ==
  /\ k \in CliProviders /\ ProviderOffersSignIn(k) /\ CloudClick /\ Begins(k)
  /\ UNCHANGED <<tokens, jobs, logins, cancels, authLoads, authShown, inflightLoad, accounts>>

SignInAWSProfile(k) ==
  /\ k \in AwsProfiles /\ CloudClick /\ Begins(k)
  /\ UNCHANGED <<tokens, jobs, logins, cancels, authLoads, authShown, inflightLoad, accounts>>

\* The back end opens the browser once: a pending job is returned again.
BeginAnswers(k) ==
  /\ waiters[k] = "begin"
  /\ waiters' = [waiters EXCEPT ![k] = "poll"]
  /\ jobs' = [jobs EXCEPT ![k] = "pending"]
  /\ logins' = [logins EXCEPT ![k] = "pending"]
  /\ UNCHANGED <<tokens, cancels, authLoads, authShown, inflightLoad, accounts, cloudClicks>>

BeginFails(k) ==
  /\ waiters[k] = "begin"
  /\ waiters' = [waiters EXCEPT ![k] = "none"]
  /\ logins' = [logins EXCEPT ![k] = "failed"]
  /\ UNCHANGED <<tokens, jobs, cancels, authLoads, authShown, inflightLoad, accounts, cloudClicks>>

\* Mutant: only an answered poll writes, so a forgotten job leaves the last state.
FinalLoginKept(k) == IF jobs[k] = "gone" THEN logins[k] ELSE jobs[k]

\* The last state a wait writes: a job the back end has forgotten has failed.
FinalLogin(k) == IF jobs[k] = "gone" THEN "failed" ELSE jobs[k]

\* A poll: a pending job is polled again, anything else ends the wait and
\* reloads the summary.
PollAnswers(k) ==
  /\ waiters[k] = "poll" /\ jobs[k] = "pending" /\ logins[k] # "pending"
  /\ logins' = [logins EXCEPT ![k] = "pending"]
  /\ UNCHANGED <<tokens, jobs, waiters, cancels, authLoads, authShown, inflightLoad, accounts, cloudClicks>>

WaitForLogin(k) ==
  /\ waiters[k] = "poll" /\ jobs[k] # "pending"
  /\ waiters' = [waiters EXCEPT ![k] = "load"]
  /\ logins' = [logins EXCEPT ![k] = FinalLogin(k)]
  /\ LoadSummary([kind |-> "wait", key |-> k], tokens)
  /\ UNCHANGED <<tokens, jobs, cancels, authShown, accounts, cloudClicks>>

\* The waiter's own reload: its end frees the key, and a success is announced,
\* which every listener answers with one more reload.  The menu forgets the
\* account list it had.
SignInEnds(l) ==
  LET k == l.op.key IN
  /\ l.op.kind = "wait"
  /\ \E snap \in {l.snap, tokens, authShown} : authShown' = snap
  /\ waiters' = [waiters EXCEPT ![k] = "none"]
  /\ IF jobs[k] = "authorized"
     THEN /\ authLoads' = Forced(authLoads \ {l}, NoKey, tokens)
          /\ inflightLoad' = NewLoad(authLoads', authLoads \ {l})
          /\ accounts' = IF k \in SsoPortals THEN [accounts EXCEPT ![k] = "no"] ELSE accounts
     ELSE /\ authLoads' = authLoads \ {l} /\ inflightLoad' = 0
          /\ UNCHANGED accounts
  /\ UNCHANGED <<tokens, jobs, logins, cancels, cloudClicks>>

\* A sign-in of a portal just added: it waits for the summary, then begins.
AddedPortal(l) ==
  /\ l.op.kind = "add"
  /\ authLoads' = authLoads \ {l} /\ inflightLoad' = 0
  /\ \E snap \in {l.snap, tokens, authShown} : authShown' = snap
  /\ Begins(l.op.key)
  /\ UNCHANGED <<tokens, jobs, logins, cancels, accounts, cloudClicks>>

AddSsoSession(p) ==
  /\ p \in SsoPortals /\ CloudClick /\ LoadSummary([kind |-> "add", key |-> p], tokens)
  /\ UNCHANGED <<tokens, jobs, logins, waiters, cancels, authShown, accounts>>

\* Dropping a login entry: a pending one first waits for the back end's answer.
Drops(k, reload) ==
  IF logins[k] = "pending"
  THEN cancels' = cancels \cup {[key |-> k, reload |-> reload]}
       /\ UNCHANGED <<logins, authLoads, inflightLoad>>
  ELSE /\ logins' = [logins EXCEPT ![k] = "none"] /\ UNCHANGED cancels
       /\ IF reload THEN LoadSummary(NoKey, tokens') ELSE UNCHANGED <<authLoads, inflightLoad>>

\* cancelSSOLogin and cancelProviderLogin drop the entry; the waiter goes on.
CancelLogin(k) ==
  /\ k \notin AwsProfiles /\ LoginPanel(k) # "hidden" /\ CloudClick
  /\ UNCHANGED tokens /\ Drops(k, FALSE)
  /\ UNCHANGED <<jobs, waiters, authShown, accounts>>

CancelAnswers(c) ==
  /\ cancels' = cancels \ {c}
  /\ \E reached \in BOOLEAN :
       jobs' = [jobs EXCEPT ![c.key] = IF reached /\ @ = "pending" THEN "cancelled" ELSE @]
  /\ logins' = [logins EXCEPT ![c.key] = "none"]
  /\ IF c.reload THEN LoadSummary(NoKey, tokens) ELSE UNCHANGED <<authLoads, inflightLoad>>
  /\ UNCHANGED <<tokens, waiters, authShown, accounts, cloudClicks>>

\* signOutSSO: the tokens go (or the call fails), then the login entry, then the
\* summary is read again.
SignOutSSO(p) ==
  /\ p \in SsoPortals /\ SessionOffersSignOut(p) /\ CloudClick
  /\ tokens' \in {tokens \ {p}, tokens}
  /\ Drops(p, TRUE)
  /\ UNCHANGED <<jobs, waiters, authShown, accounts>>

\* refreshSSO: a silent renewal, or a signed-out portal left as it is.
RefreshSSO(p) ==
  /\ p \in SsoPortals /\ CloudClick
  /\ tokens' \in {tokens \cup {p}, tokens} /\ LoadSummary(NoKey, tokens')
  /\ UNCHANGED <<jobs, logins, waiters, cancels, authShown, accounts>>

\* The menu lists a portal's accounts once, when its row is expanded.
LoadAccounts(p) ==
  /\ p \in SsoPortals /\ ~NeedsSignIn(p) /\ accounts[p] = "no" /\ CloudClick
  /\ accounts' = [accounts EXCEPT ![p] = "loading"]
  /\ UNCHANGED <<tokens, jobs, logins, waiters, cancels, authLoads, authShown, inflightLoad>>

AccountsAnswer(p) ==
  /\ p \in SsoPortals /\ accounts[p] = "loading"
  /\ \E ok \in BOOLEAN : accounts' = [accounts EXCEPT ![p] = IF ok THEN "listed" ELSE "no"]
  /\ UNCHANGED <<tokens, jobs, logins, waiters, cancels, authLoads, authShown, inflightLoad, cloudClicks>>

\* The user approves or refuses in the browser; old jobs, and those of a restarted back end, are
\* forgotten.
JobEnds(k) ==
  /\ jobs[k] = "pending"
  /\ \/ jobs' = [jobs EXCEPT ![k] = "authorized"] /\ tokens' = tokens \cup {k}
     \/ jobs' = [jobs EXCEPT ![k] = "failed"] /\ UNCHANGED tokens
  /\ UNCHANGED <<logins, waiters, cancels, authLoads, authShown, inflightLoad, accounts, cloudClicks>>

JobForgotten(k) ==
  /\ jobs[k] \in {"pending", "authorized", "failed", "cancelled"}
  /\ jobs' = [jobs EXCEPT ![k] = "gone"]
  /\ UNCHANGED <<tokens, logins, waiters, cancels, authLoads, authShown, inflightLoad, accounts, cloudClicks>>

SignInInit ==
  /\ tokens = {} /\ authShown = {} /\ authLoads = {} /\ inflightLoad = 0
  /\ jobs = [k \in LoginKeys |-> "none"] /\ logins = [k \in LoginKeys |-> "none"]
  /\ waiters = [k \in LoginKeys |-> "none"] /\ cancels = {}
  /\ accounts = [p \in SsoPortals |-> "no"]

SignInNext ==
  \/ Reload
  \/ \E l \in authLoads : SummaryAnswers(l) \/ SignInEnds(l) \/ AddedPortal(l)
  \/ \E c \in cancels : CancelAnswers(c)
  \/ \E k \in LoginKeys :
       \/ SignInSSO(k) \/ SignInProvider(k) \/ SignInAWSProfile(k)
       \/ BeginAnswers(k) \/ BeginFails(k) \/ PollAnswers(k) \/ WaitForLogin(k)
       \/ AddSsoSession(k) \/ CancelLogin(k)
       \/ SignOutSSO(k) \/ RefreshSSO(k) \/ LoadAccounts(k) \/ AccountsAnswer(k)
       \/ JobEnds(k) \/ JobForgotten(k)

(* A login panel that says "waiting for approval" always has a waiter      *)
(* polling for it, so it comes to an end: no cancel, second sign-in, failed *)
(* or forgotten job leaves the spinner of cloudAuthSlice.ts on screen with *)
(* nobody to clear it.                                                     *)
SignInsAreWatched ==
  \A k \in LoginKeys : logins[k] = "pending" => waiters[k] = "poll"

-----------------------------------------------------------------------------
(* Discovery. *)

SourcesOf(tab) == IF tab = "aws" THEN {SsoSource, ProfileSource} ELSE {ProjectSource}

\* The button looks at the selection only.
CanDiscover == chosen \cap SourcesOf(source) # {}

ListedPortals == {p \in SsoPortals : accounts[p] = "listed"}

\* Sources a run asks: portals whose accounts were never listed, or are all
\* unticked, are passed over.
Asked(tab) ==
  (chosen \cap SourcesOf(tab)) \ (IF ListedPortals = {} THEN {SsoSource} ELSE {})

\* The portal's row: expandable, and its box ticks all of its accounts.
PortalRow(p) ==
  [expandable |-> accounts[p] = "no", boxed |-> accounts[p] \in {"listed", "unticked"}]

\* The boxes of the profiles, and of the projects or subscriptions.
SourceBoxes ==
  IF source = "aws" THEN {ProfileSource}
  ELSE IF projects = "listed" THEN {ProjectSource} ELSE {}

Marks(ids, known, r) == {[id |-> i, imported |-> i \in known, run |-> r] : i \in ids}

\* The list is stored at every change, once the stored one has been read.
Lists(f) == found' = f /\ storedFound' = {c.id : c \in f}

DiscoveryUnchanged == UNCHANGED <<tokens, jobs, logins, waiters, cancels, authLoads, authShown, inflightLoad>>

\* A provider's tab lists its projects each time it is shown.
SetActiveTab(t) ==
  /\ t # source /\ source' = t /\ CloudClick
  /\ projects' = IF t = "gcp" /\ projects = "no" THEN "loading" ELSE projects
  /\ UNCHANGED <<chosen, runs, runStreams, discovering, backPass, found, storedFound, imported, batch, accounts>>

\* The first project is chosen for a user who has chosen none.
LoadProjects ==
  /\ projects = "loading"
  /\ \/ projects' = "listed" /\ chosen' = chosen \cup {ProjectSource}
     \/ projects' = "no" /\ UNCHANGED chosen
  /\ UNCHANGED <<source, runs, runStreams, discovering, backPass, found, storedFound, imported, batch, accounts, cloudClicks>>

\* toggleProfile, toggleProject, toggleSub and the groups' own boxes.
ToggleSource(x) ==
  /\ x \in SourceBoxes /\ CloudClick
  /\ chosen' = IF x \in chosen THEN chosen \ {x} ELSE chosen \cup {x}
  /\ UNCHANGED <<source, projects, runs, runStreams, discovering, backPass, found, storedFound, imported, batch, accounts>>

\* loadSSOAccounts, when a session's row is expanded: all accounts are ticked.
ListAccounts(p) ==
  /\ PortalRow(p).expandable /\ CloudClick
  /\ accounts' = [accounts EXCEPT ![p] = "listed"]
  /\ UNCHANGED <<source, chosen, projects, runs, runStreams, discovering, backPass, found, storedFound, imported, batch>>

ToggleAllAccounts(p) ==
  /\ PortalRow(p).boxed /\ CloudClick
  /\ accounts' = [accounts EXCEPT ![p] = IF @ = "listed" THEN "unticked" ELSE "listed"]
  /\ UNCHANGED <<source, chosen, projects, runs, runStreams, discovering, backPass, found, storedFound, imported, batch>>

\* The buttons of the list of clusters, and the rows that can be imported.
ClustersPanel ==
  [discover |-> ~discovering /\ batch \notin {"asked", "job"} /\ CanDiscover,
   importAll |-> batch \notin {"asked", "job"} /\ \E c \in found : ~c.imported,
   importable |-> {c \in found : ~c.imported}]

\* The streams of the run before are stopped.
StoppedStreams == {}

\* handleDiscover up to its await: the list empties, the sources are those of
\* the click.
HandleDiscover ==
  /\ ClustersPanel.discover
  /\ Len(runs) < MaxRuns /\ CloudClick
  /\ runStreams' = StoppedStreams /\ discovering' = TRUE /\ Lists({})
  /\ runs' = Append(runs, [phase |-> "ids", known |-> {}, all |-> {}, open |-> {},
                           picked |-> Asked(source)])
  /\ UNCHANGED <<source, chosen, projects, backPass, imported, batch, accounts>>

\* The imported clusters are known: one stream per source, or nothing to do.
OpenStreams(r) ==
  /\ runs[r].phase = "ids"
  /\ runs' = [runs EXCEPT ![r].phase = "streams", ![r].known = imported, ![r].open = @ \cup runs[r].picked]
  /\ runStreams' = runStreams \cup {[run |-> r, src |-> x] : x \in runs[r].picked}
  /\ discovering' = (runs[r].picked # {})
  /\ UNCHANGED <<source, chosen, projects, backPass, found, storedFound, imported, batch, accounts, cloudClicks>>

\* The request fails: nothing catches it, the spinner stays.
IdsFail(r) ==
  /\ runs[r].phase = "ids" /\ runs' = [runs EXCEPT ![r].phase = "lost"]
  /\ UNCHANGED <<source, chosen, projects, runStreams, discovering, backPass, found, storedFound, imported, batch, accounts, cloudClicks>>

\* A stream's cluster joins its run's clusters, and the list becomes the run's.
StreamCluster(t, c) ==
  /\ t \in runStreams /\ c \notin runs[t.run].all
  /\ runs' = [runs EXCEPT ![t.run].all = @ \cup {c}]
  /\ Lists(Marks(runs[t.run].all \cup {c}, runs[t.run].known, t.run))
  /\ UNCHANGED <<source, chosen, projects, runStreams, discovering, backPass, imported, batch, accounts, cloudClicks>>

\* A status update lists the run's clusters again, its marks included; it may
\* come after the stream's end.
StreamStatus(t) ==
  /\ t \in runStreams /\ runs[t.run].all # {}
  /\ Lists(Marks(runs[t.run].all, runs[t.run].known, t.run))
  /\ UNCHANGED <<source, chosen, projects, runs, runStreams, discovering, backPass, imported, batch, accounts, cloudClicks>>

\* "complete" or "error": the last one ends the run.
StreamEnds(t) ==
  /\ t \in runStreams /\ t.src \in runs[t.run].open
  /\ runs' = [runs EXCEPT ![t.run].open = @ \ {t.src}]
  /\ discovering' = (discovering /\ runs[t.run].open # {t.src})
  /\ UNCHANGED <<source, chosen, projects, runStreams, backPass, found, storedFound, imported, batch, accounts, cloudClicks>>

\* The background pass is armed once, by a list that is not empty, and asks only
\* AWS sources, whatever the tab.
ArmBackground ==
  /\ backPass = "idle" /\ found # {} /\ CanDiscover /\ backPass' = "armed"
  /\ UNCHANGED <<source, chosen, projects, runs, runStreams, discovering, found, storedFound, imported, batch, accounts, cloudClicks>>

RunBackgroundDiscovery ==
  /\ backPass = "armed"
  /\ backPass' = IF discovering \/ ~CanDiscover THEN "done" ELSE "running"
  /\ UNCHANGED <<source, chosen, projects, runs, runStreams, discovering, found, storedFound, imported, batch, accounts, cloudClicks>>

BackgroundAnswers ==
  /\ backPass = "running" /\ backPass' = "done"
  /\ \/ UNCHANGED <<found, storedFound>>
     \/ \E ids \in SUBSET CloudClusters :
          /\ Asked("aws") = {} => ids = {}
          /\ Lists(Marks(ids, imported, 0))
  /\ UNCHANGED <<source, chosen, projects, runs, runStreams, discovering, imported, batch, accounts, cloudClicks>>

\* handleImport and the batch job mark the rows they imported.
Imported(ids) ==
  /\ imported' = imported \cup ids
  /\ Lists({IF c.id \in ids THEN [c EXCEPT !.imported = TRUE] ELSE c : c \in found})

HandleImport(c) ==
  /\ c \in ClustersPanel.importable /\ CloudClick
  /\ Imported({c.id})
  /\ UNCHANGED <<source, chosen, projects, runs, runStreams, discovering, backPass, batch, accounts>>

HandleBatchImport ==
  /\ ClustersPanel.importAll /\ CloudClick /\ batch' = "asked"
  /\ UNCHANGED <<source, chosen, projects, runs, runStreams, discovering, backPass, found, storedFound, imported, accounts>>

BatchAnswers ==
  /\ batch = "asked" /\ batch' \in {"job", "no"}
  /\ UNCHANGED <<source, chosen, projects, runs, runStreams, discovering, backPass, found, storedFound, imported, accounts, cloudClicks>>

\* A poll finds the job finished: some clusters were imported.
HandleImportJobComplete ==
  /\ batch = "job" /\ batch' = "no"
  /\ \E ids \in SUBSET {c.id : c \in found} : Imported(ids)
  /\ UNCHANGED <<source, chosen, projects, runs, runStreams, discovering, backPass, accounts, cloudClicks>>

\* The page is left and opened again: streams stop, the stored list is read,
\* its marks looked up, and every run in its await is forgotten.
Reopen ==
  /\ CloudClick
  /\ runStreams' = {} /\ discovering' = FALSE /\ batch' = "no" /\ backPass' = "idle"
  /\ runs' = [r \in DOMAIN runs |-> [runs[r] EXCEPT !.phase = IF @ = "ids" THEN "left" ELSE @]]
  /\ Lists(Marks(storedFound, imported, 0))
  /\ source' = "aws" /\ chosen' = {SsoSource} /\ projects' = "no"
  /\ accounts' = [p \in SsoPortals |-> "no"]
  /\ UNCHANGED imported

DiscoverInit ==
  /\ source = "aws" /\ chosen = {SsoSource} /\ projects = "no" /\ runs = <<>> /\ runStreams = {}
  /\ discovering = FALSE /\ backPass = "idle" /\ imported = {} /\ batch = "no"
  /\ \E ids \in SUBSET CloudClusters : storedFound = ids /\ found = Marks(ids, {}, 0)

DiscoverNext ==
  /\ DiscoveryUnchanged
  /\ \/ \E t \in {"aws", "gcp"} : SetActiveTab(t)
     \/ LoadProjects \/ \E x \in SourceBoxes : ToggleSource(x)
     \/ \E p \in SsoPortals : ListAccounts(p) \/ ToggleAllAccounts(p)
     \/ HandleDiscover \/ ArmBackground \/ RunBackgroundDiscovery \/ BackgroundAnswers
     \/ \E r \in DOMAIN runs : OpenStreams(r) \/ IdsFail(r)
     \/ \E t \in runStreams : StreamStatus(t) \/ StreamEnds(t) \/ \E c \in CloudClusters : StreamCluster(t, c)
     \/ \E c \in found : HandleImport(c)
     \/ HandleBatchImport \/ BatchAnswers \/ HandleImportJobComplete \/ Reopen

(* The list of discovered clusters is the newest run's or the background    *)
(* pass's, never an earlier run's: the late events of a run the user has    *)
(* replaced (CloudDiscovery.tsx, handleDiscover) cannot bring its clusters  *)
(* and their "imported" marks back.                                         *)
ListIsTheNewestRuns ==
  \A c \in found : c.run \in {0, Len(runs)}

-----------------------------------------------------------------------------
(* Connecting a cluster through IAM Identity Center. *)

Checking == {"checking"}   \* options === null

NoBinding == [portal |-> "", role |-> ""]

NotBusy == [portal |-> "", role |-> "idle"]

\* A bound role the portal still grants, or one of the portal's.
DefaultRoles(p, preferred) ==
  IF preferred \in RolesOf[p] THEN {preferred} ELSE RolesOf[p]

\* The effect: a new set of portals or a new binding starts a check and
\* abandons the one before.
Rechecks(portals) == options' = Checking /\ optionsOf' = portals

PortalsChange(ps) ==
  /\ ps # signedPortals /\ CloudClick
  /\ signedPortals' = ps /\ Rechecks(ps)
  /\ UNCHANGED <<picked, role, binding, busy>>

\* Every portal has answered; those that fail or grant nothing are left out.
OptionsAnswer ==
  /\ options = Checking
  /\ \E usable \in SUBSET {p \in optionsOf : RolesOf[p] # {}} :
       /\ options' = usable
       /\ IF usable = {} THEN picked' = "" /\ role' = ""
          ELSE \E p \in IF binding.portal \in usable THEN {binding.portal} ELSE usable :
                 /\ picked' = p
                 /\ role' \in DefaultRoles(p, IF binding.portal \in usable THEN binding.role ELSE "")
  /\ UNCHANGED <<signedPortals, optionsOf, binding, busy>>

\* The panel: nothing to choose from, or the two selects.
Panel ==
  IF signedPortals = {} THEN "signedOut"
  ELSE IF options = Checking THEN "checking"
  ELSE IF options = {} THEN "none" ELSE "choice"

Disabled == busy # NotBusy

\* Choosing a portal chooses one of its roles with it.
RoleAfterPortal(p) == DefaultRoles(p, "")

ChoosePortal(p) ==
  /\ Panel = "choice" /\ Cardinality(options) > 1 /\ p \in options /\ ~Disabled /\ CloudClick
  /\ picked' = p /\ role' \in RoleAfterPortal(p)
  /\ UNCHANGED <<signedPortals, options, optionsOf, binding, busy>>

ChooseRole(r) ==
  /\ Panel = "choice" /\ r \in RolesOf[picked] /\ ~Disabled /\ CloudClick
  /\ role' = r
  /\ UNCHANGED <<signedPortals, options, optionsOf, picked, binding, busy>>

OffersConnect ==
  Panel = "choice" /\ ~Disabled /\ role # "" /\ binding # [portal |-> picked, role |-> role]

OffersDisconnect == binding # NoBinding /\ Panel # "checking" /\ ~Disabled

Connect ==
  /\ OffersConnect /\ CloudClick /\ busy' = [portal |-> picked, role |-> role]
  /\ UNCHANGED <<signedPortals, options, optionsOf, picked, role, binding>>

Disconnect ==
  /\ OffersDisconnect /\ CloudClick /\ busy' = NoBinding
  /\ UNCHANGED <<signedPortals, options, optionsOf, picked, role, binding>>

\* The call's end; a success reads the binding again, which redraws the panel.
RunEnds ==
  /\ busy # NotBusy /\ busy' = NotBusy
  /\ \/ binding' = busy /\ Rechecks(signedPortals) /\ picked' = "" /\ role' = ""
     \/ UNCHANGED <<binding, options, optionsOf, picked, role>>
  /\ UNCHANGED signedPortals

ConnectInit ==
  /\ signedPortals \in SUBSET SsoPortals /\ options = Checking /\ optionsOf = signedPortals
  /\ picked = "" /\ role = "" /\ binding = NoBinding /\ busy = NotBusy

ConnectNext ==
  \/ \E ps \in SUBSET SsoPortals : PortalsChange(ps)
  \/ OptionsAnswer /\ UNCHANGED cloudClicks
  \/ RunEnds /\ UNCHANGED cloudClicks
  \/ \E p \in SsoPortals : ChoosePortal(p)
  \/ \E p \in SsoPortals : \E r \in RolesOf[p] : ChooseRole(r)
  \/ Connect \/ Disconnect

(* A cluster is only ever bound to a role the chosen portal grants, however *)
(* portals come and go between the check, the choice and the click; and a   *)
(* binding can be removed whatever its portal has become, or the cluster    *)
(* would stay tied to credentials that fail (ClusterSSOConnect.tsx).        *)
BindingsAreGranted ==
  /\ OffersConnect => role \in RolesOf[picked] /\ picked \in options
  /\ binding # NoBinding => binding.role \in RolesOf[binding.portal]
  /\ binding # NoBinding /\ busy = NotBusy /\ Panel # "checking" => OffersDisconnect

-----------------------------------------------------------------------------
\* The sign-ins and the discovery share the lists of accounts.
CloudInit == SignInInit /\ DiscoverInit /\ ConnectInit /\ cloudClicks = 0

CloudNext ==
  \/ SignInNext /\ UNCHANGED <<discoverVars, connectVars>>
  \/ DiscoverNext /\ UNCHANGED connectVars
  \/ ConnectNext /\ UNCHANGED <<signVars, discoverVars>>

CloudSpec == CloudInit /\ [][CloudNext]_cloudVars

\* All three: sign-ins, discovery and bindings are of the newest answer.
CloudAccessIsTrue ==
  SignInsAreWatched /\ ListIsTheNewestRuns /\ BindingsAreGranted
=============================================================================
