------------------------------ MODULE Metrics ------------------------------
(***************************************************************************)
(* The metrics cards of a cluster (components/PodMetrics.tsx, NodeMetrics, *)
(* WorkloadMetrics over metrics/useMetricsProvider.ts and                  *)
(* services/api/metrics.ts) and the monitoring form                        *)
(* (ClusterMetricsSettings.tsx over metrics/clusterMetricsForm.ts).        *)
(*                                                                         *)
(* CardsNext: a pod card ("pod"; a node's card is the same code) and a     *)
(* workload card ("work") of one cluster, the detection they share, their  *)
(* streams and the rechecks of a negative answer.  A series is the key of  *)
(* the stream it came from.                                                *)
(* FormsNext: the form open twice, in the Cluster settings tab and in the  *)
(* sheet of a card, saving to the store and to the back end.               *)
(* Detection, the stream's answers and the settings service are external.  *)
(***************************************************************************)
EXTENDS Integers, FiniteSets

CONSTANTS
  Detections,       \* what a detection can find: records [found, needs]
  Preferences,      \* preferredProvider values, "disabled" among them
  ChartTargets,     \* objects a card can be shown for
  ChartMetrics,     \* metric types
  WorkloadPods,     \* pods of a workload, numbered in its order
  MaxPodsDisplayed, \* MAX_PODS_DISPLAYED
  Tenants,          \* values of the tenant and instance fields
  MaxMetricSteps,   \* bound: clicks in the cards
  MaxFormSteps,     \* bound: clicks in the forms
  MaxDetects        \* bound: revisions of a card and pod requests

ASSUME MetricsAssumption ==
  /\ "disabled" \in Preferences /\ ChartTargets # {} /\ ChartMetrics # {}
  /\ MaxPodsDisplayed \in Nat /\ MaxMetricSteps \in Nat /\ MaxFormSteps \in Nat /\ MaxDetects \in Nat

Cards == {"pod", "work"}
Forms == {"tab", "sheet"}

VARIABLES
  metricClicks, \* clicks so far
  \* cards
  provCache,    \* metricsProvidersByCluster: a status or NoStatus
  status,       \* [card -> status or NoStatus]
  detects,      \* the cards whose detection is under way
  recheck,      \* [card -> "off", "armed", "lapsed"]: the timer of a negative answer
  installing,   \* cards whose install call is under way
  hidden,       \* document.visibilityState is "hidden"
  preferred,    \* monitoringSettings.preferredProvider
  revision,     \* [card -> settings changes heard]
  target,       \* [card -> the object it is shown for]
  metric,       \* [card -> selectedMetric]
  chart,        \* [card -> key of the series held, or NoSeries]
  stream,       \* [card -> [on, key]]
  podLoading,      \* the pod card's loading flag
  chartError,   \* [card -> a stream error is shown]
  podsOf,       \* the workload whose pods are known
  podReqs,      \* getWorkloadPods requests under way: [n, of]
  podReq,       \* podsRequest.current
  podsState,    \* "loading", "error", "known"
  visiblePods,  \* the pods drawn
  \* forms
  stored,       \* the store's settings [prov, show]
  backend,      \* the settings service's [tenant, inst]
  form          \* [form -> its state]

cardVars == <<provCache, status, detects, recheck, installing, hidden, preferred, revision, target,
              metric, chart, stream, podLoading, chartError, podsOf, podReqs, podReq, podsState, visiblePods>>
formVars == <<stored, backend, form>>
metricVars == <<metricClicks, cardVars, formVars>>

MetricClick == metricClicks < MaxMetricSteps /\ metricClicks' = metricClicks + 1

-----------------------------------------------------------------------------
(* Detection. *)

NoStatus == [found |-> {}, needs |-> {}, bad |-> FALSE, known |-> FALSE]

\* unavailableProviders: no provider, and why.
Unavailable == [found |-> {}, needs |-> {}, bad |-> TRUE, known |-> TRUE]

Detected(a) == [found |-> a.found, needs |-> a.needs, bad |-> FALSE, known |-> TRUE]

Negative(s) == s.known /\ (s.bad \/ s.found = {})

requestedProvider(p) == IF p \in {"prometheus", "mimir", "metrics-server"} THEN p ELSE "any"

rangeProviders(s, p) ==
  CASE requestedProvider(p) = "metrics-server" -> {}
    [] requestedProvider(p) = "any" -> s.found \cap {"prometheus", "mimir"}
    [] OTHER -> s.found \cap {p}

providerPhase(s, p) ==
  CASE ~s.known -> "detecting"
    [] s.bad -> "unreachable"
    [] rangeProviders(s, p) = {} -> "none"
    [] rangeProviders(s, p) \subseteq s.needs -> "needs-tenant"
    [] OTHER -> "ready"

Enabled(p) == p # "disabled"

Phase(c) == providerPhase(status[c], preferred)

\* The effect of the recheck: every new status of a negative phase starts it again.
Rearmed(s, p, touched) ==
  [c \in Cards |-> CASE ~Enabled(p) \/ providerPhase(s[c], p) \notin {"none", "unreachable"} -> "off"
                     [] c \in touched -> "armed"
                     [] OTHER -> recheck[c]]

-----------------------------------------------------------------------------
(* Streams. *)

NoSeries == [target |-> "", metric |-> "", pref |-> "", rev |-> 0, pods |-> {}]
NoStream == [on |-> FALSE, key |-> NoSeries]

\* The pods streamed: the visible ones in the workload's order, at most the limit.
StreamedPods(of, vis) == IF of = "" THEN {} ELSE vis

\* What a card's stream effect depends on.
PodKey(t, m, p, r) == [target |-> t, metric |-> m, pref |-> requestedProvider(p), rev |-> r, pods |-> {}]
WorkKey(of, vis, m, p, r) ==
  [target |-> of, metric |-> m, pref |-> requestedProvider(p), rev |-> r, pods |-> StreamedPods(of, vis)]

\* The effect after a render: stopped when not ready, restarted when its key changes.
Restreamed(old, k, ready, restart) ==
  IF ~ready THEN NoStream
  ELSE IF old.on /\ old.key = k /\ ~restart THEN old
  ELSE [on |-> TRUE, key |-> k]

\* A render of both cards over the streams `old`, the pod card's flag and the errors
\* shown: their streams, flags and rechecks.
\* `restart`: the cards whose refresh was clicked, `touched`: those given a new status.
RenderedFrom(old, wait, errs, restart, touched) ==
  LET ready(c) == providerPhase(status'[c], preferred') = "ready"
      podKey == PodKey(target'["pod"], metric'["pod"], preferred', revision'["pod"])
      workKey == WorkKey(podsOf', visiblePods', metric'["work"], preferred', revision'["work"])
      now == [pod |-> Restreamed(old["pod"], podKey, ready("pod"), "pod" \in restart),
              work |-> Restreamed(old["work"], workKey, ready("work") /\ workKey.pods # {}, "work" \in restart)]
      opened(c) == now[c].on /\ now[c] # old[c]
  IN /\ stream' = now
     /\ podLoading' = (now["pod"].on /\ (opened("pod") \/ "pod" \in restart \/ wait))
     /\ chartError' = [c \in Cards |-> errs[c] /\ ~opened(c) /\ c \notin restart]
     /\ recheck' = Rearmed(status', preferred', touched)

Rendered(restart, touched) == RenderedFrom(stream, podLoading, chartError, restart, touched)

KeepView == UNCHANGED <<preferred, revision, target, metric, podsOf, podReqs, podReq, podsState, visiblePods>>

\* metrics-provider-availability: every card takes the cached status, if there is one.
Announce(s) == provCache' = s /\ status' = [c \in Cards |-> s]

MarkUnavailable == Announce(Unavailable)

\* A stream that delivers proves the provider: what was detected, or Prometheus.
MarkAvailable ==
  Announce(IF provCache.known /\ ~Negative(provCache) THEN provCache
           ELSE Detected([found |-> {"prometheus"}, needs |-> {}]))

\* The next data of a stream: live, or a preview from the cache, which proves nothing.
StreamData(c, preview) ==
  /\ stream[c].on
  /\ chart' = [chart EXCEPT ![c] = stream[c].key]
  /\ IF preview THEN UNCHANGED <<provCache, status>> ELSE MarkAvailable
  /\ UNCHANGED <<detects, installing, hidden, metricClicks>> /\ KeepView
  /\ RenderedFrom(stream, c # "pod" /\ podLoading, [chartError EXCEPT ![c] = FALSE], {},
                  {d \in Cards : status'[d] # status[d]})

\* A query that fails: the card shows it and keeps its stream.
StreamError(c) ==
  /\ stream[c].on
  /\ chartError' = [chartError EXCEPT ![c] = TRUE]
  /\ podLoading' = (c # "pod" /\ podLoading)
  /\ UNCHANGED <<provCache, status, recheck, chart, stream, detects, installing, hidden, metricClicks>> /\ KeepView

\* A transport error, transient or not, or no answer at all: the card gives the
\* provider up and tells the others.
StreamLost(c) ==
  /\ stream[c].on
  /\ MarkUnavailable /\ KeepView
  /\ chart' = [chart EXCEPT ![c] = NoSeries]
  /\ UNCHANGED <<detects, installing, hidden, metricClicks>>
  /\ RenderedFrom(stream, podLoading, [chartError EXCEPT !["pod"] = c # "pod" /\ @], {}, Cards)

-----------------------------------------------------------------------------
(* Asking for the provider. *)

\* detect() of the cards `cs`: answered from the cache, or asked for.
DetectFor(cs, cache, st) ==
  /\ provCache' = cache
  /\ status' = [c \in Cards |-> IF c \in cs /\ cache.known THEN cache ELSE st[c]]
  /\ detects' = IF cache.known THEN detects ELSE detects \cup cs

\* detect({refresh: true}): the cached answer and the status are dropped first.
Refreshed(c) ==
  /\ provCache' = NoStatus /\ status' = [status EXCEPT ![c] = NoStatus]
  /\ detects' = detects \cup {c}

\* The buttons of MetricsProviderState.
OffersDetect(c) ==
  /\ Enabled(preferred) /\ Phase(c) \in {"needs-tenant", "unreachable", "none"}
  /\ c \notin installing \/ Phase(c) # "none"

OffersInstall(c) == Enabled(preferred) /\ Phase(c) = "none" /\ c \notin installing

DetectAgain(c) ==
  /\ OffersDetect(c) /\ MetricClick /\ Refreshed(c)
  /\ KeepView /\ UNCHANGED <<chart, installing, hidden>> /\ Rendered({}, {})

DetectAnswers(d, a) ==
  /\ d \in detects /\ detects' = detects \ {d}
  /\ Announce(Detected(a)) /\ KeepView
  /\ UNCHANGED <<chart, installing, hidden, metricClicks>> /\ Rendered({}, Cards)

DetectFails(d) ==
  /\ d \in detects /\ detects' = detects \ {d}
  /\ MarkUnavailable /\ KeepView
  /\ UNCHANGED <<chart, installing, hidden, metricClicks>> /\ Rendered({}, Cards)

\* A cached answer lapses: a minute for a negative one, ten for a positive one.
CacheExpires ==
  /\ provCache.known /\ provCache' = NoStatus
  /\ UNCHANGED <<status, detects, recheck, installing, hidden, chart, stream, podLoading, chartError, metricClicks>> /\ KeepView

\* The timer runs a moment longer than the answer it was started for.
RecheckFires(c) ==
  /\ recheck[c] = "armed" /\ ~provCache.known
  /\ IF hidden THEN UNCHANGED <<provCache, status, detects>> ELSE DetectFor({c}, provCache, status)
  /\ recheck' = [recheck EXCEPT ![c] = IF hidden THEN "lapsed" ELSE "off"]
  /\ UNCHANGED <<installing, hidden, chart, stream, podLoading, chartError, metricClicks>> /\ KeepView

Hide ==
  /\ MetricClick /\ hidden' = ~hidden
  /\ UNCHANGED <<provCache, status, detects, recheck, installing, chart, stream, podLoading, chartError>> /\ KeepView

Install(c) ==
  /\ OffersInstall(c) /\ MetricClick
  /\ installing' = installing \cup {c} /\ provCache' = NoStatus
  /\ UNCHANGED <<status, detects, recheck, hidden, chart, stream, podLoading, chartError>> /\ KeepView

InstallAnswers(c) ==
  /\ c \in installing /\ installing' = installing \ {c} /\ Refreshed(c)
  /\ KeepView /\ UNCHANGED <<chart, hidden, metricClicks>> /\ Rendered({}, {})

InstallFails(c) ==
  /\ c \in installing /\ installing' = installing \ {c}
  /\ UNCHANGED <<provCache, status, detects, recheck, hidden, chart, stream, podLoading, chartError, metricClicks>> /\ KeepView

\* metrics-settings-changed: every card forgets what it knew and asks again.
SettingsChanged ==
  /\ Enabled(preferred) /\ MetricClick /\ \A c \in Cards : revision[c] < MaxDetects
  /\ revision' = [c \in Cards |-> revision[c] + 1]
  /\ DetectFor(Cards, NoStatus, status)
  /\ chart' = [c \in Cards |-> NoSeries]
  /\ UNCHANGED <<preferred, target, metric, podsOf, podReqs, podReq, podsState, visiblePods, installing, hidden>>
  /\ Rendered({}, {})

\* Another provider is preferred: the cards ask again, a disabled card asks nothing.
Prefer(p) ==
  /\ p # preferred /\ MetricClick /\ preferred' = p
  /\ IF Enabled(p) THEN DetectFor(Cards, NoStatus, [c \in Cards |-> NoStatus])
     ELSE UNCHANGED <<provCache, status, detects>>
  /\ chart' = IF requestedProvider(p) = requestedProvider(preferred) THEN chart ELSE [c \in Cards |-> NoSeries]
  /\ UNCHANGED <<revision, target, metric, podsOf, podReqs, podReq, podsState, visiblePods, installing, hidden>>
  /\ Rendered({}, {})

-----------------------------------------------------------------------------
(* What is charted. *)

ShowMetric(c, m) ==
  /\ Enabled(preferred) /\ Phase(c) = "ready" /\ m # metric[c] /\ MetricClick
  /\ metric' = [metric EXCEPT ![c] = m]
  /\ chart' = IF c = "work" THEN [chart EXCEPT ![c] = NoSeries] ELSE chart
  /\ UNCHANGED <<provCache, status, detects, installing, hidden, preferred, revision, target, podsOf, podReqs, podReq, podsState, visiblePods>>
  /\ Rendered({}, {})

HandleRefresh(c) ==
  /\ Enabled(preferred) /\ Phase(c) = "ready" /\ MetricClick
  /\ c = "pod" => ~podLoading
  /\ chart' = [chart EXCEPT ![c] = NoSeries]
  /\ UNCHANGED <<provCache, status, detects, installing, hidden>> /\ KeepView
  /\ Rendered({c}, {})

\* Another pod in the same card: its series goes at once.
ShowPod(t) ==
  /\ t # target["pod"] /\ MetricClick
  /\ target' = [target EXCEPT !["pod"] = t] /\ chart' = [chart EXCEPT !["pod"] = NoSeries]
  /\ UNCHANGED <<provCache, status, detects, installing, hidden, preferred, revision, metric, podsOf, podReqs, podReq, podsState, visiblePods>>
  /\ Rendered({}, {})

FetchPods(t) ==
  /\ podReq < MaxDetects /\ podReq' = podReq + 1
  /\ podReqs' = podReqs \cup {[n |-> podReq + 1, of |-> t]} /\ podsState' = "loading"

\* Another workload: its pods are asked for, the old stream runs meanwhile.
ShowWorkload(t) ==
  /\ t # target["work"] /\ MetricClick /\ FetchPods(t)
  /\ target' = [target EXCEPT !["work"] = t]
  /\ UNCHANGED <<provCache, status, detects, recheck, installing, hidden, preferred, revision, metric, chart, stream,
                 podLoading, chartError, podsOf, visiblePods>>

RetryPods ==
  /\ podsState = "error" /\ Enabled(preferred) /\ Phase("work") = "ready" /\ MetricClick /\ FetchPods(target["work"])
  /\ UNCHANGED <<provCache, status, detects, recheck, installing, hidden, preferred, revision, target, metric, chart,
                 stream, podLoading, chartError, podsOf, visiblePods>>

\* Mutant: any request's answer lands.
LatestOrNot(r) == r.n <= podReq

\* Only the newest request may land.
Latest(r) == r.n = podReq

PodsAnswer(r) ==
  /\ r \in podReqs /\ podReqs' = podReqs \ {r}
  /\ podsOf' = IF Latest(r) THEN r.of ELSE podsOf
  /\ podsState' = IF Latest(r) THEN "known" ELSE podsState
  /\ visiblePods' = IF Latest(r) THEN {i \in WorkloadPods : i <= MaxPodsDisplayed} ELSE visiblePods
  /\ chart' = IF Latest(r) THEN [chart EXCEPT !["work"] = NoSeries] ELSE chart
  /\ UNCHANGED <<provCache, status, detects, installing, hidden, preferred, revision, target, metric, podReq, metricClicks>>
  /\ Rendered({}, {})

PodsFail(r) ==
  /\ r \in podReqs /\ podReqs' = podReqs \ {r}
  /\ podsState' = IF Latest(r) THEN "error" ELSE podsState
  /\ UNCHANGED <<provCache, status, detects, recheck, installing, hidden, preferred, revision, target, metric, chart, stream,
                 podLoading, chartError, podsOf, podReq, visiblePods, metricClicks>>

\* The frame of each card that shows a chart.
PodFrame ==
  CASE chartError["pod"] -> "error"
    [] chart["pod"] = NoSeries -> IF podLoading THEN "loading" ELSE "empty"
    [] OTHER -> "ready"

WorkFrame ==
  CASE podsState # "known" -> podsState
    [] chart["work"] # NoSeries -> "ready"
    [] chartError["work"] -> "error"
    [] visiblePods # {} -> "loading"
    [] OTHER -> "empty"

ChartDrawn(c) == /\ Enabled(preferred) /\ Phase(c) = "ready"
                 /\ (IF c = "pod" THEN PodFrame ELSE WorkFrame) = "ready"

\* The chips under the workload's chart.
ChipEnabled(i) == i \in visiblePods \/ Cardinality(visiblePods) < MaxPodsDisplayed

TogglePodVisibility(i) ==
  /\ Enabled(preferred) /\ Phase("work") = "ready" /\ podsState = "known" /\ ChipEnabled(i) /\ MetricClick
  /\ visiblePods' = IF i \in visiblePods THEN visiblePods \ {i} ELSE visiblePods \cup {i}
  /\ UNCHANGED <<provCache, status, detects, installing, hidden, preferred, revision, target, metric, chart, podsOf, podReqs, podReq, podsState>>
  /\ Rendered({}, {})

\* Both cards open on their first objects and ask for the provider and the pods.
CardsInit ==
  /\ provCache = NoStatus /\ status = [c \in Cards |-> NoStatus]
  /\ detects = Cards /\ recheck = [c \in Cards |-> "off"]
  /\ installing = {} /\ hidden = FALSE /\ preferred = "auto" /\ revision = [c \in Cards |-> 0]
  /\ target = [c \in Cards |-> CHOOSE t \in ChartTargets : TRUE]
  /\ metric = [c \in Cards |-> CHOOSE m \in ChartMetrics : TRUE]
  /\ chart = [c \in Cards |-> NoSeries] /\ stream = [c \in Cards |-> NoStream]
  /\ podLoading = FALSE /\ chartError = [c \in Cards |-> FALSE]
  /\ podsOf = "" /\ podReq = 1 /\ podReqs = {[n |-> 1, of |-> target["work"]]}
  /\ podsState = "loading" /\ visiblePods = {}

CardsNext ==
  /\ UNCHANGED formVars
  /\ \/ \E c \in Cards : \/ \E preview \in BOOLEAN : StreamData(c, preview)
                         \/ StreamError(c) \/ StreamLost(c) \/ DetectAgain(c) \/ RecheckFires(c)
                         \/ Install(c) \/ InstallAnswers(c) \/ InstallFails(c) \/ HandleRefresh(c)
                         \/ \E m \in ChartMetrics : ShowMetric(c, m)
     \/ \E d \in detects : DetectFails(d) \/ \E a \in Detections : DetectAnswers(d, a)
     \/ CacheExpires \/ Hide \/ SettingsChanged \/ RetryPods
     \/ \E p \in Preferences : Prefer(p)
     \/ \E t \in ChartTargets : ShowPod(t) \/ ShowWorkload(t)
     \/ \E r \in podReqs : PodsAnswer(r) \/ PodsFail(r)
     \/ \E i \in WorkloadPods : TogglePodVisibility(i)

-----------------------------------------------------------------------------
(* The monitoring form. *)

FormClick == metricClicks < MaxFormSteps /\ metricClicks' = metricClicks + 1

NoEdit == "untouched"
NoSave == [on |-> FALSE, local |-> {}, prev |-> [prov |-> "", show |-> ""], sent |-> {}]

Shut == [open |-> FALSE, loads |-> 0, broken |-> FALSE, edits |-> [prov |-> NoEdit, show |-> NoEdit],
         known |-> [tenant |-> "", inst |-> ""], input |-> [tenant |-> "", inst |-> ""],
         own |-> {}, save |-> NoSave, result |-> ""]

\* mimirDirty: the user is editing the Mimir fields here.
mimirDirty(f) == form[f].input # form[f].known

\* The Mimir fields can be edited and the form saved.
Editable(f) == form[f].open /\ form[f].loads = 0 /\ ~form[f].broken /\ ~form[f].save.on

\* changedSettings: the touched fields that differ from the store.
changedSettings(f) ==
  {k \in {"prov", "show"} : form[f].edits[k] # NoEdit /\ form[f].edits[k] # stored[k]}

\* mimirSettingsChange: the fields to send.
mimirSettingsChange(f) == {k \in {"tenant", "inst"} : form[f].input[k] # form[f].known[k]}

OpenForm(f) ==
  /\ ~form[f].open /\ FormClick
  /\ form' = [form EXCEPT ![f] = [Shut EXCEPT !.open = TRUE, !.loads = 1]]
  /\ UNCHANGED <<stored, backend>>

CloseForm(f) ==
  /\ form[f].open /\ ~form[f].save.on /\ FormClick
  /\ form' = [form EXCEPT ![f] = Shut] /\ UNCHANGED <<stored, backend>>

\* loadTenantSettings: the fields take what the service holds.
LoadAnswers(f) ==
  /\ form[f].loads > 0
  /\ form' = [form EXCEPT ![f].loads = @ - 1, ![f].broken = FALSE, ![f].known = backend, ![f].input = backend, ![f].own = {}]
  /\ UNCHANGED <<stored, backend, metricClicks>>

ChartLoadFails(f) ==
  /\ form[f].loads > 0
  /\ form' = [form EXCEPT ![f].loads = @ - 1, ![f].broken = TRUE]
  /\ UNCHANGED <<stored, backend, metricClicks>>

RetryLoad(f) ==
  /\ form[f].open /\ form[f].broken /\ form[f].loads = 0 /\ FormClick
  /\ form' = [form EXCEPT ![f].loads = 1, ![f].broken = FALSE] /\ UNCHANGED <<stored, backend>>

\* A provider is picked or the panel's switch flipped.
EditLocal(f, k, v) ==
  /\ form[f].open /\ FormClick
  /\ form' = [form EXCEPT ![f].edits[k] = v, ![f].result = ""] /\ UNCHANGED <<stored, backend>>

\* The tenant is typed or picked among the discovered ones, the instance chosen.
EditMimir(f, k, v) ==
  /\ Editable(f) /\ v # form[f].input[k] /\ FormClick
  /\ form' = [form EXCEPT ![f].input[k] = v, ![f].own = @ \cup {k}, ![f].result = ""]
  /\ UNCHANGED <<stored, backend>>

Written(s, ks, vals) == [k \in DOMAIN s |-> IF k \in ks THEN vals[k] ELSE s[k]]

\* The preferences are stored first; what they replace is kept for the undo.
SaveLocal(f) ==
  /\ stored' = Written(stored, changedSettings(f), form[f].edits)
  /\ form' = [form EXCEPT
       ![f].result = IF mimirSettingsChange(f) = {} THEN "ok" ELSE "",
       ![f].save = [on |-> mimirSettingsChange(f) # {}, local |-> changedSettings(f), prev |-> stored,
                    sent |-> mimirSettingsChange(f)]]

HandleSave(f) ==
  /\ Editable(f) /\ FormClick /\ SaveLocal(f) /\ UNCHANGED backend

\* The storage is full: nothing was saved.
SaveLocalFails(f) ==
  /\ Editable(f) /\ changedSettings(f) # {} /\ FormClick
  /\ form' = [form EXCEPT ![f].result = "nothing"] /\ UNCHANGED <<stored, backend>>

\* The service takes the fields and answers with all of them.  The other form
\* reads them again unless its user is editing.
SaveAnswers(f) ==
  /\ form[f].save.on
  /\ backend' = Written(backend, form[f].save.sent, form[f].input)
  /\ form' = [g \in Forms |->
       IF g = f THEN [form[f] EXCEPT !.known = backend', !.save = NoSave, !.result = "ok", !.own = @ \ form[f].save.sent]
       ELSE IF form[g].open /\ ~mimirDirty(g) THEN [form[g] EXCEPT !.loads = 1, !.broken = FALSE]
       ELSE form[g]]
  /\ UNCHANGED <<stored, metricClicks>>

\* The service refuses: the preferences are put back, unless that fails too.
UndoLocal(f) == stored' = Written(stored, form[f].save.local, form[f].save.prev)

SaveFails(f, undone) ==
  /\ form[f].save.on
  /\ IF undone THEN UndoLocal(f) ELSE UNCHANGED stored
  /\ undone \/ form[f].save.local # {}
  /\ form' = [form EXCEPT ![f].save = NoSave, ![f].result = IF undone THEN "nothing" ELSE "half"]
  /\ UNCHANGED <<backend, metricClicks>>

FormsInit ==
  /\ stored = [prov |-> "auto", show |-> "yes"]
  /\ backend = [tenant |-> "", inst |-> ""]
  /\ form = [f \in Forms |-> Shut]

FormsNext ==
  /\ UNCHANGED cardVars
  /\ \E f \in Forms :
       \/ OpenForm(f) \/ CloseForm(f) \/ LoadAnswers(f) \/ ChartLoadFails(f) \/ RetryLoad(f)
       \/ \E p \in {"mimir", "disabled"} : EditLocal(f, "prov", p)
       \/ \E v \in {"yes", "no"} : EditLocal(f, "show", v)
       \/ \E k \in {"tenant", "inst"}, v \in Tenants : EditMimir(f, k, v)
       \/ HandleSave(f) \/ SaveLocalFails(f) \/ SaveAnswers(f)
       \/ \E undone \in BOOLEAN : SaveFails(f, undone)

-----------------------------------------------------------------------------
(* Properties. *)

\* A chart on screen is of the object, provider and settings the card stands
\* for, and of the metric its title names; the pod card may go on showing the
\* previous metric, marked stale, until the next one arrives.
ChartIsItsTargets ==
  \A c \in Cards : ChartDrawn(c) =>
    /\ chart[c].target = target[c] /\ chart[c].rev = revision[c] /\ chart[c].pref = requestedProvider(preferred)
    /\ chart[c].metric = metric[c] \/ (c = "pod" /\ podLoading)

\* A card that shows no provider asks again by itself: its timer runs, its
\* detection is under way, or the timer lapsed while the window was hidden.
NegativeIsRechecked ==
  \A c \in Cards :
    Enabled(preferred) /\ Phase(c) \in {"none", "unreachable"} =>
      recheck[c] # "off" \/ c \in detects

\* "Disabled" stops the queries: no card keeps a stream open.
\* No run claims it: the code does not keep it (README, Disagreements).
DisabledAsksNothing == ~Enabled(preferred) => \A c \in Cards : ~stream[c].on

\* A save is all or nothing: reported "nothing", the store holds what it held
\* for the fields of that save and the service was not changed; reported "ok",
\* every field of the form is stored.
SavesAreWhole ==
  \A f \in Forms : form[f].save.on /\ ~form'[f].save.on =>
    /\ form'[f].result = "nothing" => /\ backend' = backend
                                      /\ \A k \in form[f].save.local : stored'[k] = form[f].save.prev[k]
    /\ form'[f].result = "ok" => \A k \in form[f].save.sent : backend'[k] = form[f].input[k]

\* A form saved later does not undo a field saved elsewhere: it sends only
\* fields its user edited in it.
SavesOwnEdits == \A f \in Forms : form[f].save.on => form[f].save.sent \subseteq form[f].own

\* All four: charts are of what they name, and settings are saved whole and
\* undo nobody's.
MetricsAreTrue ==
  [][/\ ChartIsItsTargets' /\ NegativeIsRechecked'
     /\ SavesAreWhole /\ SavesOwnEdits']_<<cardVars, formVars>>
=============================================================================
