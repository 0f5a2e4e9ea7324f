---------------------------- MODULE Rightsizing ----------------------------
(***************************************************************************)
(* Rightsizing in the client (components/rightsizing): the report and the  *)
(* evidence the views share, and what becomes of a recommendation: the     *)
(* plan, its patches and the table they are chosen in.  The two parts      *)
(* share no state here: an advice stands for a line of a report.           *)
(***************************************************************************)
EXTENDS Integers, Sequences, FiniteSets, FiniteSetsExt, SequencesExt

(***************************************************************************)
(* The rightsizing report as the views share it: the dashboard and the     *)
(* workload card poll one report per key (cluster, profile, window,        *)
(* provider) through a module-level table of held reports and in-flight    *)
(* requests (components/rightsizing/useRightsizingReport.ts), and choose   *)
(* what to draw from it (RightsizingDashboard.tsx,                         *)
(* WorkloadRightsizingCard.tsx).                                           *)
(*                                                                         *)
(* A React commit with the effects it runs is one step. The backend        *)
(* computes reports on its own and its answers may come in any order.      *)
(***************************************************************************)

CONSTANTS
  ReportKeys,      \* cluster|profile|window|provider (reportKey)
  ReportViews,     \* mounted users of useRightsizingReport
  ReportOutcomes,  \* [status, progress] a computation of the backend may leave
  HeldMax,         \* HELD_MAX
  MaxReportLoads,  \* bound: requests sent
  MaxReports,      \* bound: reports the backend computes of a key
  MaxReportSteps   \* bound: key changes, mounts and hides of the window

ASSUME ReportBounds == /\ HeldMax \in Nat \ {0}
                       /\ MaxReportLoads \in Nat /\ MaxReports \in Nat
                       /\ ReportOutcomes \subseteq
                            [status : {"computing", "ready", "error", "no-history-source"},
                             progress : BOOLEAN]

NoReport == [key |-> "", version |-> 0, status |-> "none", progress |-> FALSE,
             unchanged |-> FALSE]

VARIABLES
  serverReport,  \* key -> the report the backend would answer with
  heldReports,   \* the held map, oldest insertion first: <<key, report>>
  reportFlight,  \* key -> the request inflight holds for it, or 0
  reportLoads,   \* the requests sent, in order
  reportView,    \* view -> its hook's state
  pageHidden,    \* document.hidden
  reportSteps    \* bound only

reportVars == <<serverReport, heldReports, reportFlight, reportLoads, reportView,
                pageHidden, reportSteps>>

-----------------------------------------------------------------------------
(* held and inflight *)

HeldFor(held, k) ==
  LET at == {i \in 1..Len(held) : held[i][1] = k}
  IN  IF at = {} THEN NoReport ELSE held[CHOOSE i \in at : TRUE][2]

\* held.delete(key); held.set(key, next); the oldest goes past HELD_MAX.
Hold(held, k, r) ==
  LET kept == SelectSeq(held, LAMBDA e : e[1] # k) \o << <<k, r>> >>
  IN  IF Len(kept) > HeldMax THEN Tail(kept) ELSE kept

\* mergeReport: an unchanged answer keeps the held workloads under the
\* answer's status. A version stands for the workloads and the summary.
MergeReport(prev, r) ==
  IF ~r.unchanged THEN r
  ELSE IF prev = NoReport THEN [r EXCEPT !.version = 0, !.unchanged = FALSE]
  ELSE [r EXCEPT !.version = prev.version, !.unchanged = FALSE]

\* loadReport: join the pending request unless this is a refresh, else send
\* one with the version held now.
JoinsPending(k, refresh) == reportFlight[k] # 0 /\ ~refresh

LoadReport(k, refresh) ==
  [key |-> k, prev |-> HeldFor(heldReports, k), refresh |-> refresh, state |-> "sent"]

-----------------------------------------------------------------------------
(* The hook *)

FreshHook(k) ==
  [mounted |-> TRUE, key |-> k, report |-> HeldFor(heldReports, k),
   error |-> FALSE, gen |-> 0, waits |-> {}, timer |-> "null"]

\* fetchReport of view v with key k in hook state h: what the hook is after
\* it, the requests then sent and the request it waits for. timer "stale" is
\* a cleared timer whose id the ref still holds.
\* A hidden window does not poll: the timer is cleared and forgotten, so that
\* onVisible knows to fetch.
HiddenPoll(h) == [h EXCEPT !.timer = "null"]

Polls(refresh) == refresh \/ ~pageHidden

FetchReport(v, h, refresh) ==
  IF ~Polls(refresh)
  THEN /\ reportView' = [reportView EXCEPT ![v] = HiddenPoll(h)]
       /\ UNCHANGED <<reportFlight, reportLoads>>
  ELSE LET joins == JoinsPending(h.key, refresh)
           l     == IF joins THEN reportFlight[h.key] ELSE Len(reportLoads) + 1
           after == IF h.timer = "set" THEN "stale" ELSE h.timer
       IN  /\ joins \/ Len(reportLoads) < MaxReportLoads
           /\ reportLoads' = IF joins THEN reportLoads
                             ELSE Append(reportLoads, LoadReport(h.key, refresh))
           /\ reportFlight' = [reportFlight EXCEPT ![h.key] = l]
           /\ reportView' = [reportView EXCEPT ![v] =
                [h EXCEPT !.gen = h.gen + 1, !.timer = after,
                          !.waits = @ \cup {<<l, h.gen + 1>>}]]

-----------------------------------------------------------------------------
(* Initial state *)

FirstReport == [version |-> 1, status |-> "computing", progress |-> TRUE]

RightsizingInit ==
  /\ serverReport = [k \in ReportKeys |-> FirstReport]
  /\ heldReports = << >>
  /\ reportFlight = [k \in ReportKeys |-> 0]
  /\ reportLoads = << >>
  /\ reportView = [v \in ReportViews |->
       [FreshHook(CHOOSE k \in ReportKeys : TRUE) EXCEPT !.mounted = FALSE]]
  /\ pageHidden = FALSE
  /\ reportSteps = 0

CountStep == reportSteps < MaxReportSteps /\ reportSteps' = reportSteps + 1

-----------------------------------------------------------------------------
(* Actions *)

\* A view mounts with the preferences of the moment: state from held, then
\* the effect's first fetch.
MountView(v, k) ==
  /\ ~reportView[v].mounted
  /\ CountStep
  /\ FetchReport(v, FreshHook(k), FALSE)
  /\ UNCHANGED <<serverReport, heldReports, pageHidden>>

\* Profile, window or provider change: the old effect's cleanup (gen++, the
\* timer cleared but not forgotten), the new effect's state and fetch.
ChangeKey(v, k) ==
  LET h == reportView[v]
  IN  /\ h.mounted /\ k # h.key
      /\ CountStep
      /\ FetchReport(v, [h EXCEPT !.key = k, !.gen = h.gen + 1, !.error = FALSE,
                                  !.report = HeldFor(heldReports, k),
                                  !.timer = IF h.timer = "set" THEN "stale" ELSE @],
                     FALSE)
      /\ UNCHANGED <<serverReport, heldReports, pageHidden>>

UnmountView(v) ==
  /\ reportView[v].mounted
  /\ CountStep
  /\ reportView' = [reportView EXCEPT ![v].mounted = FALSE, ![v].waits = {}]
  /\ UNCHANGED <<serverReport, heldReports, reportFlight, reportLoads, pageHidden>>

\* The poll timer fires.
PollDue(v) ==
  /\ reportView[v].mounted /\ reportView[v].timer = "set"
  /\ FetchReport(v, [reportView[v] EXCEPT !.timer = "stale"], FALSE)
  /\ UNCHANGED <<serverReport, heldReports, pageHidden, reportSteps>>

\* Refresh button, banner action, or metrics-settings-changed.
RefreshReport(v) ==
  /\ reportView[v].mounted
  /\ CountStep
  /\ FetchReport(v, reportView[v], TRUE)
  /\ UNCHANGED <<serverReport, heldReports, pageHidden>>

HidePage ==
  /\ ~pageHidden
  /\ CountStep
  /\ pageHidden' = TRUE
  /\ UNCHANGED <<serverReport, heldReports, reportFlight, reportLoads, reportView>>

\* visibilitychange: every mounted hook without a timer id fetches. Hooks
\* run one after another; they join the request the first one sends.
Wakes(v) == reportView[v].mounted /\ reportView[v].timer = "null"

ShowPage ==
  LET waking == {v \in ReportViews : Wakes(v)}
      keys   == {reportView[v].key : v \in waking}
      new    == SetToSeq({k \in keys : reportFlight[k] = 0})
      flight == [k \in ReportKeys |->
                   IF k \in Range(new)
                   THEN Len(reportLoads) + (CHOOSE i \in 1..Len(new) : new[i] = k)
                   ELSE reportFlight[k]]
  IN  /\ pageHidden
      /\ Len(reportLoads) + Len(new) <= MaxReportLoads
      /\ pageHidden' = FALSE
      /\ reportLoads' = reportLoads \o
           [i \in 1..Len(new) |-> LoadReport(new[i], FALSE)]
      /\ reportFlight' = flight
      /\ reportView' = [v \in ReportViews |->
           LET h == reportView[v]
           IN  IF v \notin waking THEN h
               ELSE [h EXCEPT !.gen = h.gen + 1,
                              !.waits = @ \cup {<<flight[h.key], h.gen + 1>>}]]
      /\ UNCHANGED <<serverReport, heldReports, reportSteps>>

\* The backend (external): a computation ends or a newer one starts.
Compute(k) ==
  \E o \in ReportOutcomes :
    /\ serverReport[k].version < MaxReports
    /\ serverReport' = [serverReport EXCEPT ![k] =
         [version |-> @.version + 1, status |-> o.status, progress |-> o.progress]]
    /\ UNCHANGED <<heldReports, reportFlight, reportLoads, reportView, pageHidden,
                   reportSteps>>

\* The backend (external) answers with what it holds: without the workloads
\* when the version sent is still the current one.
AnswerTo(load) ==
  LET r == serverReport[load.key]
  IN  [key |-> load.key, version |-> r.version, status |-> r.status,
       progress |-> r.progress,
       unchanged |-> load.prev # NoReport /\ load.prev.version = r.version]

\* Variant: every answer is taken, whatever the generation.
SettledAnyGen(h, l, r) ==
  LET mine == {w \in h.waits : w[1] = l}
      rest == [h EXCEPT !.waits = @ \ mine]
  IN  IF mine = {} THEN rest
      ELSE IF r = NoReport THEN [rest EXCEPT !.error = TRUE, !.timer = "set"]
      ELSE [rest EXCEPT !.report = r, !.error = FALSE, !.timer = "set"]

\* What a hook does when the request it waits for settles: nothing if the
\* generation moved on; else the report or the error, and the next poll.
Settled(h, l, r) ==
  LET mine == {w \in h.waits : w[1] = l}
      rest == [h EXCEPT !.waits = @ \ mine]
  IN  IF ~\E w \in mine : w[2] = h.gen THEN rest
      ELSE IF r = NoReport THEN [rest EXCEPT !.error = TRUE, !.timer = "set"]
      ELSE [rest EXCEPT !.report = r, !.error = FALSE, !.timer = "set"]

Ends(l, r) ==
  /\ reportLoads' = [reportLoads EXCEPT ![l].state = "done"]
  /\ reportFlight' = [k \in ReportKeys |->
                        IF reportFlight[k] = l THEN 0 ELSE reportFlight[k]]
  /\ reportView' = [v \in ReportViews |-> Settled(reportView[v], l, r)]
  /\ UNCHANGED <<serverReport, pageHidden, reportSteps>>

DeliverReport(l) ==
  LET r == MergeReport(reportLoads[l].prev, AnswerTo(reportLoads[l]))
  IN  /\ reportLoads[l].state = "sent"
      /\ heldReports' = Hold(heldReports, reportLoads[l].key, r)
      /\ Ends(l, r)

LoadFails(l) ==
  /\ reportLoads[l].state = "sent"
  /\ Ends(l, NoReport)
  /\ UNCHANGED heldReports

RightsizingNext ==
  \/ \E v \in ReportViews, k \in ReportKeys : MountView(v, k) \/ ChangeKey(v, k)
  \/ \E v \in ReportViews : UnmountView(v) \/ PollDue(v) \/ RefreshReport(v)
  \/ HidePage \/ ShowPage
  \/ \E k \in ReportKeys : Compute(k)
  \/ \E l \in DOMAIN reportLoads :
       DeliverReport(l) \/ LoadFails(l)

-----------------------------------------------------------------------------
(* What is drawn *)

Busy(r) == r # NoReport /\ (r.progress \/ r.status = "computing")

\* The header's buttons and the banners above the content.
DashboardBanners(r, err) ==
  (IF err /\ r = NoReport THEN {"load failed"} ELSE {})
  \cup (IF r # NoReport /\ r.status = "error" THEN {"report failed"} ELSE {})
  \cup (IF r # NoReport /\ r.status = "ready" /\ r.progress THEN {"slim progress"} ELSE {})

\* The content: progress, the missing history source, or the report.
DashboardContent(r, err) ==
  (IF r = NoReport /\ ~err THEN {"progress"} ELSE {})
  \cup (IF r # NoReport /\ (r.status = "computing" \/ (r.status # "ready" /\ r.progress))
        THEN {"progress"} ELSE {})
  \cup (IF r # NoReport /\ ~r.progress /\ r.status = "no-history-source"
        THEN {"history source"} ELSE {})
  \cup (IF r # NoReport /\ r.status = "ready" THEN {"workloads"} ELSE {})

-----------------------------------------------------------------------------
(* Properties *)

\* A view draws the report of its own cluster, profile, window and provider,
\* whichever order answers come back in and whichever view asked for them,
\* and it always draws something.
ReportIsTheViews ==
  \A v \in ReportViews :
    LET h == reportView[v]
    IN  h.mounted =>
          /\ h.report # NoReport => h.report.key = h.key
          /\ DashboardBanners(h.report, h.error) \cup DashboardContent(h.report, h.error) # {}

\* On a visible page no view stops polling: it waits for an answer of its
\* current generation or has a timer armed, through refreshes, key changes,
\* failures, and hiding and showing the window in between.
PollingGoesOn ==
  ~pageHidden => \A v \in ReportViews :
    LET h == reportView[v]
    IN  h.mounted => \/ h.timer = "set"
                     \/ \E w \in h.waits : w[2] = h.gen /\ reportLoads[w[1]].state # "done"

-----------------------------------------------------------------------------
(***************************************************************************)
(* The evidence behind one workload's recommendation, as the sheets that   *)
(* show it load it (components/rightsizing/evidenceLoader.ts and           *)
(* EvidenceSheet.tsx): a cached snapshot read beside a refresh that every  *)
(* sheet of the workload shares, counts references to, aborts a moment     *)
(* after the last one left, and retries once when the metrics store is     *)
(* paused (503).                                                           *)
(*                                                                         *)
(* One workload, profile and window: keyOf is fixed. Evidence is known by  *)
(* where it came from: 0 none, 1 the backend's cached snapshot, f + 1 the  *)
(* answer to refresh f.                                                    *)
(***************************************************************************)

CONSTANTS
  Sheets,       \* calls of loadEvidence (a sheet opened, StrictMode's remount)
  MaxFlights    \* bound: refreshes sent

ASSUME MaxFlightsBound == MaxFlights \in Nat

VARIABLES
  evSheet,    \* sheet -> the closure of its loadEvidence
  evHeld,     \* held.get(key), 0 for none
  evFlight,   \* inflight.get(key): a flight, 0 for none
  evFlights,  \* every refresh sent, in order
  evGrace     \* flights with an ABORT_GRACE_MS timer pending

evidenceVars == <<evSheet, evHeld, evFlight, evFlights, evGrace>>

Closed == [live |-> FALSE, opened |-> FALSE, evidence |-> 0, settled |-> FALSE,
           succeeded |-> FALSE, error |-> FALSE, busy |-> FALSE, retried |-> FALSE,
           flight |-> 0, retry |-> FALSE, cached |-> "none"]

EvidenceInit ==
  /\ evSheet = [s \in Sheets |-> Closed]
  /\ evHeld = 0
  /\ evFlight = 0
  /\ evFlights = << >>
  /\ evGrace = {}

-----------------------------------------------------------------------------
(* join and leave *)

\* The flight a join returns: the one in flight, or a new one.
JoinedFlight == IF evFlight # 0 THEN evFlight ELSE Len(evFlights) + 1

\* join: one reference more on the flight.
Join(flights, f) ==
  IF f \in DOMAIN flights THEN [flights EXCEPT ![f].refs = @ + 1]
  ELSE Append(flights, [refs |-> 1, state |-> "open"])

\* leave: one reference less; the last one of an open flight starts the grace.
LeaveRefs(flights, f) ==
  IF f = 0 THEN flights ELSE [flights EXCEPT ![f].refs = @ - 1]

LeaveGrace(flights, f) ==
  IF f # 0 /\ flights[f].refs = 1 /\ flights[f].state = "open" THEN {f} ELSE {}

\* The grace timer: nobody came back, so the request is aborted.
AbortsLeft(f) == evFlights[f].refs = 0 /\ evFlights[f].state = "open"

GraceEnds(f) ==
  /\ f \in evGrace
  /\ evGrace' = evGrace \ {f}
  /\ IF AbortsLeft(f)
     THEN /\ evFlights' = [evFlights EXCEPT ![f].state = "aborted"]
          /\ evFlight' = IF evFlight = f THEN 0 ELSE evFlight
     ELSE UNCHANGED <<evFlights, evFlight>>
  /\ UNCHANGED <<evSheet, evHeld>>

-----------------------------------------------------------------------------
(* loadEvidence *)

\* What is held is shown at once; only without it the cached snapshot is read.
OpenSheet(s) ==
  LET f == JoinedFlight
  IN  /\ ~evSheet[s].opened
      /\ f <= MaxFlights
      /\ evFlights' = Join(evFlights, f)
      /\ evFlight' = f
      /\ evSheet' = [evSheet EXCEPT ![s] =
           [Closed EXCEPT !.live = TRUE, !.opened = TRUE, !.evidence = evHeld,
                          !.flight = f,
                          !.cached = IF evHeld = 0 THEN "reading" ELSE "none"]]
      /\ UNCHANGED <<evHeld, evGrace>>

\* The cached read answers. A slow one must not replace an upstream result.
UseSnapshot(sheet) == ~sheet.succeeded /\ sheet.live

CachedArrives(s) ==
  /\ evSheet[s].cached = "reading"
  /\ evSheet' = [evSheet EXCEPT ![s].cached = "none",
                                ![s].evidence = IF UseSnapshot(evSheet[s]) THEN 1 ELSE @]
  /\ evHeld' = IF UseSnapshot(evSheet[s]) /\ evHeld = 0 THEN 1 ELSE evHeld
  /\ UNCHANGED <<evFlight, evFlights, evGrace>>

\* No snapshot, or the read failed: the fresh request reports errors.
CachedMissing(s) ==
  /\ evSheet[s].cached = "reading"
  /\ evSheet' = [evSheet EXCEPT ![s].cached = "none"]
  /\ UNCHANGED <<evHeld, evFlight, evFlights, evGrace>>

\* A flight settles: finally marks it and takes it out of inflight, then
\* every sheet awaiting it goes on.
Awaits(sheet, f) == sheet.opened /\ sheet.flight = f /\ ~sheet.settled /\ ~sheet.retry

SettleFlight(f) ==
  /\ evFlights[f].state = "open"
  /\ evFlights' = [evFlights EXCEPT ![f].state = "settled"]
  /\ evFlight' = IF evFlight = f THEN 0 ELSE evFlight
  /\ UNCHANGED evGrace

FlightSucceeds(f) ==
  /\ SettleFlight(f)
  /\ evHeld' = f + 1
  /\ evSheet' = [s \in Sheets |->
       IF ~Awaits(evSheet[s], f) THEN evSheet[s]
       ELSE [evSheet[s] EXCEPT !.evidence = f + 1, !.succeeded = TRUE,
                               !.error = FALSE, !.busy = FALSE, !.settled = TRUE]]

\* A 503 arms the one retry of the sheets still live; any other failure, and
\* a second 503, is the error shown.
Retries(sheet, busy) == busy /\ ~sheet.retried /\ sheet.live

FlightFails(f, busy) ==
  /\ SettleFlight(f)
  /\ evSheet' = [s \in Sheets |->
       IF ~Awaits(evSheet[s], f) THEN evSheet[s]
       ELSE IF Retries(evSheet[s], busy)
            THEN [evSheet[s] EXCEPT !.busy = TRUE, !.retry = TRUE]
            ELSE [evSheet[s] EXCEPT !.busy = FALSE, !.error = TRUE, !.settled = TRUE]]
  /\ UNCHANGED evHeld

\* The retry timer: refresh(true) leaves the settled flight and joins again.
RetryDue(s) ==
  LET f == JoinedFlight
  IN  /\ evSheet[s].retry
      /\ f <= MaxFlights
      /\ evGrace' = evGrace \cup LeaveGrace(evFlights, evSheet[s].flight)
      /\ evFlights' = Join(LeaveRefs(evFlights, evSheet[s].flight), f)
      /\ evFlight' = f
      /\ evSheet' = [evSheet EXCEPT ![s].retry = FALSE, ![s].retried = TRUE,
                                    ![s].flight = f]
      /\ UNCHANGED evHeld

\* The cleanup loadEvidence returns: close, unmount, or another key.
CloseSheet(s) ==
  LET f == evSheet[s].flight
  IN  /\ evSheet[s].live
      /\ evGrace' = evGrace \cup LeaveGrace(evFlights, f)
      /\ evFlights' = LeaveRefs(evFlights, f)
      /\ evSheet' = [evSheet EXCEPT ![s].live = FALSE, ![s].retry = FALSE,
                                    ![s].cached = "none", ![s].flight = 0,
                                    ![s].settled = TRUE]
      /\ UNCHANGED <<evHeld, evFlight>>

EvidenceNext ==
  \/ \E s \in Sheets : \/ OpenSheet(s) \/ CloseSheet(s) \/ RetryDue(s)
                       \/ CachedArrives(s) \/ CachedMissing(s)
  \/ \E f \in DOMAIN evFlights :
       \/ FlightSucceeds(f) \/ GraceEnds(f)
       \/ \E busy \in BOOLEAN : FlightFails(f, busy)

-----------------------------------------------------------------------------
(* What the sheet draws *)

-----------------------------------------------------------------------------
(* Properties *)

\* References count the open sheets, so a refresh a sheet still waits for is
\* never aborted by another one leaving, and one nobody waits for is going to
\* be: it holds the backend's interactive slot.
FlightsAreShared ==
  /\ \A s \in Sheets : LET e == evSheet[s] IN
       e.live /\ ~e.settled /\ ~e.retry => evFlights[e.flight].state = "open"
  /\ \A f \in DOMAIN evFlights :
       evFlights[f].state = "open" /\ evFlights[f].refs = 0 => f \in evGrace

\* What an open sheet shows is never replaced by something older, in
\* whatever order the snapshot, the refresh, its retry and other sheets'
\* refreshes answer; nor is what is held for the next sheet.
EvidenceNeverOlder ==
  /\ evHeld' >= evHeld
  /\ \A s \in Sheets : evSheet[s].live /\ evSheet'[s].live =>
       evSheet'[s].evidence >= evSheet[s].evidence

\* All four: reports and evidence on screen are the newest asked for, and
\* what still has to come is being waited for.
RightsizingIsCurrent ==
  [][ReportIsTheViews' /\ PollingGoesOn' /\ FlightsAreShared' /\ EvidenceNeverOlder
    ]_<<reportVars, evidenceVars>>

-----------------------------------------------------------------------------
(***************************************************************************)
(* From a rightsizing recommendation to the patch a user applies           *)
(* (components/rightsizing/rightsizingView.ts): the choice a              *)
(* recommendation or a slider position stands for, the patches made of it, *)
(* what is left to change afterwards. The cluster applies the patches     *)
(* (external) and the engine (backend/internal/rightsizing/analyze.go)     *)
(* reports again.                                                          *)
(*                                                                         *)
(* Amounts are counted in half steps of the smallest quantity a patch can  *)
(* write (1m of CPU, 1Mi of memory): quantity() rounds to the even ones.   *)
(***************************************************************************)

CONSTANTS
  PlanContainers,   \* the containers of the workload
  Injected,         \* those a mesh injects (SIDECAR_ANNOTATIONS)
  PlanAmounts,      \* amounts requests and limits come in, 0 for unset
  PlanKinds,        \* kinds of workload
  GridMax           \* usage values of the quantile grids checked: 0 .. GridMax

ASSUME PlanAssumption == /\ Injected \subseteq PlanContainers
                         /\ PlanAmounts \subseteq Nat /\ 0 \in PlanAmounts

Resources == {"cpu", "memory"}
StrategicPatchKinds == {"Deployment", "CronJob"}

MaxOf(a, b) == IF a >= b THEN a ELSE b

VARIABLES
  planKind,     \* the workload's kind
  spec,         \* container -> resource -> [request, limit] in the pod template
  advice,       \* container -> resource -> the engine's advice, see The engine's report
  vpa,          \* <<container, resource>> a VerticalPodAutoscaler sets
  candidate     \* container -> resource -> the sheet's slider, 0 for untouched

planVars == <<planKind, spec, advice, vpa, candidate>>

-----------------------------------------------------------------------------
(* Quantities *)

\* Math.round to whole m or Mi; an odd amount lies half way and rounds up.
Quantity(v) == ((v + 1) \div 2) * 2

\* The steps a slider position snaps up to.
Snap(v) == ((v + 1) \div 2) * 2

-----------------------------------------------------------------------------
(* The engine's report *)

\* keep: within the noise of today's value, or no data; else the request
\* moves to a rounded value. pressed: usage presses against the CPU limit.
Advices == {[moves |-> FALSE, to |-> 0, pressed |-> FALSE]}
           \cup {[moves |-> TRUE, to |-> t, pressed |-> p] :
                   t \in {a \in PlanAmounts : a > 0 /\ a % 2 = 0}, p \in BOOLEAN}

Recommended(c, r) ==
  IF advice[c][r].moves THEN advice[c][r].to ELSE spec[c][r].request

\* none without a limit, raise when pressed or passed, else keep.
CpuLimitAction(c) ==
  LET s == spec[c]["cpu"]
  IN  IF s.limit = 0 THEN "none"
      ELSE IF advice[c]["cpu"].moves
              /\ (advice[c]["cpu"].pressed \/ advice[c]["cpu"].to > s.limit)
           THEN "raise" ELSE "keep"

CpuRecommendedLimit(c) ==
  LET s == spec[c]["cpu"]
  IN  IF CpuLimitAction(c) = "raise"
      THEN Quantity(MaxOf((3 * s.limit) \div 2, (3 * Recommended(c, "cpu")) \div 2))
      ELSE s.limit

\* Memory is recommended as request = limit, unless it stays as it is.
MemoryLimitAction(c) ==
  LET s == spec[c]["memory"]
      m == Recommended(c, "memory")
  IN  IF ~advice[c]["memory"].moves \/ (s.request = m /\ s.limit = m) THEN "keep" ELSE "set"

-----------------------------------------------------------------------------
(* The slider's readout. Quantiles are in percent, shares in percent times   *)
(* ShareScale, which makes every interpolation on the grids checked exact.   *)

ShareScale == 12
Null == -1

\* The points of a grid that have a value.
Points(q, values) ==
  LET has(i) == values[i] # Null
      at == SelectSeq([i \in 1..Len(q) |-> i], has)
  IN  [k \in 1..Len(at) |-> [q |-> q[at[k]], v |-> values[at[k]]]]

FirstOf(S) == CHOOSE i \in S : \A j \in S : i =< j

\* exceedance: the share of samples above x.
Exceedance(q, values, x) ==
  LET p == Points(q, values)
      above == {i \in 2..Len(p) : x < p[i].v}
      i == FirstOf(above)
  IN  IF p = << >> THEN 0
      ELSE IF x < p[1].v THEN ShareScale * (100 - p[1].q)
      ELSE IF x >= p[Len(p)].v \/ above = {} THEN 0
      ELSE ShareScale * (100 - p[i-1].q)
           - (ShareScale * (x - p[i-1].v) * (p[i].q - p[i-1].q)) \div (p[i].v - p[i-1].v)

\* quantileAt: the value at quantile pct, times (q1 - q0) of the step it falls
\* into: the value over the scale.
QuantileAt(q, values, pct) ==
  LET p == Points(q, values)
      reached == {i \in DOMAIN p : p[i].q >= pct}
      i == FirstOf(reached)
  IN  IF p = << >> THEN [over |-> 0, scale |-> 1]
      ELSE IF reached = {} THEN [over |-> p[Len(p)].v, scale |-> 1]
      ELSE IF i = 1 THEN [over |-> p[1].v, scale |-> 1]
      ELSE LET width == p[i].q - p[i-1].q
           IN [over |-> p[i-1].v * width + (pct - p[i-1].q) * (p[i].v - p[i-1].v),
               scale |-> width]

\* evaluateCandidate: read off the distribution, or before it has arrived off
\* the report's own quantiles, without the daily peaks.
EvaluateCandidate(q, cpuValues, dailyPeaks, loaded, cpu, mem, request) ==
  [cpuTimeAbove |-> Exceedance(q, cpuValues, cpu),
   memDaysOver  |-> IF loaded THEN Cardinality({d \in DOMAIN dailyPeaks : dailyPeaks[d] > mem})
                    ELSE 0,
   monthlyDelta |-> (request.cpu - cpu) + (request.memory - mem)]

GridQ == <<0, 50, 75, 100>>
Grids == {g \in [1..Len(GridQ) -> {Null} \cup 0..GridMax] :
            \A i, j \in 1..Len(GridQ) :
              i < j /\ g[i] # Null /\ g[j] # Null => g[i] =< g[j]}

-----------------------------------------------------------------------------
(* Targets of horizontal autoscalers *)

\* hpaCounts and pairedHPATarget: today's target times the requests it counts,
\* today's over the chosen; a pod-level target counts every container with a
\* request, any other the one it is coupled to (the first).
HpaCounts(pod, request) == IF pod THEN {c \in DOMAIN request : request[c] > 0} ELSE {1}

Rounded(a, b) == (2 * a + b) \div (2 * b)

PairedHPATarget(percent, pod, request, taken, suggested) ==
  LET counted == HpaCounts(pod, request)
      now  == MapThenSumSet(LAMBDA c : request[c], counted)
      next == MapThenSumSet(LAMBDA c : taken[c], counted)
  IN  IF now > 0 /\ next > 0 THEN MaxOf(1, Rounded(percent * now, next)) ELSE suggested

\* workloadHPAs: an autoscaler several containers share gets the lowest target.
WorkloadTarget(suggestions) == CHOOSE t \in suggestions : \A u \in suggestions : t =< u

-----------------------------------------------------------------------------
(* Savings in FinOps *)

\* Dollars a month; 5 in the code, 2 over the amounts checked.
MIN_LISTED_SAVINGS == 2

\* rightsizingRecommendations: the workloads listed.
Listed(ws) == {w \in ws : w.priced /\ w.savings >= MIN_LISTED_SAVINGS /\ ~w.dismissed}

\* The report's summary (analyze.go): every workload that would cost less.
Shrinking(ws) == {w \in ws : w.savings > 0 /\ ~w.dismissed}

\* rightsizingSavingsIndex: the savings of a namespace in the cost table.
NamespaceSavings(ws, ns) ==
  MapThenSumSet(LAMBDA w : w.savings, {w \in Shrinking(ws) : w.ns = ns})

\* potentialSavings.
PotentialSavings(ws, nodeSavings) ==
  [total   |-> MapThenSumSet(LAMBDA w : w.savings, Shrinking(ws)) + nodeSavings,
   smaller |-> MaxOf(0, Cardinality(Shrinking(ws)) - Cardinality(Listed(ws)))]

-----------------------------------------------------------------------------
(* Choices *)

\* choiceFromRec: a limit the engine keeps stays, a CPU one rising only to a
\* request picked above it; any other memory value is request and limit.
ChoiceFromRec(c, cpu, mem) ==
  [cpu |-> cpu, memory |-> mem,
   cpuLimit |-> IF CpuLimitAction(c) = "none" THEN 0
                ELSE MaxOf(CpuRecommendedLimit(c), cpu),
   memoryLimit |-> IF MemoryLimitAction(c) = "keep" /\ mem = Recommended(c, "memory")
                   THEN spec[c]["memory"].limit ELSE mem]

Recommendation(c) == ChoiceFromRec(c, Recommended(c, "cpu"), Recommended(c, "memory"))

\* The sheet's choice: the candidates picked, else the recommendation.
SheetChoice(c) ==
  LET at(r) == IF candidate[c][r] # 0 THEN candidate[c][r] ELSE Recommended(c, r)
  IN  ChoiceFromRec(c, at("cpu"), at("memory"))

\* changes: the request or the limit of a resource no VPA sets would differ.
Changes(c) ==
  LET k == Recommendation(c)
  IN  \/ /\ <<c, "cpu">> \notin vpa
         /\ k.cpu # spec[c]["cpu"].request \/ k.cpuLimit # spec[c]["cpu"].limit
      \/ /\ <<c, "memory">> \notin vpa
         /\ k.memory # spec[c]["memory"].request \/ k.memoryLimit # spec[c]["memory"].limit

HasChange == \E c \in PlanContainers : Changes(c)

BulkChoiceVpaToo(c) == Recommendation(c)

\* bulkChoice: what a VPA sets is left out (0).
BulkChoice(c) ==
  LET k == Recommendation(c)
      cpu == <<c, "cpu">> \notin vpa
      mem == <<c, "memory">> \notin vpa
  IN  [cpu |-> IF cpu THEN k.cpu ELSE 0, cpuLimit |-> IF cpu THEN k.cpuLimit ELSE 0,
       memory |-> IF mem THEN k.memory ELSE 0,
       memoryLimit |-> IF mem THEN k.memoryLimit ELSE 0]

-----------------------------------------------------------------------------
(* Patches *)

\* The values a patch carries for a container, as written: 0 is left out.
\* An injected sidecar gets the same four values as annotations.
WrittenResources(k) ==
  [cpu    |-> [request |-> Quantity(k.cpu), limit |-> Quantity(k.cpuLimit)],
   memory |-> [request |-> Quantity(k.memory), limit |-> Quantity(k.memoryLimit)]]

\* patchObject and patchYAML: regular containers with a value to set, and
\* every sidecar's annotations.
PatchObject(choice) ==
  [c \in {x \in DOMAIN choice : choice[x].cpu > 0 \/ choice[x].memory > 0
                                \/ x \in Injected} |-> WrittenResources(choice[c])]

\* kubectl set resources, and the annotation patch: only for kinds it knows.
KubectlCommands(kind, choice) ==
  IF kind \in StrategicPatchKinds \ {"CronJob"} THEN PatchObject(choice) ELSE << >>

\* bulkKubectl: one strategic merge patch with the containers that change; a
\* kind the apiserver cannot merge gets a note instead.
BulkKubectl ==
  IF planKind \in StrategicPatchKinds
  THEN PatchObject([c \in {x \in PlanContainers : Changes(x)} |-> BulkChoice(c)])
  ELSE << >>

\* External: a merge patch sets what it names and leaves the rest.
Merged(template, patch) ==
  [c \in PlanContainers |->
     IF c \notin DOMAIN patch THEN template[c]
     ELSE [r \in Resources |->
             [request |-> IF patch[c][r].request > 0 THEN patch[c][r].request
                          ELSE template[c][r].request,
              limit   |-> IF patch[c][r].limit > 0 THEN patch[c][r].limit
                          ELSE template[c][r].limit]]]

-----------------------------------------------------------------------------
(* Behaviour *)

\* A limit is never below its request in a template the apiserver holds.
Templates == {t \in [request : PlanAmounts, limit : PlanAmounts] :
                t.limit = 0 \/ t.limit >= t.request}

Untouched == [c \in PlanContainers |-> [r \in Resources |-> 0]]

PlanInit ==
  /\ planKind \in PlanKinds
  /\ spec \in [PlanContainers -> [Resources -> Templates]]
  /\ advice \in [PlanContainers -> [Resources -> Advices]]
  /\ vpa \in SUBSET (PlanContainers \X Resources)
  /\ candidate = Untouched

\* The sheet's sliders.
PickCandidate(c, r, v) ==
  /\ candidate[c][r] = 0 /\ v > 0
  /\ candidate' = [candidate EXCEPT ![c][r] = Snap(v)]
  /\ UNCHANGED <<planKind, spec, advice, vpa>>

\* The user applies a patch; the engine's next report has the same targets,
\* without the pressure a raised limit took away.
Apply(patch) ==
  /\ spec' = Merged(spec, patch)
  /\ advice' = [c \in PlanContainers |-> [r \in Resources |->
                  IF c \in DOMAIN patch THEN [advice[c][r] EXCEPT !.pressed = FALSE]
                  ELSE advice[c][r]]]
  /\ candidate' = Untouched
  /\ UNCHANGED <<planKind, vpa>>

ApplySheetPatch == Apply(PatchObject([c \in PlanContainers |-> SheetChoice(c)]))

ApplyKubectl ==
  /\ planKind \in StrategicPatchKinds \ {"CronJob"}
  /\ Apply(KubectlCommands(planKind, [c \in PlanContainers |-> SheetChoice(c)]))

ApplyBulk == HasChange /\ Apply(BulkKubectl)

PlanNext ==
  \/ \E c \in PlanContainers, r \in Resources, v \in PlanAmounts : PickCandidate(c, r, v)
  \/ ApplySheetPatch \/ ApplyKubectl \/ ApplyBulk

-----------------------------------------------------------------------------
(* Properties *)

\* Every patch leaves a template the apiserver accepts: no limit below its
\* request, whatever was picked and whatever is left out.
LimitsCoverRequests ==
  \A c \in PlanContainers, r \in Resources :
    spec[c][r].limit = 0 \/ spec[c][r].limit >= spec[c][r].request

\* A bulk patch settles: once applied, nothing it could change is left to
\* change, and what a VPA sets was not touched.
BulkPatchSettles ==
  ApplyBulk /\ planKind \in StrategicPatchKinds =>
    /\ ~HasChange'
    /\ \A x \in vpa : spec'[x[1]][x[2]] = spec[x[1]][x[2]]

\* Moving the slider up never makes the readout worse: no more time above the
\* request, no more days over it, and no more saved; and the request at a
\* quantile is passed no more often than the quantile says, whatever values
\* are missing (rightsizingView.ts, exceedance, quantileAt,
\* evaluateCandidate).
ReadoutIsFair ==
  /\ \A g \in Grids, x \in 0..GridMax, loaded \in BOOLEAN :
       LET at(v) == EvaluateCandidate(GridQ, g, <<1, 2, 3>>, loaded, v, v,
                                      [cpu |-> 1, memory |-> 2])
       IN  /\ at(x + 1).cpuTimeAbove =< at(x).cpuTimeAbove
           /\ at(x + 1).memDaysOver =< at(x).memDaysOver
           /\ at(x + 1).monthlyDelta < at(x).monthlyDelta
           /\ at(x).cpuTimeAbove \in 0..100 * ShareScale
  /\ \A g \in Grids, pct \in {0, 25, 50, 75, 100} :
       LET v == QuantileAt(GridQ, g, pct)
       IN  v.over % v.scale = 0 /\ Points(GridQ, g) # << >> =>
             Exceedance(GridQ, g, v.over \div v.scale) =< ShareScale * (100 - pct)

\* A paired target scales as today's did: the use that reaches it is today's,
\* up to rounding the target; of an autoscaler shared by containers the lowest
\* target scales out no later than any (pairedHPATarget, workloadHPAs).
TargetsKeepScaling ==
  /\ \A request, taken \in [1..2 -> 0..3], pod \in BOOLEAN, percent \in {50, 80} :
       LET counted == {c \in 1..2 : IF pod THEN request[c] > 0 ELSE c = 1}
           now  == MapThenSumSet(LAMBDA c : request[c], counted)
           next == MapThenSumSet(LAMBDA c : taken[c], counted)
           new  == PairedHPATarget(percent, pod, request, taken, 0)
       IN  now > 0 /\ next > 0 =>
             2 * (new * next - percent * now) =< next /\ 2 * (percent * now - new * next) =< next
  /\ \A S \in SUBSET {40, 60, 80} : S # {} => \A t \in S : WorkloadTarget(S) =< t

\* What FinOps lists and counts is what the report says can shrink: each
\* workload is a row or among the smaller ones, and the namespaces' savings
\* add up to the total (rightsizingRecommendations, potentialSavings,
\* rightsizingSavingsIndex).
SavingsAddUp ==
  \A ws \in SUBSET [ns : {"n1", "n2"}, savings : {-1, 1, 3}, priced : {TRUE}, dismissed : BOOLEAN] :
    /\ Cardinality(Listed(ws)) + PotentialSavings(ws, 0).smaller = Cardinality(Shrinking(ws))
    /\ NamespaceSavings(ws, "n1") + NamespaceSavings(ws, "n2") = PotentialSavings(ws, 0).total

-----------------------------------------------------------------------------
(***************************************************************************)
(* The rightsizing dashboard's triage table: facets, verdict chips, groups *)
(* and their folding, the keyboard cursor, the selection and the evidence  *)
(* sheet over it, while polls replace the report underneath                *)
(* (RightsizingDashboard.tsx, RightsizingTable.tsx, FacetMenu.tsx and the  *)
(* table half of rightsizingView.ts).                                      *)
(*                                                                         *)
(* Text search and savings thresholds filter like one more facet and are   *)
(* left out; sorting decides the order inside groups, which is fixed here. *)
(***************************************************************************)

CONSTANTS
  TriageRows,     \* workloads reports may hold: [id, namespace, release, verdict, dismissed]
  RowsPerGroup,   \* ROWS_PER_GROUP and ROWS_FLAT
  MaxTriageSteps  \* bound: clicks and keys

ASSUME RowsPerGroupBound == RowsPerGroup \in Nat \ {0}

MenuFacets == {"namespace", "release"}
Facets == MenuFacets \cup {"verdict"}
Verdicts == {"under-provisioned", "over-provisioned"}
GroupBys == {"namespace", "release", "none"}

VARIABLES
  triageReport,  \* the workloads of the report held
  facet,         \* facet -> values picked; empty for all
  showDismissed,
  groupBy,
  collapsed,     \* group keys folded (RightsizingTable's state)
  expanded,      \* group keys shown whole
  cursor,        \* id of the keyboard's row, "" for none
  selectedRows,  \* ids
  sheetRow,      \* id of the row whose evidence is open, "" for none
  triageSteps    \* bound only

triageVars == <<triageReport, facet, showDismissed, groupBy, collapsed, expanded,
                cursor, selectedRows, sheetRow, triageSteps>>

-----------------------------------------------------------------------------
(* Filters and facets *)

\* filterWorkloads under the facets of `by`: a dismissed row only on request,
\* then every picked facet must hold the row's value.
Passes(w, by) ==
  /\ showDismissed \/ ~w.dismissed
  /\ \A f \in by : facet[f] = {} \/ w[f] \in facet[f]

Filtered == {w \in triageReport : Passes(w, Facets)}

\* The values a facet offers: those of the rows everything else leaves, so
\* that picking one never shows nothing. An absent label is no value.
FacetValues(f) == {w[f] : w \in {x \in triageReport : Passes(x, Facets \ {f})}} \ {""}

-----------------------------------------------------------------------------
(* Groups and what is drawn *)

\* groupWorkloads' keyOf.
GroupKey(w) == CASE groupBy = "namespace" -> w.namespace
                 [] groupBy = "release"   -> IF w.release = "" THEN "No release label"
                                             ELSE w.release
                 [] groupBy = "none"      -> ""

GroupKeys == {GroupKey(w) : w \in Filtered}
Members(k) == SetToSortSeq({w \in Filtered : GroupKey(w) = k},
                           LAMBDA a, b : a.rank < b.rank)

\* The rows of a group that are drawn.
ShownOf(k) ==
  IF k \in collapsed THEN << >>
  ELSE IF k \in expanded THEN Members(k)
  ELSE SubSeq(Members(k), 1, IF Len(Members(k)) < RowsPerGroup THEN Len(Members(k))
                             ELSE RowsPerGroup)

\* items: the group header unless flat, its rows, and the "more" row.
HeaderDrawn(k) == groupBy # "none"
MoreDrawn(k) == k \notin collapsed /\ Len(Members(k)) > RowsPerGroup

\* flat: the drawn rows in order; groups follow their first member.
Drawn ==
  LET order == SetToSortSeq(GroupKeys, LAMBDA a, b : Members(a)[1].rank < Members(b)[1].rank)
  IN  FlattenSeq([i \in 1..Len(order) |-> ShownOf(order[i])])

IndexOf(id) ==
  LET at == {i \in 1..Len(Drawn) : Drawn[i].id = id}
  IN  IF at = {} THEN 0 ELSE CHOOSE i \in at : TRUE

-----------------------------------------------------------------------------
(* Behaviour *)

TriageInit ==
  /\ triageReport = {}
  /\ facet = [f \in Facets |-> {}]
  /\ showDismissed = FALSE
  /\ groupBy = "namespace"
  /\ collapsed = {} /\ expanded = {}
  /\ cursor = "" /\ selectedRows = {} /\ sheetRow = ""
  /\ triageSteps = 0

Acts == triageSteps < MaxTriageSteps /\ triageSteps' = triageSteps + 1

Flip(set, x) == IF x \in set THEN set \ {x} ELSE set \cup {x}

\* A poll brings another report; nothing of the view's state follows it.
NewTriageReport(ws) ==
  /\ Acts
  /\ triageReport' = ws
  /\ UNCHANGED <<facet, showDismissed, groupBy, collapsed, expanded, cursor,
                 selectedRows, sheetRow>>

\* FacetMenu's toggle and a pill's clear flip an offered or a picked value;
\* toggleVerdict flips any verdict.
ToggleFacet(f, v) ==
  /\ Acts
  /\ v \in (IF f = "verdict" THEN Verdicts ELSE FacetValues(f)) \cup facet[f]
  /\ facet' = [facet EXCEPT ![f] = Flip(@, v)]
  /\ UNCHANGED <<triageReport, showDismissed, groupBy, collapsed, expanded, cursor,
                 selectedRows, sheetRow>>

\* The menus' Clear and the pills' Clear all.
ClearFacets ==
  /\ Acts
  /\ facet' = [f \in Facets |-> {}]
  /\ UNCHANGED <<triageReport, showDismissed, groupBy, collapsed, expanded, cursor,
                 selectedRows, sheetRow>>

ToggleDismissed ==
  /\ Acts
  /\ \E w \in triageReport : w.dismissed
  /\ showDismissed' = ~showDismissed
  /\ UNCHANGED <<triageReport, facet, groupBy, collapsed, expanded, cursor,
                 selectedRows, sheetRow>>

SetGroup(g) ==
  /\ Acts
  /\ groupBy' = g
  /\ UNCHANGED <<triageReport, facet, showDismissed, collapsed, expanded, cursor,
                 selectedRows, sheetRow>>

\* draw: a header folds its group, a "more" row shows it whole.
ClickHeader(k) ==
  /\ Acts
  /\ HeaderDrawn(k)
  /\ collapsed' = Flip(collapsed, k)
  /\ UNCHANGED <<triageReport, facet, showDismissed, groupBy, expanded, cursor,
                 selectedRows, sheetRow>>

ClickMore(k) ==
  /\ Acts
  /\ MoreDrawn(k)
  /\ expanded' = Flip(expanded, k)
  /\ UNCHANGED <<triageReport, facet, showDismissed, groupBy, collapsed, cursor,
                 selectedRows, sheetRow>>

\* onKeyDown: the sheet owns the keyboard while it is open. j and k stay
\* inside the drawn rows; a cursor on a row no longer drawn starts over.
MoveCursor(d) ==
  LET i == IndexOf(cursor)
      j == IF d = 1 THEN i + 1 ELSE IF i <= 1 THEN 1 ELSE i - 1
  IN  /\ Acts
      /\ sheetRow = "" /\ Drawn # << >>
      /\ cursor' = Drawn[IF j > Len(Drawn) THEN Len(Drawn) ELSE j].id
      /\ UNCHANGED <<triageReport, facet, showDismissed, groupBy, collapsed, expanded,
                     selectedRows, sheetRow>>

OpenAtCursor ==
  /\ Acts
  /\ sheetRow = "" /\ IndexOf(cursor) # 0
  /\ sheetRow' = cursor
  /\ UNCHANGED <<triageReport, facet, showDismissed, groupBy, collapsed, expanded,
                 cursor, selectedRows>>

ToggleAtCursor ==
  /\ Acts
  /\ sheetRow = "" /\ IndexOf(cursor) # 0
  /\ selectedRows' = Flip(selectedRows, cursor)
  /\ UNCHANGED <<triageReport, facet, showDismissed, groupBy, collapsed, expanded,
                 cursor, sheetRow>>

\* The head's check box: every row of every group, drawn or folded.
ToggleAll ==
  LET ids == {w.id : w \in Filtered}
  IN  /\ Acts
      /\ selectedRows' = IF ids # {} /\ ids \subseteq selectedRows
                         THEN selectedRows \ ids ELSE selectedRows \cup ids
      /\ UNCHANGED <<triageReport, facet, showDismissed, groupBy, collapsed, expanded,
                     cursor, sheetRow>>

\* Escape: the sheet's own listener closes it; without a sheet it clears the
\* selection.
PressEscape ==
  /\ Acts
  /\ sheetRow' = ""
  /\ selectedRows' = IF sheetRow = "" THEN {} ELSE selectedRows
  /\ UNCHANGED <<triageReport, facet, showDismissed, groupBy, collapsed, expanded,
                 cursor>>

TriageNext ==
  \/ \E ws \in SUBSET TriageRows : NewTriageReport(ws)
  \/ \E f \in Facets : \E v \in Verdicts \cup FacetValues(f) \cup facet[f] : ToggleFacet(f, v)
  \/ ClearFacets \/ ToggleDismissed
  \/ \E g \in GroupBys \ {groupBy} : SetGroup(g)
  \/ \E k \in GroupKeys : ClickHeader(k) \/ ClickMore(k)
  \/ \E d \in {1, 2} : MoveCursor(d)
  \/ OpenAtCursor \/ ToggleAtCursor \/ ToggleAll \/ PressEscape

-----------------------------------------------------------------------------
(* Properties *)

\* "a facet never offers values that would show nothing": picking any value
\* a menu offers leaves rows with that value, whatever else is picked.
FacetsShowSomething ==
  \A f \in MenuFacets : \A v \in FacetValues(f) :
    \E w \in triageReport : Passes(w, Facets \ {f}) /\ w[f] = v

\* No row is out of reach: one that passes the filters is drawn, or a header
\* or a "more" row that is drawn brings it back, after any folding in any
\* grouping.
RowsReachable ==
  \A w \in Filtered : LET k == GroupKey(w) IN
    \/ \E i \in 1..Len(Drawn) : Drawn[i] = w
    \/ HeaderDrawn(k) /\ k \in collapsed
    \/ MoreDrawn(k)

\* What is computed, patched, filtered and grouped keeps to the report; the
\* first three depend on no state.
RightsizingIsSound ==
  /\ ReadoutIsFair /\ TargetsKeepScaling /\ SavingsAddUp
  /\ [][\/ UNCHANGED planVars
        \/ LimitsCoverRequests' /\ BulkPatchSettles]_planVars
  /\ [][\/ UNCHANGED triageVars
        \/ FacetsShowSomething' /\ RowsReachable']_triageVars
=============================================================================
