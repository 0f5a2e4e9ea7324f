--------------------------------- MODULE MCPages ---------------------------------
(***************************************************************************)
(* The pages that watch a cluster, for TLC: Dashboards, Metrics,           *)
(* Rightsizing, HelmStream, Assistant, CloudAccess, Topology.  The         *)
(* machines of these modules share no state, so a behaviour is one of one  *)
(* machine; "which" says whose, and what the others could start from is    *)
(* fixed.                                                                  *)
(***************************************************************************)
EXTENDS Dashboards, Metrics, Rightsizing, HelmStream, Assistant, CloudAccess,
        Topology, TLC

CONSTANTS k1, k2, dash, card, s1, s2, s3, ra, x1, x2
MCCostNamespaces ==
    {[ns |-> "n1", workloads |-> {[name |-> "w1", eff |-> "low"], [name |-> "w2", eff |-> "ok"]}]}
MCDetections == {[found |-> {"mimir"}, needs |-> {"mimir"}], [found |-> {"prometheus"}, needs |-> {}]}
MCReportOutcomes == {[status |-> "no-history-source", progress |-> TRUE]}
TR(i, n, r, v, d, k) ==
    [id |-> i, namespace |-> n, release |-> r, verdict |-> v, dismissed |-> d, rank |-> k]
MCNoAdvice ==
  /\ spec = [c \in PlanContainers |-> [r \in Resources |-> [request |-> 0, limit |-> 0]]]
  /\ advice = [c \in PlanContainers |-> [r \in Resources |-> [moves |-> FALSE, to |-> 0, pressed |-> FALSE]]]
MCTriageRows == {TR("a", "n1", "r1", "under-provisioned", FALSE, 1), TR("b", "n1", "", "over-provisioned", TRUE, 2),
                 TR("c", "n2", "r1", "over-provisioned", FALSE, 3)}
MCRolesOf == ("p1" :> {"r1", "r2"}) @@ ("p2" :> {"r1"})
TN(i, k, o, a) == [id |-> i, kind |-> k, owner |-> o, app |-> a]
MCDrawSeq ==
    <<TN("cm", "ConfigMap", "", ""), TN("cx", "ConfigMap", "", "x"), TN("dep", "Deployment", "", ""),
      TN("gw", "Gateway", "", ""), TN("hpa", "HorizontalPodAutoscaler", "", ""), TN("rt", "HTTPRoute", "", ""),
      TN("p1", "Pod", "rs", ""), TN("p2", "Pod", "rs", "x"), TN("rs", "ReplicaSet", "dep", ""),
      TN("svc", "Service", "", "")>>
DL(x, r, y) == <<x, r, y>>
MCDrawLinks ==
    {DL("svc", "selects", "p1"), DL("svc", "selects", "p2"), DL("dep", "owns", "rs"),
     DL("rs", "owns", "p1"), DL("rs", "owns", "p2"), DL("gw", "routes", "rt"),
     DL("rt", "routes", "svc"), DL("hpa", "scales", "dep"), DL("dep", "mounts", "cm"),
     DL("p1", "mounts", "cm"), DL("p2", "mounts", "cx")}
MCPlaces == {[view |-> "cluster", of |-> ""], [view |-> "app", of |-> "n"], [view |-> "focus", of |-> "p"]}

VARIABLE which
mcVars == <<which, overVars, costVars, metricVars, reportVars,
            evidenceVars, planVars, triageVars, helmVars, assistVars,
            cloudVars, topoVars>>

MCInit ==
  /\ which \in {"overview", "costs", "cards", "forms", "reports",
               "evidence", "plan", "triage", "helm", "chat", "agents",
               "sign-in", "discovery", "connect", "graph", "drawing",
               "page"}
  /\ IF which = "overview" THEN TRUE ELSE overview = [c |-> "c1", data |-> NoData, fresh |-> FRESH_DASHBOARD, seq |-> 0, loading |-> TRUE, filter |-> "all"]
  /\ IF which = "costs" THEN TRUE ELSE boardStreams = {[n |-> 1, c |-> "c1", acc |-> NoParts, failed |-> FALSE]}
  /\ OverviewInit /\ CostInit
  /\ CardsInit /\ FormsInit /\ metricClicks = 0
  /\ RightsizingInit /\ EvidenceInit
  /\ IF which = "plan" THEN TRUE ELSE planKind = "Deployment" /\ vpa = {} /\ MCNoAdvice
  /\ PlanInit /\ TriageInit
  /\ IF which = "helm" THEN TRUE ELSE installedRev = [r \in Releases |-> 1]
  /\ HelmInit
  /\ IF which = "chat" THEN TRUE ELSE kept = [i \in ChatIds |-> NoCopy]
  /\ IF which = "agents" THEN TRUE ELSE installed = {} /\ serverOn = TRUE
  /\ ChatInit /\ SetupInit
  /\ IF which = "discovery" THEN TRUE ELSE storedFound = {}
  /\ IF which = "connect" THEN TRUE ELSE signedPortals = {}
  /\ SignInInit /\ DiscoverInit /\ ConnectInit /\ cloudClicks = 0
  /\ IF which = "drawing" THEN TRUE ELSE there = {}
  /\ IF which = "page" THEN TRUE ELSE hist = [past |-> <<>>, present |-> [view |-> "cluster", of |-> ""], future |-> <<>>]
  /\ GraphInit /\ DrawInit /\ PageInit /\ topoClicks = 0
  /\ (which = "drawing" => there = {"dep"} \/ {"dep", "p1"} \subseteq there)

DashboardsSteps ==
  \/ which = "overview" /\ OverviewNext /\ UNCHANGED costVars
  \/ which = "costs" /\ CostNext /\ UNCHANGED overVars

MetricsSteps ==
  \/ which = "cards" /\ CardsNext
  \/ which = "forms" /\ FormsNext

RightsizingReportsSteps ==
  \/ which = "reports" /\ RightsizingNext /\ UNCHANGED evidenceVars
  \/ which = "evidence" /\ EvidenceNext /\ UNCHANGED reportVars

RightsizingPlanSteps ==
  \/ which = "plan" /\ PlanNext /\ UNCHANGED triageVars
  \/ which = "triage" /\ TriageNext /\ UNCHANGED planVars

HelmStreamSteps ==
  which = "helm" /\ HelmNext

AssistantSteps ==
  \/ which = "chat" /\ ChatNext
  \/ which = "agents" /\ AgentsNext

CloudAccessSteps ==
  \/ which = "sign-in" /\ SignInNext /\ UNCHANGED <<discoverVars, connectVars>>
  \/ which = "discovery" /\ DiscoverNext /\ UNCHANGED connectVars
  \/ which = "connect" /\ ConnectNext /\ UNCHANGED <<signVars, discoverVars>>

TopologySteps ==
  \/ which = "graph" /\ GraphNext /\ UNCHANGED <<drawVars, pageVars>>
  \/ which = "drawing" /\ DrawNext /\ UNCHANGED <<graphVars, pageVars>>
  \/ which = "page" /\ PageNext /\ UNCHANGED <<graphVars, drawVars, topoClicks>>

MCNext ==
  /\ UNCHANGED which
  /\ \/ DashboardsSteps /\ UNCHANGED <<metricVars, reportVars,
          evidenceVars, planVars, triageVars, helmVars, assistVars,
          cloudVars, topoVars>>
     \/ MetricsSteps /\ UNCHANGED <<overVars, costVars, reportVars,
          evidenceVars, planVars, triageVars, helmVars, assistVars,
          cloudVars, topoVars>>
     \/ RightsizingReportsSteps /\ UNCHANGED <<overVars, costVars,
          metricVars, planVars, triageVars, helmVars, assistVars,
          cloudVars, topoVars>>
     \/ RightsizingPlanSteps /\ UNCHANGED <<overVars, costVars,
          metricVars, reportVars, evidenceVars, helmVars, assistVars,
          cloudVars, topoVars>>
     \/ HelmStreamSteps /\ UNCHANGED <<overVars, costVars, metricVars,
          reportVars, evidenceVars, planVars, triageVars, assistVars,
          cloudVars, topoVars>>
     \/ AssistantSteps /\ UNCHANGED <<overVars, costVars, metricVars,
          reportVars, evidenceVars, planVars, triageVars, helmVars,
          cloudVars, topoVars>>
     \/ CloudAccessSteps /\ UNCHANGED <<overVars, costVars,
          metricVars, reportVars, evidenceVars, planVars, triageVars,
          helmVars, assistVars, topoVars>>
     \/ TopologySteps /\ UNCHANGED <<overVars, costVars, metricVars,
          reportVars, evidenceVars, planVars, triageVars, helmVars,
          assistVars, cloudVars>>

MCSpec == MCInit /\ [][MCNext]_mcVars
=============================================================================
