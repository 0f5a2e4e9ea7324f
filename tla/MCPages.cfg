SPECIFICATION MCSpec
CONSTANTS
    DashClusters = {"c1", "c2"}
    DashSections = {"resourceCounts", "podStatus", "events"}
    MaxUpdates = 2
    MaxMounts = 2
    HELD_MAX = 1
    PRICING_POLL_LIMIT = 1
    CostNamespaces <- MCCostNamespaces
    MaxStreamed = 2
    MaxCostSteps = 2
    Detections <- MCDetections
    Preferences = {"auto", "mimir", "disabled"}
    ChartTargets = {"a", "b"}
    ChartMetrics = {"cpu", "mem"}
    WorkloadPods = {1, 2}
    MaxPodsDisplayed = 1
    Tenants = {"t", "u"}
    MaxMetricSteps = 2
    MaxFormSteps = 4
    MaxDetects = 2
    k1 = k1
    k2 = k2
    dash = dash
    card = card
    s1 = s1
    s2 = s2
    s3 = s3
    ReportKeys = {k1, k2}
    ReportViews = {dash, card}
    ReportOutcomes <- MCReportOutcomes
    HeldMax = 1
    MaxReportLoads = 2
    MaxReports = 2
    MaxReportSteps = 3
    Sheets = {s1, s2, s3}
    MaxFlights = 2
    PlanContainers = {"app"}
    Injected = {}
    PlanAmounts = {0, 2, 3}
    PlanKinds = {"Deployment", "Rollout"}
    GridMax = 3
    TriageRows <- MCTriageRows
    RowsPerGroup = 1
    MaxTriageSteps = 3
    ra = ra
    Releases = {ra}
    MaxHelmEvents = 1
    MaxHelmStreams = 2
    MaxHelmFaults = 1
    MaxHelmClicks = 2
    x1 = x1
    x2 = x2
    ChatIds = {x1, x2}
    Repos = {"r1", "r2"}
    DirtyRepos = {"r1"}
    MaxAskSteps = 2
    MaxAgentTurns = 1
    AiClients = {"x", "y"}
    MaxSetupSteps = 2
    SsoPortals = {"p1", "p2"}
    CliProviders = {"gcp"}
    AwsProfiles = {"dev"}
    MaxAuthLoads = 2
    SsoSource = "sso"
    ProfileSource = "prof"
    ProjectSource = "proj"
    CloudClusters = {"a", "b"}
    MaxRuns = 2
    RolesOf <- MCRolesOf
    MaxCloudSteps = 2
    Things = {"f", "a", "b", "i"}
    Links = {{"f", "a"}, {"f", "b"}, {"a", "b"}, {"a", "i"}}
    IdleThings = {"i"}
    FocusThing = "f"
    MaxWorldChanges = 1
    MaxTopoRequests = 3
    MaxTopoClicks = 2
    DrawSeq <- MCDrawSeq
    DrawLinks <- MCDrawLinks
    MaxSats = 2
    Places <- MCPlaces
    GoTerms = {"", "x", "y"}
    MaxPageMoves = 4
INVARIANTS
    DashboardsAreLive
    
    
    
    TopologyIsTrue
PROPERTIES
    MetricsAreTrue
    RightsizingIsCurrent
    RightsizingIsSound
CHECK_DEADLOCK FALSE
