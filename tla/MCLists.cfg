SPECIFICATION MCSpec
CONSTANTS
    ListRows <- MCListRows
    ListQueries = {{}, {"x"}, {"x", "y"}}
    SortColumns = {"name", "age"}
    CacheMax = 2
    PickTabs = {"t1", "t2"}
    PickNodes = {"pods", "nodes"}
    PickNames <- MCPickNames
    ActPlaces <- MCActPlaces
    ActNames = {"a", "b"}
    MaxListSteps = 4
    MaxBulks = 2
    MaxEditSteps = 3
    MaxTheirs = 1
    MaxReleaseSteps = 2
    Objects = {"p", "q", "d"}
    Owner <- MCOwner
    MaxObjectSteps = 3
    PanelTabs <- MCPanelTabs
    MaxPanelSteps = 3
    Sockets = {1, 2}
    Words <- MCWords
    PodContainers <- MCPodContainers
    Shells = {1, 2}
    MaxTermSteps = 2
    MaxDrops = 1
    MaxPanes = 3
    LogPods = {"p", "q"}
    LogLevels = {"error"}
    MaxLines = 2
    TrimTo = 1
    MaxBatches = 2
    MaxStreams = 2
    MaxLogSteps = 1
    PalClusters = {"c1", "c2"}
    PalKinds = {"k1", "k2"}
    Terms = {"", "x"}
    SearchAnswers <- MCSearchAnswers
    MaxKeys = 4
    MaxSearches = 2
    WorkClusters = {"c1", "c2"}
    ListKinds = {"r"}
    MaxPaneId = 4
    MaxPaneTabs = 2
    MaxWorkSteps = 4
    Apps = {"a", "b"}
    AppHealth <- MCAppHealth
    AppViews = {"c1", "c2"}
    Histories = {1}
    MaxArgoSteps = 3
    MaxArgoLoads = 2
    MaxArgoRuns = 4
    Questions = {1, 2}
    MaxPageSteps = 3
    PickClusters <- MCPickClusters
    GroupIds = {1, 2}
    OpenClusters = {"b"}
    Matching <- MCMatching
    MaxPickerSteps = 1
    MaxFindSteps = 4
INVARIANTS
    
    
    SessionsAreTheirs
    WorkbenchIsWhole
    
    PickerTellsTheTruth
PROPERTIES
    NewestSearchShown
    GitOpsIsTrue
CHECK_DEADLOCK FALSE
