SPECIFICATION MCSpec
CONSTANTS
    MaxSpawns = 4
    MaxRestarts = 2
    MaxWindows = 2
    MaxChecks = 3
    Calls = {1, 2}
    MaxWrites = 1
    MaxSecrets = 2
    LongCalls = {1, 2, 3}
    Slots = 2
    p1 = p1
    p2 = p2
    SavedClusters = {p1, p2}
    DockIds = {1, 2}
    NoSnapshot = NoSnapshot
    MaxEdits = 3
    MaxLaunches = 2
    n1 = n1
    n2 = n2
    overview = overview
    pods = pods
    NavClusters = {n1, n2}
    NavPages = {overview, pods}
    Overview = overview
    NoPlace = NoPlace
    MaxMoves = 4
    MaxEntries = 3
    s1 = s1
    s2 = s2
    SideClusters = {s1, s2}
    Predefined = {"workloads"}
    Listed = {"argocd"}
    NoCount = NoCount
    MaxSideClicks = 2
    MaxCount = 1
    d1 = d1
    d2 = d2
    pod1 = pod1
    pod2 = pod2
    DetClusters = {d1, d2}
    Objects = {pod1, pod2}
    NoItem = NoItem
    Doomed <- MCDoomed
    Saved <- MCSaved
    MaxClicks = 2
    MaxRequests = 1
    KeyComponents = {"layout", "list"}
    Replaceable = {"list"}
    Tried <- MCTried
    NewKeys <- MCNewKeys
    TreeRoots <- MCTreeRoots
    TreeKids <- MCTreeKids
    ListOf <- MCListOf
    PageLines = 2
    MaxKeySteps = 2
    MaxFocusSteps = 6
    TourScreens <- MCTourScreens
    Themes = {"ta", "tb"}
    Gives <- MCGives
    ThemeType <- MCThemeType
    HasTokens = {}
    UserDataDir = "kanivet"
    CleanKeys <- MCCleanKeys
    MaxPrefSteps = 2
    MaxTourSteps = 6
INVARIANTS
    ShellIsSound
    CallsAreHonest
    KeyboardServesTheUser
    PreferencesHold
PROPERTIES
    
    NavigationIsInOrder
    TreeIsTrue
    DetailsStayTrue
CHECK_DEADLOCK FALSE
