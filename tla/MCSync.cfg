SPECIFICATION MCSpec
CONSTANTS
    pod1 = pod1
    pod2 = pod2
    Keys = {pod1, pod2}
    Pinned = {pod1}
    FirstPageSize = 1
    MaxIncomplete = 1
    MaxChanges = 2
    MaxLag = 2
    MaxLosses = 1
    MaxFails = 1
    items = items
    dashboard = dashboard
    logs = logs
    WsTopics = {items}
    Streams = {dashboard}
    Logs = {logs}
    OutboxLimit = 3
    MaxRetries = 1
    MaxWaiting = 1
    MaxSockets = 3
    MaxCalls = 2
    MaxRejects = 1
    c1 = c1
    c2 = c2
    pods = pods
    nodes = nodes
    Page = Page
    Clusters = {c1, c2}
    Resources = {pods, nodes}
    First = c1
    MaxParked = 1
    MaxRowChanges = 1
    MaxFaults = 1
    MaxUser = 3
INVARIANTS
    ListsStayLive
PROPERTIES
    RowsAreCurrent
    ConnectionServesItsTopics
CHECK_DEADLOCK FALSE
