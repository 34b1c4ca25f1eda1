SPECIFICATION Spec
CONSTANTS
    Clusters = {"east", "west"}
    Services = {1, 2, 3, 4}
    ClusterOf <- MCClusterOf
    BatchSize = 2
    Loads = {1, 2}
    NoLoad = NoLoad
    NoData = NoData
    TTL = 2
    Slow = 2
    LoadPlans <- MCLoadPlans
    Requests = {1, 2}
    Hosts = {"home"}
    MaxPort = 2
    NaN = NaN
    NoValue = NoValue
    Tries = 2
    Deliveries = 1
    Workloads <- MCExecPlans
INVARIANTS
    LoaderTypeOK
    CompletionIsLast
    NoServiceLost
    RecentAnswers
    ExecTypeOK
    OpensForCaller
PROPERTIES
    LoadsEnd
    GroupAsConfigured
    SuccessMeansDone
    EventsEnd
