SPECIFICATION Spec
CONSTANTS
    Sessions = {s1, s2}
    Tasks = {t1}
    web = web
    pod = pod
    bot = bot
    webNs = webNs
    botNs = botNs
    NoSession = NoSession
    NoResource = NoResource
    Resources <- MCResources
    Namespaces <- MCNamespaces
    NsOf <- MCNsOf
    KindOf <- MCKindOf
    TradingNamespaces <- MCTrading
    NamespaceLadderCap = 1
    MaxCyclesPerHour = 2
    WatchPolls = 2
    PodStatuses <- MCPodStatuses
    CrashThreshold = 5
    MaxFaults = 1
    FaultPoints = {"restart", "watch", "apply"}
    AwareTimestamps = TRUE
CHECK_DEADLOCK FALSE
SYMMETRY SessionSymmetry
INVARIANTS
    OnlyAllowedMutations
    RestartsAccounted
    BreakerExact
