SPECIFICATION FairLoopSpec
CONSTANTS
    Sessions = {s1, s2}
    Tasks = {t1, t2}
    web = web
    pod = pod
    bot = bot
    webNs = webNs
    botNs = botNs
    NoSession = NoSession
    NoResource = NoResource
    Resources <- MCResources
    Namespaces <- MCNamespaces
    NsOf <- MCNsOf
    KindOf <- MCKindOf
    TradingNamespaces <- MCTrading
    NamespaceLadderCap = 2
    MaxCyclesPerHour = 2
    WatchPolls = 3
    PodStatuses <- MCPodStatuses
    CrashThreshold = 5
    MaxFaults = 1
    FaultPoints = {"restart", "watch"}
    AwareTimestamps = TRUE
CHECK_DEADLOCK FALSE
INVARIANTS
    OneWatcher
    RestartFirst
PROPERTIES
    ImplementsContract
    LadderSettles
