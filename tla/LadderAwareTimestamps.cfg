SPECIFICATION FairLoopSpec
CONSTANTS
    Sessions = {s1}
    Tasks = {t1}
    web = web
    pod = pod
    bot = bot
    webNs = webNs
    botNs = botNs
    NoSession = NoSession
    NoResource = NoResource
    Resources <- MCResources
    Namespaces <- MCNamespaces
    NsOf <- MCNsOf
    KindOf <- MCKindOf
    TradingNamespaces <- MCTrading
    NamespaceLadderCap = 2
    MaxCyclesPerHour = 2
    WatchPolls = 3
    PodStatuses <- MCPodStatuses
    CrashThreshold = 5
    MaxFaults = 0
    FaultPoints = {}
    AwareTimestamps = TRUE
CHECK_DEADLOCK FALSE
PROPERTIES
    WatchDecides
