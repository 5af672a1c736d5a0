SPECIFICATION MCSpec
CONSTANTS
    p1 = p1
    p2 = p2
    a1 = a1
    a2 = a2
    NoAgent = NoAgent
    NoTask = NoTask
    Procs <- MCProcs
    Agents <- MCAgents
    ProcOf <- MCProcOf
    Seeders <- MCProcs
    Payload <- Sorted
    MaxSeeds = 2
    MaxCrashes = 1
    MayFail = TRUE
    Threads = {t1, t2, t3}
    MaxIterations = 5
    ExtraIterations = 2
    MaxDeaths = 1
    Runners = {a1, a2}
    Stories = {1, 2}
    Priority <- MCPriority
    MaxFails = 2
    MaxReruns = 1
    MaxKills = 1
    NoStory = NoStory
    NoRunner = NoRunner
CHECK_DEADLOCK FALSE
INVARIANTS
    OneRowPerTask
    ExclusiveJobs
    TeamOrder
    EscalationNotLost
    OneHolder
    LossesAccounted
PROPERTIES
    ClaimIsFinal
    EscalationFollows
    TeamDrains
    RunnersFinish
