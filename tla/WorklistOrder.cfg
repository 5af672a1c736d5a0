SPECIFICATION AgentSpec
CONSTANTS
    p1 = p1
    p2 = p2
    a1 = a1
    a2 = a2
    NoAgent = NoAgent
    NoTask = NoTask
    Procs <- MCProcs
    Agents <- MCTwoAgents
    ProcOf <- MCProcOf
    Seeders <- MCOneSeeder
    Payload <- Canonical
    MaxSeeds = 1
    MaxCrashes = 0
    MayFail = FALSE
CHECK_DEADLOCK FALSE
INVARIANTS
    DependencyOrder
