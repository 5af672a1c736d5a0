SPECIFICATION FairSpec
CONSTANTS
    NoFix = NoFix
    web = web
    bot = bot
    Runs = {r1, r2}
    Fixes <- MCFixes
    Trading <- MCBot
    PrOnly <- MCBot
    Deterministic <- MCFixes
    Allowed <- MCFixes
    Assigned <- MCBot
    SandboxConcurrency = 1
    MaxSandboxFaults = 1
    MaxPrFaults = 1
    MaxCrashes = 1
CHECK_DEADLOCK FALSE
INVARIANTS
    AutoMergeGate
    OneOpenPr
    TornDown
PROPERTIES
    RerunNeverEscalates
    EveryRunEnds
