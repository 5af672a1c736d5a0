SPECIFICATION FairSpec
CONSTANTS
    NoFix = NoFix
    web = web
    bot = bot
    Runs = {r1, r2}
    Fixes <- MCFixes
    Trading <- MCBot
    PrOnly <- MCBot
    Deterministic <- MCFixes
    Allowed <- MCFixes
    Assigned <- MCBot
    SandboxConcurrency = 1
    MaxSandboxFaults = 0
    MaxPrFaults = 0
    MaxCrashes = 0
CHECK_DEADLOCK FALSE
PROPERTIES
    RedNeverMerges
