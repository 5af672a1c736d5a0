SPECIFICATION MCSpec
CONSTANTS
    w1 = w1
    w2 = w2
    c1 = c1
    c2 = c2
    c3 = c3
    m1 = m1
    m2 = m2
    Pods = {web}
    Conditions <- MCConditions
    DedupWindow = 2
    ClockStep = 2
    MaxClockSteps = 1
    MaxOutages = 1
    MaxRestarts = 1
    Writers = {w1, w2}
    MaxRecords = 4
    MaxRotations = 1
    MaxRefused = 1
    MaxTorn = 1
    MaxOpenFails = 1
    Callers = {c1, c2}
    Namespaces = {"desk"}
    ConfigFiles <- MCConfigFiles
    Actions = {"delete", "replace"}
    MutatingActions = {"delete"}
    MaxLoads = 2
    NoConfig = NoConfig
    Askers = {c1, c2, c3}
    ModelOf <- MCModelOf
    Subjects = {finding1, finding2}
    TTL = 1
    MaxRetries = 1
    NoRow = NoRow
    Looks <- MCLooks
    Uids = {e1}
    Deadline = 4
    FastUntil = 2
    MidUntil = 3
    Fast = 1
    Mid = 2
    Slow = 3
    RecentWindow = 1
    MaxRestartsSeen = 2
    MaxWarnings = 2
    MaxApiFaults = 1
    JobNames = {job1}
    CronUids = {cron1, cron2}
    MaxJobs = 1
    MaxRounds = 1
    NoJob = NoJob
CHECK_DEADLOCK FALSE
INVARIANTS
    SilenceBounded
    RecordsKept
    GateFirst
    AskedOnce
    HealedJustified
    DeletesJustified
PROPERTIES
    RuntimeReports
    EveryCallEnds
    VerdictReached
