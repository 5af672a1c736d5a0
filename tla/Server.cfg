SPECIFICATION MCSpec
CONSTANTS
    Servers = {s1, s2}
    Issues = {1, 2}
    Pulls = {2}
    PageSize = 1
    MaxUpdates = 1
    MaxFaults = 1
    NoIssueRow = NoIssueRow
    Objects <- MCObjects
    NoSubject = NoSubject
    Never = Never
    Reports <- MCReports
    Absent = Absent
    TaskIds = {1, 2, 3, 4}
CHECK_DEADLOCK FALSE
INVARIANTS
    FindingsGrounded
    FixesSound
    SortCorrect
PROPERTIES
    EventuallySynced
