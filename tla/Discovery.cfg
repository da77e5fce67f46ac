\* The four reconcilers and a refresh, which does not take their lock: one change of
\* the directory, one reload, one failing scan.
CONSTANTS
    Segment = {"a", "b", "", "*"}
    Empty = ""
    Star = "*"
    x = x
    Agent = {x, y}
    Target = {"x.sock", "y.sock", "host:1", "host:2", "url"}
    CpName = {"cp"}
    None = None
    Configs <- MCConfigs
    Declared <- MCDeclared
    SockAddress <- MCSock
    HttpAddress <- MCHttp
    Refreshers = {r1}
    MaxChanges = 1
    MaxReloads = 1
    MaxScanErrors = 1
    MaxHeld = 0
SPECIFICATION Spec
INVARIANTS TypeOK LockDiscipline RoutesMatchAgents OnlyRefreshesRevive
PROPERTIES NewestAnswerStays ImplementsOwnership
CHECK_DEADLOCK FALSE
