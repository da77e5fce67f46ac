\* One scan of the directory fails after start.
CONSTANTS
    Segment = {"a", "b", "", "*"}
    Empty = ""
    Star = "*"
    x = x
    Agent = {x}
    Target = {"x.sock", "y.sock", "host:1", "host:2", "url"}
    CpName = {"cp"}
    None = None
    Configs <- MCOff
    Declared <- MCDeclared
    SockAddress <- MCSock
    HttpAddress <- MCHttp
    Refreshers = {}
    MaxChanges = 1
    MaxReloads = 0
    MaxScanErrors = 1
    MaxHeld = 0
SPECIFICATION FairSpec
PROPERTY SafetyNetHolds
CHECK_DEADLOCK FALSE
