\* A refresh and proxied requests in flight: agents and clients converge.
CONSTANTS
    Segment = {"a", "b", "", "*"}
    Empty = ""
    Star = "*"
    x = x
    Agent = {y}
    Target = {"y.sock", "host:2"}
    CpName = {"cp"}
    None = None
    Configs <- MCOnOff
    Declared <- MCDeclared
    SockAddress <- MCSock
    HttpAddress <- MCHttp
    Refreshers = {r1}
    MaxChanges = 1
    MaxReloads = 1
    MaxScanErrors = 0
    MaxHeld = 1
SPECIFICATION FairSpec
PROPERTY Converges
CHECK_DEADLOCK FALSE
