\* Reloads of the endpoint and of the lifetime while requests and fetches run.
CONSTANTS
    Kid = {k1}
    MaxVersion = 2
    Url = {u1, u2}
    Ttls = {2}
    Request = {r1, r2}
    None = None
    Attempts = 2
    MinInterval = 1
    BootTime = 2
    MaxNow = 3
    MaxRotations = 0
    MaxReloads = 1
SPECIFICATION FairSpec
PROPERTIES EveryRequestEnds InstalledFromCurrentUrl
CHECK_DEADLOCK FALSE
