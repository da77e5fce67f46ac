\* Two requests and the background refresh, a rotation and a reload of the
\* endpoint; from the moment the host boots until the keys fetched then are too old.
CONSTANTS
    Kid = {k1}
    MaxVersion = 2
    Url = {u1, u2}
    Ttls = {1}
    Request = {r1, r2}
    None = None
    Attempts = 2
    MinInterval = 1
    BootTime = 0
    MaxNow = 2
    MaxRotations = 1
    MaxReloads = 1
SPECIFICATION Spec
INVARIANTS TypeOK KeyInUseIsCurrent NoFetchDiscarded
PROPERTY ServedKeyIsAccepted
SYMMETRY Symmetry
CHECK_DEADLOCK FALSE
