\* A boot, two changes of config.json, one exception of awatch, a shutdown.
CONSTANTS
    Listen = {"l1", "l2"}
    Rest = {"r1", "r2"}
    Invalid = Invalid
    BootContent <- MCBootContent
    MaxChanges = 2
    MaxFailures = 1
    MaxRequests = 1
SPECIFICATION Spec
INVARIANTS TypeOK NothingOutlivesTheClients
PROPERTIES ImplementsBroadcast ShutdownEnds ChangesTakeEffect
CHECK_DEADLOCK FALSE
