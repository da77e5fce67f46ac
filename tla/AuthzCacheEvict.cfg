\* The answer to a check whose key finds the cache full.
CONSTANTS
    Key = {k1, k2, k3}
    Server = {s1}
    Request = {r1, r2}
    None = None
    MaxSize = 2
    EvictBatch = 2
    AllowTtl = 2
    DenyTtl = 1
    Timeout = 1
    Phases = 1
    MaxNow = 2
    MaxChanges = 0
SPECIFICATION Spec
INVARIANT AnswersAreDelivered
SYMMETRY Symmetry
