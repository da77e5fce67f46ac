\* Three keys compete for two places: lifetimes, a change of a decision or of the
\* configured server, and answers that overtake each other.
CONSTANTS
    Key = {k1, k2, k3}
    Server = {s1}
    Request = {r1, r2}
    None = None
    MaxSize = 2
    EvictBatch = 2
    AllowTtl = 2
    DenyTtl = 1
    Timeout = 1
    Phases = 2
    MaxNow = 3
    MaxChanges = 1
SPECIFICATION Spec
INVARIANTS TypeOK CacheBounded
PROPERTY AnswersAreRecent
SYMMETRY Symmetry
