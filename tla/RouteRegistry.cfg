\* Two agents, four prefixes that nest, three configurations.
CONSTANTS
    Segment = {"a", "b", "", "*"}
    Empty = ""
    Star = "*"
    Agent = {x, y}
    Target = {"addr"}
    CpName = {"cp"}
    None = None
    Configs <- MCConfigs
    Paths <- MCPaths
    Declarations <- MCDeclarations
SPECIFICATION Spec
INVARIANTS TypeOK LongestPrefixWins ReservedListsMatch
PROPERTY ImplementsOwnership
CHECK_DEADLOCK FALSE
