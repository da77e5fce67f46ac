\* One request that reads its body while its client is closed.
CONSTANTS
    ag = ag cp1 = cp1 cp2 = cp2 u1 = u1 u2 = u2 ub = ub z1 = z1 z2 = z2 sockA = sockA
    n1 = n1 n2 = n2 i1 = i1 i2 = i2 good = good bad = bad
    segA = segA segC = segC segD = segD segZ = segZ
    Segment = {segA, segC, segD, segZ, Empty, Star}
    Empty = Empty
    Star = Star
    Agent = {ag}
    Target = {u1, u2, ub, z1, z2, sockA}
    Malformed = {ub}
    CpName = {cp1, cp2}
    None = None
    NodeToken = {n1, n2}
    Issuer = {i1, i2}
    UserToken = {good, bad}
    Genuine = {good}
    Request = {r1}
    MaxReloads = 1
    MaxUpdates = 1
    Configs <- MCConfigs
    BootConfigs <- MCBootConfigs
    Declarations <- MCDeclarations
    Endpoints <- MCEndpoints
    Paths <- MCPaths
    IssuedBy <- MCIssuedBy
    Inbound <- MCInbound
SPECIFICATION Spec
INVARIANTS StatusIsDocumented
CHECK_DEADLOCK FALSE
