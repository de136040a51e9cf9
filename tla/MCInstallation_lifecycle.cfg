SPECIFICATION Spec
CONSTANTS
    b1 = b1  k1 = k1  k2 = k2  in1 = in1  in2 = in2  un1 = un1
    rc1 = rc1  dc1 = dc1  sy1 = sy1  ev1 = ev1
    c1 = c1  c2 = c2  l1 = l1
    None = None  User = User
    Platforms = {p1}
    Supported = {p1}
    OpOf <- MCOpOf
    CodeLocation <- MCCodeLocation
    Clients = {c1}
    Ids = {i1, i2}
    States = {s1}
    Codes = {a1, a2}
    Locations = {l1}
    SingleUseCodes = FALSE
    Requests = {b1, k1, k2, in1, un1, rc1, dc1, sy1, ev1}
SYMMETRY Symmetry
CONSTRAINT OneScenario
INVARIANT TypeOK
INVARIANT StateRedeemedOnce
INVARIANT ActiveHasToken
INVARIANT OneInstallationPerIntegration
PROPERTY RevokedStaysRevoked
PROPERTY KeyNeverBlanked
