SPECIFICATION Spec
CONSTANTS
    Peers = {here, away}
    Loopback = {here}
    Requests = {r1, r2}
    a = a
    Passwords = {a, b}
    NULL = NULL
    KdfSlots = 1
    MaxPeers = 1
    Limit = 2
    Window = 2
    Block = 2
    Scenarios <- MCScenarios
INVARIANTS LanHasPassword AdmitsOnlyAdmins ThrottleHolds
PROPERTIES ChangesAreVerified NobodyLockedOut
CHECK_DEADLOCK FALSE
