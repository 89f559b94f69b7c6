\* Two commands at once on Linux or macOS, one slow_down per flow.
CONSTANTS
    Procs = {p1, p2}
    Accounts = {a1, a2}
    Backends = {"file", "keychain"}
    Intervals = {0, 2}
    ExpiresIn = 7
    Horizon = 13
    MaxDelay = 1
    MaxSlowDowns = 1
    MaxFlows = 1
SPECIFICATION Spec
SYMMETRY LoginSymmetry
INVARIANTS
    TypeOK
    PollsFarEnoughApart
    UsesOnlyVerified
    FlowIsBounded
PROPERTY InTimeIsEnough
