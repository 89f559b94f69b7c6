\* A login on Windows, where Set and Get use different stores.
CONSTANTS
    Procs = {p1}
    Accounts = {a1, a2}
    Backends = {"windows"}
    Intervals = {0, 2}
    ExpiresIn = 7
    Horizon = 13
    MaxDelay = 1
    MaxSlowDowns = 1
    MaxFlows = 1
SPECIFICATION Spec
INVARIANT LoginIsRemembered
