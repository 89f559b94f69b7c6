\* Three credentials, the health loop as the only caller.
CONSTANTS
    N = 3
    Callers = {health}
    Threshold = 2
    Limit = 3
    MaxChanges = 6
SPECIFICATION FairSpec
INVARIANTS
    TypeOK
    InactiveAreLow
PROPERTIES
    AsksAllBeforeSettling
    SettlesOnHighest
    ComesToRestOnUsable
