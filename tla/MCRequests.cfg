\* Two callers of one credential, a list of up to four items that changes twice;
\* up to four rows or keys that change twice; 240 files with 16 environments.
CONSTANTS
    Parts = {"proxy", "browser", "configuration"}
    Callers = {a, b}
    Lister = a
    PerPage = 2
    StartLength = 4
    MaxChanges = 2
    TokenLife = 5
    Minute = 2
    MaxDelay = 1
    None = None
    Drifts <- MCDrifts
    Things = {1, 2, 3, 4}
    Bucket <- MCBucket
    Buckets = 3
    Matching = {1, 2, 4}
    RawLimits = {Junk, 0, 2, 9}
    Junk = Junk
    MaxLimit = 3
    MaxOffset = 3
    MaxEdits = 2
    Files <- MCFiles
    Environments <- MCEnvironments
    Stored = {"", "pat4"}
    KeyFiles = {"key1", "key2", "key3"}
    NoText = ""
    Unset = Unset
    Unparsable = Unparsable
SPECIFICATION MCSpec
INVARIANTS
    ListsWhatStayed
    RowsPagedOnce
    KeysLostOnlyByCut
    ClaimsAccepted
    PoolHoldsWhatWasConfigured
PROPERTIES
    TokensOutliveRequests
    ReplacesOnlyStale
