\* Two pods, collections that may outlast the interval, any three disruptions.
CONSTANTS
    Pods = {p1, p2}
    NoPod = NoPod
    Repositories <- MCWithMalformed
    Malformed = {"noslash"}
    WithRuns = {"org/a"}
    Interval = 2
    MaxBusy = 3
    Prompt = FALSE
    MaxDisruptions = 3
    MaxWait = 0
SPECIFICATION Spec
SYMMETRY PodSymmetry
INVARIANTS
    TypeOK
    LeaseExclusive
    LeaseBacked
    GrantBacked
    MalformedIsReported
PROPERTY GrantsAreSpaced
