\* Prompt pods: how long a repository waits, what must happen in the end.
CONSTANTS
    Pods = {p1, p2}
    NoPod = NoPod
    Repositories <- MCTwoRepos
    Malformed = {}
    WithRuns = {}
    Interval = 2
    MaxBusy = 1
    Prompt = TRUE
    MaxDisruptions = 1
    MaxWait = 10
SPECIFICATION FairSpec
INVARIANT NeverStarved
PROPERTIES
    CollectedForever
    CloseStopsLoop
