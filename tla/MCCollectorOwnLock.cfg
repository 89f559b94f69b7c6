\* A single prompt pod, no disruption: it still skips repositories.
CONSTANTS
    Pods = {p1}
    NoPod = NoPod
    Repositories <- MCTwoRepos
    Malformed = {}
    WithRuns = {}
    Interval = 3
    MaxBusy = 1
    Prompt = TRUE
    MaxDisruptions = 0
    MaxWait = 0
SPECIFICATION Spec
PROPERTY SkipsOnlyForOthers
