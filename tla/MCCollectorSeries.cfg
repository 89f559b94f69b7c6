\* A single prompt pod, no disruption: no workflow series outlives its cycle.
CONSTANTS
    Pods = {p1}
    NoPod = NoPod
    Repositories <- MCTwoRepos
    Malformed = {}
    WithRuns = {"org/a"}
    Interval = 3
    MaxBusy = 1
    Prompt = TRUE
    MaxDisruptions = 0
    MaxWait = 0
SPECIFICATION Spec
PROPERTY SeriesOutliveCycle
