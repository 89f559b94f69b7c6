\* A request and the health loop write the overall gauge.
CONSTANTS
    Base <- MCBase
    Collector = "github_collector"
    Flaky = {"cache", "github_collector"}
    MaxFlips = 1
    Requests = {r1}
SPECIFICATION Spec
INVARIANT GaugeReflectsAggregate
CHECK_DEADLOCK FALSE
