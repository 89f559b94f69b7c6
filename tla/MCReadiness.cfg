\* A process with the collector, one request at a time, two flips of a service.
CONSTANTS
    Base <- MCBase
    Collector = "github_collector"
    Flaky = {"cache", "github_collector"}
    MaxFlips = 2
    Requests = {r1}
SPECIFICATION FairSpec
INVARIANTS
    TypeOK
    NoRequestOnClosedConnection
PROPERTIES
    ClosedDespiteErrors
    LastingOutageIsReported
    RecoveryIsReported
    SignalEndsProcess
CHECK_DEADLOCK FALSE
