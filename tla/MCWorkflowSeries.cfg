\* Three repositories, two with a run each, conclusions that change three times.
CONSTANTS
    Repositories <- MCRepositories
    Runs = {"run1", "run2"}
    RepoOf <- MCRepoOf
    FetchAnnotations = TRUE
    MaxAnnotations = 2
    MaxChanges = 3
SPECIFICATION Spec
INVARIANTS
    TypeOK
    NoOrphanSeries
    ListsOfThisCycle
    OneConclusion
    CountedOnce
