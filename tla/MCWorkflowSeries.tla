--------------------------- MODULE MCWorkflowSeries ---------------------------
(* Instances of WorkflowSeries for TLC. *)
EXTENDS WorkflowSeries

\* The third repository has no runs.
MCRepositories == <<"org/a", "org/b", "org/c">>
MCRepoOf == [run \in Runs |-> IF run = "run1" THEN "org/a" ELSE "org/b"]
=============================================================================
