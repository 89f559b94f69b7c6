---------------------------- MODULE WorkflowSeries ----------------------------
(***************************************************************************)
(* The workflow series on /metrics of one pod: collectRepo, collectRun and *)
(* collectAnnotations of internal/services/github_collector.go, and the    *)
(* registry of internal/metrics/github_collector.go that remembers the     *)
(* label sets it emitted and deletes them again.                           *)
(*                                                                         *)
(* GitHub goes on while a cycle runs: the conclusion of a workflow run may *)
(* change between the call that lists the runs and the one that lists the  *)
(* jobs of the run. A run has one job with one step here, and a repository *)
(* one workflow. Locks and failures of other kinds are in Collector.       *)
(***************************************************************************)
EXTENDS Naturals, Sequences

CONSTANTS
    Repositories,      \* cfg.Repositories, without malformed names
    Runs,              \* workflow runs
    RepoOf,            \* the repository of each run
    FetchAnnotations,  \* cfg.FetchAnnotations
    MaxAnnotations,    \* annotations of a job, at most
    MaxChanges         \* how often GitHub changes the conclusion of a run

Repos == {Repositories[i] : i \in DOMAIN Repositories}
Conclusions == {"in_progress", "success", "failure"}
None == "none"         \* the series has no such label

ASSUME ListAssumption == Repositories \in Seq(Repos)
ASSUME RunsAssumption == RepoOf \in [Runs -> Repos] /\ None \notin Runs
\* A repository that is configured twice is collected twice in a cycle only
\* in degraded mode or when the first collection outlasts its lock (Collector
\* lets it): what is shown of a cycle here is not claimed for that case.
ASSUME DistinctAssumption ==
    \A i, j \in DOMAIN Repositories : i # j => Repositories[i] # Repositories[j]
ASSUME BoundsAssumption == MaxAnnotations \in Nat /\ MaxChanges \in Nat

(* Gauge vectors that share their label sets and their list of keys. What  *)
(* is remembered of a list is the set of its keys.                         *)
Tracked   == {"run", "job", "step", "annotation", "info"}
Untracked == {"status", "repo_info"}

Key(r, run, c) == [repo |-> r, run |-> run, conclusion |-> c]
Keys == [repo : Repos, run : Runs \cup {None}, conclusion : Conclusions \cup {None}]

VARIABLES
    \* --- collector goroutine ------------------------------------------------
    pc,          \* "idle", "loop", "repo", "list", "run", "jobs", "step" or "notes"
    at,          \* index of the loop over cfg.Repositories
    collected,   \* the map of the same name in collect
    listed,      \* runs still to be collected: run -> conclusion when listed
    current,     \* the run collectRun is at
    jobSaid,     \* conclusion of its job when the jobs were listed
    \* --- internal/metrics ---------------------------------------------------
    exposed,     \* family of series -> keys that have a series
    tracked,     \* trackedRunKeys, trackedJobKeys, ...: family -> keys emitted
    total,       \* value of the annotation counter of a run's job
    \* --- GitHub -------------------------------------------------------------
    conclusion,  \* conclusion of a run, or its status as long as it has none
    changes      \* how many of MaxChanges have happened

loopVars   == <<pc, at, collected, listed, current, jobSaid>>
metricVars == <<exposed, tracked, total>>
hubVars    == <<conclusion, changes>>
vars       == <<loopVars, metricVars, hubVars>>

TypeOK ==
    /\ pc \in {"idle", "loop", "repo", "list", "run", "jobs", "step", "notes"}
    /\ at \in 1..(Len(Repositories) + 1)
    /\ collected \subseteq Repos
    /\ DOMAIN listed \subseteq Runs
    /\ \A run \in DOMAIN listed : listed[run] \in Conclusions
    /\ current \in Runs \cup {None}
    /\ jobSaid \in Conclusions \cup {None}
    /\ exposed \in [Tracked \cup Untracked -> SUBSET Keys]
    /\ tracked \in [Tracked -> SUBSET Keys]
    /\ total \in [Runs -> Nat]
    /\ conclusion \in [Runs -> Conclusions]
    /\ changes \in 0..MaxChanges

Init ==
    /\ pc = "idle" /\ at = 1 /\ collected = {}
    /\ listed = <<>> /\ current = None /\ jobSaid = None
    /\ exposed = [f \in Tracked \cup Untracked |-> {}]
    /\ tracked = [f \in Tracked |-> {}]
    /\ total = [run \in Runs |-> 0]
    /\ conclusion \in [Runs -> {"in_progress", "failure"}]
    /\ changes = 0

Repo == Repositories[at]
RunKey(c) == Key(Repo, current, c)

-----------------------------------------------------------------------------
(* collect and collectRepo *)

BeginCycle ==
    /\ pc = "idle"
    /\ pc' = "loop" /\ at' = 1 /\ collected' = {}
    /\ UNCHANGED <<listed, current, jobSaid, metricVars, hubVars>>

(* Back in the loop of collect, at the next repository. *)
LeaveRepoTwice ==      \* mutant: off by one
    pc' = "loop" /\ at' = at + 2 /\ UNCHANGED <<listed, current, jobSaid>>
LeaveRepo == /\ pc' = "loop"
             /\ at' = at + 1
             /\ UNCHANGED <<listed, current, jobSaid>>

(* Another instance owns this repository. *)
SkipRepo ==
    /\ pc = "loop" /\ at \in DOMAIN Repositories
    /\ LeaveRepo
    /\ UNCHANGED <<collected, metricVars, hubVars>>

BeginRepo ==
    /\ pc = "loop" /\ at \in DOMAIN Repositories
    /\ pc' = "repo"
    /\ collected' = collected \cup {Repo}
    /\ UNCHANGED <<at, listed, current, jobSaid, metricVars, hubVars>>

(* Repositories.Get or ListRepositoryWorkflowRuns fails. *)
RepoFails ==
    /\ pc \in {"repo", "list"}
    /\ LeaveRepo
    /\ UNCHANGED <<collected, metricVars, hubVars>>

SetRepo ==
    /\ pc = "repo"
    /\ pc' = "list"
    /\ exposed' = [exposed EXCEPT !["repo_info"] = @ \cup {Key(Repo, None, None)}]
    /\ UNCHANGED <<at, collected, listed, current, jobSaid, tracked, total, hubVars>>

(* The most recent runs, with their conclusions as they are now. *)
ListRuns ==
    /\ pc = "list"
    /\ \E recent \in SUBSET {run \in Runs : RepoOf[run] = Repo} :
          listed' = [run \in recent |-> conclusion[run]]
    /\ pc' = "run"
    /\ UNCHANGED <<at, collected, current, jobSaid, metricVars, hubVars>>

RunsDone ==
    /\ pc = "run" /\ DOMAIN listed = {}
    /\ LeaveRepo
    /\ UNCHANGED <<collected, metricVars, hubVars>>

-----------------------------------------------------------------------------
(* collectRun *)

Without(run) == [other \in DOMAIN listed \ {run} |-> listed[other]]

(* RecordWorkflowRun, unless the run has no duration yet. What follows     *)
(* under a lock is one step: no other goroutine writes the registry.       *)
RecordRun(run) ==
    /\ pc = "run" /\ run \in DOMAIN listed
    /\ LET k == Key(Repo, run, listed[run])
       IN \/ /\ exposed' = [exposed EXCEPT
                   !["run"] = @ \cup {k},
                   !["status"] = @ \cup {Key(Repo, None, listed[run])}]
             /\ tracked' = [tracked EXCEPT !["run"] = @ \cup {k}]
          \/ UNCHANGED <<exposed, tracked>>
    /\ current' = run
    /\ listed' = Without(run)
    /\ pc' = "jobs"
    /\ UNCHANGED <<at, collected, jobSaid, total, hubVars>>

Emit(f, k) == /\ exposed' = [exposed EXCEPT ![f] = @ \cup {k}]
              /\ tracked' = [tracked EXCEPT ![f] = @ \cup {k}]

LeaveRun == pc' = "run" /\ current' = None /\ jobSaid' = None

(* ListWorkflowJobs fails, or returns no job. *)
NoJobs ==
    /\ pc = "jobs"
    /\ LeaveRun
    /\ UNCHANGED <<at, collected, listed, metricVars, hubVars>>

(* RecordWorkflowJob, with the conclusion as it is by now. *)
RecordJob ==
    /\ pc = "jobs"
    /\ jobSaid' = conclusion[current]
    /\ Emit("job", RunKey(None))
    /\ pc' = "step"
    /\ UNCHANGED <<at, collected, listed, current, total, hubVars>>

(* RecordWorkflowStep, unless the step has not started. *)
RecordStep ==
    /\ pc = "step"
    /\ Emit("step", RunKey(jobSaid)) \/ UNCHANGED <<exposed, tracked>>
    /\ IF FetchAnnotations /\ jobSaid = "failure"
       THEN pc' = "notes" /\ UNCHANGED <<current, jobSaid>>
       ELSE LeaveRun
    /\ UNCHANGED <<at, collected, listed, total, hubVars>>

(* collectAnnotations: as many annotations as the job has, or none when    *)
(* the call fails. All of them share one level, title and path here.       *)
RecordAnnotations ==
    /\ pc = "notes"
    /\ \E n \in 0..MaxAnnotations :
          LET shown == IF n = 0 THEN {} ELSE {RunKey(None)}
          IN /\ exposed' = [exposed EXCEPT !["annotation"] = @ \cup shown,
                                           !["info"] = @ \cup shown]
             /\ tracked' = [tracked EXCEPT !["annotation"] = @ \cup shown,
                                           !["info"] = @ \cup shown]
             /\ total' = [total EXCEPT ![current] = @ + n]
    /\ LeaveRun
    /\ UNCHANGED <<at, collected, listed, hubVars>>

-----------------------------------------------------------------------------
(* ResetTrackedWorkflowMetricsForRepos *)

Of(keys, repos) == {k \in keys : k.repo \in repos}

ResetFamiliesButSteps == {"run", "job", "annotation", "info"}  \* mutant
ResetFamiliesButNotes == {"run", "job", "step", "info"}        \* mutant
ResetFamilies == Tracked

(* A deleted counter is zero when its label set is used again. *)
Reset(repos) ==
    /\ exposed' = [f \in Tracked \cup Untracked |->
          IF f \in ResetFamilies THEN exposed[f] \ Of(tracked[f], repos)
                                 ELSE exposed[f]]
    /\ tracked' = [f \in Tracked |->
          IF f \in ResetFamilies THEN tracked[f] \ Of(tracked[f], repos)
                                 ELSE tracked[f]]
    /\ total' = [run \in Runs |->
          IF \E k \in exposed'["annotation"] : k.run = run THEN total[run] ELSE 0]

EndCycleForgetting ==    \* mutant: the lists are emptied, the series stay
    /\ pc = "loop" /\ at \notin DOMAIN Repositories
    /\ tracked' = [f \in Tracked |-> {}]
    /\ pc' = "idle" /\ at' = 1 /\ collected' = {}
    /\ UNCHANGED <<exposed, total, listed, current, jobSaid, hubVars>>
EndCycle ==
    /\ pc = "loop" /\ at \notin DOMAIN Repositories
    /\ Reset(collected)
    /\ pc' = "idle" /\ at' = 1 /\ collected' = {}
    /\ UNCHANGED <<listed, current, jobSaid, hubVars>>

-----------------------------------------------------------------------------
(* A run ends, or is run again. *)
Conclude(run) ==
    /\ changes < MaxChanges
    /\ changes' = changes + 1
    /\ \E c \in Conclusions \ {conclusion[run]} :
          conclusion' = [conclusion EXCEPT ![run] = c]
    /\ UNCHANGED <<loopVars, metricVars>>

Next ==
    \/ BeginCycle \/ SkipRepo \/ BeginRepo \/ RepoFails \/ SetRepo \/ ListRuns
    \/ RunsDone \/ NoJobs \/ RecordJob \/ RecordStep \/ RecordAnnotations
    \/ EndCycle
    \/ \E run \in Runs : RecordRun(run) \/ Conclude(run)

Spec == Init /\ [][Next]_vars

-----------------------------------------------------------------------------
(* Properties *)

(* A series that is to be deleted some day has its key in the lists: none  *)
(* stays on /metrics because the registry has forgotten it.                *)
NoOrphanSeries == \A f \in Tracked : exposed[f] \subseteq tracked[f]

(* The lists hold keys of the present cycle only, so they do not grow from *)
(* cycle to cycle, whatever failed in between.                             *)
ListsOfThisCycle == \A f \in Tracked : \A k \in tracked[f] : k.repo \in collected

(* A family with a conclusion label shows a run with one conclusion only,  *)
(* although the run may have had several since the pod started, and may    *)
(* change while it is collected.                                           *)
OneConclusion ==
    \A f \in Tracked : \A k, other \in exposed[f] :
        k.run = other.run => k.conclusion = other.conclusion

(* An annotation is counted once in a cycle, not again in every cycle.     *)
CountedOnce ==
    \A run \in Runs :
        /\ total[run] <= MaxAnnotations
        /\ total[run] > 0 => \E k \in exposed["annotation"] : k.run = run
=============================================================================
