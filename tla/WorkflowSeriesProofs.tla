------------------------ MODULE WorkflowSeriesProofs ------------------------
(***************************************************************************)
(* Theorems about WorkflowSeries, for any repositories, runs and number of *)
(* changes at GitHub.                                                      *)
(***************************************************************************)
EXTENDS WorkflowSeries, TLAPS

AtRun == {"jobs", "step", "notes"}        \* in collectRun, after RecordWorkflowRun
AtRuns == {"run"} \cup AtRun              \* in the loop over the runs
AtRepo == {"repo", "list"} \cup AtRuns    \* in collectRepo

(* The loops are at a configured repository, and at a run of it that is    *)
(* not to be collected any more.                                           *)
LoopInv ==
    /\ pc = "idle" => collected = {}
    /\ pc \in AtRepo => at \in DOMAIN Repositories /\ Repo \in collected
    /\ pc \in AtRuns => \A run \in DOMAIN listed : RepoOf[run] = Repo
    /\ pc \in AtRun => /\ current \in Runs /\ RepoOf[current] = Repo
                       /\ current \notin DOMAIN listed
    /\ pc \notin AtRun => current = None
    /\ pc = "notes" => jobSaid \in Conclusions

(* Families in which the current run may have a series by now *)
Emitted ==
    CASE pc = "jobs"  -> {"run"}
      [] pc = "step"  -> {"run", "job"}
      [] pc = "notes" -> {"run", "job", "step"}
      [] OTHER        -> {}

(* A repository that the loop of collect has left *)
Left(r) == \E i \in DOMAIN Repositories : i < at /\ r = Repositories[i]

(* A run of the present repository that has its series already *)
Collected(run, f) ==
    /\ pc \in AtRuns /\ RepoOf[run] = Repo /\ run \notin DOMAIN listed
    /\ run = current => f \in Emitted

(* The tracked series that stand are those of this cycle so far. *)
SeenInv ==
    \A f \in Tracked : \A k \in exposed[f] :
        /\ k.run \in Runs /\ k.repo = RepoOf[k.run]
        /\ Left(k.repo) \/ Collected(k.run, f)

SeriesInv ==
    /\ TypeOK /\ LoopInv
    /\ NoOrphanSeries /\ ListsOfThisCycle
    /\ SeenInv /\ OneConclusion /\ CountedOnce

USE DEF Key

-----------------------------------------------------------------------------
(* Types and the loops *)

(* The names of the list and their places. *)
LEMMA ListFacts ==
    /\ Len(Repositories) \in Nat
    /\ DOMAIN Repositories = 1..Len(Repositories)
    /\ \A i \in DOMAIN Repositories : Repositories[i] \in Repos
BY ListAssumption DEF Repos

(* A key is made of a repository, a run and a conclusion. *)
LEMMA KeysAreKeys ==
    \A r \in Repos, run \in Runs \cup {None}, c \in Conclusions \cup {None} :
        /\ Key(r, run, c) \in Keys
        /\ Key(r, run, c).repo = r /\ Key(r, run, c).run = run
        /\ Key(r, run, c).conclusion = c
BY DEF Keys

(* Every step keeps the types. *)
LEMMA TypeStep ==
    ASSUME TypeOK, LoopInv, [Next]_vars
    PROVE  TypeOK'
<1> USE ListFacts, BoundsAssumption DEF TypeOK
<1>1. \A i \in DOMAIN Repositories : i + 1 \in 1..(Len(Repositories) + 1)
  OBVIOUS
<1>2. pc \in AtRepo => at \in DOMAIN Repositories /\ Repo \in Repos
  BY DEF LoopInv, Repo
<1>3. CASE BeginCycle \/ EndCycle
  <2>1. CASE BeginCycle
    BY <2>1 DEF BeginCycle, metricVars, hubVars
  <2>2. CASE EndCycle
    <3>1. /\ exposed' \in [Tracked \cup Untracked -> SUBSET Keys]
          /\ tracked' \in [Tracked -> SUBSET Keys]
          /\ total' \in [Runs -> Nat]
      BY <2>2 DEF EndCycle, Reset, Of
    <3> QED BY <2>2, <3>1 DEF EndCycle, hubVars
  <2> QED BY <1>3, <2>1, <2>2
<1>4. CASE SkipRepo \/ RepoFails \/ RunsDone
  BY <1>1, <1>2, <1>4 DEF SkipRepo, RepoFails, RunsDone, LeaveRepo, metricVars,
     hubVars, AtRepo, AtRuns
<1>5. CASE BeginRepo
  BY <1>5 DEF BeginRepo, metricVars, hubVars, Repo
<1>6. CASE SetRepo
  <2>1. Key(Repo, None, None) \in Keys
    BY <1>2, <1>6, KeysAreKeys DEF SetRepo, AtRepo
  <2> QED BY <1>6, <2>1 DEF SetRepo, hubVars, Untracked
<1>7. CASE ListRuns
  BY <1>7 DEF ListRuns, metricVars, hubVars
<1>8. ASSUME NEW run \in Runs, RecordRun(run) PROVE TypeOK'
  <2>1. Key(Repo, run, listed[run]) \in Keys /\ Key(Repo, None, listed[run]) \in Keys
    BY <1>2, <1>8, KeysAreKeys DEF RecordRun, AtRepo, AtRuns
  <2>2. /\ exposed' \in [Tracked \cup Untracked -> SUBSET Keys]
        /\ tracked' \in [Tracked -> SUBSET Keys]
    <3>1. CASE UNCHANGED <<exposed, tracked>>
      BY <3>1
    <3>2. CASE ~UNCHANGED <<exposed, tracked>>
      <4>1. /\ exposed' = [exposed EXCEPT
                  !["run"] = @ \cup {Key(Repo, run, listed[run])},
                  !["status"] = @ \cup {Key(Repo, None, listed[run])}]
            /\ tracked' = [tracked EXCEPT !["run"] = @ \cup {Key(Repo, run, listed[run])}]
        BY <1>8, <3>2 DEF RecordRun
      <4> HIDE DEF Key
      <4> QED BY <2>1, <4>1
    <3> QED BY <3>1, <3>2
  <2>3. DOMAIN listed' \subseteq Runs /\ \A r \in DOMAIN listed' : listed'[r] \in Conclusions
    BY <1>8 DEF RecordRun, Without
  <2>4. /\ pc' = "jobs" /\ current' = run
        /\ UNCHANGED <<at, collected, jobSaid, total, hubVars>>
    BY <1>8 DEF RecordRun
  <2> QED BY <2>2, <2>3, <2>4 DEF hubVars
<1>9. CASE NoJobs
  BY <1>9 DEF NoJobs, LeaveRun, metricVars, hubVars
<1>10. CASE RecordJob
  <2>1. RunKey(None) \in Keys
    BY <1>2, <1>10, KeysAreKeys DEF RecordJob, AtRepo, AtRuns, AtRun, RunKey
  <2>2. current \in Runs
    BY <1>10 DEF LoopInv, RecordJob, AtRun
  <2> QED BY <1>10, <2>1, <2>2 DEF RecordJob, Emit, hubVars
<1>11. CASE RecordStep
  <2>1. RunKey(jobSaid) \in Keys
    BY <1>2, <1>11, KeysAreKeys DEF RecordStep, AtRepo, AtRuns, AtRun, RunKey
  <2>2. /\ exposed' \in [Tracked \cup Untracked -> SUBSET Keys]
        /\ tracked' \in [Tracked -> SUBSET Keys]
    BY <1>11, <2>1 DEF RecordStep, Emit
  <2> QED BY <1>11, <2>2 DEF RecordStep, LeaveRun, hubVars
<1>12. CASE RecordAnnotations
  <2>1. RunKey(None) \in Keys
    BY <1>2, <1>12, KeysAreKeys DEF RecordAnnotations, AtRepo, AtRuns, AtRun, RunKey
  <2>2. /\ exposed' \in [Tracked \cup Untracked -> SUBSET Keys]
        /\ tracked' \in [Tracked -> SUBSET Keys]
        /\ total' \in [Runs -> Nat]
    <3>1. PICK n \in 0..MaxAnnotations :
             LET shown == IF n = 0 THEN {} ELSE {RunKey(None)}
             IN /\ exposed' = [exposed EXCEPT !["annotation"] = @ \cup shown,
                                              !["info"] = @ \cup shown]
                /\ tracked' = [tracked EXCEPT !["annotation"] = @ \cup shown,
                                              !["info"] = @ \cup shown]
                /\ total' = [total EXCEPT ![current] = @ + n]
      BY <1>12 DEF RecordAnnotations
    <3>2. n \in Nat
      OBVIOUS
    <3>3. total' \in [Runs -> Nat]
      <4>1. total' = [total EXCEPT ![current] = @ + n]
        BY <3>1
      <4>2. \A run \in Runs : total[run] + n \in Nat
        BY <3>2
      <4> QED BY <4>1, <4>2
    <3> DEFINE shown == IF n = 0 THEN {} ELSE {RunKey(None)}
    <3>4. shown \subseteq Keys
      BY <2>1
    <3>5. /\ exposed' = [exposed EXCEPT !["annotation"] = @ \cup shown,
                                        !["info"] = @ \cup shown]
          /\ tracked' = [tracked EXCEPT !["annotation"] = @ \cup shown,
                                        !["info"] = @ \cup shown]
      BY <3>1
    <3> HIDE DEF shown
    <3> QED BY <3>3, <3>4, <3>5
  <2>3. /\ pc' = "run" /\ current' = None /\ jobSaid' = None
        /\ UNCHANGED <<at, collected, listed, hubVars>>
    BY <1>12 DEF RecordAnnotations, LeaveRun
  <2> QED BY <2>2, <2>3 DEF hubVars
<1>13. ASSUME NEW run \in Runs, Conclude(run) PROVE TypeOK'
  BY <1>13 DEF Conclude, loopVars, metricVars
<1>14. CASE UNCHANGED vars
  BY <1>14 DEF vars, loopVars, metricVars, hubVars
<1> QED
  BY <1>3, <1>4, <1>5, <1>6, <1>7, <1>8, <1>9, <1>10, <1>11, <1>12, <1>13, <1>14 DEF Next

(* Every step keeps the loop at a configured repository and one of its runs. *)
LEMMA LoopStep ==
    ASSUME TypeOK, LoopInv, [Next]_vars
    PROVE  LoopInv'
<1> USE ListFacts, RunsAssumption DEF TypeOK, LoopInv, AtRepo, AtRuns, AtRun, Repo
<1>1. CASE BeginCycle \/ EndCycle \/ SkipRepo \/ RepoFails \/ RunsDone
  BY <1>1 DEF BeginCycle, EndCycle, SkipRepo, RepoFails, RunsDone, LeaveRepo
<1>2. CASE BeginRepo \/ SetRepo
  BY <1>2 DEF BeginRepo, SetRepo
<1>3. CASE ListRuns
  BY <1>3 DEF ListRuns
<1>4. ASSUME NEW run \in Runs, RecordRun(run) PROVE LoopInv'
  BY <1>4 DEF RecordRun, Without
<1>5. CASE NoJobs \/ RecordJob
  BY <1>5 DEF NoJobs, LeaveRun, RecordJob
<1>6. CASE RecordStep \/ RecordAnnotations
  BY <1>6 DEF RecordStep, RecordAnnotations, LeaveRun, Conclusions
<1>7. ASSUME NEW run \in Runs, Conclude(run) PROVE LoopInv'
  BY <1>7 DEF Conclude, loopVars
<1>8. CASE UNCHANGED vars
  BY <1>8 DEF vars, loopVars
<1> QED BY <1>1, <1>2, <1>3, <1>4, <1>5, <1>6, <1>7, <1>8 DEF Next
-----------------------------------------------------------------------------
(* The series and the lists *)

(* The loop has not left the present repository. *)
LEMMA NotLeft ==
    ASSUME TypeOK, at \in DOMAIN Repositories
    PROVE  ~Left(Repo)
<1> SUFFICES ASSUME NEW i \in DOMAIN Repositories, i < at, Repositories[i] = Repositories[at]
             PROVE  FALSE
  BY DEF Left, Repo
<1>1. i \in Nat /\ at \in Nat /\ i # at
  BY ListFacts
<1> QED BY <1>1, DistinctAssumption

(* A run that is still listed has no series in this cycle. *)
LEMMA ListedAreUnseen ==
    ASSUME TypeOK, LoopInv, SeenInv, pc = "run",
           NEW run \in DOMAIN listed, NEW f \in Tracked
    PROVE  \A k \in exposed[f] : k.run # run
<1>1. at \in DOMAIN Repositories /\ RepoOf[run] = Repo
  BY DEF LoopInv, AtRepo, AtRuns
<1>2. SUFFICES ASSUME NEW k \in exposed[f], k.run = run PROVE FALSE
  OBVIOUS
<1>3. k.repo = Repo /\ (Left(k.repo) \/ Collected(run, f))
  BY <1>1, <1>2 DEF SeenInv
<1> QED BY <1>1, <1>3, NotLeft DEF Collected

(* Nor has the current run in a family that is still to come. *)
LEMMA CurrentIsUnseen ==
    ASSUME TypeOK, LoopInv, SeenInv, pc \in AtRun, NEW f \in Tracked, f \notin Emitted
    PROVE  \A k \in exposed[f] : k.run # current
<1>1. at \in DOMAIN Repositories /\ RepoOf[current] = Repo
  BY DEF LoopInv, AtRepo, AtRuns
<1>2. SUFFICES ASSUME NEW k \in exposed[f], k.run = current PROVE FALSE
  OBVIOUS
<1>3. k.repo = Repo /\ (Left(k.repo) \/ Collected(current, f))
  BY <1>1, <1>2 DEF SeenInv
<1> QED BY <1>1, <1>3, NotLeft DEF Collected

RegistryInv == NoOrphanSeries /\ ListsOfThisCycle /\ SeenInv /\ OneConclusion

(* The key k gets a series in the families F, and a place in their lists. *)
Adds(k, F) ==
    \A f \in Tracked :
        /\ exposed'[f] = exposed[f] \cup (IF f \in F THEN {k} ELSE {})
        /\ tracked'[f] = tracked[f] \cup (IF f \in F THEN {k} ELSE {})

(* A series of the current run is emitted and tracked. *)
LEMMA AddStep ==
    ASSUME TypeOK, RegistryInv,
           NEW F, NEW k, Adds(k, F), at' = at, collected' = collected,
           k.run \in Runs, k.repo = RepoOf[k.run], k.repo \in collected,
           \A f \in F : Collected(k.run, f)',
           \A f \in F \cap Tracked : \A old \in exposed[f] : old.run # k.run,
           \A f \in Tracked : \A old \in exposed[f] :
               Collected(old.run, f) => Collected(old.run, f)'
    PROVE  RegistryInv'
<1>1. NoOrphanSeries' /\ ListsOfThisCycle'
  BY DEF RegistryInv, NoOrphanSeries, ListsOfThisCycle, Adds
<1>2. SeenInv'
  <2> SUFFICES ASSUME NEW f \in Tracked, NEW old \in exposed'[f]
               PROVE  /\ old.run \in Runs /\ old.repo = RepoOf[old.run]
                      /\ Left(old.repo)' \/ Collected(old.run, f)'
    BY DEF SeenInv
  <2>1. CASE old \in exposed[f]
    <3>1. /\ old.run \in Runs /\ old.repo = RepoOf[old.run]
          /\ Left(old.repo) \/ Collected(old.run, f)
      BY <2>1 DEF RegistryInv, SeenInv
    <3>2. Left(old.repo) => Left(old.repo)'
      BY DEF Left
    <3> QED BY <2>1, <3>1, <3>2
  <2>2. CASE old \notin exposed[f]
    <3>1. f \in F /\ old = k
      BY <2>2 DEF Adds
    <3> QED BY <3>1
  <2> QED BY <2>1, <2>2
<1>3. OneConclusion'
  BY DEF RegistryInv, OneConclusion, Adds
<1> QED BY <1>1, <1>2, <1>3 DEF RegistryInv

(* A step that leaves the series as they are, inside a cycle *)
LEMMA KeepStep ==
    ASSUME TypeOK, RegistryInv, UNCHANGED <<exposed, tracked>>,
           collected \subseteq collected', at <= at', at' \in Nat,
           \A f \in Tracked : \A k \in exposed[f] :
               Collected(k.run, f) => Left(k.repo)' \/ Collected(k.run, f)'
    PROVE  RegistryInv'
<1>1. NoOrphanSeries' /\ ListsOfThisCycle' /\ OneConclusion'
  BY DEF RegistryInv, NoOrphanSeries, ListsOfThisCycle, OneConclusion
<1>2. \A r : Left(r) => Left(r)'
  BY ListFacts DEF TypeOK, Left
<1>3. SeenInv'
  BY <1>2 DEF RegistryInv, SeenInv
<1> QED BY <1>1, <1>3 DEF RegistryInv

(* No series of the families that are reset stands. *)
LEMMA EmptyStep ==
    ASSUME \A f \in Tracked : exposed'[f] = {} /\ tracked'[f] = {}
    PROVE  RegistryInv'
BY DEF RegistryInv, NoOrphanSeries, ListsOfThisCycle, SeenInv, OneConclusion

(* Every step keeps what is said of the series and their lists. *)
LEMMA RegistryStep ==
    ASSUME TypeOK, LoopInv, RegistryInv, CountedOnce, [Next]_vars
    PROVE  RegistryInv' /\ CountedOnce'
<1>t. TypeOK' /\ LoopInv'
  BY TypeStep, LoopStep
<1>1. CASE BeginCycle \/ EndCycle
  <2>1. \A f \in Tracked : exposed'[f] = {} /\ tracked'[f] = {}
    <3>1. CASE BeginCycle
      BY <3>1 DEF BeginCycle, metricVars, LoopInv, RegistryInv, ListsOfThisCycle,
         NoOrphanSeries
    <3>2. CASE EndCycle
      BY <3>2 DEF EndCycle, Reset, ResetFamilies, Of, RegistryInv, ListsOfThisCycle,
         NoOrphanSeries
    <3> QED BY <1>1, <3>1, <3>2
  <2>2. RegistryInv'
    BY <2>1, EmptyStep
  <2>3. CountedOnce'
    <3>1. CASE BeginCycle
      BY <3>1 DEF BeginCycle, metricVars, CountedOnce
    <3>2. CASE EndCycle
      BY <2>1, <3>2, BoundsAssumption DEF EndCycle, Reset, CountedOnce, Tracked
    <3> QED BY <1>1, <3>1, <3>2
  <2> QED BY <2>2, <2>3
<1>2. CASE \/ SkipRepo \/ BeginRepo \/ RepoFails \/ RunsDone \/ ListRuns \/ NoJobs
  <2> USE DEF LeaveRepo, LeaveRun, metricVars
  <2>1. UNCHANGED <<exposed, tracked, total>>
    BY <1>2 DEF SkipRepo, BeginRepo, RepoFails, RunsDone, ListRuns, NoJobs
  <2>2. collected \subseteq collected' /\ at' \in Nat /\ at <= at'
    BY <1>2, ListFacts DEF SkipRepo, BeginRepo, RepoFails, RunsDone, ListRuns, NoJobs, TypeOK
  <2>3. ASSUME NEW f \in Tracked, NEW k \in exposed[f], Collected(k.run, f)
        PROVE  Left(k.repo)' \/ Collected(k.run, f)'
    <3>1. CASE SkipRepo \/ BeginRepo \/ RepoFails \/ ListRuns
      BY <2>3, <3>1 DEF SkipRepo, BeginRepo, RepoFails, ListRuns, Collected, AtRuns, AtRun
    <3>2. CASE RunsDone
      <4>1. at \in DOMAIN Repositories /\ at < at' /\ k.repo = Repositories[at]
        BY <2>3, <3>2, ListFacts DEF RunsDone, TypeOK, LoopInv, AtRepo, AtRuns, Collected,
           Repo, RegistryInv, SeenInv
      <4> QED BY <4>1 DEF Left
    <3>3. CASE NoJobs
      <4>1. k.run # None
        BY RunsAssumption DEF RegistryInv, SeenInv
      <4> QED BY <2>3, <3>3, <4>1 DEF NoJobs, Collected, AtRuns, Repo
    <3> QED BY <1>2, <3>1, <3>2, <3>3
  <2>4. RegistryInv'
    BY <2>1, <2>2, <2>3, KeepStep
  <2>5. CountedOnce'
    BY <2>1 DEF CountedOnce
  <2> QED BY <2>4, <2>5
<1>3. CASE SetRepo
  <2>1. \A f \in Tracked : exposed'[f] = exposed[f] /\ tracked'[f] = tracked[f]
    BY <1>3 DEF SetRepo, TypeOK, Tracked, Untracked
  <2>2. \A f : \A run : ~Collected(run, f)
    BY <1>3 DEF SetRepo, Collected, AtRuns, AtRun
  <2>3. SeenInv'
    <3>1. \A r : Left(r)' <=> Left(r)
      BY <1>3 DEF SetRepo, Left
    <3> QED BY <2>1, <2>2, <3>1 DEF RegistryInv, SeenInv
  <2>4. NoOrphanSeries' /\ ListsOfThisCycle' /\ OneConclusion'
    BY <1>3, <2>1 DEF SetRepo, RegistryInv, NoOrphanSeries, ListsOfThisCycle, OneConclusion
  <2>5. CountedOnce'
    BY <1>3, <2>1 DEF SetRepo, CountedOnce, Tracked
  <2> QED BY <2>3, <2>4, <2>5 DEF RegistryInv
<1>4. ASSUME NEW run \in Runs, RecordRun(run) PROVE RegistryInv' /\ CountedOnce'
  <2>k. PICK k : k = Key(Repo, run, listed[run])
    OBVIOUS
  <2>1. /\ pc = "run" /\ run \in DOMAIN listed /\ at' = at /\ collected' = collected
        /\ pc' = "jobs" /\ current' = run /\ total' = total
        /\ DOMAIN listed' = DOMAIN listed \ {run}
    BY <1>4 DEF RecordRun, Without
  <2>2. k.run = run /\ k.repo = Repo /\ RepoOf[run] = Repo /\ Repo \in collected
    BY <2>1, <2>k DEF LoopInv, AtRepo, AtRuns
  <2>3. \A f \in Tracked : \A old \in exposed[f] : old.run # run
    BY <2>1, ListedAreUnseen DEF RegistryInv
  <2>4. ASSUME NEW f \in Tracked, NEW old \in exposed[f], Collected(old.run, f)
        PROVE  Collected(old.run, f)'
    BY <2>1, <2>3, <2>4 DEF Collected, AtRuns, AtRun, Repo
  <2>5. RegistryInv'
    <3>1. CASE UNCHANGED <<exposed, tracked>>
      BY <2>1, <2>4, <3>1, KeepStep, ListFacts DEF TypeOK
    <3>2. CASE ~UNCHANGED <<exposed, tracked>>
      <4>1. Adds(k, {"run"})
        BY <1>4, <2>k, <3>2 DEF RecordRun, Adds, TypeOK, Tracked, Untracked
      <4>2. Collected(k.run, "run")'
        BY <2>1, <2>2 DEF Collected, AtRuns, AtRun, Emitted, Repo
      <4>3. k.run \in Runs /\ k.repo = RepoOf[k.run] /\ k.repo \in collected
        BY <2>2
      <4> QED BY <2>1, <2>2, <2>3, <2>4, <4>1, <4>2, <4>3, AddStep
    <3> QED BY <3>1, <3>2
  <2>6. exposed'["annotation"] = exposed["annotation"]
    BY <1>4 DEF RecordRun, TypeOK, Tracked, Untracked
  <2> QED BY <2>1, <2>5, <2>6 DEF CountedOnce
<1>5. CASE RecordJob
  <2>1. /\ pc = "jobs" /\ pc' = "step" /\ Emit("job", RunKey(None))
        /\ UNCHANGED <<at, collected, listed, current, total>>
    BY <1>5 DEF RecordJob
  <2>2. RegistryInv'
    <3>k. PICK k : k = RunKey(None)
      OBVIOUS
    <3>1. Adds(k, {"job"})
      BY <2>1, <3>k DEF Emit, Adds, TypeOK, Tracked, Untracked
    <3>2. /\ k.run = current /\ k.repo = Repo
          /\ current \in Runs /\ RepoOf[current] = Repo /\ Repo \in collected
          /\ current \notin DOMAIN listed
      BY <2>1, <3>k DEF RunKey, LoopInv, AtRepo, AtRuns, AtRun
    <3>3. \A old \in exposed["job"] : old.run # current
      BY <2>1, CurrentIsUnseen DEF RegistryInv, AtRun, Emitted, Tracked
    <3>4. /\ Collected(k.run, "job")'
          /\ \A f, run : Collected(run, f) => Collected(run, f)'
      BY <2>1, <3>2 DEF Collected, AtRuns, AtRun, Emitted, Repo
    <3> QED BY <2>1, <3>1, <3>2, <3>3, <3>4, AddStep
  <2>3. exposed'["annotation"] = exposed["annotation"]
    BY <2>1 DEF Emit, TypeOK, Tracked, Untracked
  <2> QED BY <2>1, <2>2, <2>3 DEF CountedOnce
<1>6. CASE RecordStep
  <2>1. /\ pc = "step" /\ UNCHANGED <<at, collected, listed, total>>
        /\ (pc' = "notes" /\ current' = current) \/ (pc' = "run" /\ current' = None)
    BY <1>6 DEF RecordStep, LeaveRun
  <2>2. /\ current \in Runs /\ RepoOf[current] = Repo /\ Repo \in collected
        /\ current \notin DOMAIN listed
    BY <2>1 DEF LoopInv, AtRepo, AtRuns, AtRun
  <2>3. \A f : \A run \in Runs : Collected(run, f) => Collected(run, f)'
    BY <2>1, RunsAssumption DEF Collected, AtRuns, AtRun, Emitted, Repo
  <2>4. RegistryInv'
    <3>1. CASE UNCHANGED <<exposed, tracked>>
      <4>1. \A f \in Tracked : \A k \in exposed[f] : Collected(k.run, f) => Collected(k.run, f)'
        BY <2>3 DEF RegistryInv, SeenInv
      <4> QED BY <2>1, <3>1, <4>1, KeepStep, ListFacts DEF TypeOK
    <3>2. CASE Emit("step", RunKey(jobSaid))
      <4>k. PICK k : k = RunKey(jobSaid)
        OBVIOUS
      <4>1. Adds(k, {"step"})
        BY <3>2, <4>k DEF Emit, Adds, TypeOK, Tracked, Untracked
      <4>2. k.run \in Runs /\ k.repo = RepoOf[k.run] /\ k.repo \in collected
        BY <2>2, <4>k DEF RunKey
      <4>3. \A old \in exposed["step"] : old.run # k.run
        BY <2>1, <4>k, CurrentIsUnseen DEF RegistryInv, AtRun, Emitted, Tracked, RunKey
      <4>4. Collected(k.run, "step")'
        BY <2>1, <2>2, <4>k, RunsAssumption DEF Collected, AtRuns, AtRun, Emitted, Repo, RunKey
      <4>5. \A f \in Tracked : \A old \in exposed[f] :
               Collected(old.run, f) => Collected(old.run, f)'
        BY <2>3 DEF RegistryInv, SeenInv
      <4> QED BY <2>1, <4>1, <4>2, <4>3, <4>4, <4>5, AddStep
    <3> QED BY <1>6, <3>1, <3>2 DEF RecordStep
  <2>5. exposed'["annotation"] = exposed["annotation"]
    BY <1>6 DEF RecordStep, Emit, TypeOK, Tracked, Untracked
  <2> QED BY <2>1, <2>4, <2>5 DEF CountedOnce
<1>7. CASE RecordAnnotations
  <2>1. /\ pc = "notes" /\ pc' = "run" /\ current' = None
        /\ UNCHANGED <<at, collected, listed>>
    BY <1>7 DEF RecordAnnotations, LeaveRun
  <2>2. PICK n \in 0..MaxAnnotations :
           LET shown == IF n = 0 THEN {} ELSE {RunKey(None)}
           IN /\ exposed' = [exposed EXCEPT !["annotation"] = @ \cup shown,
                                            !["info"] = @ \cup shown]
              /\ tracked' = [tracked EXCEPT !["annotation"] = @ \cup shown,
                                            !["info"] = @ \cup shown]
              /\ total' = [total EXCEPT ![current] = @ + n]
    BY <1>7 DEF RecordAnnotations
  <2> DEFINE F == IF n = 0 THEN {} ELSE {"annotation", "info"}
  <2>k. PICK k : k = RunKey(None)
    OBVIOUS
  <2>3. Adds(k, F)
    <3>1. CASE n = 0
      BY <2>2, <2>k, <3>1 DEF Adds, TypeOK, Tracked, Untracked
    <3>2. CASE n # 0
      BY <2>2, <2>k, <3>2 DEF Adds, TypeOK, Tracked, Untracked
    <3> QED BY <3>1, <3>2
  <2>4. /\ current \in Runs /\ RepoOf[current] = Repo /\ Repo \in collected
        /\ current \notin DOMAIN listed
        /\ k.run = current /\ k.repo = Repo
    BY <2>1, <2>k DEF LoopInv, AtRepo, AtRuns, AtRun, RunKey
  <2>5. /\ \A old \in exposed["annotation"] : old.run # current
        /\ \A old \in exposed["info"] : old.run # current
    BY <2>1, CurrentIsUnseen DEF RegistryInv, AtRun, Emitted, Tracked
  <2>6. RegistryInv'
    <3>1. \A f \in F : Collected(k.run, f)'
      BY <2>1, <2>4, RunsAssumption DEF Collected, AtRuns, AtRun, Repo
    <3>2. \A f \in Tracked : \A old \in exposed[f] :
             Collected(old.run, f) => Collected(old.run, f)'
      BY <2>1, RunsAssumption DEF Collected, AtRuns, AtRun, Repo, RegistryInv, SeenInv
    <3>3. \A f \in F \cap Tracked : \A old \in exposed[f] : old.run # k.run
      BY <2>4, <2>5
    <3>4. k.run \in Runs /\ k.repo = RepoOf[k.run] /\ k.repo \in collected
      BY <2>4
    <3> HIDE DEF F
    <3> QED BY <2>1, <2>3, <3>1, <3>2, <3>3, <3>4, AddStep
  <2>7. CountedOnce'
    <3> SUFFICES ASSUME NEW run \in Runs
                 PROVE  /\ total'[run] <= MaxAnnotations
                        /\ total'[run] > 0 => \E s \in exposed'["annotation"] : s.run = run
      BY DEF CountedOnce
    <3>1. CASE run # current
      <4>1. total'[run] = total[run] /\ exposed["annotation"] \subseteq exposed'["annotation"]
        BY <2>2, <2>3, <3>1 DEF TypeOK, Adds, Tracked
      <4> QED BY <4>1 DEF CountedOnce
    <3>2. CASE run = current
      <4>1. total[current] = 0
        BY <2>4, <2>5, BoundsAssumption DEF CountedOnce, TypeOK
      <4>2. total'[run] = n
        BY <2>2, <2>4, <3>2, <4>1, BoundsAssumption DEF TypeOK
      <4>3. n # 0 => k \in exposed'["annotation"]
        BY <2>3 DEF Adds, Tracked
      <4> QED BY <2>4, <3>2, <4>2, <4>3, BoundsAssumption
    <3> QED BY <3>1, <3>2
  <2> QED BY <2>6, <2>7
<1>8. CASE (\E run \in Runs : Conclude(run)) \/ UNCHANGED vars
  <2>1. UNCHANGED <<loopVars, metricVars>>
    BY <1>8 DEF Conclude, vars
  <2> QED
    BY <2>1 DEF loopVars, metricVars, RegistryInv, NoOrphanSeries, ListsOfThisCycle,
       SeenInv, OneConclusion, CountedOnce, Left, Collected, Emitted, Repo
<1> QED BY <1>1, <1>2, <1>3, <1>4, <1>5, <1>6, <1>7, <1>8 DEF Next

-----------------------------------------------------------------------------

(* The invariant of types, loops and series holds always. *)
THEOREM InvariantHolds == Spec => []SeriesInv
<1>1. Init => SeriesInv
  <2> SUFFICES ASSUME Init PROVE SeriesInv
    OBVIOUS
  <2> USE DEF Init
  <2>1. TypeOK
    BY ListFacts, BoundsAssumption DEF TypeOK, Conclusions
  <2>2. LoopInv
    BY DEF LoopInv, AtRepo, AtRuns, AtRun
  <2>3. RegistryInv
    BY DEF RegistryInv, NoOrphanSeries, ListsOfThisCycle, SeenInv, OneConclusion, Tracked
  <2>4. CountedOnce
    BY BoundsAssumption DEF CountedOnce
  <2> QED BY <2>1, <2>2, <2>3, <2>4 DEF SeriesInv, RegistryInv
<1>2. SeriesInv /\ [Next]_vars => SeriesInv'
  BY TypeStep, LoopStep, RegistryStep DEF SeriesInv, RegistryInv
<1> QED BY <1>1, <1>2, PTL DEF Spec

(* Every variable has its type. *)
THEOREM TypeCorrect == Spec => []TypeOK
BY InvariantHolds, PTL DEF SeriesInv

(* The registry forgets no series that it is to delete some day.           *)
THEOREM NoSeriesIsForgotten == Spec => []NoOrphanSeries
BY InvariantHolds, PTL DEF SeriesInv

(* The lists of tracked keys hold keys of the present cycle only.          *)
THEOREM ListsDoNotGrow == Spec => []ListsOfThisCycle
BY InvariantHolds, PTL DEF SeriesInv

(* No run is shown with two conclusions, however often GitHub changes it   *)
(* while it is collected.                                                  *)
THEOREM ConclusionsAreUnique == Spec => []OneConclusion
BY InvariantHolds, PTL DEF SeriesInv

(* No annotation is counted twice. *)
THEOREM AnnotationsCountOnce == Spec => []CountedOnce
BY InvariantHolds, PTL DEF SeriesInv
=============================================================================
