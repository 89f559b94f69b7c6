------------------------------ MODULE Collector ------------------------------
(***************************************************************************)
(* The GitHub collector of scuffinger, run by several pods that share one  *)
(* Valkey: internal/services/github_collector.go.                          *)
(*                                                                         *)
(* Each pod has one goroutine (Start) that runs a cycle at once and then   *)
(* one per tick of its ticker. A cycle (collect) goes through the          *)
(* configured repositories in order: parse the name, try the lock of the   *)
(* repository (tryLock: SET NX with a time to live of one interval, never  *)
(* released), and collect it (collectRepo) when the lock was granted or    *)
(* Valkey could not answer.                                                *)
(*                                                                         *)
(* Time passes with Tick, for the locks in Valkey, for the tickers and for *)
(* the collections in progress. Only remaining or elapsed times are kept,  *)
(* so the state space is finite without a bound on time.                   *)
(***************************************************************************)
EXTENDS Naturals, Sequences

CONSTANTS
    Pods,            \* instances of the collector
    NoPod,           \* "no pod", the owner of a lock that is not set
    Repositories,    \* cfg.Repositories: a sequence of repository names
    Malformed,       \* the names among them that are not "owner/repo"
    WithRuns,        \* the names whose repository has workflow runs to record
    Interval,        \* CollectorDuration(): ticker period and lock lifetime
    MaxBusy,         \* clock units the collection of one repository may take
    Prompt,          \* TRUE: a pod takes no time outside of collectRepo
    MaxDisruptions,  \* number of crashes, shutdowns, failed calls and losses
    MaxWait          \* up to where the waiting time of a repository is counted

Repos == {Repositories[i] : i \in DOMAIN Repositories}
Configured == 1..Len(Repositories)

ASSUME PodsAssumption == NoPod \notin Pods
ASSUME RepositoriesAssumption == Repositories \in Seq(Repos)
\* Bootstrap starts no collector without repositories, and SelfTest refuses
\* a malformed first one.
ASSUME SelfTestAssumption ==
    Repositories # <<>> /\ Repositories[1] \notin Malformed
ASSUME TimesAssumption ==
    /\ Interval \in Nat \ {0}
    /\ MaxBusy \in Nat /\ MaxDisruptions \in Nat /\ MaxWait \in Nat
    /\ Prompt \in BOOLEAN

VARIABLES
    \* --- each pod --------------------------------------------------------
    pc,          \* where the goroutine of Start is, see PcValues
    next,        \* index of the loop over cfg.Repositories
    collected,   \* the map of the same name in collect
    cycleErr,    \* local variable lastErr of collect is not nil
    lastErr,     \* field lastErr, what Ping answers, is not nil
    cancelled,   \* the context of Start is cancelled (Close)
    ticker,      \* clock units until the ticker fires, 0: no ticker yet
    pending,     \* a tick waits in ticker.C, which holds one
    exposed,     \* repositories with workflow gauge series on /metrics
    \* --- Valkey ----------------------------------------------------------
    owner,       \* value of the lock key of a repository
    ttl,         \* clock units until the lock key expires, 0: not set
    \* --- history, read by no action --------------------------------------
    mode,        \* what the collection in progress rests on, see ModeValues
    spent,       \* clock units since the collection in progress was let in
    sinceGrant,  \* clock units since a lock was last granted to a pod
    waited,      \* clock units since a collection of r began, as p saw it
    disruptions  \* how many of MaxDisruptions have happened

podVars  == <<pc, next, collected, cycleErr, lastErr, cancelled, exposed>>
timeVars == <<ticker, pending>>
lockVars == <<owner, ttl>>
history  == <<mode, spent, sinceGrant, waited>>
vars     == <<podVars, timeVars, lockVars, history, disruptions>>

PcValues   == {"down", "loop", "fetch", "record", "idle", "stopped"}
ModeValues == {"none", "lease", "degraded"}

PodTypeOK ==
    /\ pc \in [Pods -> PcValues]
    /\ next \in [Pods -> 1..(Len(Repositories) + 1)]
    /\ collected \in [Pods -> SUBSET Repos]
    /\ cycleErr \in [Pods -> BOOLEAN]
    /\ lastErr \in [Pods -> BOOLEAN]
    /\ cancelled \in [Pods -> BOOLEAN]
    /\ exposed \in [Pods -> SUBSET Repos]

TimeTypeOK == /\ ticker \in [Pods -> 0..Interval]
              /\ pending \in [Pods -> BOOLEAN]

LockTypeOK == /\ owner \in [Repos -> Pods \cup {NoPod}]
              /\ ttl \in [Repos -> 0..Interval]

HistoryTypeOK ==
    /\ mode \in [Pods -> ModeValues]
    /\ spent \in [Pods -> 0..MaxBusy]
    /\ sinceGrant \in [Repos -> 0..Interval]
    /\ waited \in [Pods -> [Repos -> 0..MaxWait]]
    /\ disruptions \in 0..MaxDisruptions

TypeOK == PodTypeOK /\ TimeTypeOK /\ LockTypeOK /\ HistoryTypeOK

Init ==
    /\ pc = [p \in Pods |-> "down"]
    /\ next = [p \in Pods |-> 1]
    /\ collected = [p \in Pods |-> {}]
    /\ cycleErr = [p \in Pods |-> FALSE]
    /\ lastErr = [p \in Pods |-> FALSE]
    /\ cancelled = [p \in Pods |-> FALSE]
    /\ ticker = [p \in Pods |-> 0]
    /\ pending = [p \in Pods |-> FALSE]
    /\ exposed = [p \in Pods |-> {}]
    /\ owner = [r \in Repos |-> NoPod]
    /\ ttl = [r \in Repos |-> 0]
    /\ mode = [p \in Pods |-> "none"]
    /\ spent = [p \in Pods |-> 0]
    /\ sinceGrant = [r \in Repos |-> Interval]
    /\ waited = [p \in Pods |-> [r \in Repos |-> 0]]
    /\ disruptions = 0

-----------------------------------------------------------------------------
(* State formulas used by the actions. *)

Up(p) == pc[p] \in {"loop", "fetch", "record", "idle"}

InLoop(p) == pc[p] = "loop" /\ next[p] \in Configured

(* The repository pod p is at: loop variable fullName of collect. *)
Current(p) == Repositories[next[p]]

CollectingNow(p) == pc[p] \in {"fetch", "record"}

Collecting(p, r) == CollectingNow(p) /\ Current(p) = r

WellFormed == Repos \ Malformed

Disrupt == /\ disruptions < MaxDisruptions
           /\ disruptions' = disruptions + 1

SameDisruptions == UNCHANGED disruptions

-----------------------------------------------------------------------------
(* Valkey, as tryLock uses it: one SET NX per call, executed atomically. *)

KeyIsFreeIgnored(r) == TRUE     \* mutant: SET instead of SET NX
KeyIsFree(r) == ttl[r] = 0

LockTTLTooShort == Interval - 1 \* mutant: lock expires before the next tick
LockTTLTooLong == Interval + 1  \* mutant: lock outlives the next tick
LockTTL == Interval

SetKey(p, r) == /\ owner' = [owner EXCEPT ![r] = p]
                /\ ttl' = [ttl EXCEPT ![r] = LockTTL]

(* One clock unit of a lock key's life: it is gone when none is left. *)
TTLAfterTickNoExpiry(n) == n    \* mutant: the key is set without a lifetime
TTLAfterTick(n) == IF n > 0 THEN n - 1 ELSE 0

-----------------------------------------------------------------------------
(* The life of a pod. *)

(* Start: the goroutine begins its first cycle at once. A pod that crashed *)
(* or stopped is replaced by a new process.                                *)
Start(p) ==
    /\ pc[p] \in {"down", "stopped"}
    /\ pc' = [pc EXCEPT ![p] = "loop"]
    /\ next' = [next EXCEPT ![p] = 1]
    /\ collected' = [collected EXCEPT ![p] = {}]
    /\ cycleErr' = [cycleErr EXCEPT ![p] = FALSE]
    /\ lastErr' = [lastErr EXCEPT ![p] = FALSE]
    /\ cancelled' = [cancelled EXCEPT ![p] = FALSE]
    /\ exposed' = [exposed EXCEPT ![p] = {}]
    /\ waited' = [waited EXCEPT ![p] = [r \in Repos |-> 0]]
    /\ UNCHANGED <<timeVars, lockVars, mode, spent, sinceGrant, disruptions>>

(* Close: cancel the context of the goroutine, which goes on for a while. *)
Close(p) ==
    /\ Up(p) /\ ~cancelled[p]
    /\ Disrupt
    /\ cancelled' = [cancelled EXCEPT ![p] = TRUE]
    /\ waited' = [waited EXCEPT ![p] = [r \in Repos |-> 0]]
    /\ UNCHANGED <<pc, next, collected, cycleErr, lastErr, exposed,
                   timeVars, lockVars, mode, spent, sinceGrant>>

(* The process ends: everything in its memory is lost, its locks are not. *)
Gone(p) ==
    /\ Up(p)
    /\ pc' = [pc EXCEPT ![p] = "down"]
    /\ next' = [next EXCEPT ![p] = 1]
    /\ collected' = [collected EXCEPT ![p] = {}]
    /\ cycleErr' = [cycleErr EXCEPT ![p] = FALSE]
    /\ lastErr' = [lastErr EXCEPT ![p] = FALSE]
    /\ cancelled' = [cancelled EXCEPT ![p] = FALSE]
    /\ exposed' = [exposed EXCEPT ![p] = {}]
    /\ ticker' = [ticker EXCEPT ![p] = 0]
    /\ pending' = [pending EXCEPT ![p] = FALSE]
    /\ mode' = [mode EXCEPT ![p] = "none"]
    /\ spent' = [spent EXCEPT ![p] = 0]
    /\ waited' = [waited EXCEPT ![p] = [r \in Repos |-> 0]]
    /\ UNCHANGED <<lockVars, sinceGrant>>

Crash(p) == Gone(p) /\ Disrupt

(* CloseAll waits for no goroutine: main returns whatever this one does. *)
Exit(p) == cancelled[p] /\ Gone(p) /\ SameDisruptions

-----------------------------------------------------------------------------
(* One iteration of the loop of collect. *)

(* Go on with the next repository, without (or after) collecting this one. *)
NextRepo(p) == /\ pc' = [pc EXCEPT ![p] = "loop"]
               /\ next' = [next EXCEPT ![p] = @ + 1]
               /\ UNCHANGED <<cancelled, lastErr>>

(* parseRepo fails: the error is remembered, the loop goes on. *)
ParseFails(p) ==
    /\ InLoop(p) /\ Current(p) \in Malformed
    /\ NextRepo(p)
    /\ cycleErr' = [cycleErr EXCEPT ![p] = TRUE]
    /\ UNCHANGED <<collected, exposed, timeVars, lockVars, history, disruptions>>

AtLock(p) == InLoop(p) /\ Current(p) \notin Malformed

(* tryLock returned true: collectRepo begins, resting on m. *)
BeginCollection(p, m) ==
    LET r == Current(p) IN
    /\ pc' = [pc EXCEPT ![p] = "fetch"]
    /\ collected' = [collected EXCEPT ![p] = @ \cup {r}]
    /\ mode' = [mode EXCEPT ![p] = m]
    /\ spent' = [spent EXCEPT ![p] = 0]
    /\ waited' = [q \in Pods |-> [waited[q] EXCEPT ![r] = 0]]
    /\ UNCHANGED <<next, cycleErr, lastErr, cancelled, exposed, timeVars>>

LockGranted(p) ==
    /\ AtLock(p) /\ ~cancelled[p] /\ KeyIsFree(Current(p))
    /\ SetKey(p, Current(p))
    /\ sinceGrant' = [sinceGrant EXCEPT ![Current(p)] = 0]
    /\ BeginCollection(p, "lease")
    /\ SameDisruptions

(* The key is set already: skip the repository. *)
LockHeld(p) ==
    /\ AtLock(p) /\ ~cancelled[p] /\ ~KeyIsFree(Current(p))
    /\ NextRepo(p)
    /\ UNCHANGED <<collected, cycleErr, exposed, timeVars, lockVars, history,
                   disruptions>>

(* The call fails, after Valkey has executed it or without: collect anyway. *)
LockFails(p) ==
    /\ AtLock(p) /\ ~cancelled[p] /\ Disrupt
    /\ \/ KeyIsFree(Current(p)) /\ SetKey(p, Current(p))
       \/ UNCHANGED lockVars
    /\ BeginCollection(p, "degraded")
    /\ UNCHANGED sinceGrant

(* The answer is lost and the client sends the command again: the second   *)
(* execution finds the key that the first one has set, and answers "held". *)
LockRetried(p) ==
    /\ AtLock(p) /\ ~cancelled[p] /\ KeyIsFree(Current(p)) /\ Disrupt
    /\ SetKey(p, Current(p))
    /\ NextRepo(p)
    /\ UNCHANGED <<collected, cycleErr, exposed, timeVars, history>>

(* With a cancelled context the call fails at once, and is taken for an    *)
(* unreachable Valkey like any other failure.                              *)
LockAfterClose(p) ==
    /\ AtLock(p) /\ cancelled[p]
    /\ BeginCollection(p, "degraded")
    /\ UNCHANGED <<lockVars, sinceGrant, disruptions>>

(* collectRepo, its two calls that can fail it: Repositories.Get and       *)
(* ListRepositoryWorkflowRuns.                                             *)
FetchSucceeds(p) ==
    /\ pc[p] = "fetch" /\ ~cancelled[p]
    /\ pc' = [pc EXCEPT ![p] = "record"]
    /\ UNCHANGED <<next, collected, cycleErr, lastErr, cancelled, exposed,
                   timeVars, lockVars, history, disruptions>>

EndCollection(p) ==
    /\ mode' = [mode EXCEPT ![p] = "none"]
    /\ spent' = [spent EXCEPT ![p] = 0]
    /\ NextRepo(p)
    /\ UNCHANGED <<collected, timeVars, lockVars, sinceGrant, waited, disruptions>>

FetchFails(p) ==
    /\ pc[p] = "fetch"
    /\ EndCollection(p)
    /\ cycleErr' = [cycleErr EXCEPT ![p] = TRUE]
    /\ UNCHANGED exposed

(* collectRepo, the rest: collectRun for every run. Errors are only logged *)
(* there, so the repository counts as collected, with or without series.   *)
RecordRunsClearingError(p) ==   \* mutant: a success overwrites lastErr
    /\ pc[p] = "record"
    /\ EndCollection(p)
    /\ cycleErr' = [cycleErr EXCEPT ![p] = FALSE]
    /\ UNCHANGED exposed
RecordRuns(p) ==
    /\ pc[p] = "record"
    /\ EndCollection(p)
    /\ \E emitted \in SUBSET ({Current(p)} \cap WithRuns) :
          exposed' = [exposed EXCEPT ![p] = @ \cup emitted]
    /\ UNCHANGED cycleErr

(* The end of collect: delete the tracked series of the repositories that  *)
(* were collected, publish the error. The ticker is created after the      *)
(* first cycle.                                                            *)
FinishCycle(p) ==
    /\ pc[p] = "loop" /\ next[p] \notin Configured
    /\ pc' = [pc EXCEPT ![p] = "idle"]
    /\ exposed' = [exposed EXCEPT ![p] = @ \ collected[p]]
    /\ lastErr' = [lastErr EXCEPT ![p] = cycleErr[p]]
    /\ ticker' = [ticker EXCEPT ![p] = IF @ = 0 THEN Interval ELSE @]
    /\ collected' = [collected EXCEPT ![p] = {}]
    /\ cycleErr' = [cycleErr EXCEPT ![p] = FALSE]
    /\ next' = [next EXCEPT ![p] = 1]
    /\ UNCHANGED <<cancelled, pending, lockVars, history, disruptions>>

-----------------------------------------------------------------------------
(* The select of Start. With both channels ready either case may be taken. *)

StartCycle(p) ==
    /\ pc[p] = "idle" /\ pending[p]
    /\ pc' = [pc EXCEPT ![p] = "loop"]
    /\ pending' = [pending EXCEPT ![p] = FALSE]
    /\ UNCHANGED <<next, collected, cycleErr, lastErr, cancelled, exposed,
                   ticker, lockVars, history, disruptions>>

StopNever(p) == FALSE /\ UNCHANGED vars  \* mutant: for range ticker.C
Stop(p) ==
    /\ pc[p] = "idle" /\ cancelled[p]
    /\ pc' = [pc EXCEPT ![p] = "stopped"]
    /\ ticker' = [ticker EXCEPT ![p] = 0]
    /\ pending' = [pending EXCEPT ![p] = FALSE]
    /\ UNCHANGED <<next, collected, cycleErr, lastErr, cancelled, exposed,
                   lockVars, history, disruptions>>

-----------------------------------------------------------------------------
(* Time and the store. *)

(* A tick that finds the channel full is dropped. *)
TickersAdvance ==
    /\ ticker' = [p \in Pods |-> CASE ticker[p] = 0 -> 0
                                   [] ticker[p] = 1 -> Interval
                                   [] OTHER -> ticker[p] - 1]
    /\ pending' = [p \in Pods |-> pending[p] \/ ticker[p] = 1]

(* The collection of one repository takes at most MaxBusy, and what comes  *)
(* between two of them no time at all if Prompt.                           *)
MayElapse ==
    /\ \A p \in Pods : CollectingNow(p) => spent[p] < MaxBusy
    /\ Prompt => \A p \in Pods : pc[p] # "loop" /\ ~(pc[p] = "idle" /\ pending[p])

Tick ==
    /\ MayElapse
    /\ TickersAdvance
    /\ ttl' = [r \in Repos |-> TTLAfterTick(ttl[r])]
    /\ owner' = [r \in Repos |-> IF ttl'[r] = 0 THEN NoPod ELSE owner[r]]
    /\ spent' = [p \in Pods |-> IF CollectingNow(p) THEN spent[p] + 1 ELSE 0]
    /\ sinceGrant' = [r \in Repos |->
          IF sinceGrant[r] < Interval THEN sinceGrant[r] + 1 ELSE Interval]
    /\ waited' = [p \in Pods |-> [r \in Repos |->
          IF Up(p) /\ ~cancelled[p] /\ waited[p][r] < MaxWait
          THEN waited[p][r] + 1 ELSE waited[p][r]]]
    /\ UNCHANGED <<podVars, mode, disruptions>>

(* Valkey restarts empty: no collection rests on a lease any longer. *)
ValkeyLosesKeys ==
    /\ Disrupt
    /\ owner' = [r \in Repos |-> NoPod]
    /\ ttl' = [r \in Repos |-> 0]
    /\ sinceGrant' = [r \in Repos |-> Interval]
    /\ mode' = [p \in Pods |-> IF mode[p] = "lease" THEN "degraded" ELSE mode[p]]
    /\ UNCHANGED <<podVars, timeVars, spent, waited>>

-----------------------------------------------------------------------------
PodStep(p) ==
    \/ ParseFails(p) \/ LockGranted(p) \/ LockHeld(p) \/ LockFails(p)
    \/ LockRetried(p) \/ LockAfterClose(p)
    \/ FetchSucceeds(p) \/ FetchFails(p) \/ RecordRuns(p)
    \/ FinishCycle(p) \/ StartCycle(p) \/ Stop(p)

Next ==
    \/ \E p \in Pods : PodStep(p) \/ Start(p) \/ Close(p) \/ Crash(p) \/ Exit(p)
    \/ Tick
    \/ ValkeyLosesKeys

Spec == Init /\ [][Next]_vars

(* The scheduler runs every goroutine, GitHub answers every call, a pod    *)
(* that is gone is replaced, and select chooses at random between channels *)
(* that are ready, so it cannot pass over ctx.Done forever.                *)
Fairness ==
    /\ WF_vars(Tick)
    /\ \A p \in Pods : /\ WF_vars(PodStep(p))
                       /\ WF_vars(Start(p))
                       /\ SF_vars(Stop(p))

FairSpec == Spec /\ Fairness

-----------------------------------------------------------------------------
(* Properties *)

(* The interval for which p was granted the repository is not over. *)
Protected(p) == CollectingNow(p) /\ mode[p] = "lease" /\ spent[p] < Interval

(* No two pods collect the same repository while both are within the       *)
(* lifetime of the lock that tryLock got them, whatever crashed, failed or *)
(* was retried in between.                                                 *)
LeaseExclusive ==
    \A p, q \in Pods :
        Protected(p) /\ Protected(q) /\ Current(p) = Current(q) => p = q

(* Why that is so: within its lifetime the lock key is still in Valkey,    *)
(* under the name of the pod, with the rest of its lifetime.               *)
LeaseBacked ==
    \A p \in Pods : Protected(p) =>
        /\ owner[Current(p)] = p
        /\ ttl[Current(p)] = Interval - spent[p]

(* After a grant the key outlives the interval: what is left of the key    *)
(* covers what is left of the interval.                                    *)
GrantBacked == \A r \in Repos : ttl[r] + sinceGrant[r] >= Interval

(* tryLock implements the promise of RepoLease: two grants of a repository *)
(* are at least one interval apart.                                        *)
Lease == INSTANCE RepoLease
GrantsAreSpaced == Lease!LeaseSpec

(* Ping keeps reporting a malformed name after every cycle: neither a      *)
(* later success nor a skipped repository of the cycle masks it.           *)
MalformedIsReported ==
    \A p \in Pods : pc[p] = "idle" /\ Repos \cap Malformed # {} => lastErr[p]

(* A pod that has been up, and not closing, for this long has seen some    *)
(* pod begin a collection of every well-formed repository: a key lives one *)
(* interval, or the pod that set it is busy with the repository itself for *)
(* longer, and the attempts of one pod are at most one interval and one    *)
(* pass over the other repositories apart. A disruption can waste a key.   *)
LongestHold == IF MaxBusy < Interval THEN Interval ELSE MaxBusy + 1
LongestWait == Interval + LongestHold + (Len(Repositories) - 1) * MaxBusy
StarvationBound == (disruptions + 1) * LongestWait

(* Skipping a repository whose lock is held never starves it, although a   *)
(* lock is never released and outlives the pod that took it.               *)
NeverStarved ==
    \A p \in Pods, r \in WellFormed : waited[p][r] < StarvationBound

(* Every well-formed repository is collected over and over. *)
CollectedForever ==
    \A r \in WellFormed : []<>(\E p \in Pods : Collecting(p, r))

(* Close ends the goroutine, although select may take a tick instead of    *)
(* ctx.Done and run further cycles with a cancelled context.               *)
CloseStopsLoop == \A p \in Pods : cancelled[p] ~> ~Up(p)

(* The comments in collect and tryLock: a repository is skipped because    *)
(* another instance holds its lock.                                        *)
SkipsOnlyForOthers ==
    [][\A p \in Pods : LockHeld(p) => owner[Current(p)] # p]_vars

(* The comment of ResetTrackedWorkflowMetrics: series are deleted before   *)
(* they are populated again, so a cycle leaves the series it emitted.      *)
SeriesOutliveCycle ==
    [][\A p \in Pods : FinishCycle(p) =>
          exposed[p] \cap collected[p] \subseteq exposed'[p]]_vars
=============================================================================
