--------------------------- MODULE CollectorProofs ---------------------------
(***************************************************************************)
(* Proofs about Collector, for any pods, repositories, interval, collection*)
(* time and number of disruptions: type correctness, the exclusiveness of  *)
(* leases, that the lock implements RepoLease, and that no repository is   *)
(* starved.                                                                *)
(***************************************************************************)
EXTENDS Collector, Integers, TLAPS

-----------------------------------------------------------------------------
(* Type correctness *)

(* The repository at an index of the loop is one of Repos. *)
LEMMA ConfiguredRepo ==
    ASSUME NEW i \in Configured
    PROVE  Repositories[i] \in Repos
  <1>1. DOMAIN Repositories = Configured
    BY RepositoriesAssumption DEF Configured
  <1> QED
    BY <1>1 DEF Repos

(* cfg.Repositories is finite, so the loop index is a number. *)
LEMMA LenIsNat == Len(Repositories) \in Nat
  BY RepositoriesAssumption

(* A pod that collects stands at an element of cfg.Repositories. *)
AtRepo == \A p \in Pods : CollectingNow(p) => next[p] \in Configured

(* The type invariant with what it needs to be inductive. *)
TypeInv == TypeOK /\ AtRepo

(* Every pod begins without a repository. *)
LEMMA TypeInvInit == Init => TypeInv
  BY TimesAssumption, LenIsNat
  DEF Init, TypeInv, TypeOK, PodTypeOK, TimeTypeOK, LockTypeOK, HistoryTypeOK,
      AtRepo, CollectingNow, PcValues, ModeValues

(* Every action of a pod, and of its environment, keeps the types. *)
LEMMA TypeInvStep == TypeInv /\ [Next]_vars => TypeInv'
  <1> SUFFICES ASSUME PodTypeOK, TimeTypeOK, LockTypeOK, HistoryTypeOK, AtRepo,
                      [Next]_vars
               PROVE  /\ PodTypeOK' /\ TimeTypeOK' /\ LockTypeOK'
                      /\ HistoryTypeOK' /\ AtRepo'
    BY DEF TypeInv, TypeOK
  <1> DEFINE Goal == /\ PodTypeOK' /\ TimeTypeOK' /\ LockTypeOK'
                     /\ HistoryTypeOK' /\ AtRepo'
  <1> USE TimesAssumption, LenIsNat
      DEF PodTypeOK, TimeTypeOK, LockTypeOK, HistoryTypeOK, AtRepo,
          CollectingNow, PcValues, ModeValues, Configured,
          podVars, timeVars, lockVars, history, Disrupt, SameDisruptions
  <1>1. ASSUME NEW p \in Pods, Start(p)
        PROVE  Goal
    BY <1>1 DEF Start
  <1>2. ASSUME NEW p \in Pods, Close(p)
        PROVE  Goal
    BY <1>2 DEF Close, Up
  <1>3. ASSUME NEW p \in Pods, Crash(p) \/ Exit(p)
        PROVE  Goal
    <2>1. disruptions' \in 0..MaxDisruptions
      BY <1>3 DEF Crash, Exit
    <2>2. Gone(p)
      BY <1>3 DEF Crash, Exit
    <2> QED
      BY <2>1, <2>2 DEF Gone
  <1>4. ASSUME NEW p \in Pods, ParseFails(p)
        PROVE  Goal
    BY <1>4 DEF ParseFails, NextRepo, InLoop
  <1>5. ASSUME NEW p \in Pods,
               LockGranted(p) \/ LockFails(p) \/ LockAfterClose(p)
        PROVE  Goal
    <2>1. AtLock(p) /\ Current(p) \in Repos
      BY <1>5, ConfiguredRepo
      DEF LockGranted, LockFails, LockAfterClose, AtLock, InLoop, Current
    <2>2. PICK m \in ModeValues : BeginCollection(p, m)
      BY <1>5 DEF LockGranted, LockFails, LockAfterClose
    <2>3. SetKey(p, Current(p)) \/ UNCHANGED lockVars
      BY <1>5 DEF LockGranted, LockFails, LockAfterClose
    <2>4. sinceGrant' \in [Repos -> 0..Interval]
      <3>1. CASE LockGranted(p)
        BY <3>1, <2>1 DEF LockGranted
      <3>2. CASE LockFails(p) \/ LockAfterClose(p)
        BY <3>2 DEF LockFails, LockAfterClose
      <3> QED
        BY <1>5, <3>1, <3>2
    <2>5. disruptions' \in 0..MaxDisruptions
      BY <1>5 DEF LockGranted, LockFails, LockAfterClose
    <2>6. PodTypeOK' /\ TimeTypeOK'
      BY <2>1, <2>2 DEF BeginCollection
    <2>7. LockTypeOK'
      <3>1. CASE SetKey(p, Current(p))
        BY <3>1, <2>1 DEF SetKey, LockTTL
      <3>2. CASE UNCHANGED lockVars
        BY <3>2
      <3> QED
        BY <2>3, <3>1, <3>2
    <2>8. HistoryTypeOK'
      BY <2>1, <2>2, <2>4, <2>5 DEF BeginCollection
    <2>9. AtRepo'
      BY <2>1, <2>2 DEF BeginCollection, AtLock, InLoop
    <2> QED
      BY <2>6, <2>7, <2>8, <2>9
  <1>6. ASSUME NEW p \in Pods, LockHeld(p)
        PROVE  Goal
    BY <1>6 DEF LockHeld, NextRepo, AtLock, InLoop
  <1>7. ASSUME NEW p \in Pods, LockRetried(p)
        PROVE  Goal
    <2>1. AtLock(p) /\ Current(p) \in Repos
      BY <1>7, ConfiguredRepo DEF LockRetried, AtLock, InLoop, Current
    <2>2. LockTypeOK'
      BY <1>7, <2>1 DEF LockRetried, SetKey, LockTTL
    <2> QED
      BY <1>7, <2>1, <2>2 DEF LockRetried, NextRepo, AtLock, InLoop
  <1>8. ASSUME NEW p \in Pods, FetchSucceeds(p)
        PROVE  Goal
    BY <1>8 DEF FetchSucceeds
  <1>9. ASSUME NEW p \in Pods, FetchFails(p) \/ RecordRuns(p)
        PROVE  Goal
    <2>1. Current(p) \in Repos
      BY <1>9, ConfiguredRepo DEF FetchFails, RecordRuns, Current
    <2>2. /\ EndCollection(p)
          /\ next[p] \in Configured
          /\ cycleErr' \in [Pods -> BOOLEAN]
      BY <1>9 DEF FetchFails, RecordRuns
    <2>3. exposed' \in [Pods -> SUBSET Repos]
      <3>1. CASE FetchFails(p)
        BY <3>1 DEF FetchFails
      <3>2. CASE RecordRuns(p)
        BY <3>2, <2>1 DEF RecordRuns
      <3> QED
        BY <1>9, <3>1, <3>2
    <2>4. PodTypeOK'
      <3>1. next' \in [Pods -> 1..(Len(Repositories) + 1)]
        BY <2>2 DEF EndCollection, NextRepo
      <3> QED
        BY <2>2, <2>3, <3>1 DEF EndCollection, NextRepo
    <2>5. AtRepo'
      BY <2>2 DEF EndCollection, NextRepo
    <2>6. TimeTypeOK' /\ LockTypeOK' /\ HistoryTypeOK'
      BY <2>2 DEF EndCollection
    <2> QED
      BY <2>4, <2>5, <2>6
  <1>10. ASSUME NEW p \in Pods, FinishCycle(p)
         PROVE  Goal
    BY <1>10 DEF FinishCycle
  <1>11. ASSUME NEW p \in Pods, StartCycle(p)
         PROVE  Goal
    BY <1>11 DEF StartCycle
  <1>12. ASSUME NEW p \in Pods, Stop(p)
         PROVE  Goal
    BY <1>12 DEF Stop
  <1>13. ASSUME Tick
         PROVE  Goal
    <2>1. PodTypeOK' /\ AtRepo'
      BY <1>13 DEF Tick
    <2>2. TimeTypeOK'
      BY <1>13 DEF Tick, TickersAdvance
    <2>3. LockTypeOK'
      BY <1>13 DEF Tick, TTLAfterTick
    <2>4. HistoryTypeOK'
      BY <1>13 DEF Tick, MayElapse
    <2> QED
      BY <2>1, <2>2, <2>3, <2>4
  <1>14. ASSUME ValkeyLosesKeys
         PROVE  Goal
    BY <1>14 DEF ValkeyLosesKeys
  <1>15. ASSUME UNCHANGED vars
         PROVE  Goal
    BY <1>15 DEF vars
  <1> QED
    BY <1>1, <1>2, <1>3, <1>4, <1>5, <1>6, <1>7, <1>8, <1>9, <1>10, <1>11,
       <1>12, <1>13, <1>14, <1>15 DEF Next, PodStep

(* Every variable of the collector and of Valkey keeps its type. *)
THEOREM TypeCorrect == Spec => []TypeOK
  <1>1. TypeInv => TypeOK
    BY DEF TypeInv
  <1> QED
    BY <1>1, TypeInvInit, TypeInvStep, PTL DEF Spec

-----------------------------------------------------------------------------
(* Exclusive leases *)

(* The inductive step: a key that backs a lease is neither taken over by   *)
(* another pod nor gone before the lease is, and loses a clock unit of its *)
(* lifetime whenever the collection that rests on it has spent one.        *)
LEMMA LeaseStep == TypeInv /\ LeaseBacked /\ [Next]_vars => LeaseBacked'
  <1> SUFFICES ASSUME TypeInv, LeaseBacked, [Next]_vars,
                      NEW q \in Pods, Protected(q)'
               PROVE  /\ owner'[Current(q)'] = q
                      /\ ttl'[Current(q)'] = Interval - spent'[q]
    BY DEF LeaseBacked
  <1> DEFINE Backed == /\ owner'[Current(q)'] = q
                       /\ ttl'[Current(q)'] = Interval - spent'[q]
             Kept   == /\ Protected(q)
                       /\ Current(q)' = Current(q)
                       /\ spent'[q] = spent[q]
  <1> USE TimesAssumption DEF podVars, timeVars, lockVars, history
  <1>0. /\ \A r \in Repos : ttl[r] \in Nat
        /\ \A p \in Pods : spent[p] \in Nat
        /\ \A p \in Pods : CollectingNow(p) => Current(p) \in Repos
    BY ConfiguredRepo
    DEF TypeInv, TypeOK, LockTypeOK, HistoryTypeOK, AtRepo, Current
  <1>A. ASSUME Kept, UNCHANGED lockVars
        PROVE  Backed
    BY <1>A DEF LeaseBacked
  <1>B. ASSUME Kept, NEW r \in Repos, NEW p \in Pods, KeyIsFree(r), SetKey(p, r)
        PROVE  Backed
    <2>1. /\ owner[Current(q)] = q
          /\ ttl[Current(q)] = Interval - spent[q]
      BY <1>B DEF LeaseBacked
    <2>2. Current(q) # r
      BY <1>0, <1>B, <2>1 DEF KeyIsFree, Protected
    <2> QED
      BY <1>B, <2>1, <2>2 DEF SetKey
  <1>1. ASSUME NEW p \in Pods,
               \/ Start(p) \/ Close(p) \/ Crash(p) \/ Exit(p) \/ ParseFails(p)
               \/ LockHeld(p) \/ FetchSucceeds(p) \/ FetchFails(p)
               \/ RecordRuns(p) \/ FinishCycle(p) \/ StartCycle(p) \/ Stop(p)
        PROVE  Backed
    <2> USE DEF Protected, CollectingNow, Current, TypeInv, TypeOK, PodTypeOK,
                HistoryTypeOK
    <2>1. CASE Start(p)
      BY <2>1, <1>A DEF Start
    <2>2. CASE Close(p)
      BY <2>2, <1>A DEF Close
    <2>3. CASE Crash(p) \/ Exit(p)
      <3>1. Gone(p)
        BY <2>3 DEF Crash, Exit
      <3> QED
        BY <3>1, <1>A DEF Gone
    <2>4. CASE ParseFails(p)
      BY <2>4, <1>A DEF ParseFails, NextRepo
    <2>5. CASE LockHeld(p)
      BY <2>5, <1>A DEF LockHeld, NextRepo
    <2>6. CASE FetchSucceeds(p)
      BY <2>6, <1>A DEF FetchSucceeds
    <2>7. CASE FetchFails(p) \/ RecordRuns(p)
      <3>1. EndCollection(p)
        BY <2>7 DEF FetchFails, RecordRuns
      <3> QED
        BY <3>1, <1>A DEF EndCollection, NextRepo
    <2>8. CASE FinishCycle(p)
      BY <2>8, <1>A DEF FinishCycle
    <2>9. CASE StartCycle(p)
      BY <2>9, <1>A DEF StartCycle
    <2>10. CASE Stop(p)
      BY <2>10, <1>A DEF Stop
    <2> QED
      BY <1>1, <2>1, <2>2, <2>3, <2>4, <2>5, <2>6, <2>7, <2>8, <2>9, <2>10
  <1>2. ASSUME NEW p \in Pods, LockGranted(p)
        PROVE  Backed
    <2>1. Current(p) \in Repos
      BY <1>2, ConfiguredRepo DEF LockGranted, AtLock, InLoop, Current
    <2>2. CASE q = p
      BY <1>2, <2>1, <2>2
      DEF LockGranted, SetKey, LockTTL, BeginCollection, Current, TypeInv,
          TypeOK, LockTypeOK, HistoryTypeOK
    <2>3. CASE q # p
      <3>1. Kept
        BY <1>2, <2>3
        DEF LockGranted, BeginCollection, Protected, CollectingNow, Current,
            TypeInv, TypeOK, PodTypeOK, HistoryTypeOK
      <3> QED
        BY <1>2, <2>1, <3>1, <1>B DEF LockGranted
    <2> QED
      BY <2>2, <2>3
  <1>3. ASSUME NEW p \in Pods, LockFails(p) \/ LockAfterClose(p)
        PROVE  Backed
    <2>1. /\ BeginCollection(p, "degraded")
          /\ Current(p) \in Repos
          /\ \/ KeyIsFree(Current(p)) /\ SetKey(p, Current(p))
             \/ UNCHANGED lockVars
      BY <1>3, ConfiguredRepo
      DEF LockFails, LockAfterClose, AtLock, InLoop, Current
    <2>2. Kept
      BY <2>1
      DEF BeginCollection, Protected, CollectingNow, Current, TypeInv,
          TypeOK, PodTypeOK, HistoryTypeOK
    <2> QED
      BY <2>1, <2>2, <1>A, <1>B
  <1>4. ASSUME NEW p \in Pods, LockRetried(p)
        PROVE  Backed
    <2>1. Current(p) \in Repos
      BY <1>4, ConfiguredRepo DEF LockRetried, AtLock, InLoop, Current
    <2>2. Kept
      BY <1>4
      DEF LockRetried, NextRepo, Protected, CollectingNow, Current, TypeInv,
          TypeOK, PodTypeOK
    <2> QED
      BY <1>4, <2>1, <2>2, <1>B DEF LockRetried
  <1>5. ASSUME Tick
        PROVE  Backed
    <2>1. /\ CollectingNow(q) /\ mode[q] = "lease"
          /\ spent'[q] = spent[q] + 1
          /\ spent[q] + 1 < Interval
          /\ Current(q)' = Current(q)
      BY <1>5 DEF Tick, Protected, CollectingNow, Current
    <2>2. /\ Current(q) \in Repos
          /\ owner[Current(q)] = q
          /\ ttl[Current(q)] = Interval - spent[q]
      BY <2>1, <1>0 DEF LeaseBacked, Protected
    <2>3. /\ ttl'[Current(q)] = TTLAfterTick(ttl[Current(q)])
          /\ owner'[Current(q)] = IF ttl'[Current(q)] = 0
                                  THEN NoPod ELSE owner[Current(q)]
      BY <1>5, <2>2 DEF Tick
    <2>4. ttl'[Current(q)] = Interval - spent'[q] /\ ttl'[Current(q)] # 0
      BY <2>1, <2>2, <2>3, <1>0 DEF TTLAfterTick
    <2> QED
      BY <2>1, <2>2, <2>3, <2>4
  <1>6. ASSUME ValkeyLosesKeys
        PROVE  Backed
    BY <1>6 DEF ValkeyLosesKeys, Protected
  <1>7. ASSUME UNCHANGED vars
        PROVE  Backed
    BY <1>7, <1>A DEF vars, Protected, CollectingNow, Current
  <1> QED
    BY <1>1, <1>2, <1>3, <1>4, <1>5, <1>6, <1>7 DEF Next, PodStep

(* Within its lifetime a lease is backed by its key. *)
THEOREM LeasesAreBacked == Spec => []LeaseBacked
  <1>1. Init => LeaseBacked
    BY DEF Init, LeaseBacked, Protected, CollectingNow
  <1> QED
    BY <1>1, TypeInvInit, TypeInvStep, LeaseStep, PTL DEF Spec

(* Two pods never collect one repository on leases that are both live.     *)
THEOREM LeasesAreExclusive == Spec => []LeaseExclusive
  <1>1. LeaseBacked => LeaseExclusive
    BY DEF LeaseBacked, LeaseExclusive
  <1> QED
    BY <1>1, LeasesAreBacked, PTL

-----------------------------------------------------------------------------
(* The lock implements RepoLease *)

(* The key of a repository outlives the interval that follows a grant.     *)
LEMMA GrantStep == TypeInv /\ GrantBacked /\ [Next]_vars => GrantBacked'
  <1> SUFFICES ASSUME TypeInv, GrantBacked, [Next]_vars, NEW r \in Repos
               PROVE  ttl'[r] + sinceGrant'[r] >= Interval
    BY DEF GrantBacked
  <1> USE TimesAssumption DEF podVars, timeVars, lockVars, history
  <1>0. /\ ttl \in [Repos -> 0..Interval]
        /\ sinceGrant \in [Repos -> 0..Interval]
        /\ ttl[r] + sinceGrant[r] >= Interval
    BY DEF TypeInv, TypeOK, LockTypeOK, HistoryTypeOK, GrantBacked
  <1>1. ASSUME NEW k \in Repos, NEW p \in Pods, SetKey(p, k),
               \/ UNCHANGED sinceGrant
               \/ sinceGrant' = [sinceGrant EXCEPT ![k] = 0]
        PROVE  ttl'[r] + sinceGrant'[r] >= Interval
    BY <1>0, <1>1 DEF SetKey, LockTTL
  <1>2. ASSUME NEW p \in Pods, LockGranted(p) \/ LockFails(p) \/ LockRetried(p)
        PROVE  ttl'[r] + sinceGrant'[r] >= Interval
    <2>1. Current(p) \in Repos
      BY <1>2, ConfiguredRepo
      DEF LockGranted, LockFails, LockRetried, AtLock, InLoop, Current
    <2>2. CASE LockGranted(p)
      BY <2>1, <2>2, <1>1 DEF LockGranted
    <2>3. CASE LockFails(p)
      BY <2>1, <2>3, <1>0, <1>1 DEF LockFails
    <2>4. CASE LockRetried(p)
      BY <2>1, <2>4, <1>1 DEF LockRetried
    <2> QED
      BY <1>2, <2>2, <2>3, <2>4
  <1>3. ASSUME Tick
        PROVE  ttl'[r] + sinceGrant'[r] >= Interval
    BY <1>0, <1>3 DEF Tick, TTLAfterTick
  <1>4. ASSUME ValkeyLosesKeys
        PROVE  ttl'[r] + sinceGrant'[r] >= Interval
    BY <1>4 DEF ValkeyLosesKeys
  <1>5. ASSUME UNCHANGED <<ttl, sinceGrant>>
        PROVE  ttl'[r] + sinceGrant'[r] >= Interval
    BY <1>0, <1>5
  <1>6. ASSUME NEW p \in Pods,
               \/ Start(p) \/ Close(p) \/ Crash(p) \/ Exit(p) \/ ParseFails(p)
               \/ LockHeld(p) \/ LockAfterClose(p) \/ FetchSucceeds(p)
               \/ FetchFails(p) \/ RecordRuns(p) \/ FinishCycle(p)
               \/ StartCycle(p) \/ Stop(p)
        PROVE  UNCHANGED <<ttl, sinceGrant>>
    BY <1>6
    DEF Start, Close, Crash, Exit, Gone, ParseFails, LockHeld, LockAfterClose,
        FetchSucceeds, FetchFails, RecordRuns, EndCollection, FinishCycle,
        StartCycle, Stop
  <1> QED
    BY <1>2, <1>3, <1>4, <1>5, <1>6 DEF Next, PodStep, vars

(* A granted lock covers the interval after its grant: the key is there for what is left. *)
THEOREM GrantsAreBacked == Spec => []GrantBacked
  <1>1. Init => GrantBacked
    BY TimesAssumption DEF Init, GrantBacked
  <1> QED
    BY <1>1, TypeInvInit, TypeInvStep, GrantStep, PTL DEF Spec

(* Every step of the collector is a step of RepoLease or leaves it as it   *)
(* is: only a granted lock counts as a grant, and only a free key is       *)
(* granted, which by GrantBacked means that the interval is over.          *)
LEMMA LeaseSimulation ==
    TypeInv /\ GrantBacked /\ [Next]_vars => [Lease!LeaseNext]_sinceGrant
  <1> SUFFICES ASSUME TypeInv, GrantBacked, [Next]_vars
               PROVE  Lease!LeaseNext \/ UNCHANGED sinceGrant
    OBVIOUS
  <1> USE DEF podVars, timeVars, lockVars, history
  <1>1. ASSUME NEW p \in Pods, LockGranted(p)
        PROVE  \E r \in Repos : Lease!Grant(r)
    <2>1. Current(p) \in Repos
      BY <1>1, ConfiguredRepo DEF LockGranted, AtLock, InLoop, Current
    <2>2. sinceGrant[Current(p)] = Interval
      <3>1. ttl[Current(p)] = 0
        BY <1>1 DEF LockGranted, KeyIsFree
      <3>2. sinceGrant[Current(p)] \in 0..Interval
        BY <2>1 DEF TypeInv, TypeOK, HistoryTypeOK
      <3>3. ttl[Current(p)] + sinceGrant[Current(p)] >= Interval
        BY <2>1 DEF GrantBacked
      <3> QED
        BY <3>1, <3>2, <3>3, TimesAssumption
    <2>3. Lease!Grant(Current(p))
      BY <1>1, <2>2 DEF LockGranted, Lease!Grant
    <2> QED
      BY <2>1, <2>3
  <1>2. Tick => Lease!Elapse
    BY DEF Tick, Lease!Elapse
  <1>3. ValkeyLosesKeys => Lease!Forget
    BY DEF ValkeyLosesKeys, Lease!Forget
  <1>4. ASSUME NEW p \in Pods,
               \/ Start(p) \/ Close(p) \/ Crash(p) \/ Exit(p) \/ ParseFails(p)
               \/ LockHeld(p) \/ LockFails(p) \/ LockRetried(p)
               \/ LockAfterClose(p) \/ FetchSucceeds(p) \/ FetchFails(p)
               \/ RecordRuns(p) \/ FinishCycle(p) \/ StartCycle(p) \/ Stop(p)
        PROVE  UNCHANGED sinceGrant
    BY <1>4
    DEF Start, Close, Crash, Exit, Gone, ParseFails, LockHeld, LockFails,
        LockRetried, LockAfterClose, FetchSucceeds, FetchFails, RecordRuns,
        EndCollection, FinishCycle, StartCycle, Stop
  <1>5. UNCHANGED vars => UNCHANGED sinceGrant
    BY DEF vars
  <1> QED
    BY <1>1, <1>2, <1>3, <1>4, <1>5 DEF Next, PodStep, Lease!LeaseNext

(* The collector implements RepoLease: whatever crashes, fails or is       *)
(* retried, two grants of a repository are at least one interval apart.    *)
THEOREM CollectorImplementsLease == Spec => GrantsAreSpaced
  <1>1. Init => Lease!LeaseInit
    BY DEF Init, Lease!LeaseInit
  <1> QED
    BY <1>1, TypeInvInit, TypeInvStep, GrantsAreBacked, LeaseSimulation, PTL
    DEF Spec, GrantsAreSpaced, Lease!LeaseSpec

-----------------------------------------------------------------------------
(* Errors *)

(* The local error of a cycle remembers a malformed name once the loop has *)
(* passed it, and an idle pod has published the error of a whole cycle.    *)
SeenBy(p) ==
    /\ pc[p] \in {"loop", "fetch", "record"} =>
          \A i \in 1..(next[p] - 1) : Repositories[i] \in Malformed => cycleErr[p]
    /\ pc[p] = "idle" /\ Repos \cap Malformed # {} => lastErr[p]
    /\ pc[p] = "idle" => next[p] = 1
    /\ CollectingNow(p) => Current(p) \notin Malformed

MalformedSeen == \A p \in Pods : SeenBy(p)

(* Once the loop has passed a malformed name, its error stays to the end of the cycle. *)
LEMMA MalformedStep == TypeInv /\ MalformedSeen /\ [Next]_vars => MalformedSeen'
  <1> SUFFICES ASSUME TypeInv, MalformedSeen, [Next]_vars, NEW q \in Pods
               PROVE  SeenBy(q)'
    BY DEF MalformedSeen
  <1> USE LenIsNat
      DEF podVars, timeVars, lockVars, history, CollectingNow, Current, Configured
  <1>0. SeenBy(q)
    BY DEF MalformedSeen
  <1>T. PodTypeOK /\ AtRepo
    BY DEF TypeInv, TypeOK
  <1>A. ASSUME UNCHANGED podVars
        PROVE  SeenBy(q)'
    BY <1>0, <1>A DEF SeenBy
  <1>1. ASSUME NEW p \in Pods, Start(p)
        PROVE  SeenBy(q)'
    BY <1>0, <1>T, <1>1 DEF Start, SeenBy, PodTypeOK
  <1>2. ASSUME NEW p \in Pods, Close(p)
        PROVE  SeenBy(q)'
    BY <1>0, <1>T, <1>2 DEF Close, SeenBy, PodTypeOK
  <1>3. ASSUME NEW p \in Pods, Crash(p) \/ Exit(p)
        PROVE  SeenBy(q)'
    <2>1. Gone(p)
      BY <1>3 DEF Crash, Exit
    <2> QED
      BY <1>0, <1>T, <2>1 DEF Gone, SeenBy, PodTypeOK
  <1>4. ASSUME NEW p \in Pods, ParseFails(p)
        PROVE  SeenBy(q)'
    BY <1>0, <1>T, <1>4 DEF ParseFails, NextRepo, InLoop, SeenBy, PodTypeOK
  <1>5. ASSUME NEW p \in Pods,
               LockGranted(p) \/ LockFails(p) \/ LockAfterClose(p)
        PROVE  SeenBy(q)'
    <2>1. AtLock(p)
      BY <1>5 DEF LockGranted, LockFails, LockAfterClose
    <2>2. PICK m \in ModeValues : BeginCollection(p, m)
      BY <1>5 DEF LockGranted, LockFails, LockAfterClose, ModeValues
    <2> QED
      BY <1>0, <1>T, <2>1, <2>2
      DEF AtLock, InLoop, BeginCollection, SeenBy, PodTypeOK
  <1>6. ASSUME NEW p \in Pods, LockHeld(p) \/ LockRetried(p)
        PROVE  SeenBy(q)'
    <2>1. AtLock(p) /\ NextRepo(p) /\ UNCHANGED cycleErr
      BY <1>6 DEF LockHeld, LockRetried
    <2> QED
      BY <1>0, <1>T, <2>1 DEF AtLock, InLoop, NextRepo, SeenBy, PodTypeOK
  <1>7. ASSUME NEW p \in Pods, FetchSucceeds(p)
        PROVE  SeenBy(q)'
    BY <1>0, <1>T, <1>7 DEF FetchSucceeds, SeenBy, PodTypeOK
  <1>8. ASSUME NEW p \in Pods, FetchFails(p) \/ RecordRuns(p)
        PROVE  SeenBy(q)'
    <2>1. /\ CollectingNow(p) /\ NextRepo(p)
          /\ \/ UNCHANGED cycleErr
             \/ cycleErr' = [cycleErr EXCEPT ![p] = TRUE]
      BY <1>8 DEF FetchFails, RecordRuns, EndCollection
    <2> QED
      BY <1>0, <1>T, <2>1 DEF AtRepo, NextRepo, SeenBy, PodTypeOK
  <1>9. ASSUME NEW p \in Pods, FinishCycle(p)
        PROVE  SeenBy(q)'
    <2>1. CASE q = p
      <3>1. next[p] = Len(Repositories) + 1
        BY <1>9, <1>T DEF FinishCycle, PodTypeOK
      <3>2. Repos \cap Malformed # {} => cycleErr[p]
        <4> SUFFICES ASSUME NEW r \in Repos, r \in Malformed
                     PROVE  cycleErr[p]
          OBVIOUS
        <4>1. PICK i \in 1..Len(Repositories) : Repositories[i] = r
          BY RepositoriesAssumption DEF Repos
        <4>2. i \in 1..(next[p] - 1)
          BY <3>1
        <4> QED
          BY <1>0, <1>9, <2>1, <4>1, <4>2 DEF SeenBy, FinishCycle
      <3>3. lastErr'[p] = cycleErr[p] /\ pc'[p] = "idle"
        BY <1>9, <1>T DEF FinishCycle, PodTypeOK
      <3>4. next'[p] = 1
        BY <1>9, <1>T DEF FinishCycle, PodTypeOK
      <3> QED
        BY <2>1, <3>2, <3>3, <3>4 DEF SeenBy
    <2>2. CASE q # p
      BY <1>0, <1>T, <1>9, <2>2 DEF FinishCycle, SeenBy, PodTypeOK
    <2> QED
      BY <2>1, <2>2
  <1>10. ASSUME NEW p \in Pods, StartCycle(p) \/ Stop(p)
         PROVE  SeenBy(q)'
    <2>1. CASE StartCycle(p)
      BY <1>0, <1>T, <2>1 DEF StartCycle, SeenBy, PodTypeOK
    <2>2. CASE Stop(p)
      BY <1>0, <1>T, <2>2 DEF Stop, SeenBy, PodTypeOK
    <2> QED
      BY <1>10, <2>1, <2>2
  <1>11. CASE Tick \/ ValkeyLosesKeys \/ UNCHANGED vars
    BY <1>11, <1>A DEF Tick, ValkeyLosesKeys, vars
  <1> QED
    BY <1>1, <1>2, <1>3, <1>4, <1>5, <1>6, <1>7, <1>8, <1>9, <1>10, <1>11
    DEF Next, PodStep

(* After every cycle Ping reports the malformed names of the configuration.*)
THEOREM MalformedNamesAreReported == Spec => []MalformedIsReported
  <1>1. Init => MalformedSeen
    BY DEF Init, MalformedSeen, SeenBy, CollectingNow
  <1>2. MalformedSeen => MalformedIsReported
    BY DEF MalformedSeen, SeenBy, MalformedIsReported
  <1> QED
    BY <1>1, <1>2, TypeInvInit, TypeInvStep, MalformedStep, PTL DEF Spec

-----------------------------------------------------------------------------
(* No starvation *)

(* The time n repositories take, and the budget of d disruptions: products *)
(* of which only the following facts are used.                             *)
Time(n) == n * MaxBusy
Budget(d) == d * LongestWait

(* Times of repositories add up and grow with their number.                *)
LEMMA TimeFacts ==
    /\ \A n \in Int : Time(n) \in Int
    /\ \A n \in Nat : Time(n) \in Nat
    /\ \A m, n \in Int : m = n + 1 => Time(m) = Time(n) + MaxBusy
    /\ \A m, n \in Int : m <= n => Time(m) <= Time(n)
    /\ \A m, n, k \in Int : m + n = k => Time(m) + Time(n) = Time(k)
    /\ Time(0) = 0 /\ Time(1) = MaxBusy
  <1>1. MaxBusy \in Nat
    BY TimesAssumption
  <1>2. \A n \in Int : Time(n) \in Int
    BY <1>1, Z3 DEF Time
  <1>3. \A n \in Nat : Time(n) \in Nat
    BY <1>1, Z3 DEF Time
  <1>4. \A m, n \in Int : m = n + 1 => Time(m) = Time(n) + MaxBusy
    BY <1>1, Z3 DEF Time
  <1>5. \A m, n \in Int : m <= n => Time(m) <= Time(n)
    BY <1>1, Z3 DEF Time
  <1>6. \A m, n, k \in Int : m + n = k => Time(m) + Time(n) = Time(k)
    BY <1>1, Z3 DEF Time
  <1>7. Time(0) = 0 /\ Time(1) = MaxBusy
    BY <1>1, Z3 DEF Time
  <1> QED
    BY <1>2, <1>3, <1>4, <1>5, <1>6, <1>7

(* A pass over all repositories and an interval fit into the longest wait. *)
LEMMA WaitFacts ==
    /\ LongestWait \in Nat
    /\ Interval + Time(Len(Repositories)) < LongestWait
    /\ 2 * Interval + Time(Len(Repositories) - 1) <= LongestWait
    /\ \A d \in Nat : Budget(d) \in Nat /\ Budget(d + 1) = Budget(d) + LongestWait
    /\ disruptions \in Nat => StarvationBound = Budget(disruptions + 1)
  <1>1. Len(Repositories) \in Nat /\ Len(Repositories) - 1 \in Nat
    BY RepositoriesAssumption, SelfTestAssumption
  <1>2. LongestWait = Interval + LongestHold + Time(Len(Repositories) - 1)
    BY DEF LongestWait, Time
  <1>3. MaxBusy \in Nat /\ Interval \in Nat
    BY TimesAssumption
  <1>4. Time(Len(Repositories) - 1) \in Nat
    BY <1>1, TimeFacts
  <1>5. Time(Len(Repositories)) = Time(Len(Repositories) - 1) + MaxBusy
    <2>1. Len(Repositories) = (Len(Repositories) - 1) + 1
      BY <1>1
    <2> QED
      BY <1>1, <2>1, TimeFacts
  <1>6. /\ LongestHold \in Nat
        /\ LongestHold >= Interval /\ LongestHold > MaxBusy
    BY TimesAssumption DEF LongestHold
  <1>7. LongestWait \in Nat
    BY <1>2, <1>3, <1>4, <1>6
  <1>8. Interval + Time(Len(Repositories)) < LongestWait
    BY <1>2, <1>3, <1>4, <1>5, <1>6
  <1>9. 2 * Interval + Time(Len(Repositories) - 1) <= LongestWait
    BY <1>2, <1>3, <1>4, <1>6
  <1>10. \A d \in Nat : Budget(d) \in Nat /\ Budget(d + 1) = Budget(d) + LongestWait
    BY <1>7, Z3 DEF Budget
  <1>11. disruptions \in Nat => StarvationBound = Budget(disruptions + 1)
    BY DEF StarvationBound, Budget
  <1> QED
    BY <1>7, <1>8, <1>9, <1>10, <1>11

Larger(a, b) == IF a < b THEN b ELSE a

(* How long a cycle in progress goes on at most, how long it is to the     *)
(* next one, and how long until the pod tries the lock of repository i.    *)
RestOfCycle(p) ==
    IF CollectingNow(p)
    THEN (MaxBusy - spent[p]) + Time(Len(Repositories) - next[p])
    ELSE IF pc[p] = "loop" THEN Time(Len(Repositories) + 1 - next[p]) ELSE 0

UntilCycle(p) ==
    IF pending[p] THEN RestOfCycle(p)
    ELSE IF ticker[p] = 0 THEN RestOfCycle(p) + Interval
    ELSE Larger(RestOfCycle(p), ticker[p])

Before(p, i) == (pc[p] = "loop" /\ next[p] <= i) \/ (CollectingNow(p) /\ next[p] < i)

UntilTry(p, i) ==
    IF ~Before(p, i) THEN UntilCycle(p) + Time(i - 1)
    ELSE IF pc[p] = "loop" THEN Time(i - next[p])
    ELSE (MaxBusy - spent[p]) + Time(i - next[p] - 1)

Waits(p) == Up(p) /\ ~cancelled[p]

(* What a pod has waited for a repository, and still waits until it tries  *)
(* again, is within the bound; a lock that stands leaves time for a wait.  *)
WaitAt(p, i) ==
    LET w == waited[p][Repositories[i]]
        lock == ttl[Repositories[i]]
    IN  IF Waits(p)
        THEN /\ w + UntilTry(p, i) < Budget(disruptions + 1)
             /\ lock > 0 => w + lock <= Budget(disruptions) + Interval
        ELSE w = 0

Named == {i \in Configured : Repositories[i] \notin Malformed}

(* An idle pod has a ticker, or it would wait for ever; a pod without one  *)
(* has no tick pending.                                                    *)
TickerInv ==
    \A p \in Pods : /\ pc[p] = "idle" => ticker[p] > 0
                    /\ pending[p] => ticker[p] > 0
                    /\ pc[p] \in {"down", "stopped"} => ticker[p] = 0

WaitInv == TickerInv /\ \A p \in Pods : \A i \in Named : WaitAt(p, i)

(* Starting, losing and gaining a tick keep the tickers as they should be. *)
LEMMA TickerStep == TypeInv /\ TickerInv /\ [Next]_vars => TickerInv'
  <1> SUFFICES ASSUME PodTypeOK, TimeTypeOK, TickerInv, [Next]_vars, NEW q \in Pods
               PROVE  /\ pc'[q] = "idle" => ticker'[q] > 0
                      /\ pending'[q] => ticker'[q] > 0
                      /\ pc'[q] \in {"down", "stopped"} => ticker'[q] = 0
    BY DEF TypeInv, TypeOK, TickerInv
  <1> DEFINE Goal == /\ pc'[q] = "idle" => ticker'[q] > 0
                     /\ pending'[q] => ticker'[q] > 0
                     /\ pc'[q] \in {"down", "stopped"} => ticker'[q] = 0
  <1> USE TimesAssumption DEF PodTypeOK, TimeTypeOK, TickerInv, podVars, timeVars
  <1>1. ASSUME NEW p \in Pods, Start(p) \/ Close(p)
        PROVE  Goal
    BY <1>1 DEF Start, Close
  <1>2. ASSUME NEW p \in Pods, Crash(p) \/ Exit(p)
        PROVE  Goal
    <2>1. Gone(p)
      BY <1>2 DEF Crash, Exit
    <2> QED
      BY <2>1 DEF Gone
  <1>3. ASSUME NEW p \in Pods,
               LockGranted(p) \/ LockFails(p) \/ LockAfterClose(p)
        PROVE  Goal
    <2>1. \E m \in ModeValues : BeginCollection(p, m)
      BY <1>3 DEF LockGranted, LockFails, LockAfterClose, ModeValues
    <2> QED
      BY <2>1 DEF BeginCollection
  <1>4. ASSUME NEW p \in Pods,
               \/ ParseFails(p) \/ LockHeld(p) \/ LockRetried(p)
               \/ FetchSucceeds(p) \/ FetchFails(p) \/ RecordRuns(p)
        PROVE  Goal
    BY <1>4
    DEF ParseFails, LockHeld, LockRetried, FetchSucceeds, FetchFails,
        RecordRuns, EndCollection, NextRepo
  <1>5. ASSUME NEW p \in Pods, FinishCycle(p) \/ StartCycle(p)
        PROVE  Goal
    <2>1. CASE FinishCycle(p)
      BY <2>1 DEF FinishCycle
    <2>2. CASE StartCycle(p)
      BY <2>2 DEF StartCycle
    <2> QED
      BY <1>5, <2>1, <2>2
  <1>6. ASSUME NEW p \in Pods, Stop(p)
        PROVE  Goal
    BY <1>6 DEF Stop
  <1>7. ASSUME Tick
        PROVE  Goal
    BY <1>7 DEF Tick, TickersAdvance
  <1>8. ASSUME ValkeyLosesKeys \/ UNCHANGED vars
        PROVE  Goal
    BY <1>8 DEF ValkeyLosesKeys, vars
  <1> QED
    BY <1>1, <1>2, <1>3, <1>4, <1>5, <1>6, <1>7, <1>8 DEF Next, PodStep

(* What a pod still waits is a number below the longest wait.              *)
LEMMA TryRange ==
    ASSUME TypeInv, NEW p \in Pods, Up(p), NEW i \in Configured
    PROVE  /\ RestOfCycle(p) \in Nat
           /\ UntilCycle(p) \in Nat /\ UntilCycle(p) <= RestOfCycle(p) + Interval
           /\ UntilTry(p, i) \in Nat /\ UntilTry(p, i) < LongestWait
  <1> DEFINE L == Len(Repositories)
  <1>1. /\ L \in Nat /\ i \in 1..L /\ next[p] \in 1..(L + 1)
        /\ CollectingNow(p) => next[p] \in 1..L
        /\ spent[p] \in 0..MaxBusy /\ MaxBusy \in Nat /\ Interval \in Nat
        /\ ticker[p] \in 0..Interval /\ pending[p] \in BOOLEAN
    BY LenIsNat, TimesAssumption
    DEF TypeInv, TypeOK, PodTypeOK, TimeTypeOK, HistoryTypeOK, AtRepo, Configured
  <1>0. /\ MaxBusy - spent[p] \in Nat /\ MaxBusy - spent[p] <= MaxBusy
        /\ MaxBusy \in Nat /\ Interval \in Nat
    BY <1>1
  <1>2. /\ pc[p] = "loop" => ~CollectingNow(p)
        /\ pc[p] = "idle" => ~CollectingNow(p)
        /\ CollectingNow(p) \/ pc[p] = "loop" \/ pc[p] = "idle"
    BY DEF Up, CollectingNow
  <1>3. ASSUME NEW m \in Nat, NEW n \in Nat, m <= n
        PROVE  Time(m) \in Nat /\ Time(n) \in Nat /\ Time(m) <= Time(n)
    <2>1. n - m \in Nat
      BY <1>3
    <2>2. Time(m) + Time(n - m) = Time(n)
      BY <2>1, TimeFacts
    <2> QED
      BY <2>1, <2>2, TimeFacts
  <1>4. RestOfCycle(p) \in Nat
    <2>1. CASE CollectingNow(p)
      <3>1. L - next[p] \in Nat
        BY <1>1, <2>1
      <3>2. Time(L - next[p]) \in Nat
        BY <3>1, TimeFacts
      <3> QED
        BY <1>1, <2>1, <3>2 DEF RestOfCycle
    <2>2. CASE pc[p] = "loop"
      <3>1. L + 1 - next[p] \in Nat
        BY <1>1
      <3>2. Time(L + 1 - next[p]) \in Nat
        BY <3>1, TimeFacts
      <3> QED
        BY <1>1, <1>2, <2>2, <3>2 DEF RestOfCycle
    <2>3. CASE pc[p] = "idle"
      BY <1>2, <2>3 DEF RestOfCycle
    <2> QED
      BY <1>2, <2>1, <2>2, <2>3
  <1>5. UntilCycle(p) \in Nat /\ UntilCycle(p) <= RestOfCycle(p) + Interval
    BY <1>1, <1>4 DEF UntilCycle, Larger
  <1>6. UntilTry(p, i) \in Nat /\ UntilTry(p, i) <= Interval + Time(L)
    <2>0. Time(i - 1) \in Nat /\ Time(L) \in Nat /\ Time(i - 1) <= Time(L)
      <3>1. i - 1 \in Nat /\ L \in Nat /\ i - 1 <= L
        BY <1>1
      <3> QED
        BY <3>1, <1>3
    <2>1. CASE Before(p, i) /\ pc[p] = "loop"
      <3>1. next[p] <= i
        BY <1>2, <2>1 DEF Before
      <3>2. i - next[p] \in Nat /\ i - next[p] <= L
        BY <1>1, <3>1
      <3>3. Time(i - next[p]) \in Nat /\ Time(i - next[p]) <= Time(L)
        BY <1>1, <3>2, <1>3
      <3> QED
        BY <1>1, <2>0, <2>1, <3>3 DEF UntilTry
    <2>2. CASE Before(p, i) /\ pc[p] # "loop"
      <3>1. next[p] < i
        BY <2>2 DEF Before
      <3>2. i - next[p] - 1 \in Nat /\ i - next[p] \in Nat /\ i - next[p] <= L
        BY <1>1, <3>1
      <3>3. Time(i - next[p]) = Time(i - next[p] - 1) + MaxBusy
        <4>1. PICK k \in Nat : k = i - next[p] - 1
          BY <3>2
        <4>2. i - next[p] = k + 1
          BY <1>1, <4>1
        <4>3. Time(k + 1) = Time(k) + MaxBusy
          BY TimeFacts
        <4> QED
          BY <4>1, <4>2, <4>3
      <3>4. Time(i - next[p]) <= Time(L) /\ Time(i - next[p] - 1) \in Nat
        BY <1>1, <3>2, <1>3, TimeFacts
      <3>5. UntilTry(p, i) = (MaxBusy - spent[p]) + Time(i - next[p] - 1)
        BY <2>2 DEF UntilTry
      <3> QED
        BY <1>0, <2>0, <3>3, <3>4, <3>5
    <2>3. CASE ~Before(p, i)
      <3>1. RestOfCycle(p) <= Time(L - i) + MaxBusy
        <4>0. Time(L - i) \in Nat
          <5>1. L - i \in Nat
            BY <1>1
          <5> QED
            BY <5>1, TimeFacts
        <4>1. CASE CollectingNow(p)
          <5>1. next[p] >= i
            BY <1>1, <2>3, <4>1 DEF Before
          <5>2. L - next[p] \in Nat /\ L - i \in Nat /\ L - next[p] <= L - i
            BY <1>1, <4>1, <5>1
          <5>3. Time(L - next[p]) \in Nat /\ Time(L - next[p]) <= Time(L - i)
            BY <5>2, <1>3
          <5> QED
            BY <1>1, <4>0, <4>1, <5>3 DEF RestOfCycle
        <4>2. CASE pc[p] = "loop"
          <5>1. next[p] > i
            BY <1>1, <2>3, <4>2 DEF Before
          <5>2. /\ L + 1 - next[p] \in Nat /\ L - i \in Nat
                /\ L + 1 - next[p] <= L - i
            BY <1>1, <5>1
          <5>3. /\ Time(L + 1 - next[p]) \in Nat
                /\ Time(L + 1 - next[p]) <= Time(L - i)
            BY <5>2, <1>3
          <5> QED
            BY <1>1, <1>2, <4>0, <4>2, <5>3 DEF RestOfCycle
        <4>3. CASE pc[p] = "idle"
          BY <1>1, <1>2, <4>0, <4>3 DEF RestOfCycle
        <4> QED
          BY <1>2, <4>1, <4>2, <4>3
      <3>2. Time(L - i) + Time(i - 1) = Time(L - 1)
        <4>1. (L - i) + (i - 1) = L - 1 /\ L - i \in Int /\ i - 1 \in Int
          BY <1>1
        <4> QED
          BY <4>1, TimeFacts
      <3>3. Time(L - 1) + MaxBusy = Time(L)
        <4>1. L = (L - 1) + 1 /\ L - 1 \in Int
          BY <1>1
        <4> QED
          BY <4>1, TimeFacts
      <3>4. Time(L - i) \in Nat /\ Time(L - 1) \in Nat
        <4>1. L - i \in Nat /\ L - 1 \in Nat
          BY <1>1
        <4> QED
          BY <4>1, TimeFacts
      <3>5. UntilTry(p, i) = UntilCycle(p) + Time(i - 1)
        BY <2>3 DEF UntilTry
      <3>6. UntilTry(p, i) \in Nat
        BY <1>5, <2>0, <3>5
      <3> QED
        BY <1>0, <1>4, <1>5, <2>0, <3>1, <3>2, <3>3, <3>4, <3>5, <3>6, SMTT(60)
    <2> QED
      BY <2>1, <2>2, <2>3
  <1>7. UntilTry(p, i) < LongestWait
    <2>1. Time(L) \in Nat
      BY <1>1, TimeFacts
    <2>2. Interval + Time(L) < LongestWait /\ LongestWait \in Nat
      BY WaitFacts
    <2> QED
      BY <1>0, <1>6, <2>1, <2>2
  <1> QED
    BY <1>4, <1>5, <1>6, <1>7

(* The same in the next state.                                             *)
TryInRange == \A p \in Pods : \A i \in Configured :
    Up(p) => UntilTry(p, i) \in Nat /\ UntilTry(p, i) < LongestWait

(* A wait stays below the longest one after a step, too.                   *)
LEMMA TryRangeNext == TypeInv' => TryInRange'
  <1>1. TypeInv => TryInRange
    BY TryRange DEF TryInRange
  <1> QED
    BY <1>1, PTL

(* The ranges that the steps below compute with.                           *)
LEMMA WaitTypes ==
    ASSUME TypeInv, NEW p \in Pods, NEW i \in Named
    PROVE  /\ Repositories[i] \in Repos
           /\ waited[p][Repositories[i]] \in Nat
           /\ ttl[Repositories[i]] \in Nat /\ ttl[Repositories[i]] <= Interval
           /\ disruptions \in Nat
           /\ Budget(disruptions) \in Nat
           /\ Budget(disruptions + 1) = Budget(disruptions) + LongestWait
  <1>1. Repositories[i] \in Repos
    BY ConfiguredRepo DEF Named
  <1>2. disruptions \in Nat
    BY TimesAssumption DEF TypeInv, TypeOK, HistoryTypeOK
  <1>3. waited[p][Repositories[i]] \in Nat
    BY <1>1, TimesAssumption DEF TypeInv, TypeOK, HistoryTypeOK
  <1>4. ttl[Repositories[i]] \in Nat /\ ttl[Repositories[i]] <= Interval
    BY <1>1, TimesAssumption DEF TypeInv, TypeOK, LockTypeOK
  <1>5. /\ Budget(disruptions) \in Nat
        /\ Budget(disruptions + 1) = Budget(disruptions) + LongestWait
    BY <1>2, WaitFacts
  <1> QED
    BY <1>1, <1>2, <1>3, <1>4, <1>5

LockInRange == \A i \in Named :
    ttl[Repositories[i]] \in Nat /\ ttl[Repositories[i]] <= Interval

(* A lock lasts for one interval at most after a step, too.                *)
LEMMA LockRangeNext == TypeInv' => LockInRange'
  <1>1. TypeInv => LockInRange
    BY ConfiguredRepo, TimesAssumption
    DEF TypeInv, TypeOK, LockTypeOK, LockInRange, Named
  <1> QED
    BY <1>1, PTL

(* A pod whose wait begins is within the bound.                            *)
LEMMA WaitBegins ==
    ASSUME TypeInv, NEW p \in Pods, NEW i \in Named,
           waited[p][Repositories[i]] = 0
    PROVE  WaitAt(p, i)
  <1>1. CASE ~Waits(p)
    BY <1>1 DEF WaitAt
  <1>2. CASE Waits(p)
    <2>1. UntilTry(p, i) \in Nat /\ UntilTry(p, i) < LongestWait
      BY <1>2, TryRange DEF Waits, Named
    <2>2. PICK b \in Nat : b = Budget(disruptions)
      BY WaitTypes
    <2>3. LongestWait \in Nat /\ Budget(disruptions + 1) = b + LongestWait
      BY <2>2, WaitTypes, WaitFacts
    <2>4. ttl[Repositories[i]] \in Nat /\ ttl[Repositories[i]] <= Interval
      BY WaitTypes
    <2>5. Interval \in Nat
      BY TimesAssumption
    <2>6. 0 + UntilTry(p, i) < Budget(disruptions + 1)
      BY <2>1, <2>3
    <2>7. 0 + ttl[Repositories[i]] <= Budget(disruptions) + Interval
      BY <2>2, <2>4, <2>5
    <2> QED
      BY <1>2, <2>6, <2>7 DEF WaitAt
  <1> QED
    BY <1>1, <1>2

WaitBeginsBelow == \A p \in Pods : \A i \in Named :
    waited[p][Repositories[i]] = 0 => WaitAt(p, i)

(* So it is after a step in which a wait begins.                           *)
LEMMA WaitBeginsNext == TypeInv' => WaitBeginsBelow'
  <1>1. TypeInv => WaitBeginsBelow
    BY WaitBegins DEF WaitBeginsBelow
  <1> QED
    BY <1>1, PTL

(* The bound survives a step after which a pod has waited no longer and    *)
(* comes no later to its next try. Only a disruption may leave a lock that *)
(* lasts longer.                                                           *)
LEMMA WaitGoesOn ==
    ASSUME TypeInv, TypeInv', NEW p \in Pods, NEW i \in Named, WaitAt(p, i),
           Waits(p) = Waits(p)',
           waited'[p][Repositories[i]] = waited[p][Repositories[i]],
           Waits(p) => UntilTry(p, i)' <= UntilTry(p, i),
           \/ /\ disruptions' = disruptions
              /\ ttl'[Repositories[i]] <= ttl[Repositories[i]]
           \/ disruptions' = disruptions + 1
    PROVE  WaitAt(p, i)'
  <1> DEFINE r == Repositories[i]
  <1>1. CASE ~Waits(p)
    BY <1>1 DEF WaitAt
  <1>2. CASE Waits(p)
    <2>1. UntilTry(p, i) \in Nat /\ UntilTry(p, i)' \in Nat
      <3>1. i \in Configured /\ Up(p) /\ Up(p)'
        BY <1>2 DEF Waits, Named
      <3>2. UntilTry(p, i) \in Nat
        BY <3>1, TryRange
      <3>3. UntilTry(p, i)' \in Nat
        BY <3>1, TryRangeNext DEF TryInRange
      <3> QED
        BY <3>2, <3>3
    <2>2. PICK b \in Nat : b = Budget(disruptions)
      BY WaitTypes
    <2>3. LongestWait \in Nat /\ disruptions \in Nat
      BY WaitFacts, WaitTypes
    <2>4. Budget(disruptions + 1) = b + LongestWait
      BY <2>2, WaitTypes
    <2>5. PICK c \in Nat : c = Budget(disruptions + 1)
      BY <2>3, <2>4
    <2>6. Budget(disruptions + 1 + 1) = c + LongestWait
      BY <2>3, <2>5, WaitFacts
    <2>7. /\ waited[p][r] \in Nat /\ ttl[r] \in Nat /\ Interval \in Nat
          /\ ttl'[r] \in Nat /\ ttl'[r] <= Interval
      BY WaitTypes, LockRangeNext, TimesAssumption DEF LockInRange
    <2>8. /\ waited[p][r] + UntilTry(p, i) < c
          /\ ttl[r] > 0 => waited[p][r] + ttl[r] <= b + Interval
      BY <1>2, <2>2, <2>5 DEF WaitAt
    <2>9. /\ waited[p][r] + UntilTry(p, i)' < Budget(disruptions' + 1)
          /\ ttl'[r] > 0 => waited[p][r] + ttl'[r] <= Budget(disruptions') + Interval
      <3>0. waited[p][r] + UntilTry(p, i)' < c
        BY <1>2, <2>1, <2>5, <2>7, <2>8
      <3>1. CASE disruptions' = disruptions /\ ttl'[r] <= ttl[r]
        <4>1. ttl'[r] > 0 => waited[p][r] + ttl'[r] <= b + Interval
          BY <2>2, <2>7, <2>8, <3>1
        <4> QED
          BY <2>2, <2>5, <3>0, <3>1, <4>1
      <3>2. CASE disruptions' = disruptions + 1
        <4>1. waited[p][r] + UntilTry(p, i)' < c + LongestWait
          BY <2>1, <2>3, <2>5, <2>7, <3>0
        <4>2. waited[p][r] + ttl'[r] <= c + Interval
          BY <2>1, <2>5, <2>7, <3>0
        <4> QED
          BY <2>5, <2>6, <3>2, <4>1, <4>2
      <3> QED
        BY <3>1, <3>2
    <2> QED
      BY <1>2, <2>9 DEF WaitAt
  <1> QED
    BY <1>1, <1>2

(* A pod that stays where it is comes to its next try as it did before.    *)
LEMMA TryStays ==
    ASSUME NEW p \in Pods, NEW i \in Named,
           pc'[p] = pc[p] \/ (pc[p] = "fetch" /\ pc'[p] = "record"),
           next'[p] = next[p], spent'[p] = spent[p],
           ticker'[p] = ticker[p], pending'[p] = pending[p],
           cancelled'[p] = cancelled[p]
    PROVE  Waits(p)' = Waits(p) /\ UntilTry(p, i)' = UntilTry(p, i)
  <1>1. Waits(p)' = Waits(p)
    BY DEF Waits, Up
  <1>2. CollectingNow(p)' = CollectingNow(p)
    BY DEF CollectingNow
  <1>3. RestOfCycle(p)' = RestOfCycle(p)
    BY <1>2 DEF RestOfCycle
  <1>4. UntilCycle(p)' = UntilCycle(p)
    BY <1>3 DEF UntilCycle
  <1>5. Before(p, i)' = Before(p, i)
    BY <1>2 DEF Before
  <1>6. UntilTry(p, i)' = UntilTry(p, i)
    BY <1>4, <1>5 DEF UntilTry
  <1> QED
    BY <1>1, <1>6

(* The numbers that place a pod in its loop.                               *)
LEMMA PlaceTypes ==
    ASSUME TypeInv, NEW p \in Pods
    PROVE  /\ next[p] \in Nat /\ next[p] <= Len(Repositories) + 1
           /\ CollectingNow(p) => next[p] <= Len(Repositories)
           /\ MaxBusy - spent[p] \in Nat /\ spent[p] \in Nat
           /\ ticker[p] \in Nat /\ pending[p] \in BOOLEAN
           /\ Interval \in Nat /\ MaxBusy \in Nat /\ Len(Repositories) \in Nat
  <1>1. PodTypeOK /\ TimeTypeOK /\ HistoryTypeOK /\ AtRepo
    BY DEF TypeInv, TypeOK
  <1>2. /\ Interval \in Nat /\ MaxBusy \in Nat /\ Len(Repositories) \in Nat
    BY TimesAssumption, LenIsNat
  <1>3. next[p] \in 1..(Len(Repositories) + 1)
    BY <1>1 DEF PodTypeOK
  <1>4. CollectingNow(p) => next[p] \in 1..Len(Repositories)
    BY <1>1 DEF AtRepo, Configured
  <1>5. spent[p] \in 0..MaxBusy /\ ticker[p] \in 0..Interval /\ pending[p] \in BOOLEAN
    BY <1>1 DEF HistoryTypeOK, TimeTypeOK
  <1> QED
    BY <1>2, <1>3, <1>4, <1>5

(* The next cycle comes no later if this one ends no later.                *)
LEMMA CycleCloser ==
    ASSUME NEW p \in Pods, RestOfCycle(p) \in Nat, RestOfCycle(p)' \in Nat,
           RestOfCycle(p)' <= RestOfCycle(p), ticker[p] \in Nat,
           ticker'[p] = ticker[p], pending'[p] = pending[p]
    PROVE  UntilCycle(p)' <= UntilCycle(p) /\ UntilCycle(p) \in Nat /\ UntilCycle(p)' \in Nat
  BY TimesAssumption DEF UntilCycle, Larger

(* Past repository i, it is the next cycle that brings the next try.       *)
LEMMA TryNextCycle ==
    ASSUME NEW p \in Pods, NEW i \in Named, ~Before(p, i), ~Before(p, i)',
           UntilCycle(p) \in Nat, UntilCycle(p)' \in Nat,
           UntilCycle(p)' <= UntilCycle(p)
    PROVE  UntilTry(p, i)' <= UntilTry(p, i)
  <1>1. i - 1 \in Nat
    BY LenIsNat DEF Named, Configured
  <1>2. Time(i - 1) \in Nat
    BY <1>1, TimeFacts
  <1>3. /\ UntilTry(p, i) = UntilCycle(p) + Time(i - 1)
        /\ UntilTry(p, i)' = UntilCycle(p)' + Time(i - 1)
    BY DEF UntilTry
  <1> QED
    BY <1>2, <1>3

(* Passing over another repository brings a pod closer to its next try.    *)
LEMMA PassOver ==
    ASSUME TypeInv, NEW p \in Pods, NEW i \in Named,
           pc[p] = "loop", next[p] \in Configured, next[p] # i,
           pc'[p] = "loop", next'[p] = next[p] + 1,
           ticker'[p] = ticker[p], pending'[p] = pending[p]
    PROVE  UntilTry(p, i)' <= UntilTry(p, i)
  <1>1. PICK n \in Nat : n = next[p] /\ n <= Len(Repositories)
    BY PlaceTypes DEF Configured
  <1>2. i \in Nat /\ Len(Repositories) \in Nat
    BY LenIsNat DEF Named, Configured
  <1>3. ~CollectingNow(p) /\ ~CollectingNow(p)'
    BY DEF CollectingNow
  <1>4. CASE n < i
    <2>1. Before(p, i) /\ Before(p, i)'
      BY <1>1, <1>2, <1>4 DEF Before
    <2>2. UntilTry(p, i) = Time(i - n) /\ UntilTry(p, i)' = Time(i - (n + 1))
      BY <1>1, <2>1 DEF UntilTry
    <2>3. i - (n + 1) <= i - n /\ i - n \in Int /\ i - (n + 1) \in Int
      BY <1>2
    <2> QED
      BY <2>2, <2>3, TimeFacts
  <1>5. CASE n > i
    <2>1. ~Before(p, i) /\ ~Before(p, i)'
      BY <1>1, <1>2, <1>3, <1>5 DEF Before
    <2>2. /\ RestOfCycle(p) = Time(Len(Repositories) + 1 - n)
          /\ RestOfCycle(p)' = Time(Len(Repositories) + 1 - (n + 1))
      BY <1>1, <1>3 DEF RestOfCycle
    <2>3. /\ Len(Repositories) + 1 - (n + 1) <= Len(Repositories) + 1 - n
          /\ Len(Repositories) + 1 - (n + 1) \in Nat
          /\ Len(Repositories) + 1 - n \in Nat
      BY <1>1, <1>2
    <2>4. /\ RestOfCycle(p) \in Nat /\ RestOfCycle(p)' \in Nat
          /\ RestOfCycle(p)' <= RestOfCycle(p)
      BY <2>2, <2>3, TimeFacts
    <2> QED
      BY <2>1, <2>4, CycleCloser, TryNextCycle, PlaceTypes
  <1> QED
    BY <1>1, <1>2, <1>4, <1>5

(* A collection that begins takes what its repository was accounted for.   *)
LEMMA BeginOther ==
    ASSUME TypeInv, NEW p \in Pods, NEW i \in Named,
           pc[p] = "loop", next[p] \in Configured, next[p] # i,
           pc'[p] = "fetch", next'[p] = next[p], spent'[p] = 0,
           ticker'[p] = ticker[p], pending'[p] = pending[p]
    PROVE  UntilTry(p, i)' <= UntilTry(p, i)
  <1>1. PICK n \in Nat : n = next[p] /\ n <= Len(Repositories)
    BY PlaceTypes DEF Configured
  <1>2. i \in Nat /\ Len(Repositories) \in Nat /\ MaxBusy \in Nat
    BY LenIsNat, TimesAssumption DEF Named, Configured
  <1>3. ~CollectingNow(p) /\ CollectingNow(p)'
    BY DEF CollectingNow
  <1>4. CASE n < i
    <2>1. Before(p, i) /\ Before(p, i)'
      BY <1>1, <1>2, <1>3, <1>4 DEF Before
    <2>2. PICK k \in Nat : k = i - n - 1
      BY <1>2, <1>4
    <2>3. i - n = k + 1
      BY <1>2, <2>2
    <2>4. /\ UntilTry(p, i) = Time(k + 1)
          /\ UntilTry(p, i)' = (MaxBusy - 0) + Time(k)
      BY <1>1, <2>1, <2>2, <2>3 DEF UntilTry
    <2>5. Time(k + 1) = Time(k) + MaxBusy /\ Time(k) \in Nat
      <3>1. Time(k + 1) = Time(k) + MaxBusy
        BY TimeFacts
      <3>2. Time(k) \in Nat
        BY TimeFacts
      <3> QED
        BY <3>1, <3>2
    <2> QED
      BY <1>2, <2>4, <2>5
  <1>5. CASE n > i
    <2>1. ~Before(p, i) /\ ~Before(p, i)'
      BY <1>1, <1>2, <1>3, <1>5 DEF Before
    <2>2. PICK k \in Nat : k = Len(Repositories) - n
      BY <1>1, <1>2
    <2>3. Len(Repositories) + 1 - n = k + 1
      BY <1>2, <2>2
    <2>4. /\ RestOfCycle(p) = Time(k + 1)
          /\ RestOfCycle(p)' = (MaxBusy - 0) + Time(k)
      BY <1>1, <1>3, <2>2, <2>3 DEF RestOfCycle
    <2>5. Time(k + 1) = Time(k) + MaxBusy /\ Time(k) \in Nat
      <3>1. Time(k + 1) = Time(k) + MaxBusy
        BY TimeFacts
      <3>2. Time(k) \in Nat
        BY TimeFacts
      <3> QED
        BY <3>1, <3>2
    <2>6. /\ RestOfCycle(p) \in Nat /\ RestOfCycle(p)' \in Nat
          /\ RestOfCycle(p)' <= RestOfCycle(p)
      BY <1>2, <2>4, <2>5
    <2> QED
      BY <2>1, <2>6, CycleCloser, TryNextCycle, PlaceTypes
  <1> QED
    BY <1>1, <1>2, <1>4, <1>5

(* A collection that ends leaves the rest of its cycle.                    *)
LEMMA EndOther ==
    ASSUME TypeInv, NEW p \in Pods, NEW i \in Named, CollectingNow(p),
           pc'[p] = "loop", next'[p] = next[p] + 1,
           ticker'[p] = ticker[p], pending'[p] = pending[p]
    PROVE  UntilTry(p, i)' <= UntilTry(p, i)
  <1>1. PICK n \in Nat : n = next[p] /\ n <= Len(Repositories)
    BY PlaceTypes
  <1>2. i \in Nat /\ Len(Repositories) \in Nat
    BY LenIsNat DEF Named, Configured
  <1>3. PICK m \in Nat : m = MaxBusy - spent[p]
    BY PlaceTypes
  <1>4. ~CollectingNow(p)' /\ pc[p] # "loop"
    BY DEF CollectingNow
  <1>5. CASE n < i
    <2>1. Before(p, i) /\ Before(p, i)'
      BY <1>1, <1>2, <1>5 DEF Before
    <2>2. PICK k \in Nat : k = i - n - 1
      BY <1>2, <1>5
    <2>3. i - (n + 1) = k
      BY <1>2, <2>2
    <2>4. UntilTry(p, i) = m + Time(k) /\ UntilTry(p, i)' = Time(k)
      BY <1>1, <1>3, <1>4, <2>1, <2>2, <2>3 DEF UntilTry
    <2>5. Time(k) \in Nat
      BY TimeFacts
    <2> QED
      BY <2>4, <2>5
  <1>6. CASE n >= i
    <2>1. ~Before(p, i) /\ ~Before(p, i)'
      BY <1>1, <1>2, <1>4, <1>6 DEF Before
    <2>2. PICK k \in Nat : k = Len(Repositories) - n
      BY <1>1, <1>2
    <2>3. Len(Repositories) + 1 - (n + 1) = k
      BY <1>2, <2>2
    <2>4. RestOfCycle(p) = m + Time(k) /\ RestOfCycle(p)' = Time(k)
      BY <1>1, <1>3, <1>4, <2>2, <2>3 DEF RestOfCycle
    <2>5. Time(k) \in Nat
      BY TimeFacts
    <2>6. /\ RestOfCycle(p) \in Nat /\ RestOfCycle(p)' \in Nat
          /\ RestOfCycle(p)' <= RestOfCycle(p)
      BY <2>4, <2>5
    <2> QED
      BY <2>1, <2>6, CycleCloser, TryNextCycle, PlaceTypes
  <1> QED
    BY <1>1, <1>2, <1>5, <1>6

(* After a cycle a pod waits for its ticker, which it has then.            *)
LEMMA FinishOther ==
    ASSUME TypeInv, NEW p \in Pods, NEW i \in Named, FinishCycle(p)
    PROVE  UntilTry(p, i)' <= UntilTry(p, i)
  <1>1. i \in Nat /\ i <= Len(Repositories) /\ Len(Repositories) \in Nat
    BY LenIsNat DEF Named, Configured
  <1>2. next[p] = Len(Repositories) + 1 /\ pc[p] = "loop"
    BY <1>1, PlaceTypes DEF FinishCycle, Configured, TypeInv, TypeOK, PodTypeOK
  <1>3. /\ pc'[p] = "idle" /\ pending'[p] = pending[p]
        /\ ticker'[p] = IF ticker[p] = 0 THEN Interval ELSE ticker[p]
    BY DEF FinishCycle, TypeInv, TypeOK, PodTypeOK, TimeTypeOK
  <1>4. ~CollectingNow(p) /\ ~CollectingNow(p)'
    BY <1>2, <1>3 DEF CollectingNow
  <1>5. ~Before(p, i) /\ ~Before(p, i)'
    BY <1>1, <1>2, <1>3, <1>4 DEF Before
  <1>6. RestOfCycle(p) = 0 /\ RestOfCycle(p)' = 0
    <2>1. Len(Repositories) + 1 - (Len(Repositories) + 1) = 0
      BY <1>1
    <2> QED
      BY <1>2, <1>3, <1>4, <2>1, TimeFacts DEF RestOfCycle
  <1>7. /\ UntilCycle(p) \in Nat /\ UntilCycle(p)' \in Nat
        /\ UntilCycle(p)' <= UntilCycle(p)
    BY <1>3, <1>6, PlaceTypes DEF UntilCycle, Larger
  <1> QED
    BY <1>5, <1>7, TryNextCycle

(* The cycle that a tick brings begins with the first repository.          *)
LEMMA StartOther ==
    ASSUME TypeInv, MalformedSeen, NEW p \in Pods, NEW i \in Named, StartCycle(p)
    PROVE  UntilTry(p, i)' <= UntilTry(p, i)
  <1>1. i \in Nat /\ 1 <= i
    BY LenIsNat DEF Named, Configured
  <1>2. pc[p] = "idle" /\ pending[p] /\ pc'[p] = "loop" /\ next'[p] = 1
    BY DEF StartCycle, TypeInv, TypeOK, PodTypeOK, MalformedSeen, SeenBy
  <1>3. ~CollectingNow(p) /\ ~Before(p, i) /\ Before(p, i)'
    BY <1>1, <1>2 DEF CollectingNow, Before
  <1>4. UntilTry(p, i)' = Time(i - 1)
    BY <1>2, <1>3 DEF UntilTry
  <1>5. UntilTry(p, i) = 0 + Time(i - 1)
    BY <1>2, <1>3 DEF UntilTry, UntilCycle, RestOfCycle
  <1>6. Time(i - 1) \in Nat
    <2>1. i - 1 \in Nat
      BY <1>1
    <2> QED
      BY <2>1, TimeFacts
  <1> QED
    BY <1>4, <1>5, <1>6

(* Time that passes is taken off what a waiting pod still waits: only      *)
(* collections and tickers let it pass.                                    *)
LEMMA TickCloser ==
    ASSUME TypeInv, TickerInv, Prompt, Tick, NEW p \in Pods, NEW i \in Named, Waits(p)
    PROVE  UntilTry(p, i)' + 1 <= UntilTry(p, i)
  <1>1. /\ i \in Nat /\ 1 <= i /\ i <= Len(Repositories)
        /\ Len(Repositories) \in Nat
    BY LenIsNat DEF Named, Configured
  <1>2. PICK n \in Nat : n = next[p] /\ n <= Len(Repositories) + 1
    BY PlaceTypes
  <1>3. PICK m \in Nat : m = MaxBusy - spent[p]
    BY PlaceTypes
  <1>4. PICK t \in Nat : t = ticker[p]
    BY PlaceTypes
  <1>5. /\ pc'[p] = pc[p] /\ next'[p] = n /\ CollectingNow(p)' = CollectingNow(p)
        /\ Before(p, i)' = Before(p, i)
    BY <1>2 DEF Tick, podVars, CollectingNow, Before
  <1>6. /\ pc[p] # "loop" /\ (pc[p] = "idle" => ~pending[p] /\ t > 0)
        /\ CollectingNow(p) \/ pc[p] = "idle"
        /\ CollectingNow(p) => spent[p] < MaxBusy
        /\ CollectingNow(p) => spent'[p] = spent[p] + 1
    BY <1>4 DEF Tick, MayElapse, Waits, Up, CollectingNow, TickerInv
  <1>7. /\ t = 0 => ticker'[p] = 0 /\ pending'[p] = pending[p]
        /\ t = 1 => ticker'[p] = Interval /\ pending'[p]
        /\ t > 1 => ticker'[p] = t - 1 /\ pending'[p] = pending[p]
    <2>1. pending'[p] = (pending[p] \/ ticker[p] = 1)
      BY DEF Tick, TickersAdvance
    <2>2. /\ ticker[p] = 0 => ticker'[p] = 0
          /\ ticker[p] = 1 => ticker'[p] = Interval
          /\ ticker[p] # 0 /\ ticker[p] # 1 => ticker'[p] = ticker[p] - 1
      BY DEF Tick, TickersAdvance
    <2>3. pending[p] \in BOOLEAN
      BY PlaceTypes
    <2>4. t = 1 => pending'[p]
      BY <1>4, <2>1
    <2>5. t # 1 => pending'[p] = pending[p]
      BY <1>4, <2>1, <2>3
    <2>6. /\ t = 0 => ticker'[p] = 0
          /\ t = 1 => ticker'[p] = Interval
          /\ t > 1 => ticker'[p] = t - 1
      BY <1>4, <2>2
    <2> QED
      BY <2>4, <2>5, <2>6
  <1>8. CollectingNow(p) => MaxBusy - spent'[p] + 1 = m /\ MaxBusy - spent'[p] \in Nat
    <2> SUFFICES ASSUME CollectingNow(p)
                 PROVE  MaxBusy - spent'[p] + 1 = m /\ MaxBusy - spent'[p] \in Nat
      OBVIOUS
    <2>1. PICK u \in Nat : u = spent[p]
      BY PlaceTypes
    <2>2. u < MaxBusy /\ spent'[p] = u + 1 /\ m = MaxBusy - u
      BY <1>3, <1>6, <2>1
    <2> QED
      BY <2>2, TimesAssumption
  <1>9. Time(i - 1) \in Nat
    <2>1. i - 1 \in Nat
      BY <1>1
    <2> QED
      BY <2>1, TimeFacts
  <1>10. CASE Before(p, i)
    <2>1. CollectingNow(p) /\ n < i
      BY <1>2, <1>6, <1>10 DEF Before
    <2>2. PICK k \in Nat : k = i - n - 1
      BY <1>1, <2>1
    <2>3. /\ UntilTry(p, i) = m + Time(k)
          /\ UntilTry(p, i)' = (MaxBusy - spent'[p]) + Time(k)
      BY <1>2, <1>3, <1>5, <1>6, <1>10, <2>2 DEF UntilTry
    <2>4. Time(k) \in Nat
      BY TimeFacts
    <2> QED
      BY <1>8, <2>1, <2>3, <2>4
  <1>11. CASE ~Before(p, i)
    <2>1. /\ UntilTry(p, i) = UntilCycle(p) + Time(i - 1)
          /\ UntilTry(p, i)' = UntilCycle(p)' + Time(i - 1)
      BY <1>5, <1>11 DEF UntilTry
    <2>2. /\ UntilCycle(p) \in Nat /\ UntilCycle(p)' \in Nat
          /\ UntilCycle(p)' + 1 <= UntilCycle(p)
      <3>1. CASE CollectingNow(p)
        <4>1. n <= Len(Repositories)
          BY <1>2, <3>1, PlaceTypes
        <4>2. PICK k \in Nat : k = Len(Repositories) - n
          BY <1>1, <4>1
        <4>3. PICK c \in Nat : c = Time(k)
          BY TimeFacts
        <4>4. /\ RestOfCycle(p) = m + c
              /\ RestOfCycle(p)' = (MaxBusy - spent'[p]) + c
          BY <1>2, <1>3, <1>5, <3>1, <4>2, <4>3 DEF RestOfCycle
        <4>5. PICK a \in Nat : RestOfCycle(p)' = a /\ RestOfCycle(p) = a + 1
          BY <1>8, <3>1, <4>4
        <4>6. CASE pending[p]
          <5>1. pending'[p]
            BY <4>6 DEF Tick, TickersAdvance
          <5> QED
            BY <4>5, <4>6, <5>1 DEF UntilCycle
        <4>7. CASE ~pending[p] /\ t = 0
          <5>1. /\ UntilCycle(p) = a + 1 + Interval
                /\ UntilCycle(p)' = a + Interval
            BY <1>4, <1>7, <4>5, <4>7 DEF UntilCycle
          <5> QED
            BY <5>1, TimesAssumption
        <4>8. CASE ~pending[p] /\ t = 1
          <5>1. UntilCycle(p) = Larger(a + 1, 1) /\ UntilCycle(p)' = a
            BY <1>4, <1>7, <4>5, <4>8 DEF UntilCycle
          <5> QED
            BY <5>1 DEF Larger
        <4>9. CASE ~pending[p] /\ t > 1
          <5>1. /\ UntilCycle(p) = Larger(a + 1, t)
                /\ UntilCycle(p)' = Larger(a, t - 1)
            BY <1>4, <1>7, <4>5, <4>9 DEF UntilCycle
          <5> QED
            BY <4>9, <5>1 DEF Larger
        <4> QED
          BY <4>6, <4>7, <4>8, <4>9, PlaceTypes
      <3>2. CASE pc[p] = "idle"
        <4>1. RestOfCycle(p) = 0 /\ RestOfCycle(p)' = 0
          BY <1>5, <3>2 DEF RestOfCycle, CollectingNow
        <4>2. UntilCycle(p) = Larger(0, t)
          BY <1>4, <1>6, <3>2, <4>1 DEF UntilCycle
        <4>3. CASE t = 1
          <5>1. UntilCycle(p)' = 0
            BY <1>7, <4>1, <4>3 DEF UntilCycle
          <5> QED
            BY <4>2, <4>3, <5>1 DEF Larger
        <4>4. CASE t > 1
          <5>1. UntilCycle(p)' = Larger(0, t - 1)
            BY <1>6, <1>7, <3>2, <4>1, <4>4 DEF UntilCycle
          <5> QED
            BY <4>2, <4>4, <5>1 DEF Larger
        <4> QED
          BY <1>6, <3>2, <4>3, <4>4
      <3> QED
        BY <1>6, <3>1, <3>2
    <2> QED
      BY <1>9, <2>1, <2>2
  <1> QED
    BY <1>10, <1>11

(* After a try in vain the next one comes within an interval and the time  *)
(* of the other repositories.                                              *)
LEMMA TryAgain ==
    ASSUME TypeInv, NEW p \in Pods, NEW i \in Named,
           pc[p] = "loop", next[p] = i, pc'[p] = "loop", next'[p] = i + 1,
           ticker'[p] = ticker[p], pending'[p] = pending[p]
    PROVE  UntilTry(p, i)' <= Interval + Time(Len(Repositories) - 1)
  <1>1. /\ i \in Nat /\ 1 <= i /\ i <= Len(Repositories)
        /\ Len(Repositories) \in Nat /\ Interval \in Nat
    BY LenIsNat, TimesAssumption DEF Named, Configured
  <1>2. ~CollectingNow(p)' /\ ~Before(p, i)'
    BY <1>1 DEF CollectingNow, Before
  <1>3. PICK k \in Nat : k = Len(Repositories) - i
    BY <1>1
  <1>4. PICK j \in Nat : j = i - 1
    BY <1>1
  <1>5. PICK a \in Nat : a = Time(k)
    BY TimeFacts
  <1>6. PICK b \in Nat : b = Time(j)
    BY TimeFacts
  <1>7. a + b = Time(Len(Repositories) - 1)
    <2>1. Len(Repositories) - 1 = k + j
      BY <1>1, <1>3, <1>4
    <2>2. Time(k) + Time(j) = Time(k + j)
      BY TimeFacts
    <2> QED
      BY <1>5, <1>6, <2>1, <2>2
  <1>8. RestOfCycle(p)' = a
    <2>1. Len(Repositories) + 1 - (i + 1) = k
      BY <1>1, <1>3
    <2> QED
      BY <1>2, <1>5, <2>1 DEF RestOfCycle
  <1>9. PICK t \in Nat : t = ticker[p] /\ t <= Interval
    BY TimesAssumption DEF TypeInv, TypeOK, TimeTypeOK
  <1>10. UntilCycle(p)' \in Nat /\ UntilCycle(p)' <= a + Interval
    BY <1>1, <1>8, <1>9 DEF UntilCycle, Larger
  <1>11. UntilTry(p, i)' = UntilCycle(p)' + b
    BY <1>2, <1>4, <1>6 DEF UntilTry
  <1>12. UntilTry(p, i)' <= Interval + (a + b)
    BY <1>1, <1>10, <1>11
  <1> QED
    BY <1>7, <1>12

(* A lock that a pod meets was set for an interval, and what is left of it *)
(* leaves the time for another try; a lock that a disruption has wasted is *)
(* paid for by its budget.                                                 *)
LEMMA TriedInVain ==
    ASSUME TypeInv, TypeInv', NEW p \in Pods, NEW i \in Named, WaitAt(p, i),
           pc[p] = "loop", next[p] = i, pc'[p] = "loop", next'[p] = i + 1,
           ticker'[p] = ticker[p], pending'[p] = pending[p],
           cancelled'[p] = cancelled[p],
           waited'[p][Repositories[i]] = waited[p][Repositories[i]],
           \/ /\ disruptions' = disruptions
              /\ ttl[Repositories[i]] > 0
              /\ ttl'[Repositories[i]] = ttl[Repositories[i]]
           \/ disruptions' = disruptions + 1
    PROVE  WaitAt(p, i)'
  <1> DEFINE r == Repositories[i]
  <1>0. Waits(p)' = Waits(p)
    BY DEF Waits, Up
  <1>1. CASE ~Waits(p)
    BY <1>0, <1>1 DEF WaitAt
  <1>2. CASE Waits(p)
    <2>1. UntilTry(p, i) \in Nat /\ UntilTry(p, i)' \in Nat
      <3>1. i \in Configured /\ Up(p) /\ Up(p)'
        BY <1>0, <1>2 DEF Waits, Named
      <3>2. UntilTry(p, i) \in Nat
        BY <3>1, TryRange
      <3>3. UntilTry(p, i)' \in Nat
        BY <3>1, TryRangeNext DEF TryInRange
      <3> QED
        BY <3>2, <3>3
    <2>2. PICK b \in Nat : b = Budget(disruptions)
      BY WaitTypes
    <2>3. LongestWait \in Nat /\ disruptions \in Nat
      BY WaitFacts, WaitTypes
    <2>4. PICK c \in Nat : c = Budget(disruptions + 1)
      BY WaitTypes, <2>3
    <2>5. c = b + LongestWait
      BY <2>2, <2>4, WaitTypes
    <2>6. Budget(disruptions + 1 + 1) = c + LongestWait
      BY <2>3, <2>4, WaitFacts
    <2>7. PICK w \in Nat : w = waited[p][r]
      BY WaitTypes
    <2>8. PICK l \in Nat : l = ttl[r]
      BY WaitTypes
    <2>9. ttl'[r] \in Nat /\ ttl'[r] <= Interval /\ Interval \in Nat
      BY LockRangeNext, TimesAssumption DEF LockInRange
    <2>10. /\ w + UntilTry(p, i) < c
           /\ l > 0 => w + l <= b + Interval
      BY <1>2, <2>2, <2>4, <2>7, <2>8 DEF WaitAt
    <2>11. PICK g \in Nat : g = Time(Len(Repositories) - 1)
      <3>1. Len(Repositories) - 1 \in Nat
        BY SelfTestAssumption, RepositoriesAssumption
      <3> QED
        BY <3>1, TimeFacts
    <2>12. /\ UntilTry(p, i)' <= Interval + g
           /\ 2 * Interval + g <= LongestWait
      BY <2>11, TryAgain, WaitFacts
    <2>13. CASE disruptions' = disruptions /\ l > 0 /\ ttl'[r] = l
      <3>1. w + UntilTry(p, i)' < c
        BY <2>1, <2>3, <2>5, <2>9, <2>10, <2>12, <2>13
      <3> QED
        BY <1>0, <1>2, <2>2, <2>4, <2>7, <2>10, <2>13, <3>1 DEF WaitAt
    <2>14. CASE disruptions' = disruptions + 1
      <3>1. w + UntilTry(p, i)' < c + LongestWait
        <4>1. w < c
          BY <2>1, <2>10
        <4>2. UntilTry(p, i)' < LongestWait
          <5>1. Interval \in Nat \ {0}
            BY TimesAssumption
          <5> QED
            BY <2>1, <2>3, <2>12, <5>1
        <4> QED
          BY <2>1, <2>3, <4>1, <4>2
      <3>2. w + ttl'[r] <= c + Interval
        BY <2>1, <2>9, <2>10
      <3> QED
        BY <1>0, <1>2, <2>4, <2>6, <2>7, <2>14, <3>1, <3>2 DEF WaitAt
    <2> QED
      BY <2>8, <2>13, <2>14
  <1> QED
    BY <1>1, <1>2

(* No step of a pod, of time or of Valkey takes a wait over its bound.     *)
LEMMA WaitStep ==
    Prompt /\ TypeInv /\ MalformedSeen /\ WaitInv /\ [Next]_vars => WaitInv'
  <1> SUFFICES ASSUME Prompt, TypeInv, MalformedSeen, WaitInv, [Next]_vars,
                      NEW q \in Pods, NEW i \in Named
               PROVE  WaitAt(q, i)'
    BY TickerStep DEF WaitInv
  <1> DEFINE r == Repositories[i]
             Locks == \/ disruptions' = disruptions /\ ttl'[r] = ttl[r]
                      \/ disruptions' = disruptions + 1
             SameWait == waited'[q][r] = waited[q][r]
             Stays == /\ pc'[q] = pc[q] \/ (pc[q] = "fetch" /\ pc'[q] = "record")
                      /\ next'[q] = next[q] /\ spent'[q] = spent[q]
                      /\ ticker'[q] = ticker[q] /\ pending'[q] = pending[q]
                      /\ cancelled'[q] = cancelled[q]
  <1> USE DEF podVars, timeVars, lockVars, history
  <1>0. /\ TypeInv' /\ TickerInv /\ WaitAt(q, i)
        /\ i \in Configured /\ r \in Repos /\ r \notin Malformed
        /\ PodTypeOK /\ TimeTypeOK /\ LockTypeOK /\ HistoryTypeOK /\ AtRepo
    BY TypeInvStep, ConfiguredRepo DEF WaitInv, TypeInv, TypeOK, Named
  <1>A. ASSUME Locks, SameWait, Waits(q)' = Waits(q),
               Waits(q) => UntilTry(q, i)' <= UntilTry(q, i)
        PROVE  WaitAt(q, i)'
    <2>1. ttl[r] \in Nat
      BY WaitTypes
    <2>2. \/ disruptions' = disruptions /\ ttl'[r] <= ttl[r]
          \/ disruptions' = disruptions + 1
      BY <1>A, <2>1
    <2> QED
      BY <1>0, <1>A, <2>2, WaitGoesOn
  <1>B. ASSUME Locks, SameWait, Stays
        PROVE  WaitAt(q, i)'
    <2>1. Waits(q)' = Waits(q) /\ UntilTry(q, i)' = UntilTry(q, i)
      BY <1>B, TryStays
    <2>2. Waits(q) => UntilTry(q, i) \in Nat
      BY <1>0, TryRange DEF Waits
    <2>3. Waits(q) => UntilTry(q, i)' <= UntilTry(q, i)
      BY <2>1, <2>2
    <2> QED
      BY <1>A, <1>B, <2>1, <2>3
  <1>C. ASSUME waited'[q][r] = 0
        PROVE  WaitAt(q, i)'
    BY <1>0, <1>C, WaitBeginsNext DEF WaitBeginsBelow
  <1>1. ASSUME NEW p \in Pods, Start(p)
        PROVE  WaitAt(q, i)'
    <2>1. CASE p = q
      BY <1>0, <1>1, <2>1, <1>C DEF Start, HistoryTypeOK
    <2>2. CASE p # q
      BY <1>0, <1>1, <2>2, <1>B DEF Start, HistoryTypeOK, PodTypeOK
    <2> QED
      BY <2>1, <2>2
  <1>2. ASSUME NEW p \in Pods, Close(p)
        PROVE  WaitAt(q, i)'
    <2>1. CASE p = q
      BY <1>0, <1>2, <2>1, <1>C DEF Close, HistoryTypeOK
    <2>2. CASE p # q
      BY <1>0, <1>2, <2>2, <1>B DEF Close, Disrupt, HistoryTypeOK, PodTypeOK
    <2> QED
      BY <2>1, <2>2
  <1>3. ASSUME NEW p \in Pods, Crash(p) \/ Exit(p)
        PROVE  WaitAt(q, i)'
    <2>1. Gone(p) /\ (disruptions' = disruptions \/ disruptions' = disruptions + 1)
      BY <1>3 DEF Crash, Exit, Disrupt, SameDisruptions
    <2>2. CASE p = q
      BY <1>0, <2>1, <2>2, <1>C DEF Gone, HistoryTypeOK
    <2>3. CASE p # q
      BY <1>0, <2>1, <2>3, <1>B DEF Gone, HistoryTypeOK, PodTypeOK, TimeTypeOK
    <2> QED
      BY <2>2, <2>3
  <1>4. ASSUME NEW p \in Pods, ParseFails(p)
        PROVE  WaitAt(q, i)'
    <2>1. CASE p = q
      <3>1. /\ pc[q] = "loop" /\ next[q] \in Configured /\ next[q] # i
            /\ pc'[q] = "loop" /\ next'[q] = next[q] + 1
            /\ ticker'[q] = ticker[q] /\ pending'[q] = pending[q]
            /\ cancelled'[q] = cancelled[q]
        BY <1>0, <1>4, <2>1
        DEF ParseFails, InLoop, NextRepo, Current, PodTypeOK
      <3>2. UntilTry(q, i)' <= UntilTry(q, i)
        BY <3>1, PassOver
      <3>3. Waits(q)' = Waits(q)
        BY <3>1 DEF Waits, Up
      <3> QED
        BY <1>4, <3>2, <3>3, <1>A DEF ParseFails
    <2>2. CASE p # q
      BY <1>0, <1>4, <2>2, <1>B DEF ParseFails, NextRepo, PodTypeOK
    <2> QED
      BY <2>1, <2>2
  <1>5. ASSUME NEW p \in Pods,
               LockGranted(p) \/ LockFails(p) \/ LockAfterClose(p)
        PROVE  WaitAt(q, i)'
    <2>1. /\ pc[p] = "loop" /\ next[p] \in Configured
          /\ Current(p) = Repositories[next[p]] /\ Current(p) \in Repos
      BY <1>5, ConfiguredRepo
      DEF LockGranted, LockFails, LockAfterClose, AtLock, InLoop, Current
    <2>2. PICK m \in ModeValues : BeginCollection(p, m)
      BY <1>5 DEF LockGranted, LockFails, LockAfterClose, ModeValues
    <2>3. SetKey(p, Current(p)) \/ UNCHANGED lockVars
      BY <1>5 DEF LockGranted, LockFails, LockAfterClose
    <2>4. disruptions' = disruptions \/ disruptions' = disruptions + 1
      BY <1>5 DEF LockGranted, LockFails, LockAfterClose, Disrupt, SameDisruptions
    <2>5. CASE Current(p) = r
      BY <1>0, <2>1, <2>2, <2>5, <1>C DEF BeginCollection, HistoryTypeOK
    <2>6. CASE Current(p) # r
      <3>1. Locks
        <4>1. ttl'[r] = ttl[r]
          BY <1>0, <2>1, <2>3, <2>6 DEF SetKey, LockTypeOK
        <4> QED
          BY <2>4, <4>1
      <3>2. SameWait
        BY <1>0, <2>1, <2>2, <2>6 DEF BeginCollection, HistoryTypeOK
      <3>3. CASE p = q
        <4>1. /\ next[q] # i /\ pc'[q] = "fetch" /\ next'[q] = next[q]
              /\ spent'[q] = 0
              /\ ticker'[q] = ticker[q] /\ pending'[q] = pending[q]
              /\ cancelled'[q] = cancelled[q]
          BY <1>0, <2>1, <2>2, <2>6, <3>3
          DEF BeginCollection, PodTypeOK, HistoryTypeOK
        <4>2. UntilTry(q, i)' <= UntilTry(q, i)
          BY <2>1, <3>3, <4>1, BeginOther
        <4>3. Waits(q)' = Waits(q)
          BY <2>1, <3>3, <4>1 DEF Waits, Up
        <4> QED
          BY <3>1, <3>2, <4>2, <4>3, <1>A
      <3>4. CASE p # q
        <4>1. Stays
          BY <1>0, <2>2, <3>4 DEF BeginCollection, PodTypeOK, HistoryTypeOK
        <4> QED
          BY <3>1, <3>2, <4>1, <1>B
      <3> QED
        BY <3>3, <3>4
    <2> QED
      BY <2>5, <2>6
  <1>6. ASSUME NEW p \in Pods, LockHeld(p) \/ LockRetried(p)
        PROVE  WaitAt(q, i)'
    <2>1. /\ pc[p] = "loop" /\ next[p] \in Configured
          /\ Current(p) = Repositories[next[p]] /\ Current(p) \in Repos
          /\ NextRepo(p) /\ UNCHANGED <<timeVars, history>>
      BY <1>6, ConfiguredRepo
      DEF LockHeld, LockRetried, AtLock, InLoop, Current
    <2>2. CASE p # q
      <3>1. Stays /\ SameWait
        BY <1>0, <2>1, <2>2 DEF NextRepo, PodTypeOK
      <3>2. Locks
        BY <1>6 DEF LockHeld, LockRetried, Disrupt
      <3> QED
        BY <3>1, <3>2, <1>B
    <2>3. CASE p = q
      <3>1. /\ pc'[q] = "loop" /\ next'[q] = next[q] + 1
            /\ ticker'[q] = ticker[q] /\ pending'[q] = pending[q]
            /\ cancelled'[q] = cancelled[q] /\ SameWait
        BY <1>0, <2>1, <2>3 DEF NextRepo, PodTypeOK
      <3>2. CASE next[q] # i
        <4>1. UntilTry(q, i)' <= UntilTry(q, i)
          BY <2>1, <2>3, <3>1, <3>2, PassOver
        <4>2. Waits(q)' = Waits(q)
          BY <2>1, <2>3, <3>1 DEF Waits, Up
        <4>3. Locks
          BY <1>6 DEF LockHeld, LockRetried, Disrupt
        <4> QED
          BY <3>1, <4>1, <4>2, <4>3, <1>A
      <3>3. CASE next[q] = i
        <4>1. \/ disruptions' = disruptions /\ ttl[r] > 0 /\ ttl'[r] = ttl[r]
              \/ disruptions' = disruptions + 1
          <5>1. CASE LockHeld(p)
            <6>1. ttl[r] # 0 /\ ttl[r] \in Nat
              BY <2>1, <2>3, <3>3, <5>1, WaitTypes DEF LockHeld, KeyIsFree
            <6> QED
              BY <5>1, <6>1 DEF LockHeld
          <5>2. CASE LockRetried(p)
            BY <5>2 DEF LockRetried, Disrupt
          <5> QED
            BY <1>6, <5>1, <5>2
        <4> QED
          BY <1>0, <2>1, <2>3, <3>1, <3>3, <4>1, TriedInVain
      <3> QED
        BY <3>2, <3>3
    <2> QED
      BY <2>2, <2>3
  <1>7. ASSUME NEW p \in Pods, FetchSucceeds(p)
        PROVE  WaitAt(q, i)'
    BY <1>0, <1>7, <1>B DEF FetchSucceeds, PodTypeOK
  <1>8. ASSUME NEW p \in Pods, FetchFails(p) \/ RecordRuns(p)
        PROVE  WaitAt(q, i)'
    <2>1. CollectingNow(p) /\ EndCollection(p)
      BY <1>8 DEF FetchFails, RecordRuns, CollectingNow
    <2>2. Locks /\ SameWait
      BY <2>1 DEF EndCollection
    <2>3. CASE p = q
      <3>1. /\ pc'[q] = "loop" /\ next'[q] = next[q] + 1
            /\ ticker'[q] = ticker[q] /\ pending'[q] = pending[q]
            /\ cancelled'[q] = cancelled[q]
        BY <1>0, <2>1, <2>3 DEF EndCollection, NextRepo, PodTypeOK
      <3>2. UntilTry(q, i)' <= UntilTry(q, i)
        BY <2>1, <2>3, <3>1, EndOther
      <3>3. Waits(q)' = Waits(q)
        BY <2>1, <2>3, <3>1 DEF Waits, Up, CollectingNow
      <3> QED
        BY <2>2, <3>2, <3>3, <1>A
    <2>4. CASE p # q
      <3>1. Stays
        BY <1>0, <2>1, <2>4 DEF EndCollection, NextRepo, PodTypeOK, HistoryTypeOK
      <3> QED
        BY <2>2, <3>1, <1>B
    <2> QED
      BY <2>3, <2>4
  <1>9. ASSUME NEW p \in Pods, FinishCycle(p)
        PROVE  WaitAt(q, i)'
    <2>1. CASE p = q
      <3>1. UntilTry(q, i)' <= UntilTry(q, i)
        BY <1>9, <2>1, FinishOther
      <3>2. Waits(q)' = Waits(q)
        BY <1>0, <1>9, <2>1 DEF FinishCycle, Waits, Up, PodTypeOK
      <3> QED
        BY <1>9, <3>1, <3>2, <1>A DEF FinishCycle
    <2>2. CASE p # q
      BY <1>0, <1>9, <2>2, <1>B DEF FinishCycle, PodTypeOK, TimeTypeOK
    <2> QED
      BY <2>1, <2>2
  <1>10. ASSUME NEW p \in Pods, StartCycle(p)
         PROVE  WaitAt(q, i)'
    <2>1. CASE p = q
      <3>1. UntilTry(q, i)' <= UntilTry(q, i)
        BY <1>10, <2>1, StartOther
      <3>2. Waits(q)' = Waits(q)
        BY <1>0, <1>10, <2>1 DEF StartCycle, Waits, Up, PodTypeOK
      <3> QED
        BY <1>10, <3>1, <3>2, <1>A DEF StartCycle
    <2>2. CASE p # q
      BY <1>0, <1>10, <2>2, <1>B DEF StartCycle, PodTypeOK, TimeTypeOK
    <2> QED
      BY <2>1, <2>2
  <1>11. ASSUME NEW p \in Pods, Stop(p)
         PROVE  WaitAt(q, i)'
    <2>1. CASE p = q
      <3>1. waited[q][r] = 0
        BY <1>0, <1>11, <2>1 DEF Stop, WaitAt, Waits
      <3> QED
        BY <1>11, <3>1, <1>C DEF Stop
    <2>2. CASE p # q
      BY <1>0, <1>11, <2>2, <1>B DEF Stop, PodTypeOK, TimeTypeOK
    <2> QED
      BY <2>1, <2>2
  <1>12. ASSUME Tick
         PROVE  WaitAt(q, i)'
    <2>1. /\ Waits(q)' = Waits(q) /\ disruptions' = disruptions
          /\ ttl'[r] = TTLAfterTick(ttl[r])
          /\ waited'[q][r] = IF Waits(q) /\ waited[q][r] < MaxWait
                             THEN waited[q][r] + 1 ELSE waited[q][r]
      BY <1>0, <1>12 DEF Tick, Waits, Up
    <2>2. CASE ~Waits(q)
      BY <1>0, <2>1, <2>2 DEF WaitAt
    <2>3. CASE Waits(q)
      <3>1. UntilTry(q, i)' + 1 <= UntilTry(q, i)
        BY <1>0, <1>12, <2>3, TickCloser
      <3>2. UntilTry(q, i) \in Nat
        BY <1>0, <2>3, TryRange DEF Waits
      <3>3. UntilTry(q, i)' \in Nat
        BY <1>0, <2>1, <2>3, TryRangeNext DEF TryInRange, Waits
      <3>4. PICK w \in Nat : w = waited[q][r]
        BY WaitTypes
      <3>5. PICK w1 \in Nat : w1 = waited'[q][r] /\ w1 <= w + 1
        BY <2>1, <3>4
      <3>6. PICK l \in Nat : l = ttl[r]
        BY WaitTypes
      <3>7. PICK l1 \in Nat : l1 = ttl'[r] /\ (l1 > 0 => l = l1 + 1)
        BY <2>1, <3>6 DEF TTLAfterTick
      <3>8. PICK b \in Nat : b = Budget(disruptions)
        BY WaitTypes
      <3>9. PICK c \in Nat : c = Budget(disruptions + 1)
        BY <3>8, WaitTypes, WaitFacts
      <3>10. w + UntilTry(q, i) < c /\ (l > 0 => w + l <= b + Interval)
        BY <1>0, <2>3, <3>4, <3>6, <3>8, <3>9 DEF WaitAt
      <3>11. w1 + UntilTry(q, i)' < c
        BY <3>1, <3>2, <3>3, <3>5, <3>10
      <3>12. l1 > 0 => w1 + l1 <= b + Interval
        BY <3>5, <3>7, <3>10, TimesAssumption
      <3> QED
        BY <2>1, <2>3, <3>5, <3>7, <3>8, <3>9, <3>11, <3>12 DEF WaitAt
    <2> QED
      BY <2>2, <2>3
  <1>13. ASSUME ValkeyLosesKeys
         PROVE  WaitAt(q, i)'
    BY <1>13, <1>B DEF ValkeyLosesKeys, Disrupt
  <1>14. ASSUME UNCHANGED vars
         PROVE  WaitAt(q, i)'
    BY <1>14, <1>B DEF vars
  <1> QED
    BY <1>1, <1>2, <1>3, <1>4, <1>5, <1>6, <1>7, <1>8, <1>9, <1>10, <1>11,
       <1>12, <1>13, <1>14 DEF Next, PodStep

(* In pods that lose no time outside of a collection, a skipped repository *)
(* is never starved: its wait is bounded whatever crashes, stops or fails. *)
THEOREM ReposAreNeverStarved == Prompt => (Spec => []NeverStarved)
  <1> SUFFICES ASSUME Prompt
               PROVE  Spec => []NeverStarved
    OBVIOUS
  <1>1. Init => TypeInv /\ MalformedSeen /\ WaitInv
    <2> SUFFICES ASSUME Init
                 PROVE  MalformedSeen /\ WaitInv
      BY TypeInvInit
    <2>1. MalformedSeen
      BY DEF Init, MalformedSeen, SeenBy, CollectingNow
    <2>2. TickerInv
      BY DEF Init, TickerInv
    <2>3. ASSUME NEW p \in Pods, NEW i \in Named
          PROVE  WaitAt(p, i)
      <3>1. ~Waits(p)
        BY DEF Init, Waits, Up
      <3>2. waited[p][Repositories[i]] = 0
        BY ConfiguredRepo DEF Init, Named
      <3> QED
        BY <3>1, <3>2 DEF WaitAt
    <2> QED
      BY <2>1, <2>2, <2>3 DEF WaitInv
  <1>2. TypeInv /\ WaitInv => NeverStarved
    <2> SUFFICES ASSUME TypeInv, WaitInv, NEW p \in Pods, NEW r \in WellFormed
                 PROVE  waited[p][r] < StarvationBound
      BY DEF NeverStarved
    <2>1. PICK i \in Named : Repositories[i] = r
      BY RepositoriesAssumption DEF WellFormed, Repos, Named, Configured
    <2>2. WaitAt(p, i)
      BY DEF WaitInv
    <2>3. /\ waited[p][r] \in Nat /\ LongestWait \in Nat
          /\ Budget(disruptions) \in Nat
          /\ Budget(disruptions + 1) = Budget(disruptions) + LongestWait
      BY <2>1, WaitTypes, WaitFacts
    <2>4. StarvationBound = Budget(disruptions + 1)
      BY WaitTypes, WaitFacts, <2>1
    <2>5. CASE Waits(p)
      <3>1. UntilTry(p, i) \in Nat
        BY <2>5, TryRange DEF Waits, Named
      <3>2. waited[p][r] + UntilTry(p, i) < Budget(disruptions + 1)
        BY <2>1, <2>2, <2>5 DEF WaitAt
      <3> QED
        BY <2>3, <2>4, <3>1, <3>2
    <2>6. CASE ~Waits(p)
      <3>1. waited[p][r] = 0
        BY <2>1, <2>2, <2>6 DEF WaitAt
      <3>2. 0 < LongestWait
        <4>1. Time(Len(Repositories)) \in Nat /\ Interval \in Nat
          BY LenIsNat, TimeFacts, TimesAssumption
        <4>2. Interval + Time(Len(Repositories)) < LongestWait
          BY WaitFacts
        <4> QED
          BY <2>3, <4>1, <4>2
      <3> QED
        BY <2>3, <2>4, <3>1, <3>2
    <2> QED
      BY <2>5, <2>6
  <1>3. TypeInv /\ MalformedSeen /\ WaitInv /\ [Next]_vars
            => (TypeInv /\ MalformedSeen /\ WaitInv)'
    BY TypeInvStep, MalformedStep, WaitStep
  <1> QED
    BY <1>1, <1>2, <1>3, PTL DEF Spec
=============================================================================
