---------------------------- MODULE StartupProofs ---------------------------
(***************************************************************************)
(* Theorems about what a process does when it starts: the self-tests, for  *)
(* any pods and any number of faults, and the way of the credentials to    *)
(* the pool, for any configuration.                                        *)
(***************************************************************************)
EXTENDS SelfTests, Configuration, FiniteSetTheorems, SequenceTheorems, TLAPS

(* Pods that will still drop testdb *)
Dropping == Crud \cup {"close", "terminate2", "drop2"}

(* Who is connected is using testdb, or has crashed. *)
SessionInv ==
    \A s \in sessions :
        \/ s \in Pods /\ pc[s] \in Crud \cup {"close"}
        \/ s = Ghost /\ abandoned

DropInv == db # "none" /\ ~abandoned => \E p \in Pods : pc[p] \in Dropping

ValuesInv == db # "table" => values = {}

CleanInv == SelfTestTypeOK /\ SessionInv /\ DropInv /\ ValuesInv

(* What a pod that tests alone finds at each statement *)
LoneState(p) ==
    /\ pc[p] = "get" => init = p
    /\ pc[p] \in {"drop1", "create", "table"} => sessions = {}
    /\ pc[p] = "create" => db = "none"
    /\ pc[p] = "table" => db = "bare"
    /\ pc[p] \in {"insert", "read", "update", "reread"} => db = "table" /\ p \in sessions
    /\ pc[p] = "insert" => values = {}
    /\ pc[p] \in {"read", "update"} => values = {"test"}
    /\ pc[p] = "reread" => values = {"updated"}

LoneInv ==
    \A p \in Pods : lone[p] =>
        /\ pc[p] # "failed"
        /\ Testing(p) => /\ late = {} /\ \A q \in Pods \ {p} : ~Testing(q)
                         /\ ~crudErr[p]
                         /\ LoneState(p)

-----------------------------------------------------------------------------

(* No pod tests at first. *)
LEMMA InitInv == SelfTestInit => CleanInv /\ LoneInv
<1> SUFFICES ASSUME SelfTestInit PROVE CleanInv /\ LoneInv
  OBVIOUS
<1> USE DEF SelfTestInit
<1>1. SelfTestTypeOK
  <2>1. pc \in [Pods -> Pcs] /\ crudErr \in [Pods -> BOOLEAN] /\ lone \in [Pods -> BOOLEAN]
    BY DEF Pcs
  <2>2. faults \in 0..MaxFaults
    BY PodsAssumption
  <2> QED BY <2>1, <2>2 DEF SelfTestTypeOK
<1>2. SessionInv /\ DropInv /\ ValuesInv
  BY DEF SessionInv, DropInv, ValuesInv
<1>3. \A p \in Pods : pc[p] # "failed" /\ ~Testing(p)
  BY DEF Testing, Statements, Crud
<1> QED BY <1>1, <1>2, <1>3 DEF CleanInv, LoneInv

(* What may be late is a statement of a pod, with the number of a fault. *)
LEMMA GiveUpTypes ==
    ASSUME SelfTestTypeOK, NEW p \in Pods, GiveUp(p), faults < MaxFaults, faults' = faults + 1
    PROVE  late' \subseteq [fault : 1..MaxFaults, pod : Pods, what : Lasting]
<1>1. faults' \in 1..MaxFaults
  BY PodsAssumption DEF SelfTestTypeOK
<1> QED BY <1>1 DEF GiveUp, SelfTestTypeOK

(* Every step keeps the types. *)
LEMMA TypeStep ==
    ASSUME SelfTestTypeOK, [SelfTestNext]_selfTestVars
    PROVE  SelfTestTypeOK'
<1> USE PodsAssumption DEF SelfTestTypeOK, Pcs, Statements, Crud, GoTo, history, postgres
<1>1. ASSUME NEW p \in Pods, Start(p) PROVE SelfTestTypeOK'
  BY <1>1 DEF Start
<1>2. ASSUME NEW p \in Pods, Step(p) PROVE SelfTestTypeOK'
  <2>1. CASE SetInit(p) \/ GetInit(p) \/ CreateDatabase(p) \/ ClosePool(p) \/ Verdict(p)
    BY <2>1 DEF SetInit, GetInit, CreateDatabase, ClosePool, Verdict
  <2>2. CASE Terminate(p, "terminate1", "drop1") \/ Terminate(p, "terminate2", "drop2")
    BY <2>2 DEF Terminate
  <2>3. CASE Drop(p, "drop1", "create") \/ Drop(p, "drop2", "verdict")
    BY <2>3 DEF Drop, DropTestdb
  <2>4. CASE CreateTable(p) \/ Insert(p) \/ Update(p)
    BY <2>4 DEF CreateTable, Insert, Update, Connected
  <2>5. CASE Read(p, "read", "test", "update") \/ Read(p, "reread", "updated", "close")
    BY <2>5 DEF Read, Connected
  <2>6. CASE CrudFails(p)
    BY <2>6 DEF CrudFails, Connected, OnError
  <2> QED BY <1>2, <2>1, <2>2, <2>3, <2>4, <2>5, <2>6 DEF Step
<1>3. ASSUME NEW p \in Pods, StatementFails(p) PROVE SelfTestTypeOK'
  <2>1. late' \subseteq [fault : 1..MaxFaults, pod : Pods, what : Lasting]
    BY <1>3, GiveUpTypes DEF StatementFails
  <2> QED BY <1>3, <2>1 DEF StatementFails, OnError
<1>4. ASSUME NEW p \in Pods, Crash(p) PROVE SelfTestTypeOK'
  <2>1. late' \subseteq [fault : 1..MaxFaults, pod : Pods, what : Lasting]
    BY <1>4, GiveUpTypes DEF Crash
  <2> QED BY <1>4, <2>1 DEF Crash
<1>5. CASE LateStatement
  <2>1. PICK s \in late : /\ late' = late \ {s}
                          /\ LateSet(s) \/ LateTerminate(s) \/ LateDrop(s) \/ LateCreate(s)
    BY <1>5 DEF LateStatement
  <2>2. UNCHANGED <<pc, crudErr, faults, lone>>
    BY <1>5 DEF LateStatement
  <2>3. late' \subseteq [fault : 1..MaxFaults, pod : Pods, what : Lasting] /\ s.pod \in Pods
    BY <2>1
  <2> QED BY <2>1, <2>2, <2>3 DEF LateSet, LateTerminate, LateDrop, LateCreate, DropTestdb
<1>6. CASE UNCHANGED selfTestVars
  BY <1>6 DEF selfTestVars
<1> QED BY <1>1, <1>2, <1>3, <1>4, <1>5, <1>6 DEF SelfTestNext

(* Every variable has its type. *)
THEOREM TypeCorrect == SelfTestSpec => []SelfTestTypeOK
<1>1. SelfTestInit => SelfTestTypeOK
  BY InitInv DEF CleanInv
<1>2. SelfTestTypeOK /\ [SelfTestNext]_selfTestVars => SelfTestTypeOK'
  BY TypeStep
<1> QED BY <1>1, <1>2, PTL DEF SelfTestSpec
-----------------------------------------------------------------------------

(* While testdb is there, some pod will still drop it, or one was kept from it. *)
LEMMA CleanStep ==
    ASSUME CleanInv, [SelfTestNext]_selfTestVars
    PROVE  CleanInv'
<1> USE DEF CleanInv
<1>0. SelfTestTypeOK'
  BY TypeStep
<1>a. /\ pc \in [Pods -> Pcs]
      /\ Ghost \notin Pods
  BY PodsAssumption DEF SelfTestTypeOK
<1>1. ASSUME NEW p \in Pods, Start(p) PROVE SessionInv' /\ DropInv' /\ ValuesInv'
  BY <1>1, <1>a DEF Start, GoTo, Testing, Statements, Crud, postgres, Dropping,
                    SessionInv, DropInv, ValuesInv
<1>2. ASSUME NEW p \in Pods, SetInit(p) \/ GetInit(p)
      PROVE  SessionInv' /\ DropInv' /\ ValuesInv'
  BY <1>2, <1>a DEF SetInit, GetInit, GoTo, Crud, postgres, history, Dropping,
                    SessionInv, DropInv, ValuesInv
<1>3. ASSUME NEW p \in Pods,
             Terminate(p, "terminate1", "drop1") \/ Terminate(p, "terminate2", "drop2")
      PROVE  SessionInv' /\ DropInv' /\ ValuesInv'
  BY <1>3, <1>a DEF Terminate, GoTo, Crud, history, Dropping, SessionInv, DropInv, ValuesInv
<1>4. ASSUME NEW p \in Pods, Drop(p, "drop1", "create") \/ Drop(p, "drop2", "verdict")
      PROVE  SessionInv' /\ DropInv' /\ ValuesInv'
  <2>1. CASE sessions = {}
    BY <1>4, <2>1 DEF Drop, DropTestdb, SessionInv, DropInv, ValuesInv
  <2>2. CASE sessions # {}
    <3>1. SessionInv' /\ ValuesInv'
      BY <1>4, <1>a, <2>2 DEF Drop, DropTestdb, GoTo, Crud, SessionInv, ValuesInv
    <3>2. DropInv'
      <4> SUFFICES ASSUME ~abandoned PROVE \E q \in Pods : pc'[q] \in Dropping
        BY <1>4, <2>2 DEF Drop, DropTestdb, DropInv
      <4>1. PICK q \in sessions : q \in Pods /\ pc[q] \in Crud \cup {"close"}
        BY <2>2 DEF SessionInv
      <4>2. q # p /\ pc'[q] = pc[q]
        BY <1>4, <1>a, <4>1 DEF Drop, GoTo, Crud
      <4> QED BY <4>1, <4>2 DEF Dropping
    <3> QED BY <3>1, <3>2
  <2> QED BY <2>1, <2>2
<1>5. ASSUME NEW p \in Pods, CreateDatabase(p)
      PROVE  SessionInv' /\ DropInv' /\ ValuesInv'
  BY <1>5, <1>a DEF CreateDatabase, GoTo, Crud, history, Dropping, SessionInv, DropInv, ValuesInv
<1>6. ASSUME NEW p \in Pods,
             \/ CreateTable(p) \/ Insert(p) \/ Update(p) \/ CrudFails(p)
             \/ Read(p, "read", "test", "update") \/ Read(p, "reread", "updated", "close")
      PROVE  SessionInv' /\ DropInv' /\ ValuesInv'
  <2>1. /\ sessions' \subseteq sessions \cup {p}
        /\ pc[p] \in Crud /\ pc'[p] \in Crud \cup {"close"}
        /\ \A q \in Pods \ {p} : pc'[q] = pc[q]
        /\ abandoned' = abandoned
        /\ db' # "table" => db # "table" /\ values' = values
    BY <1>6, <1>a DEF CreateTable, Insert, Update, CrudFails, Read, Connected, GoTo, Crud,
                      OnError, history
  <2> QED BY <2>1, <1>a DEF Dropping, SessionInv, DropInv, ValuesInv
<1>7. ASSUME NEW p \in Pods, ClosePool(p) PROVE SessionInv' /\ DropInv' /\ ValuesInv'
  BY <1>7, <1>a DEF ClosePool, GoTo, Crud, history, Dropping, SessionInv, DropInv, ValuesInv
<1>8. ASSUME NEW p \in Pods, Verdict(p) PROVE SessionInv' /\ DropInv' /\ ValuesInv'
  BY <1>8, <1>a DEF Verdict, GoTo, Crud, history, postgres, Dropping, SessionInv, DropInv, ValuesInv
<1>9. ASSUME NEW p \in Pods, StatementFails(p) PROVE SessionInv' /\ DropInv' /\ ValuesInv'
  <2>1. /\ pc[p] \in Crud => pc'[p] = "close"
        /\ pc[p] = "terminate2" => pc'[p] = "drop2"
        /\ \A q \in Pods \ {p} : pc'[q] = pc[q]
    BY <1>9, <1>a DEF StatementFails, GoTo, OnError, Crud
  <2>2. /\ sessions' = sessions /\ values' = values /\ db' = db
        /\ abandoned => abandoned'
        /\ pc[p] = "drop2" => abandoned'
        /\ pc[p] # "close"
    BY <1>9 DEF StatementFails, Statements, Crud, postgres
  <2> QED BY <2>1, <2>2, <1>a DEF Dropping, SessionInv, DropInv, ValuesInv
<1>10. ASSUME NEW p \in Pods, Crash(p) PROVE SessionInv' /\ DropInv' /\ ValuesInv'
  <2>1. /\ abandoned' /\ db' = db /\ values' = values
        /\ \A q \in Pods \ {p} : pc'[q] = pc[q]
        /\ \A s \in sessions' : s = Ghost \/ s \in sessions \ {p}
    BY <1>10, <1>a DEF Crash, GoTo
  <2> QED BY <2>1, <1>a DEF SessionInv, DropInv, ValuesInv
<1>11. CASE LateStatement
  <2>1. PICK s \in late : LateSet(s) \/ LateTerminate(s) \/ LateDrop(s) \/ LateCreate(s)
    BY <1>11 DEF LateStatement
  <2>2. pc' = pc
    BY <1>11 DEF LateStatement
  <2>3. CASE LateSet(s)
    BY <1>0, <2>2, <2>3 DEF LateSet, postgres, SessionInv, DropInv, ValuesInv
  <2>4. CASE LateTerminate(s)
    BY <1>0, <2>2, <2>4 DEF LateTerminate, SessionInv, DropInv, ValuesInv
  <2>5. CASE LateDrop(s)
    BY <1>0, <2>2, <2>5 DEF LateDrop, DropTestdb, SessionInv, DropInv, ValuesInv
  <2>6. CASE LateCreate(s)
    BY <1>0, <2>2, <2>6 DEF LateCreate, SessionInv, DropInv, ValuesInv
  <2> QED BY <1>0, <2>1, <2>3, <2>4, <2>5, <2>6
<1>12. CASE UNCHANGED selfTestVars
  <2>1. pc' = pc /\ db' = db /\ values' = values /\ sessions' = sessions /\ abandoned' = abandoned
    BY <1>12 DEF selfTestVars, postgres, history
  <2> QED BY <1>0, <2>1 DEF SessionInv, DropInv, ValuesInv
<1> QED
  BY <1>0, <1>1, <1>2, <1>3, <1>4, <1>5, <1>6, <1>7, <1>8, <1>9, <1>10, <1>11, <1>12
     DEF SelfTestNext, Step

(* The invariant about testdb holds always. *)
LEMMA CleanInvHolds == SelfTestSpec => []CleanInv
<1>1. SelfTestInit => CleanInv
  BY InitInv
<1>2. CleanInv /\ [SelfTestNext]_selfTestVars => CleanInv'
  BY CleanStep
<1> QED BY <1>1, <1>2, PTL DEF SelfTestSpec

(* testdb is gone when no pod tests, however many ran into each other: who fails to *)
(* drop it is kept from it by one that will drop it later, or has crashed. *)
THEOREM TestdbIsCleanedUp == SelfTestSpec => []CleanedUp
<1>1. CleanInv => CleanedUp
  BY DEF CleanInv, DropInv, CleanedUp, Testing, Statements, Crud, Dropping
<1> QED BY CleanInvHolds, <1>1, PTL

-----------------------------------------------------------------------------

(* While a pod tests alone, every step of a test is its own. *)
LEMMA LoneStep ==
    ASSUME SelfTestTypeOK, ValuesInv, LoneInv, [SelfTestNext]_selfTestVars
    PROVE  LoneInv'
<1>a. /\ pc \in [Pods -> Pcs] /\ crudErr \in [Pods -> BOOLEAN]
      /\ lone \in [Pods -> BOOLEAN]
  BY DEF SelfTestTypeOK
<1>b. ASSUME NEW p \in Pods, Testing(p), NEW r \in Pods, lone[r], Testing(r)
      PROVE  r = p
  BY <1>b DEF LoneInv
<1>1. ASSUME NEW p \in Pods, Start(p) PROVE LoneInv'
  <2>1. /\ pc' = [pc EXCEPT ![p] = "set"] /\ crudErr'[p] = FALSE
        /\ lone'[p] = (late = {} /\ \A r \in Pods \ {p} : ~Testing(r)) /\ late' = late
        /\ \A q \in Pods \ {p} : lone'[q] = (lone[q] /\ ~Testing(q))
    BY <1>1, <1>a DEF Start, GoTo
  <2>2. \A q \in Pods \ {p} : pc'[q] = pc[q]
    BY <2>1, <1>a
  <2>3. LoneState(p)'
    BY <2>1, <1>a DEF LoneState
  <2> QED BY <2>1, <2>2, <2>3, <1>a DEF LoneInv, Testing
<1>2. ASSUME NEW p \in Pods, Testing(p), \A q \in Pods \ {p} : pc'[q] = pc[q],
             \A q \in Pods : lone'[q] => lone[q],
             lone'[p] => \/ pc'[p] \in {"down", "up"}
                        \/ /\ pc'[p] # "failed" /\ late' = late
                           /\ ~crudErr'[p]
                           /\ LoneState(p)'
      PROVE  LoneInv'
  <2> SUFFICES ASSUME NEW r \in Pods, lone'[r]
               PROVE  /\ pc'[r] # "failed"
                      /\ Testing(r)' => /\ late' = {} /\ \A q \in Pods \ {r} : ~Testing(q)'
                                        /\ ~crudErr'[r]
                                        /\ LoneState(r)'
    BY DEF LoneInv
  <2>1. CASE r = p
    BY <1>2, <2>1 DEF LoneInv, Testing, Statements, Crud
  <2>2. CASE r # p
    BY <1>2, <2>2 DEF LoneInv, Testing
  <2> QED BY <2>1, <2>2
<1>3. ASSUME NEW p \in Pods, Step(p), lone[p]
      PROVE  \/ pc'[p] = "up"
             \/ /\ pc'[p] # "failed"
                /\ ~crudErr'[p]
                /\ LoneState(p)'
  <2>0. ~crudErr[p] /\ LoneState(p)
    BY <1>3 DEF Step, SetInit, GetInit, Terminate, Drop, CreateDatabase, CreateTable, Insert,
                Read, Update, CrudFails, ClosePool, Verdict, LoneInv, Testing, Statements, Crud
  <2>1. CASE SetInit(p) \/ GetInit(p)
    BY <2>0, <2>1, <1>a DEF SetInit, GetInit, GoTo, LoneState
  <2>2. CASE Terminate(p, "terminate1", "drop1") \/ Terminate(p, "terminate2", "drop2")
    BY <2>0, <2>2, <1>a DEF Terminate, GoTo, LoneState
  <2>3. CASE Drop(p, "drop1", "create") \/ Drop(p, "drop2", "verdict")
    BY <2>0, <2>3, <1>a DEF Drop, DropTestdb, GoTo, LoneState
  <2>4. CASE CreateDatabase(p)
    BY <2>0, <2>4, <1>a DEF CreateDatabase, GoTo, LoneState
  <2>5. CASE CreateTable(p) \/ Insert(p) \/ Update(p)
    <3>1. CASE CreateTable(p)
      BY <2>0, <3>1, <1>a DEF CreateTable, Connected, GoTo, LoneState, ValuesInv
    <3>2. CASE Insert(p)
      BY <2>0, <3>2, <1>a DEF Insert, Connected, GoTo, LoneState
    <3>3. CASE Update(p)
      <4>1. values' = {"updated"}
        BY <2>0, <3>3 DEF Update, LoneState
      <4> QED BY <2>0, <3>3, <4>1, <1>a DEF Update, Connected, GoTo, LoneState
    <3> QED BY <2>5, <3>1, <3>2, <3>3
  <2>6. CASE Read(p, "read", "test", "update") \/ Read(p, "reread", "updated", "close")
    BY <2>0, <2>6, <1>a DEF Read, Connected, GoTo, LoneState
  <2>7. CASE CrudFails(p)
    BY <2>0, <2>7 DEF CrudFails, Broken, Connected, LoneState, Crud
  <2>8. CASE ClosePool(p) \/ Verdict(p)
    BY <2>0, <2>8, <1>a DEF ClosePool, Verdict, GoTo, LoneState
  <2> QED BY <1>3, <2>1, <2>2, <2>3, <2>4, <2>5, <2>6, <2>7, <2>8 DEF Step
<1>4. ASSUME NEW p \in Pods, Step(p) PROVE LoneInv'
  <2>1. Testing(p) /\ lone' = lone /\ late' = late /\ \A q \in Pods \ {p} : pc'[q] = pc[q]
    BY <1>4, <1>a DEF Step, SetInit, GetInit, Terminate, Drop, CreateDatabase, CreateTable,
         Insert, Read, Update, CrudFails, ClosePool, Verdict, GoTo, history, Testing,
         Statements, Crud
  <2> QED BY <1>2, <1>3, <1>4, <2>1
<1>5. ASSUME NEW p \in Pods, StatementFails(p) PROVE LoneInv'
  <2>1. /\ Testing(p) /\ ~lone'[p]
        /\ \A q \in Pods : lone'[q] => lone[q]
        /\ \A q \in Pods \ {p} : pc'[q] = pc[q]
    BY <1>5, <1>a DEF StatementFails, GoTo, Testing
  <2>2. lone'[p] => /\ pc'[p] # "failed" /\ late' = late
                    /\ ~crudErr'[p]
                    /\ LoneState(p)'
    BY <2>1
  <2> QED BY <1>2, <2>1, <2>2
<1>6. ASSUME NEW p \in Pods, Crash(p) PROVE LoneInv'
  <2>1. /\ Testing(p) /\ pc'[p] = "down" /\ lone' = lone
        /\ \A q \in Pods \ {p} : pc'[q] = pc[q]
    BY <1>6, <1>a DEF Crash, GoTo
  <2> QED BY <1>2, <2>1
<1>7. CASE LateStatement
  <2>1. late # {} /\ pc' = pc /\ lone' = lone
    BY <1>7 DEF LateStatement
  <2>2. \A p \in Pods : lone[p] => pc[p] # "failed" /\ ~Testing(p)
    BY <2>1 DEF LoneInv
  <2> QED BY <2>1, <2>2 DEF LoneInv, Testing
<1>8. CASE UNCHANGED selfTestVars
  BY <1>8 DEF selfTestVars, postgres, history, LoneInv, LoneState, Testing
<1> QED BY <1>1, <1>4, <1>5, <1>6, <1>7, <1>8 DEF SelfTestNext

(* A pod that tests alone passes, whatever crashed pods have left behind: it ends *)
(* their sessions before it drops their testdb, and finds only what it wrote. *)
THEOREM LonePodsPass == SelfTestSpec => []LonePasses
<1>1. SelfTestInit => LoneInv
  BY InitInv
<1>2. CleanInv /\ LoneInv /\ [SelfTestNext]_selfTestVars => LoneInv'
  BY LoneStep DEF CleanInv
<1>3. LoneInv => LonePasses
  BY DEF LoneInv, LonePasses
<1> QED BY <1>1, <1>2, <1>3, CleanInvHolds, PTL DEF SelfTestSpec

-----------------------------------------------------------------------------
(* From the configuration to the pool: places of a list that count *)

PlacesTo(s, G, n) == {j \in 1..n : s[j] \in G}
ValuesTo(s, G, n) == {s[j] : j \in PlacesTo(s, G, n)}

(* One place more. *)
LEMMA PlacesGrow ==
    ASSUME NEW s, NEW G, NEW n \in Nat
    PROVE  /\ IsFiniteSet(PlacesTo(s, G, n)) /\ Cardinality(PlacesTo(s, G, n)) \in Nat
           /\ Cardinality(PlacesTo(s, G, n + 1)) =
                 Cardinality(PlacesTo(s, G, n)) + IF s[n + 1] \in G THEN 1 ELSE 0
           /\ ValuesTo(s, G, n + 1) =
                 ValuesTo(s, G, n) \cup IF s[n + 1] \in G THEN {s[n + 1]} ELSE {}
<1> DEFINE L == PlacesTo(s, G, n)
           M == PlacesTo(s, G, n + 1)
<1>1. IsFiniteSet(L)
  <2>1. IsFiniteSet(1..n) /\ L \in SUBSET (1..n)
    BY FS_Interval DEF PlacesTo
  <2> QED BY <2>1, FS_Subset
<1>2. Cardinality(L) \in Nat
  BY <1>1, FS_CardinalityType
<1>3. n + 1 \notin L /\ \A j : j \in 1..(n + 1) <=> j \in 1..n \/ j = n + 1
  BY DEF PlacesTo
<1>4. CASE s[n + 1] \in G
  <2>1. M = L \cup {n + 1}
    BY <1>3, <1>4 DEF PlacesTo
  <2>2. Cardinality(M) = Cardinality(L) + 1
    BY <1>1, <1>3, <2>1, FS_AddElement
  <2>3. ValuesTo(s, G, n + 1) = ValuesTo(s, G, n) \cup {s[n + 1]}
    BY <2>1 DEF ValuesTo
  <2> QED BY <1>1, <1>2, <1>4, <2>2, <2>3
<1>5. CASE s[n + 1] \notin G
  <2>1. M = L
    BY <1>3, <1>5 DEF PlacesTo
  <2> QED BY <1>1, <1>2, <1>5, <2>1 DEF ValuesTo
<1> QED BY <1>4, <1>5

(* Nothing counts among no places. *)
LEMMA NoPlaces ==
    ASSUME NEW s, NEW G
    PROVE  Cardinality(PlacesTo(s, G, 0)) = 0 /\ ValuesTo(s, G, 0) = {}
<1>1. PlacesTo(s, G, 0) = {}
  BY DEF PlacesTo
<1> QED BY <1>1, FS_EmptySet DEF ValuesTo

(* An element that counts is put before the others. *)
LEMMA PlacesPrepended ==
    ASSUME NEW S, NEW s \in Seq(S), NEW x \in S, NEW G, x \in G
    PROVE  LET t == <<x>> \o s
           IN  /\ t \in Seq(S) /\ Len(t) = Len(s) + 1 /\ t[1] = x
               /\ Cardinality(PlacesTo(t, G, Len(t))) = Cardinality(PlacesTo(s, G, Len(s))) + 1
               /\ ValuesTo(t, G, Len(t)) = ValuesTo(s, G, Len(s)) \cup {x}
<1> DEFINE t == <<x>> \o s
<1>1. PICK m \in Nat : m = Len(s)
  BY LenProperties
<1>2. <<x>> \in Seq(S) /\ Len(<<x>>) = 1 /\ <<x>>[1] = x
  OBVIOUS
<1>3. /\ t \in Seq(S) /\ Len(t) = 1 + m
      /\ \A i \in 1..(1 + m) : t[i] = IF i <= 1 THEN <<x>>[i] ELSE s[i - 1]
  BY <1>1, <1>2, ConcatProperties
<1> HIDE DEF t
<1>4. Len(t) = m + 1 /\ t[1] = x
  BY <1>2, <1>3
<1>5. \A j \in 1..m : j + 1 \in 1..(m + 1) /\ t[j + 1] = s[j]
  <2> SUFFICES ASSUME NEW j \in 1..m
               PROVE  j + 1 \in 1..(m + 1) /\ t[j + 1] = s[j]
    OBVIOUS
  <2>1. PICK k \in Nat : k = j + 1
    OBVIOUS
  <2>2. k \in 1..(1 + m) /\ ~(k <= 1) /\ k - 1 = j
    BY <2>1
  <2>3. t[k] = s[j]
    BY <1>3, <2>2
  <2> QED BY <2>1, <2>2, <2>3
<1> DEFINE L == PlacesTo(s, G, m)
           M == PlacesTo(t, G, m + 1)
           N == {j + 1 : j \in L}
           f == [j \in L |-> j + 1]
<1>6. L \subseteq 1..m /\ IsFiniteSet(L) /\ Cardinality(L) \in Nat
  <2>1. L \subseteq 1..m
    BY DEF PlacesTo
  <2>2. IsFiniteSet(L) /\ Cardinality(L) \in Nat
    BY PlacesGrow
  <2> QED BY <2>1, <2>2
<1>7. IsFiniteSet(N) /\ Cardinality(N) = Cardinality(L)
  <2>1. f \in Bijection(L, N)
    <3>1. f \in [L -> N] /\ \A z \in N : \E j \in L : f[j] = z
      OBVIOUS
    <3>2. \A i, j \in L : f[i] = f[j] => i = j
      BY <1>6
    <3> QED BY <3>1, <3>2 DEF Bijection, Injection, IsInjective, Surjection
  <2> HIDE DEF f, N, L
  <2> QED BY <1>6, <2>1, FS_Bijection DEF ExistsBijection
<1>8. M = N \cup {1}
  <2>1. ASSUME NEW i \in M
        PROVE  i \in N \cup {1}
    <3>1. i \in 1..(m + 1) /\ t[i] \in G
      BY DEF PlacesTo
    <3>2. CASE i # 1
      <4>1. i - 1 \in 1..m /\ (i - 1) + 1 = i
        BY <3>1, <3>2
      <4>2. s[i - 1] \in G
        BY <1>5, <3>1, <4>1
      <4>3. i - 1 \in L
        BY <4>1, <4>2 DEF PlacesTo
      <4> QED BY <4>1, <4>3
    <3> QED BY <3>2
  <2>2. ASSUME NEW j \in L
        PROVE  j + 1 \in M
    BY <1>5 DEF PlacesTo
  <2>3. 1 \in M
    BY <1>4 DEF PlacesTo
  <2> QED BY <2>1, <2>2, <2>3
<1>9. 1 \notin N
  BY <1>6
<1>10. Cardinality(M) = Cardinality(L) + 1
  <2> HIDE DEF M, N, L
  <2> QED BY <1>6, <1>7, <1>8, <1>9, FS_AddElement
<1>11. {t[j] : j \in M} = {s[j] : j \in L} \cup {x}
  <2>1. \A j \in L : t[j + 1] = s[j]
    BY <1>5, <1>6
  <2>2. {t[i] : i \in N} = {s[j] : j \in L}
    BY <2>1
  <2> HIDE DEF N, M
  <2> QED BY <1>4, <1>8, <2>2
<1> QED BY <1>1, <1>3, <1>4, <1>10, <1>11 DEF t, ValuesTo

-----------------------------------------------------------------------------
(* The loops of Connect *)

PatStrings == STRING \ {NoText}
KnownApps == {a \in Apps : a.app_id # 0}
PatEntries == [token : STRING]
Entries == PatEntries \cup Apps

(* The first p entries are the tokens among the first n of T. *)
HoldsTokens(e, p, T, n) ==
    /\ p = Cardinality(PlacesTo(T, PatStrings, n)) /\ p <= Len(e)
    /\ \A k \in 1..p : e[k] \in PatEntries
    /\ {e[k].token : k \in 1..p} = ValuesTo(T, PatStrings, n)
    /\ n >= 1 /\ T[1] \in PatStrings => p >= 1 /\ e[1] = [token |-> T[1]]

(* The other entries are the applications among the first n of A. *)
HoldsApps(e, p, A, n) ==
    /\ Len(e) = p + Cardinality(PlacesTo(A, KnownApps, n))
    /\ \A k \in (p + 1)..Len(e) : e[k] \in Apps
    /\ {e[k] : k \in (p + 1)..Len(e)} = ValuesTo(A, KnownApps, n)

(* An entry more. *)
LEMMA EntryAppended ==
    ASSUME NEW e \in Seq(Entries), NEW x \in Entries
    PROVE  /\ Append(e, x) \in Seq(Entries) /\ Len(Append(e, x)) = Len(e) + 1
           /\ Append(e, x)[Len(e) + 1] = x
           /\ \A k \in 1..Len(e) : Append(e, x)[k] = e[k]
BY AppendProperties

(* One token more. *)
LEMMA NextToken ==
    ASSUME NEW T, NEW n \in Nat, NEW t, t = T[n + 1]
    PROVE  /\ Cardinality(PlacesTo(T, PatStrings, n + 1)) =
                 Cardinality(PlacesTo(T, PatStrings, n)) + IF t \in PatStrings THEN 1 ELSE 0
           /\ ValuesTo(T, PatStrings, n + 1) =
                 ValuesTo(T, PatStrings, n) \cup IF t \in PatStrings THEN {t} ELSE {}
<1> DEFINE G == PatStrings
<1> HIDE DEF G
<1>1. /\ Cardinality(PlacesTo(T, G, n + 1)) =
           Cardinality(PlacesTo(T, G, n)) + IF t \in G THEN 1 ELSE 0
      /\ ValuesTo(T, G, n + 1) = ValuesTo(T, G, n) \cup IF t \in G THEN {t} ELSE {}
  BY PlacesGrow
<1> QED BY <1>1 DEF G

(* One application more. *)
LEMMA NextApp ==
    ASSUME NEW A, NEW n \in Nat, NEW a, a = A[n + 1]
    PROVE  /\ Cardinality(PlacesTo(A, KnownApps, n + 1)) =
                 Cardinality(PlacesTo(A, KnownApps, n)) + IF a \in KnownApps THEN 1 ELSE 0
           /\ ValuesTo(A, KnownApps, n + 1) =
                 ValuesTo(A, KnownApps, n) \cup IF a \in KnownApps THEN {a} ELSE {}
<1> DEFINE G == KnownApps
<1> HIDE DEF G
<1>1. /\ Cardinality(PlacesTo(A, G, n + 1)) =
           Cardinality(PlacesTo(A, G, n)) + IF a \in G THEN 1 ELSE 0
      /\ ValuesTo(A, G, n + 1) = ValuesTo(A, G, n) \cup IF a \in G THEN {a} ELSE {}
  BY PlacesGrow
<1> QED BY <1>1 DEF G

(* The next token is added. *)
LEMMA TokenAdded ==
    ASSUME NEW e \in Seq(Entries), NEW T \in Seq(STRING), NEW n \in Nat, n < Len(T),
           HoldsTokens(e, Len(e), T, n)
    PROVE  LET f == IF T[n + 1] = NoText THEN e ELSE Append(e, [token |-> T[n + 1]])
           IN  f \in Seq(Entries) /\ HoldsTokens(f, Len(f), T, n + 1)
<1> DEFINE t == T[n + 1]
           f == IF t = NoText THEN e ELSE Append(e, [token |-> t])
<1>1. n + 1 \in 1..Len(T) /\ t \in STRING
  BY LenProperties
<1>2. PICK l \in Nat : l = Len(e)
  BY LenProperties
<1>3. /\ Cardinality(PlacesTo(T, PatStrings, n)) = l
      /\ \A k \in 1..l : e[k] \in PatEntries
      /\ {e[k].token : k \in 1..l} = ValuesTo(T, PatStrings, n)
      /\ n >= 1 /\ T[1] \in PatStrings => l >= 1 /\ e[1] = [token |-> T[1]]
  BY <1>2 DEF HoldsTokens
<1>0. /\ Cardinality(PlacesTo(T, PatStrings, n + 1)) =
           Cardinality(PlacesTo(T, PatStrings, n)) + IF t \in PatStrings THEN 1 ELSE 0
      /\ ValuesTo(T, PatStrings, n + 1) =
           ValuesTo(T, PatStrings, n) \cup IF t \in PatStrings THEN {t} ELSE {}
  BY NextToken
<1>4. CASE t = NoText
  <2>1. f = e /\ t \notin PatStrings
    BY <1>4 DEF PatStrings
  <2>2. /\ Cardinality(PlacesTo(T, PatStrings, n + 1)) = l
        /\ ValuesTo(T, PatStrings, n + 1) = ValuesTo(T, PatStrings, n)
    <3> HIDE DEF t, f
    <3>1. Cardinality(PlacesTo(T, PatStrings, n + 1)) = l
      BY <1>3, <1>0, <2>1
    <3>2. ValuesTo(T, PatStrings, n + 1) = ValuesTo(T, PatStrings, n)
      BY <1>0, <2>1
    <3> QED BY <3>1, <3>2
  <2>3. n + 1 >= 1 /\ T[1] \in PatStrings => l >= 1 /\ e[1] = [token |-> T[1]]
    <3>1. n = 0 \/ n >= 1
      OBVIOUS
    <3>2. n = 0 => T[1] = t
      OBVIOUS
    <3> QED BY <1>3, <2>1, <3>1, <3>2
  <2>4. l = Cardinality(PlacesTo(T, PatStrings, n + 1)) /\ l <= l
    BY <2>2
  <2>5. HoldsTokens(e, l, T, n + 1)
    <3> HIDE DEF f, t
    <3> QED BY <1>2, <1>3, <2>2, <2>3, <2>4 DEF HoldsTokens
  <2> QED BY <1>2, <2>1, <2>5
<1>5. CASE t # NoText
  <2>1. t \in PatStrings /\ [token |-> t] \in PatEntries
    BY <1>1, <1>5 DEF PatStrings, PatEntries
  <2>2. /\ f \in Seq(Entries) /\ Len(f) = l + 1 /\ f[l + 1] = [token |-> t]
        /\ \A k \in 1..l : f[k] = e[k]
    <3> DEFINE x == [token |-> t]
    <3>1. x \in Entries /\ f = Append(e, x)
      BY <1>5, <2>1 DEF Entries
    <3> HIDE DEF x, f
    <3>2. f \in Seq(Entries) /\ Len(f) = l + 1 /\ f[l + 1] = x /\ \A k \in 1..l : f[k] = e[k]
      BY <1>2, <3>1, EntryAppended
    <3> QED BY <3>2 DEF x
  <2> HIDE DEF f, t
  <2>3. /\ Cardinality(PlacesTo(T, PatStrings, n + 1)) = l + 1
        /\ ValuesTo(T, PatStrings, n + 1) = ValuesTo(T, PatStrings, n) \cup {t}
    BY <1>3, <1>0, <2>1
  <2>4. \A k : k \in 1..(l + 1) <=> k \in 1..l \/ k = l + 1
    OBVIOUS
  <2>5. \A k \in 1..(l + 1) : f[k] \in PatEntries
    BY <1>3, <2>1, <2>2, <2>4
  <2>6. {f[k].token : k \in 1..(l + 1)} = ValuesTo(T, PatStrings, n + 1)
    <3>1. f[l + 1].token = t
      BY <2>2
    <3>2. \A k \in 1..l : f[k].token = e[k].token
      BY <2>2
    <3>3. {f[k].token : k \in 1..(l + 1)} = {e[k].token : k \in 1..l} \cup {t}
      BY <2>4, <3>1, <3>2
    <3> QED BY <1>3, <2>3, <3>3
  <2>7. n + 1 >= 1 /\ T[1] \in PatStrings => l + 1 >= 1 /\ f[1] = [token |-> T[1]]
    <3>1. CASE n >= 1
      <4>1. T[1] \in PatStrings => 1 \in 1..l
        BY <1>3, <3>1
      <4> QED BY <1>3, <2>2, <3>1, <4>1
    <3>2. CASE n = 0
      <4>1. l = 0
        BY <1>3, <3>2, NoPlaces
      <4> QED BY <2>2, <3>2, <4>1 DEF t
    <3> QED BY <3>1, <3>2
  <2>8. l + 1 = Cardinality(PlacesTo(T, PatStrings, n + 1)) /\ l + 1 <= l + 1
    BY <2>3
  <2>9. HoldsTokens(f, l + 1, T, n + 1)
    BY <2>2, <2>5, <2>6, <2>7, <2>8 DEF HoldsTokens
  <2> QED BY <2>2, <2>9 DEF f, t
<1> QED BY <1>4, <1>5

(* The next application is added, unless it is a placeholder. *)
LEMMA AppAdded ==
    ASSUME NEW e \in Seq(Entries), NEW p \in Nat, NEW T, NEW m,
           NEW A \in Seq(Apps), NEW n \in Nat, n < Len(A),
           HoldsTokens(e, p, T, m), HoldsApps(e, p, A, n)
    PROVE  LET f == IF A[n + 1].app_id # 0 THEN Append(e, A[n + 1]) ELSE e
           IN  f \in Seq(Entries) /\ HoldsTokens(f, p, T, m) /\ HoldsApps(f, p, A, n + 1)
<1> DEFINE a == A[n + 1]
           f == IF a.app_id # 0 THEN Append(e, a) ELSE e
<1>1. n + 1 \in 1..Len(A) /\ a \in Apps
  BY LenProperties
<1>2. PICK l \in Nat : l = Len(e)
  BY LenProperties
<1>3. PICK c \in Nat : c = Cardinality(PlacesTo(A, KnownApps, n)) /\ l = p + c
  BY <1>2, PlacesGrow DEF HoldsApps
<1>4. /\ \A k \in (p + 1)..l : e[k] \in Apps
      /\ {e[k] : k \in (p + 1)..l} = ValuesTo(A, KnownApps, n)
  BY <1>2 DEF HoldsApps
<1>0. /\ Cardinality(PlacesTo(A, KnownApps, n + 1)) =
           Cardinality(PlacesTo(A, KnownApps, n)) + IF a \in KnownApps THEN 1 ELSE 0
      /\ ValuesTo(A, KnownApps, n + 1) =
           ValuesTo(A, KnownApps, n) \cup IF a \in KnownApps THEN {a} ELSE {}
  BY NextApp
<1>5. CASE a.app_id = 0
  <2>1. f = e /\ a \notin KnownApps
    BY <1>5 DEF KnownApps
  <2>2. /\ Cardinality(PlacesTo(A, KnownApps, n + 1)) = c
        /\ ValuesTo(A, KnownApps, n + 1) = ValuesTo(A, KnownApps, n)
    <3> HIDE DEF a, f
    <3>1. Cardinality(PlacesTo(A, KnownApps, n + 1)) = c
      BY <1>3, <1>0, <2>1
    <3>2. ValuesTo(A, KnownApps, n + 1) = ValuesTo(A, KnownApps, n)
      BY <1>0, <2>1
    <3> QED BY <3>1, <3>2
  <2>3. HoldsApps(e, p, A, n + 1)
    BY <1>2, <1>3, <1>4, <2>2 DEF HoldsApps
  <2> QED BY <2>1, <2>3
<1>6. CASE a.app_id # 0
  <2>1. a \in KnownApps /\ a \in Entries
    BY <1>1, <1>6 DEF KnownApps, Entries
  <2>2. /\ f \in Seq(Entries) /\ Len(f) = l + 1 /\ f[l + 1] = a
        /\ \A k \in 1..l : f[k] = e[k]
    BY <1>2, <1>6, <2>1, EntryAppended
  <2> HIDE DEF f, a
  <2>3. /\ Cardinality(PlacesTo(A, KnownApps, n + 1)) = c + 1
        /\ ValuesTo(A, KnownApps, n + 1) = ValuesTo(A, KnownApps, n) \cup {a}
    BY <1>3, <1>0, <2>1
  <2>4. \A k : k \in (p + 1)..(l + 1) <=> k \in (p + 1)..l \/ k = l + 1
    BY <1>3
  <2>5. \A k \in (p + 1)..l : k \in 1..l
    OBVIOUS
  <2>6. \A k \in (p + 1)..(l + 1) : f[k] \in Apps
    BY <1>1, <1>4, <2>2, <2>4, <2>5 DEF a
  <2>7. {f[k] : k \in (p + 1)..(l + 1)} = ValuesTo(A, KnownApps, n + 1)
    <3>1. {f[k] : k \in (p + 1)..(l + 1)} = {e[k] : k \in (p + 1)..l} \cup {a}
      BY <2>2, <2>4, <2>5
    <3> QED BY <1>4, <2>3, <3>1
  <2>8. HoldsApps(f, p, A, n + 1)
    BY <1>3, <2>2, <2>3, <2>6, <2>7 DEF HoldsApps
  <2>9. HoldsTokens(f, p, T, m)
    <3>1. p <= l /\ \A k \in 1..p : f[k] = e[k]
      BY <1>3, <2>2
    <3>2. {f[k].token : k \in 1..p} = {e[k].token : k \in 1..p}
      BY <3>1
    <3>3. p >= 1 => f[1] = e[1]
      BY <3>1
    <3>4. p <= Len(f)
      BY <1>3, <2>2
    <3> QED BY <3>1, <3>2, <3>3, <3>4 DEF HoldsTokens
  <2> QED BY <2>2, <2>8, <2>9 DEF f, a
<1> QED BY <1>5, <1>6
-----------------------------------------------------------------------------
(* What each stage has made of the configuration *)

Stages == {"off", "load", "migrate", "vault", "tokens", "apps", "ready", "plain", "refused"}
Migrated == {"vault", "tokens", "apps", "ready"}

PoolTokens ==
    IF MigratedTokens(Configured) = <<>> /\ stored # NoText THEN <<stored>>
    ELSE MigratedTokens(Configured)
PoolApps == MigratedApps(Configured)

(* Number of entries made of tokens. *)
PatCount == Cardinality(PlacesTo(PoolTokens, PatStrings, Len(PoolTokens)))

SourcesInv ==
    /\ stage \in Stages
    /\ stage # "off" => file \in Files /\ env \in Environments /\ stored \in Stored
    /\ stage \in Migrated \cup {"migrate"} => env.applications = Unset

SettingsInv ==
    /\ stage = "migrate" => github = Configured
    /\ stage \in Migrated =>
          /\ DOMAIN github = Settings
          /\ github.applications = PoolApps
          /\ github.collector_interval = Configured.collector_interval
    /\ stage = "vault" => github.tokens = MigratedTokens(Configured)
    /\ stage \in Migrated \ {"vault"} => github.tokens = PoolTokens

LoopInv ==
    /\ stage \in {"off", "load", "migrate", "vault"} => entries = <<>> /\ index = 1
    /\ stage \in Migrated => entries \in Seq(Entries)
    /\ stage = "tokens" =>
          /\ index \in 1..(Len(PoolTokens) + 1)
          /\ HoldsTokens(entries, Len(entries), PoolTokens, index - 1)
    /\ stage = "apps" =>
          /\ index \in 1..(Len(PoolApps) + 1)
          /\ HoldsTokens(entries, PatCount, PoolTokens, Len(PoolTokens))
          /\ HoldsApps(entries, PatCount, PoolApps, index - 1)
    /\ stage = "ready" =>
          /\ HoldsTokens(entries, PatCount, PoolTokens, Len(PoolTokens))
          /\ HoldsApps(entries, PatCount, PoolApps, Len(PoolApps))

ConfigInv == SourcesInv /\ SettingsInv /\ LoopInv

(* What the sources set has the types the pool needs. *)
LEMMA SettingTypes ==
    ASSUME file \in Files, env \in Environments
    PROVE  /\ Configured.token \in STRING /\ Configured.tokens \in Seq(STRING)
           /\ LegacyApp(Configured) \in Apps
           /\ env.applications = Unset => Configured.applications \in Seq(Apps)
           /\ Configured.collector_interval \in Int
              \/ Configured.collector_interval = Unparsable
<1>1. Settings = {"token", "tokens", "app_id", "installation_id", "private_key_path",
                  "applications", "collector_interval"}
  BY DEF Settings, Defaults
<1>2. \A k \in Settings : Configured[k] = Setting(k)
  BY DEF Configured
<1> DEFINE Typed(s) ==
        /\ s["token"] = Unset \/ s["token"] \in STRING
        /\ s["tokens"] = Unset \/ s["tokens"] \in Seq(STRING)
        /\ s["app_id"] = Unset \/ s["app_id"] \in Int
        /\ s["installation_id"] = Unset \/ s["installation_id"] \in Int
        /\ s["private_key_path"] = Unset \/ s["private_key_path"] \in STRING
        /\ s["collector_interval"] \in {Unset, Unparsable} \/ s["collector_interval"] \in Int
<1>a. Typed(env) /\ Typed(file) 
  <2>1. Typed(env)
    BY SourcesAssumption
  <2>2. Typed(file)
    BY SourcesAssumption
  <2> QED BY <2>1, <2>2
<1>0. NoText \in STRING
  BY SourcesAssumption
<1>b. Defaults["token"] \in STRING /\ Defaults["tokens"] \in Seq(STRING)
  BY <1>0 DEF Defaults
<1>c. /\ Defaults["app_id"] \in Int /\ Defaults["installation_id"] \in Int
      /\ Defaults["private_key_path"] \in STRING
      /\ Defaults["collector_interval"] \in Int
  BY <1>0 DEF Defaults
<1>d. Defaults["applications"] \in Seq(Apps)
  BY DEF Defaults
<1>e. file["applications"] = Unset \/ file["applications"] \in Seq(Apps)
  BY SourcesAssumption
<1>3. Setting("token") \in STRING
  BY <1>a, <1>b DEF Setting
<1>4. Setting("tokens") \in Seq(STRING)
  BY <1>a, <1>b DEF Setting
<1>5. Setting("app_id") \in Int /\ Setting("installation_id") \in Int
  BY <1>a, <1>c DEF Setting
<1>6. Setting("private_key_path") \in STRING
  BY <1>a, <1>c DEF Setting
<1>7. env.applications = Unset => Setting("applications") \in Seq(Apps)
  BY <1>d, <1>e DEF Setting
<1>8. Setting("collector_interval") \in Int \/ Setting("collector_interval") = Unparsable
  BY <1>a, <1>c DEF Setting
<1>9. LegacyApp(Configured) \in Apps
  BY <1>1, <1>2, <1>5, <1>6 DEF LegacyApp, Apps
<1> QED BY <1>1, <1>2, <1>3, <1>4, <1>7, <1>8, <1>9

(* So have the lists Connect goes through. *)
LEMMA PoolTypes ==
    ASSUME file \in Files, env \in Environments, stored \in Stored,
           env.applications = Unset
    PROVE  /\ PoolTokens \in Seq(STRING) /\ Len(PoolTokens) \in Nat
           /\ PoolApps \in Seq(Apps) /\ Len(PoolApps) \in Nat
<1>1. MigratedTokens(Configured) \in Seq(STRING)
  <2>1. <<Configured.token>> \in Seq(STRING)
    BY SettingTypes
  <2>2. <<Configured.token>> \o Configured.tokens \in Seq(STRING)
    BY <2>1, SettingTypes, ConcatProperties
  <2> QED BY <2>2, SettingTypes DEF MigratedTokens
<1>2. PoolTokens \in Seq(STRING)
  <2>1. <<stored>> \in Seq(STRING)
    BY SourcesAssumption
  <2> QED BY <1>1, <2>1 DEF PoolTokens
<1>3. PoolApps \in Seq(Apps)
  <2>1. <<LegacyApp(Configured)>> \in Seq(Apps)
    BY SettingTypes
  <2>2. <<LegacyApp(Configured)>> \o Configured.applications \in Seq(Apps)
    BY <2>1, SettingTypes, ConcatProperties
  <2> QED BY <2>2, SettingTypes DEF PoolApps, MigratedApps
<1> QED BY <1>2, <1>3, LenProperties

(* Before the first entry. *)
LEMMA NothingHeld ==
    ASSUME NEW T
    PROVE  /\ <<>> \in Seq(Entries)
           /\ HoldsTokens(<<>>, Len(<<>>), T, 0)
<1>1. <<>> \in Seq(Entries) /\ Len(<<>>) = 0
  OBVIOUS
<1>2. /\ Cardinality(PlacesTo(T, PatStrings, 0)) = 0 /\ ValuesTo(T, PatStrings, 0) = {}
  BY NoPlaces
<1>3. \A k : k \notin 1..0
  OBVIOUS
<1> DEFINE e == <<>>
<1> HIDE DEF e
<1>4. HoldsTokens(e, 0, T, 0)
  BY <1>1, <1>2, <1>3 DEF HoldsTokens, e
<1> QED BY <1>1, <1>4 DEF e

(* The start. *)
LEMMA ConfigInvInit == ConfigInit => ConfigInv
<1> SUFFICES ASSUME ConfigInit PROVE ConfigInv
  OBVIOUS
<1>1. stage = "off" /\ entries = <<>> /\ index = 1
  BY DEF ConfigInit
<1>2. SourcesInv /\ SettingsInv
  BY <1>1 DEF SourcesInv, SettingsInv, Migrated, Stages
<1>3. LoopInv
  BY <1>1 DEF LoopInv, Migrated
<1> QED BY <1>2, <1>3 DEF ConfigInv

(* Each step adds at most the entry of the place it is at. *)
LEMMA ConfigStep == ConfigInv /\ [ConfigNext]_configVars => ConfigInv'
<1> SUFFICES ASSUME ConfigInv, [ConfigNext]_configVars PROVE ConfigInv'
  OBVIOUS
<1>a. SourcesInv /\ SettingsInv /\ LoopInv
  BY DEF ConfigInv
<1>b. ASSUME UNCHANGED <<file, env, stored>>
      PROVE  /\ Configured' = Configured /\ PoolTokens' = PoolTokens
             /\ PoolApps' = PoolApps /\ PatCount' = PatCount
             /\ MigratedTokens(Configured)' = MigratedTokens(Configured)
  <2>1. \A k : Setting(k)' = Setting(k)
    BY <1>b DEF Setting
  <2>2. Configured' = Configured
    BY <2>1 DEF Configured
  <2>3. MigratedTokens(Configured)' = MigratedTokens(Configured)
    BY <2>2 DEF MigratedTokens
  <2>4. PoolTokens' = PoolTokens
    BY <1>b, <2>3 DEF PoolTokens
  <2>5. PoolApps' = PoolApps
    BY <2>2 DEF PoolApps, MigratedApps, LegacyApp
  <2>6. PatCount' = PatCount
    BY <2>4 DEF PatCount, PlacesTo
  <2> QED BY <2>2, <2>3, <2>4, <2>5, <2>6
<1>c. stage \in Migrated => /\ PoolTokens \in Seq(STRING) /\ Len(PoolTokens) \in Nat
                            /\ PoolApps \in Seq(Apps) /\ Len(PoolApps) \in Nat
  BY <1>a, PoolTypes DEF SourcesInv, Migrated
<1>1. ASSUME Configure PROVE ConfigInv'
  <2>1. SourcesInv' /\ SettingsInv'
    BY <1>1 DEF Configure, SourcesInv, SettingsInv, Migrated, Stages
  <2>2. LoopInv'
    BY <1>1, <1>a DEF Configure, LoopInv, Migrated
  <2> QED BY <2>1, <2>2 DEF ConfigInv
<1>2. ASSUME Load PROVE ConfigInv'
  <2>1. UNCHANGED <<file, env, stored>> /\ Configured' = Configured
    BY <1>2, <1>b DEF Load
  <2>2. SourcesInv'
    BY <1>2, <1>a DEF Load, SourcesInv, Migrated, Stages
  <2>3. stage' = "migrate" => github' = Configured
    BY <1>2 DEF Load, Configured
  <2>4. SettingsInv'
    BY <1>2, <2>1, <2>3 DEF Load, SettingsInv, Migrated
  <2>5. LoopInv'
    BY <1>2, <1>a DEF Load, LoopInv, Migrated
  <2> QED BY <2>2, <2>4, <2>5 DEF ConfigInv
<1>3. ASSUME Migrate PROVE ConfigInv'
  <2>1. /\ Configured' = Configured /\ PoolApps' = PoolApps
        /\ MigratedTokens(Configured)' = MigratedTokens(Configured)
    BY <1>3, <1>b DEF Migrate
  <2>2. stage = "migrate" /\ stage' = "vault" /\ github = Configured
    BY <1>3, <1>a DEF Migrate, SettingsInv
  <2>3. DOMAIN github = Settings
    BY <2>2 DEF Configured
  <2>4. {"tokens", "applications", "collector_interval"} \subseteq Settings
    BY DEF Settings, Defaults
  <2>5. /\ DOMAIN github' = Settings
        /\ github'.tokens = MigratedTokens(github)
        /\ github'.applications = MigratedApps(github)
        /\ github'.collector_interval = github.collector_interval
    BY <1>3, <2>3, <2>4 DEF Migrate
  <2>6. SettingsInv'
    BY <2>1, <2>2, <2>5 DEF SettingsInv, Migrated, PoolApps
  <2>7. SourcesInv'
    BY <1>3, <1>a DEF Migrate, SourcesInv, Migrated, Stages
  <2>8. LoopInv'
    <3>1. entries' = <<>> /\ index' = 1
      BY <1>3, <1>a DEF Migrate, LoopInv
    <3> QED BY <2>2, <3>1 DEF LoopInv, Migrated
  <2> QED BY <2>6, <2>7, <2>8 DEF ConfigInv
<1>4. ASSUME Fallback PROVE ConfigInv'
  <2>1. UNCHANGED <<file, env, stored, index, entries>>
    BY <1>4 DEF Fallback
  <2>2. /\ Configured' = Configured /\ PoolApps' = PoolApps /\ PoolTokens' = PoolTokens
    BY <2>1, <1>b
  <2>3. /\ stage = "vault" /\ stage' \in {"tokens", "plain"}
        /\ github.tokens = MigratedTokens(Configured)
        /\ DOMAIN github = Settings /\ github.applications = PoolApps
        /\ github.collector_interval = Configured.collector_interval
    BY <1>4, <1>a DEF Fallback, SettingsInv, Migrated
  <2>4. {"tokens", "applications", "collector_interval"} \subseteq Settings
    BY DEF Settings, Defaults
  <2>5. /\ DOMAIN github' = Settings /\ github'.applications = github.applications
        /\ github'.collector_interval = github.collector_interval
        /\ github'.tokens = PoolTokens
    BY <1>4, <2>3, <2>4 DEF Fallback, PoolTokens
  <2>6. SettingsInv'
    BY <2>2, <2>3, <2>5 DEF SettingsInv, Migrated
  <2>7. SourcesInv'
    BY <2>1, <2>3, <1>a DEF SourcesInv, Migrated, Stages
  <2>8. entries' = <<>> /\ index' = 1 /\ Len(PoolTokens) \in Nat
    BY <1>a, <1>c, <2>1, <2>3 DEF LoopInv, Migrated
  <2>9. LoopInv'
    <3>1. index' - 1 = 0 /\ index' \in 1..(Len(PoolTokens) + 1)
      BY <2>8
    <3>2. HoldsTokens(entries', Len(entries'), PoolTokens', index' - 1)
      BY <2>2, <2>8, <3>1, NothingHeld
    <3>3. entries' \in Seq(Entries)
      BY <2>8, NothingHeld
    <3> QED BY <2>2, <2>3, <3>1, <3>2, <3>3 DEF LoopInv, Migrated
  <2> QED BY <2>6, <2>7, <2>9 DEF ConfigInv
<1>5. ASSUME AddToken PROVE ConfigInv'
  <2>1. UNCHANGED <<stage, file, env, stored, github>> /\ stage = "tokens"
    BY <1>5 DEF AddToken
  <2>2. /\ Configured' = Configured /\ PoolApps' = PoolApps /\ PoolTokens' = PoolTokens
        /\ MigratedTokens(Configured)' = MigratedTokens(Configured)
    BY <2>1, <1>b
  <2>3. SourcesInv' /\ SettingsInv'
    BY <2>1, <2>2, <1>a DEF SourcesInv, SettingsInv
  <2>4. /\ github.tokens = PoolTokens /\ entries \in Seq(Entries)
        /\ index \in 1..(Len(PoolTokens) + 1)
        /\ HoldsTokens(entries, Len(entries), PoolTokens, index - 1)
    BY <2>1, <1>a DEF SettingsInv, LoopInv, Migrated
  <2>5. PoolTokens \in Seq(STRING) /\ Len(PoolTokens) \in Nat
    BY <2>1, <1>c DEF Migrated
  <2>6. PICK n \in Nat : n = index - 1
    BY <2>4, <2>5
  <2>7. n + 1 = index /\ n < Len(PoolTokens)
    BY <1>5, <2>4, <2>5, <2>6 DEF AddToken
  <2>8. /\ entries' \in Seq(Entries)
        /\ HoldsTokens(entries', Len(entries'), PoolTokens, n + 1)
    <3>1. entries' = IF PoolTokens[n + 1] = NoText THEN entries
                     ELSE Append(entries, [token |-> PoolTokens[n + 1]])
      BY <1>5, <2>4, <2>7 DEF AddToken
    <3>2. HoldsTokens(entries, Len(entries), PoolTokens, n)
      BY <2>4, <2>6
    <3> QED BY <2>4, <2>5, <2>7, <3>1, <3>2, TokenAdded
  <2>9. LoopInv'
    <3>1. index' \in 1..(Len(PoolTokens) + 1) /\ index' - 1 = n + 1
      BY <1>5, <2>5, <2>7 DEF AddToken
    <3>2. HoldsTokens(entries', Len(entries'), PoolTokens', index' - 1)
      BY <2>2, <2>8, <3>1
    <3> QED BY <2>1, <2>2, <2>8, <3>1, <3>2 DEF LoopInv, Migrated
  <2> QED BY <2>3, <2>9 DEF ConfigInv
<1>6. ASSUME TokensDone PROVE ConfigInv'
  <2>1. UNCHANGED <<file, env, stored, github, entries>> /\ stage = "tokens"
        /\ stage' = "apps" /\ index' = 1
    BY <1>6 DEF TokensDone
  <2>2. /\ Configured' = Configured /\ PoolApps' = PoolApps /\ PoolTokens' = PoolTokens
        /\ MigratedTokens(Configured)' = MigratedTokens(Configured) /\ PatCount' = PatCount
    BY <2>1, <1>b
  <2>3. SourcesInv' /\ SettingsInv'
    BY <2>1, <2>2, <1>a DEF SourcesInv, SettingsInv, Migrated, Stages
  <2>4. /\ github.tokens = PoolTokens /\ entries \in Seq(Entries)
        /\ index \in 1..(Len(PoolTokens) + 1)
        /\ HoldsTokens(entries, Len(entries), PoolTokens, index - 1)
    BY <2>1, <1>a DEF SettingsInv, LoopInv, Migrated
  <2>5. Len(PoolTokens) \in Nat /\ Len(PoolApps) \in Nat
    BY <2>1, <1>c DEF Migrated
  <2>6. index - 1 = Len(PoolTokens)
    BY <1>6, <2>4, <2>5 DEF TokensDone
  <2>7. PatCount = Len(entries) /\ HoldsTokens(entries, PatCount, PoolTokens, Len(PoolTokens))
    BY <2>4, <2>6 DEF HoldsTokens, PatCount
  <2>8. HoldsApps(entries, PatCount, PoolApps, 0)
    <3>1. /\ Cardinality(PlacesTo(PoolApps, KnownApps, 0)) = 0
          /\ ValuesTo(PoolApps, KnownApps, 0) = {}
      BY NoPlaces
    <3>2. PICK l \in Nat : l = Len(entries)
      BY <2>4, LenProperties
    <3>3. \A k : k \notin (l + 1)..l
      OBVIOUS
    <3> QED BY <2>7, <3>1, <3>2, <3>3 DEF HoldsApps
  <2>9. LoopInv'
    <3>1. index' - 1 = 0 /\ index' \in 1..(Len(PoolApps) + 1)
      BY <2>1, <2>5
    <3>2. HoldsApps(entries', PatCount', PoolApps', index' - 1)
      BY <2>1, <2>2, <2>8, <3>1
    <3>3. HoldsTokens(entries', PatCount', PoolTokens', Len(PoolTokens'))
      BY <2>1, <2>2, <2>7
    <3> QED BY <2>1, <2>2, <2>4, <3>1, <3>2, <3>3 DEF LoopInv, Migrated
  <2> QED BY <2>3, <2>9 DEF ConfigInv
<1>7. ASSUME AddApp PROVE ConfigInv'
  <2>1. UNCHANGED <<file, env, stored, github>> /\ stage = "apps"
        /\ stage' \in {"apps", "refused"} /\ index' = index + 1
    BY <1>7 DEF AddApp
  <2>2. /\ Configured' = Configured /\ PoolApps' = PoolApps /\ PoolTokens' = PoolTokens
        /\ MigratedTokens(Configured)' = MigratedTokens(Configured) /\ PatCount' = PatCount
    BY <2>1, <1>b
  <2>3. SourcesInv' /\ SettingsInv'
    BY <2>1, <2>2, <1>a DEF SourcesInv, SettingsInv, Migrated, Stages
  <2>4. /\ github.applications = PoolApps /\ entries \in Seq(Entries)
        /\ index \in 1..(Len(PoolApps) + 1)
        /\ HoldsTokens(entries, PatCount, PoolTokens, Len(PoolTokens))
        /\ HoldsApps(entries, PatCount, PoolApps, index - 1)
    BY <2>1, <1>a DEF SettingsInv, LoopInv, Migrated
  <2>5. PoolApps \in Seq(Apps) /\ Len(PoolApps) \in Nat
    BY <2>1, <1>c DEF Migrated
  <2>6. PICK n \in Nat : n = index - 1
    BY <2>4, <2>5
  <2>7. n + 1 = index /\ n < Len(PoolApps)
    BY <1>7, <2>4, <2>5, <2>6 DEF AddApp
  <2>8. ASSUME stage' = "apps"
        PROVE  /\ entries' \in Seq(Entries)
               /\ HoldsTokens(entries', PatCount, PoolTokens, Len(PoolTokens))
               /\ HoldsApps(entries', PatCount, PoolApps, n + 1)
    <3>1. entries' = IF PoolApps[n + 1].app_id # 0 THEN Append(entries, PoolApps[n + 1])
                     ELSE entries
      BY <1>7, <2>4, <2>7, <2>8 DEF AddApp
    <3>2. HoldsApps(entries, PatCount, PoolApps, n) /\ PatCount \in Nat
      BY <2>1, <2>4, <2>6, <1>c, PlacesGrow DEF PatCount, Migrated
    <3> QED BY <2>4, <2>5, <2>7, <3>1, <3>2, AppAdded
  <2>9. LoopInv'
    <3>1. index' \in 1..(Len(PoolApps) + 1) /\ index' - 1 = n + 1
      BY <2>1, <2>5, <2>7
    <3>2. stage' = "apps" => /\ HoldsApps(entries', PatCount', PoolApps', index' - 1)
                             /\ HoldsTokens(entries', PatCount', PoolTokens', Len(PoolTokens'))
      BY <2>2, <2>8, <3>1
    <3> QED BY <2>1, <2>2, <2>8, <3>1, <3>2 DEF LoopInv, Migrated
  <2> QED BY <2>3, <2>9 DEF ConfigInv
<1>8. ASSUME AppsDone PROVE ConfigInv'
  <2>1. UNCHANGED <<file, env, stored, github, entries, index>> /\ stage = "apps"
        /\ stage' \in {"ready", "refused"}
    BY <1>8 DEF AppsDone
  <2>2. /\ Configured' = Configured /\ PoolApps' = PoolApps /\ PoolTokens' = PoolTokens
        /\ MigratedTokens(Configured)' = MigratedTokens(Configured) /\ PatCount' = PatCount
    BY <2>1, <1>b
  <2>3. SourcesInv' /\ SettingsInv'
    BY <2>1, <2>2, <1>a DEF SourcesInv, SettingsInv, Migrated, Stages
  <2>4. /\ github.applications = PoolApps /\ entries \in Seq(Entries)
        /\ index \in 1..(Len(PoolApps) + 1)
        /\ HoldsTokens(entries, PatCount, PoolTokens, Len(PoolTokens))
        /\ HoldsApps(entries, PatCount, PoolApps, index - 1)
    BY <2>1, <1>a DEF SettingsInv, LoopInv, Migrated
  <2>5. index - 1 = Len(PoolApps)
    BY <1>8, <1>c, <2>1, <2>4 DEF AppsDone, Migrated
  <2>6. HoldsApps(entries, PatCount, PoolApps, Len(PoolApps))
    BY <2>4, <2>5
  <2>7. LoopInv'
    BY <2>1, <2>2, <2>4, <2>6 DEF LoopInv, Migrated
  <2> QED BY <2>3, <2>7 DEF ConfigInv
<1>9. ASSUME End PROVE ConfigInv'
  <2>1. stage' = "off" /\ entries' = <<>> /\ index' = 1
    BY <1>9 DEF End
  <2>2. SourcesInv' /\ SettingsInv' /\ LoopInv'
    BY <2>1 DEF SourcesInv, SettingsInv, LoopInv, Migrated, Stages
  <2> QED BY <2>2 DEF ConfigInv
<1>10. CASE UNCHANGED configVars
  <2>1. UNCHANGED <<stage, file, env, stored, github, index, entries>>
    BY <1>10 DEF configVars
  <2>2. /\ Configured' = Configured /\ PoolApps' = PoolApps /\ PoolTokens' = PoolTokens
        /\ MigratedTokens(Configured)' = MigratedTokens(Configured) /\ PatCount' = PatCount
    BY <2>1, <1>b
  <2>3. SourcesInv' /\ SettingsInv'
    BY <2>1, <2>2, <1>a DEF SourcesInv, SettingsInv
  <2>4. LoopInv'
    BY <2>1, <2>2, <1>a DEF LoopInv
  <2> QED BY <2>3, <2>4 DEF ConfigInv
<1> QED BY <1>1, <1>2, <1>3, <1>4, <1>5, <1>6, <1>7, <1>8, <1>9, <1>10 DEF ConfigNext

(* The entries are tokens up to p and applications from there on. *)
LEMMA EntriesParted ==
    ASSUME entries \in Seq(Entries), NEW p \in Nat,
           NEW T, NEW n, HoldsTokens(entries, p, T, n),
           NEW A, NEW m \in Nat, HoldsApps(entries, p, A, m)
    PROVE  /\ Pats = 1..p /\ Cardinality(Pats) = p
           /\ Installed = (p + 1)..Len(entries)
           /\ Cardinality(Installed) = Cardinality(PlacesTo(A, KnownApps, m))
<1>1. PICK l \in Nat : l = Len(entries)
  BY LenProperties
<1>2. DOMAIN entries = 1..l
  BY <1>1, LenProperties
<1>3. PICK c \in Nat : c = Cardinality(PlacesTo(A, KnownApps, m))
  BY PlacesGrow
<1>4. l = p + c
  BY <1>1, <1>3 DEF HoldsApps
<1>5. \A k \in 1..p : "token" \in DOMAIN entries[k]
  BY DEF HoldsTokens, PatEntries
<1>6. \A k \in (p + 1)..l : "token" \notin DOMAIN entries[k]
  BY <1>1 DEF HoldsApps, Apps
<1>7. \A k : k \in 1..l <=> k \in 1..p \/ k \in (p + 1)..l
  BY <1>4
<1>8. \A k \in 1..p : k \notin (p + 1)..l
  OBVIOUS
<1>9. Pats = 1..p
  BY <1>2, <1>5, <1>6, <1>7 DEF Pats
<1>10. Installed = (p + 1)..l
  BY <1>2, <1>7, <1>8, <1>9 DEF Installed
<1>11. Cardinality(1..p) = p
  <2>1. Cardinality(1..p) = IF 1 > p THEN 0 ELSE p - 1 + 1
    BY FS_Interval
  <2> QED BY <2>1
<1>12. Cardinality((p + 1)..l) = c
  <2>1. Cardinality((p + 1)..l) = IF p + 1 > l THEN 0 ELSE l - (p + 1) + 1
    BY FS_Interval
  <2> QED BY <1>4, <2>1
<1> QED BY <1>1, <1>3, <1>9, <1>10, <1>11, <1>12

(* The places of a whole list. *)
LEMMA AllPlaces ==
    ASSUME NEW S, NEW s \in Seq(S), NEW G
    PROVE  /\ PlacesTo(s, G, Len(s)) = {j \in DOMAIN s : s[j] \in G}
           /\ Cardinality(PlacesTo(s, G, Len(s))) \in Nat
<1>1. PICK l \in Nat : l = Len(s)
  BY LenProperties
<1>2. DOMAIN s = 1..l
  BY <1>1, LenProperties
<1>3. Cardinality(PlacesTo(s, G, l)) \in Nat
  BY PlacesGrow
<1> QED BY <1>1, <1>2, <1>3 DEF PlacesTo

(* The tokens of a full pool. *)
LEMMA PoolTokensAreConfigured ==
    ConfigInv /\ stage = "ready" => TokensAsConfigured
<1> SUFFICES ASSUME ConfigInv, stage = "ready" PROVE TokensAsConfigured
  OBVIOUS
<1> DEFINE old == Configured.token
           list == Configured.tokens
           T == PoolTokens
<1>1. /\ file \in Files /\ env \in Environments /\ stored \in Stored
      /\ env.applications = Unset
  BY DEF ConfigInv, SourcesInv, Migrated
<1>2. old \in STRING /\ list \in Seq(STRING) /\ T \in Seq(STRING) /\ stored \in STRING
  BY <1>1, SettingTypes, PoolTypes, SourcesAssumption
<1>3. /\ entries \in Seq(Entries)
      /\ HoldsTokens(entries, PatCount, T, Len(T))
      /\ HoldsApps(entries, PatCount, PoolApps, Len(PoolApps))
  BY DEF ConfigInv, LoopInv, Migrated
<1>4. PatCount \in Nat /\ Len(PoolApps) \in Nat /\ Len(T) \in Nat
  BY <1>1, PoolTypes, PlacesGrow DEF PatCount
<1>5. Pats = 1..PatCount /\ Cardinality(Pats) = PatCount
  BY <1>3, <1>4, EntriesParted
<1> DEFINE held == {entries[i].token : i \in Pats}
           new == ValuesTo(list, PatStrings, Len(list))
<1>6. held = ValuesTo(T, PatStrings, Len(T))
  BY <1>3, <1>5 DEF HoldsTokens
<1>7. /\ ListedTokens = PlacesTo(list, PatStrings, Len(list))
      /\ {list[i] : i \in ListedTokens} = new
  <2>1. PlacesTo(list, PatStrings, Len(list)) = {j \in DOMAIN list : list[j] \in PatStrings}
    BY <1>2, AllPlaces
  <2>2. \A j \in DOMAIN list : list[j] \in STRING
    BY <1>2, LenProperties
  <2>3. ListedTokens = {j \in DOMAIN list : list[j] \in PatStrings}
    BY <2>2 DEF ListedTokens, PatStrings
  <2> QED BY <2>1, <2>3 DEF ValuesTo
<1>8. Cardinality(ListedTokens) \in Nat
  BY <1>2, <1>7, AllPlaces
<1>9. new \subseteq PatStrings
  BY DEF ValuesTo, PlacesTo
<1>10. new \subseteq ToSet(list)
  <2>1. new = {list[i] : i \in ListedTokens}
    BY <1>7
  <2> QED BY <2>1 DEF ListedTokens, ToSet
<1>11. Len(T) >= 1 /\ T[1] \in PatStrings => entries[1] = [token |-> T[1]]
  BY <1>3 DEF HoldsTokens
<1>12. CASE old = NoText /\ list = <<>>
  <2>1. MigratedTokens(Configured) = <<>>
    BY <1>12 DEF MigratedTokens
  <2>2. CASE stored # NoText
    <3>1. T = <<stored>> /\ Len(T) = 1 /\ T[1] = stored
      BY <2>1, <2>2 DEF PoolTokens
    <3>2. stored \in PatStrings
      BY <1>2, <2>2 DEF PatStrings
    <3>3. PlacesTo(T, PatStrings, 1) = {1}
      <4> HIDE DEF T
      <4> QED BY <3>1, <3>2 DEF PlacesTo
    <3>4. ValuesTo(T, PatStrings, 1) = {stored}
      <4> HIDE DEF T
      <4> QED BY <3>1, <3>3 DEF ValuesTo
    <3>5. PatCount = 1
      BY <3>1, <3>3, FS_Singleton DEF PatCount
    <3>6. held = {stored}
      BY <1>6, <3>1, <3>4
    <3>7. Cardinality(held) = 1
      BY <3>6, FS_Singleton
    <3>8. {stored} \ {NoText} = {stored}
      BY <2>2
    <3> QED BY <1>5, <1>12, <3>5, <3>6, <3>7, <3>8 DEF TokensAsConfigured
  <2>3. CASE stored = NoText
    <3>1. T = <<>> /\ Len(T) = 0
      BY <2>1, <2>3 DEF PoolTokens
    <3>2. PatCount = 0 /\ held = {}
      BY <1>6, <3>1, NoPlaces DEF PatCount
    <3>3. Cardinality(held) = 0
      BY <3>2, FS_EmptySet
    <3>4. {stored} \ {NoText} = {}
      BY <2>3
    <3> QED BY <1>5, <1>12, <3>2, <3>3, <3>4 DEF TokensAsConfigured
  <2> QED BY <2>2, <2>3
<1>13. CASE ~(old = NoText /\ list = <<>>) /\ (old = NoText \/ old \in ToSet(list))
  <2>1. list # <<>>
    <3>1. ToSet(<<>>) = {}
      BY DEF ToSet
    <3> QED BY <1>13, <3>1
  <2>2. T = list
    BY <1>13, <2>1 DEF PoolTokens, MigratedTokens
  <2>3. old \in new \cup {NoText}
    <3>1. CASE old # NoText
      <4>1. PICK i \in DOMAIN list : list[i] = old
        BY <1>13, <3>1 DEF ToSet
      <4>2. i \in ListedTokens
        BY <3>1, <4>1 DEF ListedTokens
      <4> QED BY <1>7, <4>1, <4>2
    <3> QED BY <3>1
  <2>4. held = (new \cup {old}) \ {NoText}
    <3>1. held = new
      BY <1>6, <2>2
    <3> QED BY <1>9, <2>3, <3>1 DEF PatStrings
  <2>5. Cardinality(Pats) = Cardinality(ListedTokens)
    BY <1>5, <1>7, <2>2 DEF PatCount
  <2> QED
    <3> HIDE DEF new, old, list, held, T
    <3>1. Cardinality(Pats) = Cardinality(ListedTokens)
                              + IF old \in new \cup {NoText} THEN 0 ELSE 1
      BY <1>8, <2>3, <2>5
    <3> QED BY <1>7, <1>13, <2>3, <2>4, <3>1 DEF TokensAsConfigured, new, old, list, held
<1>14. CASE old # NoText /\ old \notin ToSet(list)
  <2>1. old \in PatStrings /\ old \notin new \cup {NoText}
    BY <1>2, <1>10, <1>14 DEF PatStrings
  <2>2. MigratedTokens(Configured) = <<old>> \o list
    BY <1>14 DEF MigratedTokens
  <2>3. LET t == <<old>> \o list
        IN  /\ t \in Seq(STRING) /\ Len(t) = Len(list) + 1 /\ t[1] = old
            /\ Cardinality(PlacesTo(t, PatStrings, Len(t)))
                  = Cardinality(PlacesTo(list, PatStrings, Len(list))) + 1
            /\ ValuesTo(t, PatStrings, Len(t)) = new \cup {old}
    BY <1>2, <2>1, PlacesPrepended
  <2>4. <<old>> \o list # <<>>
    BY <1>2, <2>3, LenProperties
  <2>5. T = <<old>> \o list
    BY <2>2, <2>4 DEF PoolTokens
  <2>6. /\ PatCount = Cardinality(ListedTokens) + 1
        /\ held = new \cup {old} /\ T[1] = old /\ Len(T) = Len(list) + 1
    BY <1>6, <1>7, <2>3, <2>5 DEF PatCount
  <2>7. Len(T) >= 1
    BY <1>2, <2>6, LenProperties
  <2>8. entries[1] = [token |-> old]
    BY <1>11, <2>1, <2>6, <2>7
  <2>9. held = (new \cup {old}) \ {NoText}
    BY <1>9, <1>14, <2>6 DEF PatStrings
  <2> QED
    <3> HIDE DEF new, old, list, held, T
    <3>1. Cardinality(Pats) = Cardinality(ListedTokens)
                              + IF old \in new \cup {NoText} THEN 0 ELSE 1
      BY <1>5, <1>8, <2>1, <2>6
    <3> QED BY <1>7, <1>14, <2>1, <2>8, <2>9, <3>1
            DEF TokensAsConfigured, new, old, list, held
<1> QED BY <1>12, <1>13, <1>14

(* The applications of a full pool. *)
LEMMA PoolAppsAreConfigured ==
    ConfigInv /\ stage = "ready" => AppsAsConfigured
<1> SUFFICES ASSUME ConfigInv, stage = "ready" PROVE AppsAsConfigured
  OBVIOUS
<1> DEFINE old == LegacyApp(Configured)
           list == Configured.applications
           A == PoolApps
<1>1. /\ file \in Files /\ env \in Environments /\ stored \in Stored
      /\ env.applications = Unset
  BY DEF ConfigInv, SourcesInv, Migrated
<1>2. old \in Apps /\ list \in Seq(Apps) /\ A \in Seq(Apps)
      /\ old.app_id = Configured.app_id
  BY <1>1, SettingTypes, PoolTypes DEF LegacyApp
<1>3. /\ entries \in Seq(Entries)
      /\ HoldsTokens(entries, PatCount, PoolTokens, Len(PoolTokens))
      /\ HoldsApps(entries, PatCount, A, Len(A))
  BY DEF ConfigInv, LoopInv, Migrated
<1>4. PatCount \in Nat /\ Len(A) \in Nat
  BY <1>1, PoolTypes, PlacesGrow DEF PatCount
<1>5. /\ Installed = (PatCount + 1)..Len(entries)
      /\ Cardinality(Installed) = Cardinality(PlacesTo(A, KnownApps, Len(A)))
  BY <1>3, <1>4, EntriesParted
<1> DEFINE held == {entries[i] : i \in Installed}
           new == ValuesTo(list, KnownApps, Len(list))
           ids == {a.app_id : a \in new}
<1>6. held = ValuesTo(A, KnownApps, Len(A))
  BY <1>3, <1>5 DEF HoldsApps
<1>7. /\ ListedApps = PlacesTo(list, KnownApps, Len(list))
      /\ {list[i] : i \in ListedApps} = new
  <2>1. PlacesTo(list, KnownApps, Len(list)) = {j \in DOMAIN list : list[j] \in KnownApps}
    BY <1>2, AllPlaces
  <2>2. \A j \in DOMAIN list : list[j] \in Apps
    BY <1>2, LenProperties
  <2>3. ListedApps = {j \in DOMAIN list : list[j] \in KnownApps}
    BY <2>2 DEF ListedApps, KnownApps
  <2> QED BY <2>1, <2>3 DEF ValuesTo
<1>8. Cardinality(ListedApps) \in Nat
  BY <1>2, <1>7, AllPlaces
<1>9. new \subseteq ToSet(list)
  <2>1. new = {list[i] : i \in ListedApps}
    BY <1>7
  <2> QED BY <2>1 DEF ListedApps, ToSet
<1>10. CASE old.app_id = 0 \/ \E a \in ToSet(list) : a.app_id = old.app_id
  <2>1. A = list
    BY <1>2, <1>10 DEF PoolApps, MigratedApps
  <2>2. old.app_id \in ids \cup {0}
    <3>1. CASE old.app_id # 0
      <4>1. PICK i \in DOMAIN list : list[i].app_id = old.app_id
        BY <1>10, <3>1 DEF ToSet
      <4>2. i \in ListedApps
        BY <3>1, <4>1 DEF ListedApps
      <4>3. list[i] \in new
        BY <1>7, <4>2
      <4> QED BY <4>1, <4>3
    <3> QED BY <3>1
  <2>3. held = new /\ Cardinality(Installed) = Cardinality(ListedApps)
    BY <1>5, <1>6, <1>7, <2>1
  <2> QED
    <3> HIDE DEF new, old, list, held, A, ids
    <3>1. /\ held = new \cup IF old.app_id \in ids \cup {0} THEN {} ELSE {old}
          /\ Cardinality(Installed) = Cardinality(ListedApps)
                                     + IF old.app_id \in ids \cup {0} THEN 0 ELSE 1
      BY <1>8, <2>2, <2>3
    <3> QED BY <1>7, <3>1 DEF AppsAsConfigured, new, old, list, held, ids
<1>11. CASE old.app_id # 0 /\ ~\E a \in ToSet(list) : a.app_id = old.app_id
  <2>1. old \in KnownApps
    BY <1>2, <1>11 DEF KnownApps
  <2>2. old.app_id \notin ids \cup {0}
    BY <1>9, <1>11
  <2>3. A = <<old>> \o list
    BY <1>2, <1>11 DEF PoolApps, MigratedApps
  <2>4. LET t == <<old>> \o list
        IN  /\ t \in Seq(Apps) /\ Len(t) = Len(list) + 1 /\ t[1] = old
            /\ Cardinality(PlacesTo(t, KnownApps, Len(t)))
                  = Cardinality(PlacesTo(list, KnownApps, Len(list))) + 1
            /\ ValuesTo(t, KnownApps, Len(t)) = new \cup {old}
    <3> DEFINE G == KnownApps
    <3>1. old \in Apps /\ list \in Seq(Apps) /\ old \in G
      BY <1>2, <2>1
    <3> HIDE DEF old, list, A, G
    <3> QED BY <3>1, PlacesPrepended DEF G
  <2>5. held = new \cup {old} /\ Cardinality(Installed) = Cardinality(ListedApps) + 1
    BY <1>5, <1>6, <1>7, <2>3, <2>4
  <2> QED
    <3> HIDE DEF new, old, list, held, A, ids
    <3>1. /\ held = new \cup IF old.app_id \in ids \cup {0} THEN {} ELSE {old}
          /\ Cardinality(Installed) = Cardinality(ListedApps)
                                     + IF old.app_id \in ids \cup {0} THEN 0 ELSE 1
      BY <1>8, <2>2, <2>5
    <3> QED BY <1>7, <3>1 DEF AppsAsConfigured, new, old, list, held, ids
<1> QED BY <1>10, <1>11

(* Every credential of the settings is in the pool as often as it is listed, the *)
(* tokens before the applications; an old setting is added only if the lists do *)
(* not have it, the vault's token only if there is no other; and the collector's *)
(* ticker gets a positive interval. *)
THEOREM PoolIsAsConfigured == ConfigSpec => []PoolHoldsWhatWasConfigured
<1>1. ConfigInv => PoolHoldsWhatWasConfigured
  <2> SUFFICES ASSUME ConfigInv, stage = "ready"
               PROVE  /\ \A i \in Pats, j \in Installed : i < j
                      /\ TokensAsConfigured /\ AppsAsConfigured
                      /\ CollectorDuration(github.collector_interval) > 0
    BY DEF PoolHoldsWhatWasConfigured
  <2>1. /\ file \in Files /\ env \in Environments /\ stored \in Stored
        /\ env.applications = Unset
        /\ github.collector_interval = Configured.collector_interval
    BY DEF ConfigInv, SourcesInv, SettingsInv, Migrated
  <2>2. \A i \in Pats, j \in Installed : i < j
    <3>1. /\ entries \in Seq(Entries)
          /\ HoldsTokens(entries, PatCount, PoolTokens, Len(PoolTokens))
          /\ HoldsApps(entries, PatCount, PoolApps, Len(PoolApps))
      BY DEF ConfigInv, LoopInv, Migrated
    <3>2. PatCount \in Nat /\ Len(PoolApps) \in Nat
      BY <2>1, PoolTypes, PlacesGrow DEF PatCount
    <3>3. Pats = 1..PatCount /\ Installed = (PatCount + 1)..Len(entries)
      BY <3>1, <3>2, EntriesParted
    <3>4. Len(entries) \in Nat
      BY <3>1, LenProperties
    <3> QED BY <3>2, <3>3, <3>4
  <2>3. CollectorDuration(github.collector_interval) > 0
    <3>1. PICK raw : raw = github.collector_interval
      OBVIOUS
    <3>2. raw \in Int \/ raw = Unparsable
      BY <2>1, <3>1, SettingTypes
    <3>3. CollectorDuration(raw) > 0
      BY <3>2 DEF CollectorDuration
    <3> QED BY <3>1, <3>3
  <2> QED BY <2>2, <2>3, PoolTokensAreConfigured, PoolAppsAreConfigured
<1> QED BY <1>1, ConfigInvInit, ConfigStep, PTL DEF ConfigSpec
=============================================================================
