------------------------------ MODULE SelfTests ------------------------------
(***************************************************************************)
(* The self-tests of the cache and database services (cache.go,            *)
(* database.go), run by several pods at start against one Valkey and one   *)
(* PostgreSQL: all of them write the key "init" and create, use and drop   *)
(* the database "testdb". A pod whose self-test fails exits and is         *)
(* started again.                                                          *)
(***************************************************************************)
EXTENDS Naturals

CONSTANTS
    Pods,
    NoPod,       \* key "init" was never written
    Ghost,       \* a session of a crashed pod that PostgreSQL still holds
    MaxFaults    \* bound: crashes and failed statements

ASSUME PodsAssumption == NoPod \notin Pods /\ Ghost \notin Pods /\ MaxFaults \in Nat

VARIABLES
    pc,         \* where each pod is in its self-tests
    init,       \* who wrote the key "init" last
    db,         \* testdb: "none", "bare", or "table" once self_test exists
    values,     \* column value of self_test
    sessions,   \* who is connected to testdb
    crudErr,    \* whether runCRUD of the pod has failed
    late,       \* statements nobody waits for any more that may yet be executed
    faults,
    \* history
    lone,       \* no other pod tested since this one began, nothing of it failed,
                \* and none was late when it began
    abandoned   \* a pod crashed, its DROP was not executed or its CREATE was late,
                \* and testdb has not been dropped since

postgres == <<db, values, sessions>>
history == <<faults, lone, abandoned>>
selfTestVars == <<pc, crudErr, init, postgres, late, history>>

(* Statements of the self-tests in their order, and where the code goes on. *)
Crud == {"table", "insert", "read", "update", "reread"}
Statements == {"set", "get", "terminate1", "drop1", "create", "terminate2", "drop2"} \cup Crud
Testing(p) == pc[p] \in Statements \cup {"close", "verdict"}
Pcs == Statements \cup {"down", "close", "verdict", "up", "failed"}

SelfTestInit ==
    /\ pc = [p \in Pods |-> "down"]
    /\ crudErr = [p \in Pods |-> FALSE]
    /\ init = NoPod
    /\ db = "none" /\ values = {} /\ sessions = {}
    /\ late = {} /\ faults = 0
    /\ lone = [p \in Pods |-> TRUE]
    /\ abandoned = FALSE

GoTo(p, where) == pc' = [pc EXCEPT ![p] = where]

(* Where the code goes on after an error: before the test the errors of *)
(* terminating and dropping are ignored, behind it they are logged, and those of *)
(* runCRUD are kept until testdb is dropped. *)
OnErrorReturn(here) ==    \* mutant: an error of runCRUD is returned at once
    CASE here = "terminate1" -> "drop1"
      [] here = "drop1" -> "create"
      [] here = "terminate2" -> "drop2"
      [] here = "drop2" -> "verdict"
      [] OTHER -> "failed"
OnError(here) ==
    CASE here \in Crud -> "close"
      [] here = "terminate1" -> "drop1"
      [] here = "drop1" -> "create"
      [] here = "terminate2" -> "drop2"
      [] here = "drop2" -> "verdict"
      [] OTHER -> "failed"

-----------------------------------------------------------------------------

(* A pod is started, again after a failure, or in place of one that ran. *)
Start(p) ==
    /\ ~Testing(p)
    /\ GoTo(p, "set")
    /\ crudErr' = [crudErr EXCEPT ![p] = FALSE]
    /\ lone' = [q \in Pods |->
                   IF q = p THEN late = {} /\ \A r \in Pods \ {p} : ~Testing(r)
                            ELSE lone[q] /\ ~Testing(q)]
    /\ UNCHANGED <<init, postgres, late, faults, abandoned>>

(* CacheService.SelfTest. Time stamps have seconds, so those of two pods may be equal. *)
SetInit(p) ==
    /\ pc[p] = "set"
    /\ init' = p
    /\ GoTo(p, "get")
    /\ UNCHANGED <<crudErr, postgres, late, history>>

GetInit(p) ==
    /\ pc[p] = "get"
    /\ \/ GoTo(p, "terminate1")
       \/ init # p /\ GoTo(p, "failed")
    /\ UNCHANGED <<crudErr, init, postgres, late, history>>

-----------------------------------------------------------------------------
(* DatabaseService.SelfTest *)

(* TerminateConnections, before the leftover is dropped and again in dropDB. *)
TerminateNone(p, here, then) ==    \* mutant: sessions are not ended
    /\ pc[p] = here
    /\ GoTo(p, then)
    /\ UNCHANGED <<crudErr, init, postgres, late, history>>
Terminate(p, here, then) ==
    /\ pc[p] = here
    /\ sessions' = {}
    /\ GoTo(p, then)
    /\ UNCHANGED <<crudErr, init, db, values, late, history>>

(* DROP DATABASE IF EXISTS fails while anybody is connected; the error is *)
(* ignored before the test and logged after it. *)
DropBehind(p, here, then) ==    \* mutant: leftovers are not dropped before the test
    /\ pc[p] = here
    /\ GoTo(p, then)
    /\ IF sessions = {} /\ here = "drop2"
       THEN db' = "none" /\ values' = {} /\ abandoned' = FALSE
       ELSE UNCHANGED <<db, values, abandoned>>
    /\ UNCHANGED <<crudErr, init, sessions, late, faults, lone>>
DropTestdb ==
    IF sessions = {}
    THEN db' = "none" /\ values' = {} /\ abandoned' = FALSE
    ELSE UNCHANGED <<db, values, abandoned>>
Drop(p, here, then) ==
    /\ pc[p] = here
    /\ GoTo(p, then)
    /\ DropTestdb
    /\ UNCHANGED <<crudErr, init, sessions, late, faults, lone>>

CreateDatabase(p) ==
    /\ pc[p] = "create"
    /\ IF db = "none" THEN db' = "bare" /\ GoTo(p, "table")
                      ELSE GoTo(p, "failed") /\ UNCHANGED db
    /\ UNCHANGED <<crudErr, init, values, sessions, late, history>>

(* runCRUD. The pool connects to whatever testdb there is when it first needs a *)
(* connection, and again when it finds by a ping that the one it has is broken; *)
(* a connection that was used less than a second ago is not pinged. *)
Connected(p) == db # "none" /\ sessions' = sessions \cup {p}

Broken(p) == p \notin sessions /\ (pc[p] # "table" \/ db = "none")

CreateTable(p) ==
    /\ pc[p] = "table" /\ db = "bare"
    /\ Connected(p)
    /\ db' = "table" /\ UNCHANGED values
    /\ GoTo(p, "insert")
    /\ UNCHANGED <<crudErr, init, late, history>>

Insert(p) ==
    /\ pc[p] = "insert" /\ db = "table"
    /\ Connected(p)
    /\ values' = values \cup {"test"} /\ UNCHANGED db
    /\ GoTo(p, "read")
    /\ UNCHANGED <<crudErr, init, late, history>>

(* QueryRow takes the first row, whichever that is. *)
Read(p, here, expected, then) ==
    /\ pc[p] = here /\ db = "table"
    /\ Connected(p)
    /\ expected \in values
    /\ GoTo(p, then)
    /\ UNCHANGED <<crudErr, init, db, values, late, history>>

Update(p) ==
    /\ pc[p] = "update" /\ db = "table"
    /\ Connected(p)
    /\ values' = {"updated" : v \in values} /\ UNCHANGED db
    /\ GoTo(p, "reread")
    /\ UNCHANGED <<crudErr, init, late, history>>

(* The first error ends runCRUD: the connection is broken, the table is there *)
(* already or is missing, or the row has another value. *)
CrudFails(p) ==
    /\ pc[p] \in Crud
    /\ \/ Broken(p) /\ UNCHANGED sessions
       \/ Connected(p) /\ pc[p] = "table" /\ db = "table"
       \/ Connected(p) /\ pc[p] # "table" /\ db = "bare"
       \/ Connected(p) /\ pc[p] = "read" /\ values # {"test"}
       \/ Connected(p) /\ pc[p] = "reread" /\ values # {"updated"}
    /\ crudErr' = [crudErr EXCEPT ![p] = TRUE]
    /\ GoTo(p, OnError(pc[p]))
    /\ UNCHANGED <<init, db, values, late, history>>

(* testPool.Close: the connection ends before testdb is dropped. *)
ClosePool(p) ==
    /\ pc[p] = "close"
    /\ sessions' = sessions \ {p}
    /\ GoTo(p, "terminate2")
    /\ UNCHANGED <<crudErr, init, db, values, late, history>>

(* SelfTest returns, and with it Bootstrap, if it fails. *)
Verdict(p) ==
    /\ pc[p] = "verdict"
    /\ GoTo(p, IF crudErr[p] THEN "failed" ELSE "up")
    /\ UNCHANGED <<crudErr, init, postgres, late, history>>

Step(p) ==
    \/ SetInit(p) \/ GetInit(p)
    \/ Terminate(p, "terminate1", "drop1") \/ Drop(p, "drop1", "create")
    \/ CreateDatabase(p)
    \/ CreateTable(p) \/ Insert(p) \/ Read(p, "read", "test", "update")
    \/ Update(p) \/ Read(p, "reread", "updated", "close")
    \/ CrudFails(p)
    \/ ClosePool(p)
    \/ Terminate(p, "terminate2", "drop2") \/ Drop(p, "drop2", "verdict")
    \/ Verdict(p)

-----------------------------------------------------------------------------
(* Faults *)

(* Statements that the server may execute after the pod has given them up or has *)
(* crashed. One of runCRUD ends with the session that a test terminates first. *)
Lasting == {"set", "terminate1", "drop1", "create", "terminate2", "drop2"}

GiveUp(p) ==
    \/ UNCHANGED late
    \/ /\ pc[p] \in Lasting
       /\ late' = late \cup {[fault |-> faults', pod |-> p, what |-> pc[p]]}

(* A statement fails: it is not executed, or its answer is lost. *)
StatementFails(p) ==
    /\ pc[p] \in Statements /\ faults < MaxFaults
    /\ GoTo(p, OnError(pc[p]))
    /\ crudErr' = [crudErr EXCEPT ![p] = @ \/ pc[p] \in Crud]
    /\ faults' = faults + 1
    /\ GiveUp(p)
    /\ lone' = [lone EXCEPT ![p] = FALSE]
    /\ abandoned' = (abandoned \/ pc[p] = "drop2")
    /\ UNCHANGED <<init, postgres>>

(* PostgreSQL may not notice that the pod is gone. *)
Crash(p) ==
    /\ Testing(p) /\ faults < MaxFaults
    /\ GoTo(p, "down")
    /\ sessions' \in {sessions \ {p}, {IF s = p THEN Ghost ELSE s : s \in sessions}}
    /\ faults' = faults + 1
    /\ GiveUp(p)
    /\ abandoned' = TRUE
    /\ UNCHANGED <<crudErr, init, db, values, lone>>

LateSet(s) ==
    /\ s.what = "set"
    /\ init' = s.pod
    /\ UNCHANGED <<postgres, abandoned>>

LateTerminate(s) ==
    /\ s.what \in {"terminate1", "terminate2"}
    /\ sessions' = {}
    /\ UNCHANGED <<init, db, values, abandoned>>

LateDrop(s) ==
    /\ s.what \in {"drop1", "drop2"}
    /\ DropTestdb
    /\ UNCHANGED <<init, sessions>>

LateCreate(s) ==
    /\ s.what = "create"
    /\ IF db = "none" THEN db' = "bare" /\ abandoned' = TRUE
                      ELSE UNCHANGED <<db, abandoned>>
    /\ UNCHANGED <<init, values, sessions>>

LateStatement ==
    /\ \E s \in late :
          /\ late' = late \ {s}
          /\ LateSet(s) \/ LateTerminate(s) \/ LateDrop(s) \/ LateCreate(s)
    /\ UNCHANGED <<pc, crudErr, faults, lone>>

SelfTestNext ==
    \/ \E p \in Pods : Start(p) \/ Step(p) \/ StatementFails(p) \/ Crash(p)
    \/ LateStatement

(* Kubernetes starts a pod again and again; PostgreSQL answers. *)
SelfTestSpec ==
    /\ SelfTestInit /\ [][SelfTestNext]_selfTestVars
    /\ \A p \in Pods : WF_selfTestVars(Step(p)) /\ WF_selfTestVars(pc[p] # "up" /\ Start(p))

-----------------------------------------------------------------------------

SelfTestTypeOK ==
    /\ pc \in [Pods -> Pcs] /\ crudErr \in [Pods -> BOOLEAN]
    /\ init \in Pods \cup {NoPod}
    /\ db \in {"none", "bare", "table"} /\ values \subseteq {"test", "updated"}
    /\ sessions \subseteq Pods \cup {Ghost}
    /\ late \subseteq [fault : 1..MaxFaults, pod : Pods, what : Lasting]
    /\ faults \in 0..MaxFaults
    /\ lone \in [Pods -> BOOLEAN] /\ abandoned \in BOOLEAN

(* database.go:48: whatever earlier self-tests have left behind, the self-test of *)
(* a pod that no other pod and no late statement of one disturbs and none of whose *)
(* own statements fails, passes. *)
LonePasses == \A p \in Pods : pc[p] = "failed" => ~lone[p]

(* database.go:73: when no pod is testing there is no testdb, whatever has failed *)
(* in the tests that ran into each other, unless since testdb was last dropped a *)
(* pod crashed, its DROP was not executed or its CREATE was late. *)
CleanedUp == (\A p \in Pods : ~Testing(p)) /\ ~abandoned => db = "none"

(* database.go:50, cache.go:50: pods that make each other's self-tests fail are *)
(* started again, and one that is left alone some time gets up. *)
StartsWhenAlone ==
    \A p \in Pods :
        <>[](\A q \in Pods \ {p} : ~Testing(q)) => []<>(pc[p] = "up")
=============================================================================
