------------------------------- MODULE Manager -------------------------------
(***************************************************************************)
(* One scuffinger process, from Bootstrap to its exit: the Manager of      *)
(* internal/services/service.go with its health loop, Bootstrap            *)
(* (bootstrap.go), and the commands that run it (cmd/root.go, serve.go,    *)
(* github_monitor.go), which connect the services, test them, start the    *)
(* background loops, serve HTTP until a signal, drain and close.           *)
(*                                                                         *)
(* Three goroutines share the Manager: main (variable phase), the health   *)
(* loop (hpc) and the collector loop (cpc; its cycles are abstracted to    *)
(* what they need of the other services, see Collector for the rest).      *)
(* HTTP requests are added by Readiness.                                   *)
(***************************************************************************)
EXTENDS Naturals, Sequences

CONSTANTS
    Base,        \* services of Bootstrap in order: <<cache, database, ...>>
    Collector,   \* the collector service, or a name in Base for "none"
    Flaky,       \* the services that may fail or recover while main serves
    MaxFlips     \* how often they may

BaseSet   == {Base[i] : i \in DOMAIN Base}
AllServices == BaseSet \cup {Collector}
WithCollector == Collector \notin BaseSet   \* ~SkipCollector, repos configured

Cache      == "cache"
Database   == "database"
Connections == {Cache, Database}   \* what Close of a service can close

ASSUME BaseAssumption ==
    Base \in Seq(BaseSet) /\ Cache \in BaseSet /\ Database \in BaseSet
ASSUME FlakyAssumption == Flaky \subseteq AllServices /\ MaxFlips \in Nat

VARIABLES
    \* --- main ------------------------------------------------------------
    phase,      \* where main is, see Phases
    at,         \* index of the loop of ConnectAll, RunSelfTests or CloseAll
    services,   \* m.services
    statuses,   \* m.statuses: registered service -> Healthy
    conn,       \* redis client and pgx pool: "none", "open", "closing", "closed"
    result,     \* outcome of the process: "none", "ok" or "error"
    \* --- health loop of StartHealthChecks ---------------------------------
    hpc,        \* "off", "select", "ping", "store", "read", "set", "stopped"
    hat,        \* index of the loop of CheckHealth
    hval,       \* its local value: no ping error, or the answer of IsHealthy
    hcancelled, \* m.cancel was called
    \* --- collector loop ----------------------------------------------------
    cpc,        \* "off", "select", "lock", "query" or "stopped"
    ccancelled, \* collector.Close was called after Start
    \* --- Prometheus and the services themselves ---------------------------
    overall,    \* gauge health_status
    gauge,      \* gauge health_service_status
    well,       \* whether a ping of the service would succeed
    flips       \* how many of MaxFlips have happened

mainVars   == <<phase, at, services, conn, result>>
healthVars == <<hpc, hat, hval, hcancelled>>
collVars   == <<cpc, ccancelled>>
gaugeVars  == <<overall, gauge>>
envVars    == <<well, flips>>
managerVars == <<mainVars, statuses, healthVars, collVars, gaugeVars, envVars>>

Phases == {"connect", "add", "selftest", "start", "serve", "drain", "close", "exit"}

ManagerTypeOK ==
    /\ phase \in Phases
    /\ at \in 1..(Len(Base) + 2)
    /\ services \in {Base, Append(Base, Collector)}
    /\ DOMAIN statuses = {services[i] : i \in DOMAIN services}
    /\ \A s \in DOMAIN statuses : statuses[s] \in BOOLEAN
    /\ conn \in [Connections -> {"none", "open", "closing", "closed"}]
    /\ result \in {"none", "ok", "error"}
    /\ hpc \in {"off", "select", "ping", "store", "read", "set", "stopped"}
    /\ hat \in 1..(Len(Base) + 2)
    /\ hval \in BOOLEAN /\ hcancelled \in BOOLEAN /\ ccancelled \in BOOLEAN
    /\ cpc \in {"off", "select", "lock", "query", "stopped"}
    /\ overall \in BOOLEAN /\ gauge \in [AllServices -> BOOLEAN]
    /\ well \in [AllServices -> BOOLEAN] /\ flips \in 0..MaxFlips

ManagerInit ==
    /\ phase = "connect" /\ at = 1
    /\ services = Base
    /\ statuses = [s \in BaseSet |-> FALSE]
    /\ conn = [s \in Connections |-> "none"]
    /\ result = "none"
    /\ hpc = "off" /\ hat = 1 /\ hval = FALSE /\ hcancelled = FALSE
    /\ cpc = "off" /\ ccancelled = FALSE
    /\ overall = FALSE /\ gauge = [s \in AllServices |-> FALSE]
    /\ well = [s \in AllServices |-> TRUE] /\ flips = 0

Running == phase # "exit"
Registered == DOMAIN statuses

(* IsHealthy *)
IsHealthy == Registered # {} /\ \A s \in Registered : statuses[s]

-----------------------------------------------------------------------------
(* Bootstrap *)

AtService(ph) == phase = ph /\ at \in DOMAIN services

ConnectOne ==
    /\ AtService("connect")
    /\ conn' = [c \in Connections |-> IF c = services[at] THEN "open" ELSE conn[c]]
    /\ at' = at + 1
    /\ UNCHANGED <<phase, services, result, statuses, healthVars, collVars,
                   gaugeVars, envVars>>

(* ConnectAll gives up at the first failure, and Bootstrap returns no      *)
(* Manager: nobody closes what is open. The cache keeps its client even    *)
(* when its own ping fails, the database closes its pool.                  *)
ConnectFails ==
    /\ AtService("connect")
    /\ conn' = IF services[at] = Cache THEN [conn EXCEPT ![Cache] = "open"] ELSE conn
    /\ phase' = "exit" /\ result' = "error"
    /\ UNCHANGED <<at, services, statuses, healthVars, collVars, gaugeVars, envVars>>

AllConnected ==
    /\ phase = "connect" /\ at \notin DOMAIN services
    /\ phase' = "add" /\ at' = 1
    /\ UNCHANGED <<services, conn, result, statuses, healthVars, collVars,
                   gaugeVars, envVars>>

(* AddService, and the Connect of the collector, which does nothing. *)
AddCollectorUnregistered ==    \* mutant: the service gets no status
    /\ phase = "add"
    /\ phase' = "selftest"
    /\ services' = IF WithCollector THEN Append(services, Collector) ELSE services
    /\ UNCHANGED <<at, conn, result, statuses, healthVars, collVars, gaugeVars, envVars>>
AddCollector ==
    /\ phase = "add"
    /\ phase' = "selftest"
    /\ IF WithCollector
       THEN /\ services' = Append(services, Collector)
            /\ statuses' = [s \in AllServices |->
                               s \in Registered /\ statuses[s]]
       ELSE UNCHANGED <<services, statuses>>
    /\ UNCHANGED <<at, conn, result, healthVars, collVars, gaugeVars, envVars>>

SelfTestPasses ==
    /\ AtService("selftest")
    /\ statuses' = [statuses EXCEPT ![services[at]] = TRUE]
    /\ at' = at + 1
    /\ UNCHANGED <<phase, services, conn, result, healthVars, collVars,
                   gaugeVars, envVars>>

(* The first failure ends RunSelfTests; Bootstrap calls CloseAll. *)
SelfTestFails ==
    /\ AtService("selftest")
    /\ statuses' = [statuses EXCEPT ![services[at]] = FALSE]
    /\ phase' = "close" /\ at' = 1 /\ result' = "error"
    /\ UNCHANGED <<services, conn, healthVars, collVars, gaugeVars, envVars>>

AllTested ==
    /\ phase = "selftest" /\ at \notin DOMAIN services
    /\ phase' = "start" /\ at' = 1
    /\ UNCHANGED <<services, conn, result, statuses, healthVars, collVars,
                   gaugeVars, envVars>>

(* StartHealthChecks, then collector.Start, which begins a cycle at once.  *)
StartLoops ==
    /\ phase = "start"
    /\ phase' = "serve"
    /\ hpc' = "select"
    /\ cpc' = IF WithCollector THEN "lock" ELSE "off"
    /\ UNCHANGED <<at, services, conn, result, statuses, hat, hval, hcancelled,
                   ccancelled, gaugeVars, envVars>>

-----------------------------------------------------------------------------
(* Signal, drain, CloseAll *)

Signal ==
    /\ phase = "serve"
    /\ phase' = "drain"
    /\ UNCHANGED <<at, services, conn, result, statuses, healthVars, collVars,
                   gaugeVars, envVars>>

(* srv.Shutdown returns nil, RunE too, and cobra calls PersistentPostRunE. *)
(* Readiness adds that no request is in progress.                          *)
Drained ==
    /\ phase = "drain"
    /\ phase' = "close" /\ at' = 1 /\ result' = "ok"
    /\ hcancelled' = TRUE          \* m.cancel, the first thing CloseAll does
    /\ UNCHANGED <<services, conn, statuses, hpc, hat, hval, collVars,
                   gaugeVars, envVars>>

(* srv.Shutdown times out: RunE returns an error and there is no post-run. *)
DrainTimesOut ==
    /\ phase = "drain"
    /\ phase' = "exit" /\ result' = "error"
    /\ UNCHANGED <<at, services, conn, statuses, healthVars, collVars,
                   gaugeVars, envVars>>

(* pgxpool.Close refuses new connections from now on and waits until those *)
(* in use are returned.                                                    *)
PoolInUse == cpc = "query"

BeginPoolClose ==
    /\ AtService("close") /\ services[at] = Database
    /\ conn[Database] = "open" /\ PoolInUse
    /\ conn' = [conn EXCEPT ![Database] = "closing"]
    /\ UNCHANGED <<phase, at, services, result, statuses, healthVars, collVars,
                   gaugeVars, envVars>>

CloseReturnsAfterLoop(s) ==    \* mutant: Close waits for a loop not yet cancelled
    s = Database => cpc \in {"off", "stopped"}
CloseReturns(s) == s = Database => ~PoolInUse

Closed(s) == [c \in Connections |->
                 IF c = s /\ conn[c] # "none" THEN "closed" ELSE conn[c]]

(* CloseAll collects the errors of Close and goes on to the next service.  *)
(* Only Close of the redis client can return one, and the client is closed *)
(* all the same.                                                           *)
Outcomes(s) == IF s = Cache THEN {result, "error"} ELSE {result}

CloseOneStoppingAtError ==     \* mutant: return the first error
    /\ AtService("close") /\ CloseReturns(services[at])
    /\ conn' = Closed(services[at])
    /\ ccancelled' = (ccancelled \/ (services[at] = Collector /\ cpc # "off"))
    /\ result' \in Outcomes(services[at])
    /\ at' = IF result' = "error" THEN Len(services) + 1 ELSE at + 1
    /\ UNCHANGED <<phase, services, statuses, healthVars, cpc, gaugeVars, envVars>>
CloseOne ==
    /\ AtService("close") /\ CloseReturns(services[at])
    /\ conn' = Closed(services[at])
    /\ ccancelled' = (ccancelled \/ (services[at] = Collector /\ cpc # "off"))
    /\ at' = at + 1
    /\ result' \in Outcomes(services[at])
    /\ UNCHANGED <<phase, services, statuses, healthVars, cpc, gaugeVars, envVars>>

AllClosed ==
    /\ phase = "close" /\ at \notin DOMAIN services
    /\ phase' = "exit"
    /\ UNCHANGED <<at, services, conn, result, statuses, healthVars, collVars,
                   gaugeVars, envVars>>

-----------------------------------------------------------------------------
(* The health loop *)

Checked == services[hat]    \* loop variable svc of CheckHealth

(* Ping under the context of the loop: once that is cancelled every ping   *)
(* over the network fails. The collector answers lastErr without asking.   *)
PingSucceeds(s) == /\ well[s]
                   /\ s # Collector => ~hcancelled
                   /\ s \in Connections => conn[s] = "open"

HealthTick ==
    /\ Running /\ hpc = "select"
    /\ hpc' = "ping"
    /\ UNCHANGED <<mainVars, statuses, hat, hval, hcancelled, collVars, gaugeVars, envVars>>

HealthStop ==
    /\ Running /\ hpc = "select" /\ hcancelled
    /\ hpc' = "stopped"
    /\ UNCHANGED <<mainVars, statuses, hat, hval, hcancelled, collVars,
                   gaugeVars, envVars>>

Ping ==
    /\ Running /\ hpc = "ping"
    /\ hval' = PingSucceeds(Checked)
    /\ hpc' = "store"
    /\ UNCHANGED <<mainVars, statuses, hat, hcancelled, collVars, gaugeVars, envVars>>

(* Under the lock of the Manager: status and gauge of the service. *)
Report(status) ==
    /\ Running /\ hpc = "store"
    /\ statuses' = [statuses EXCEPT ![Checked] = status]
    /\ gauge' = [gauge EXCEPT ![Checked] = hval]
    /\ hval' = FALSE
    /\ UNCHANGED <<mainVars, hcancelled, collVars, overall, envVars>>

(* On to the next service, or to the aggregate when that was the last one. *)
Advance(last) == /\ hat' = IF last THEN 1 ELSE hat + 1
                 /\ hpc' = IF last THEN "read" ELSE "ping"

StoreAndGiveUp ==   \* mutant: the round ends with the first failure
    Report(hval) /\ Advance(hat = Len(services) \/ ~hval)
StoreSticky ==      \* mutant: a recovery does not clear the failure
    Report(hval /\ statuses[Checked]) /\ Advance(hat = Len(services))
Store == Report(hval) /\ Advance(hat = Len(services))

(* SetOverallHealth(m.IsHealthy()): the lock is released in between. *)
ReadAggregate ==
    /\ Running /\ hpc = "read"
    /\ hval' = IsHealthy
    /\ hpc' = "set"
    /\ UNCHANGED <<mainVars, statuses, hat, hcancelled, collVars, gaugeVars, envVars>>

SetOverall ==
    /\ Running /\ hpc = "set"
    /\ overall' = hval
    /\ hval' = FALSE
    /\ hpc' = "select"
    /\ UNCHANGED <<mainVars, statuses, hat, hcancelled, collVars, gauge, envVars>>

HealthStep == HealthTick \/ HealthStop \/ Ping \/ Store \/ ReadAggregate \/ SetOverall

-----------------------------------------------------------------------------
(* The collector loop, as far as it uses the other services *)

CollectTick ==
    /\ Running /\ cpc = "select"
    /\ cpc' = "lock"
    /\ UNCHANGED <<mainVars, statuses, healthVars, ccancelled, gaugeVars, envVars>>

CollectStop ==
    /\ Running /\ cpc = "select" /\ ccancelled
    /\ cpc' = "stopped"
    /\ UNCHANGED <<mainVars, statuses, healthVars, ccancelled, gaugeVars, envVars>>

(* tryLock answers true or false, or fails because the client is closed.   *)
CollectLock ==
    /\ Running /\ cpc = "lock"
    /\ \/ cpc' = "query" /\ conn[Database] = "open"
       \/ cpc' = "select"
    /\ UNCHANGED <<mainVars, statuses, healthVars, ccancelled, gaugeVars, envVars>>

(* An upsert in collectRun returns its connection to the pool. *)
CollectQuery ==
    /\ Running /\ cpc = "query"
    /\ cpc' \in {"lock", "select"}
    /\ UNCHANGED <<mainVars, statuses, healthVars, ccancelled, gaugeVars, envVars>>

CollectStep == CollectTick \/ CollectStop \/ CollectLock \/ CollectQuery

-----------------------------------------------------------------------------
(* A service fails or recovers; for the collector: a cycle publishes or    *)
(* clears its error. Failures before serving are those of ConnectFails and *)
(* SelfTestFails, later ones no longer matter to anybody.                  *)
Flip(s) ==
    /\ phase = "serve" /\ flips < MaxFlips
    /\ well' = [well EXCEPT ![s] = ~@]
    /\ flips' = flips + 1
    /\ UNCHANGED <<mainVars, statuses, healthVars, collVars, gaugeVars>>

MainStep ==
    \/ ConnectOne \/ ConnectFails \/ AllConnected \/ AddCollector
    \/ SelfTestPasses \/ SelfTestFails \/ AllTested \/ StartLoops
    \/ Drained \/ DrainTimesOut \/ BeginPoolClose \/ CloseOne \/ AllClosed
=============================================================================
