--------------------------- MODULE ReadinessProofs ---------------------------
(***************************************************************************)
(* Theorems about Readiness and the Manager it extends, for any services,  *)
(* any number of requests at once and any number of failures.              *)
(***************************************************************************)
EXTENDS Readiness, TLAPS

(* Main stays within the services, which change only when it adds the      *)
(* collector.                                                              *)
MainOK ==
    /\ phase \in Phases /\ result \in {"none", "ok", "error"}
    /\ services \in {Base, Append(Base, Collector)}
    /\ at \in 1..(Len(services) + 1)
    /\ conn \in [Connections -> {"none", "open", "closing", "closed"}]
    /\ phase \in {"connect", "add"} => services = Base
    /\ phase = "add" => at = 1

(* CloseAll has closed the services it has passed. *)
CloseInv ==
    phase = "close" =>
        \A i \in DOMAIN services : \A c \in Connections :
            i < at /\ services[i] = c => conn[c] # "open"

StatusOK ==
    /\ DOMAIN statuses = {services[i] : i \in DOMAIN services}
    /\ \A s \in DOMAIN statuses : statuses[s] \in BOOLEAN

LoopsOK ==
    /\ hpc \in {"off", "select", "ping", "store", "read", "set", "stopped"}
    /\ hat \in 1..Len(services)
    /\ hval \in BOOLEAN /\ hcancelled \in BOOLEAN /\ ccancelled \in BOOLEAN
    /\ cpc \in {"off", "select", "lock", "query", "stopped"}
    /\ well \in [AllServices -> BOOLEAN] /\ flips \in 0..MaxFlips

GaugesOK ==
    /\ overall \in BOOLEAN /\ gauge \in [AllServices -> BOOLEAN]
    /\ rpc \in [Requests -> {"idle", "check", "overall", "snap", "gauges", "body"}]
    /\ rok \in [Requests -> BOOLEAN]
    /\ DOMAIN rsnap = Requests
    /\ \A r \in Requests : \A s \in DOMAIN rsnap[r] :
          s \in AllServices /\ rsnap[r][s] \in BOOLEAN

(* Requests arrive while main serves, and must end before it goes on.      *)
RequestInv ==
    (\E r \in Requests : InProgress(r)) => phase \in {"serve", "drain", "exit"}

ReadinessInv == MainOK /\ CloseInv /\ StatusOK /\ LoopsOK /\ GaugesOK /\ RequestInv

-----------------------------------------------------------------------------
(* The list of services *)

(* The list holds every connection, with or without the collector at its end. *)
LEMMA ListFacts ==
    ASSUME services \in {Base, Append(Base, Collector)}
    PROVE  /\ Len(Base) \in Nat \ {0}
           /\ Len(services) \in {Len(Base), Len(Base) + 1}
           /\ DOMAIN services = 1..Len(services)
           /\ \A i \in DOMAIN services : services[i] \in AllServices
           /\ \A c \in Connections : \E i \in DOMAIN services : services[i] = c
<1>1. /\ Base \in Seq(BaseSet) /\ Len(Base) \in Nat /\ DOMAIN Base = 1..Len(Base)
      /\ \A i \in DOMAIN Base : Base[i] \in BaseSet
  BY BaseAssumption
<1>2. \A c \in Connections : \E i \in DOMAIN Base : Base[i] = c
  BY BaseAssumption DEF Connections, BaseSet
<1>3. Len(Base) # 0
  BY <1>1, <1>2 DEF Connections
<1>4. CASE services = Base
  BY <1>1, <1>2, <1>3, <1>4 DEF AllServices
<1>5. CASE services = Append(Base, Collector)
  <2>1. /\ Len(services) = Len(Base) + 1 /\ DOMAIN services = 1..(Len(Base) + 1)
        /\ services[Len(Base) + 1] = Collector
        /\ \A i \in 1..Len(Base) : services[i] = Base[i]
    BY <1>1, <1>5
  <2>2. \A i \in DOMAIN services : services[i] \in AllServices
    BY <1>1, <2>1 DEF AllServices
  <2>3. \A c \in Connections : \E i \in DOMAIN services : services[i] = c
    BY <1>1, <1>2, <2>1
  <2> QED BY <1>1, <1>3, <2>1, <2>2, <2>3
<1> QED BY <1>4, <1>5

(* The services are those of the base list and the collector behind them. *)
LEMMA AppendedServices ==
    /\ BaseSet = {Base[i] : i \in DOMAIN Base}
    /\ AllServices = {Append(Base, Collector)[i] : i \in DOMAIN Append(Base, Collector)}
    /\ Len(Append(Base, Collector)) = Len(Base) + 1 /\ Len(Base) \in Nat
<1>1. /\ Len(Base) \in Nat /\ DOMAIN Base = 1..Len(Base)
      /\ DOMAIN Append(Base, Collector) = 1..(Len(Base) + 1)
      /\ Len(Append(Base, Collector)) = Len(Base) + 1
      /\ Append(Base, Collector)[Len(Base) + 1] = Collector
      /\ \A i \in 1..Len(Base) : Append(Base, Collector)[i] = Base[i]
  BY BaseAssumption
<1> QED BY <1>1 DEF BaseSet, AllServices

-----------------------------------------------------------------------------
(* Main *)

(* Only main and the signal change the state of main. *)
LEMMA OnlyMain ==
    ASSUME [Next]_vars, ~(Main \/ Signal)
    PROVE  UNCHANGED mainVars
<1> USE DEF mainVars, healthVars, collVars, managerVars
<1>1. HealthStep => UNCHANGED mainVars
  BY DEF HealthStep, HealthTick, HealthStop, Ping, Store, Report, ReadAggregate, SetOverall
<1>2. CollectStep => UNCHANGED mainVars
  BY DEF CollectStep, CollectTick, CollectStop, CollectLock, CollectQuery
<1>3. \A s : Flip(s) => UNCHANGED mainVars
  BY DEF Flip
<1>4. \A r : Arrive(r) \/ RequestStep(r) => UNCHANGED mainVars
  BY DEF Arrive, RequestStep, Check, ExportOverall, Snapshot, ExportService, AllExported, Respond
<1> QED BY <1>1, <1>2, <1>3, <1>4 DEF Next, vars

(* Main stays within its loops, and a connection it has passed in CloseAll is closed. *)
LEMMA MainPart ==
    ASSUME MainOK, CloseInv, [Next]_vars
    PROVE  MainOK' /\ CloseInv'
<1> USE ListFacts DEF MainOK, CloseInv, Phases, AtService
<1>1. CASE ConnectOne \/ AllConnected
  BY <1>1 DEF ConnectOne, AllConnected
<1>2. CASE ConnectFails
  BY <1>2 DEF ConnectFails
<1>3. CASE AddCollector
  <2>1. /\ services = Base /\ services' \in {Base, Append(Base, Collector)}
        /\ phase' = "selftest" /\ at' = 1 /\ UNCHANGED <<conn, result>>
    BY <1>3 DEF AddCollector
  <2>2. Len(services') \in Nat
    BY <2>1, AppendedServices
  <2>3. CloseInv'
    BY <2>1
  <2> QED BY <2>1, <2>2, <2>3
<1>4. CASE SelfTestPasses
  BY <1>4 DEF SelfTestPasses
<1>5. CASE SelfTestFails
  BY <1>5 DEF SelfTestFails
<1>6. CASE AllTested \/ StartLoops \/ Signal \/ DrainTimesOut \/ AllClosed
  BY <1>6 DEF AllTested, StartLoops, Signal, DrainTimesOut, AllClosed
<1>7. CASE Drained
  BY <1>7 DEF Drained
<1>8. CASE BeginPoolClose
  BY <1>8 DEF BeginPoolClose
<1>9. CASE CloseOne
  <2>1. /\ phase = "close" /\ phase' = "close"
        /\ services' = services /\ at' = at + 1 /\ at \in DOMAIN services
        /\ conn' = Closed(services[at]) /\ result' \in {result, "error"}
    BY <1>9 DEF CloseOne, Outcomes
  <2>2. /\ conn' \in [Connections -> {"none", "open", "closing", "closed"}]
        /\ \A c \in Connections : conn[c] # "open" \/ c = services[at] => conn'[c] # "open"
    BY <2>1 DEF Closed
  <2>3. CloseInv'
    BY <2>1, <2>2
  <2>4. at' \in 1..(Len(services') + 1)
    BY <2>1
  <2> HIDE DEF CloseInv
  <2> QED BY <2>1, <2>2, <2>3, <2>4
<1>10. CASE UNCHANGED mainVars
  BY <1>10 DEF mainVars
<1> QED
  BY OnlyMain, <1>1, <1>2, <1>3, <1>4, <1>5, <1>6, <1>7, <1>8, <1>9, <1>10 DEF Main, MainStep

(* Every step keeps the statuses those of registered services. *)
LEMMA StatusPart ==
    ASSUME MainOK, StatusOK, LoopsOK, [Next]_vars
    PROVE  StatusOK'
<1> USE DEF StatusOK, healthVars, collVars, managerVars
<1>1. ASSUME NEW i \in DOMAIN services, NEW v \in BOOLEAN, services' = services,
             statuses' = [statuses EXCEPT ![services[i]] = v]
      PROVE  StatusOK'
  BY <1>1
<1>2. CASE AddCollector
  <2>1. CASE WithCollector
    <3>1. /\ services' = Append(Base, Collector)
          /\ statuses' = [s \in AllServices |-> s \in Registered /\ statuses[s]]
      BY <1>2, <2>1 DEF AddCollector, MainOK
    <3>2. DOMAIN statuses' = {services'[i] : i \in DOMAIN services'}
      BY <3>1, AppendedServices
    <3>3. \A s \in AllServices : (s \in Registered /\ statuses[s]) \in BOOLEAN
      OBVIOUS
    <3>4. \A s \in DOMAIN statuses' : statuses'[s] \in BOOLEAN
      BY <3>1, <3>3
    <3> QED BY <3>2, <3>4
  <2>2. CASE ~WithCollector
    BY <1>2, <2>2 DEF AddCollector
  <2> QED BY <2>1, <2>2
<1>3. CASE SelfTestPasses \/ SelfTestFails
  BY <1>1, <1>3 DEF SelfTestPasses, SelfTestFails, AtService
<1>4. CASE Store
  <2>1. hat \in DOMAIN services /\ hval \in BOOLEAN /\ services' = services
    BY <1>4, ListFacts DEF MainOK, LoopsOK, Store, Report, mainVars
  <2> QED BY <1>1, <1>4, <2>1 DEF Store, Report, Checked
<1>5. CASE UNCHANGED <<services, statuses>>
  BY <1>5
<1>6. Main => AddCollector \/ SelfTestPasses \/ SelfTestFails \/ UNCHANGED <<services, statuses>>
  BY DEF Main, MainStep, ConnectOne, ConnectFails, AllConnected, AllTested, StartLoops, Drained,
     DrainTimesOut, BeginPoolClose, CloseOne, AllClosed
<1>7. HealthStep \/ CollectStep => Store \/ UNCHANGED <<services, statuses>>
  BY DEF HealthStep, HealthTick, HealthStop, Ping, ReadAggregate, SetOverall, CollectStep,
     CollectTick, CollectStop, CollectLock, CollectQuery, mainVars
<1>8. Signal \/ (\E s \in Flaky : Flip(s)) => UNCHANGED <<services, statuses>>
  BY DEF Signal, Flip, mainVars
<1>9. \A r : Arrive(r) \/ RequestStep(r) => UNCHANGED <<services, statuses>>
  BY DEF Arrive, RequestStep, Check, ExportOverall, Snapshot, ExportService, AllExported,
     Respond, mainVars
<1> QED BY <1>2, <1>3, <1>4, <1>5, <1>6, <1>7, <1>8, <1>9 DEF Next, vars, mainVars

-----------------------------------------------------------------------------
(* The loops and the requests *)

(* The health loop and the collector loop stay within theirs. *)
LEMMA LoopsPart ==
    ASSUME MainOK, LoopsOK, [Next]_vars
    PROVE  LoopsOK'
<1> USE DEF LoopsOK, healthVars, collVars, envVars
<1>1. CASE services' = services /\ UNCHANGED <<healthVars, collVars, envVars>>
  BY <1>1
<1>2. CASE AddCollector
  <2>1. Len(services') >= Len(services) /\ Len(services') \in Nat /\ Len(services) \in Nat
    BY <1>2, AppendedServices DEF AddCollector, MainOK
  <2> QED BY <1>2, <2>1 DEF AddCollector
<1>3. CASE StartLoops \/ Drained \/ CloseOne
  BY <1>3 DEF StartLoops, Drained, CloseOne
<1>4. CASE HealthTick \/ HealthStop \/ Ping \/ ReadAggregate \/ SetOverall
  BY <1>4 DEF HealthTick, HealthStop, Ping, PingSucceeds, ReadAggregate, IsHealthy, SetOverall,
     mainVars
<1>5. CASE Store
  <2>1. /\ hat' \in 1..Len(services) /\ hpc' \in {"read", "ping"} /\ hval' = FALSE
        /\ services' = services /\ UNCHANGED <<hcancelled, collVars, envVars>>
    BY <1>5, ListFacts DEF MainOK, Store, Report, Advance, mainVars
  <2> QED BY <2>1
<1>6. CASE CollectStep
  BY <1>6 DEF CollectStep, CollectTick, CollectStop, CollectLock, CollectQuery, mainVars
<1>7. ASSUME NEW s \in Flaky, Flip(s) PROVE LoopsOK'
  <2>1. flips' \in 0..MaxFlips /\ well' \in [AllServices -> BOOLEAN]
    BY <1>7, FlakyAssumption DEF Flip
  <2> QED BY <1>7, <2>1 DEF Flip, mainVars
<1>8. Main => \/ AddCollector \/ StartLoops \/ Drained \/ CloseOne
              \/ services' = services /\ UNCHANGED <<healthVars, collVars, envVars>>
  BY DEF Main, MainStep, ConnectOne, ConnectFails, AllConnected, AllTested, SelfTestPasses,
     SelfTestFails, DrainTimesOut, BeginPoolClose, AllClosed
<1>9. \A r : Arrive(r) \/ RequestStep(r) \/ Signal
          => services' = services /\ UNCHANGED <<healthVars, collVars, envVars>>
  BY DEF Arrive, RequestStep, Check, ExportOverall, Snapshot, ExportService, AllExported,
     Respond, Signal, mainVars, managerVars
<1> QED
  BY <1>1, <1>2, <1>3, <1>4, <1>5, <1>6, <1>7, <1>8, <1>9 DEF Next, HealthStep, vars,
     managerVars, mainVars

(* Every step keeps the types of the gauges. *)
LEMMA GaugesPart ==
    ASSUME MainOK, StatusOK, LoopsOK, GaugesOK, [Next]_vars
    PROVE  GaugesOK'
<1> USE DEF GaugesOK, gaugeVars, requestVars
<1>1. CASE UNCHANGED <<gaugeVars, requestVars>>
  BY <1>1
<1>2. CASE Store /\ UNCHANGED requestVars
  BY <1>2 DEF Store, Report, LoopsOK
<1>3. CASE SetOverall /\ UNCHANGED requestVars
  BY <1>3 DEF SetOverall, LoopsOK
<1>4. ASSUME NEW r \in Requests, Arrive(r) \/ RequestStep(r) PROVE GaugesOK'
  <2> USE DEF At, managerVars
  <2>1. CASE Arrive(r) \/ AllExported(r)
    BY <2>1 DEF Arrive, AllExported
  <2>2. CASE Check(r)
    BY <2>2 DEF Check, IsHealthy
  <2>3. CASE ExportOverall(r)
    BY <2>3 DEF ExportOverall
  <2>4. CASE Snapshot(r)
    <3>1. \A s \in DOMAIN statuses : s \in AllServices /\ statuses[s] \in BOOLEAN
      BY ListFacts DEF MainOK, StatusOK
    <3> QED BY <2>4, <3>1 DEF Snapshot
  <2>5. CASE ExportService(r)
    BY <2>5 DEF ExportService
  <2>6. CASE Respond(r)
    BY <2>6 DEF Respond
  <2> QED BY <1>4, <2>1, <2>2, <2>3, <2>4, <2>5, <2>6 DEF RequestStep
<1>5. Main \/ Signal => UNCHANGED gaugeVars
  BY DEF Main, MainStep, ConnectOne, ConnectFails, AllConnected, AddCollector, AllTested,
     SelfTestPasses, SelfTestFails, StartLoops, Drained, DrainTimesOut, BeginPoolClose, CloseOne,
     AllClosed, Signal
<1>6. HealthStep \/ CollectStep \/ (\E s \in Flaky : Flip(s))
          => Store \/ SetOverall \/ UNCHANGED gaugeVars
  BY DEF HealthStep, HealthTick, HealthStop, Ping, ReadAggregate, CollectStep,
     CollectTick, CollectStop, CollectLock, CollectQuery, Flip
<1> QED BY <1>1, <1>2, <1>3, <1>4, <1>5, <1>6 DEF Next, Main, vars, managerVars

(* A request is in progress only while main serves, drains or exits. *)
LEMMA RequestsPart ==
    ASSUME GaugesOK, RequestInv, [Next]_vars
    PROVE  RequestInv'
<1> USE DEF RequestInv, InProgress
<1>1. CASE Main
  <2>1. UNCHANGED rpc /\ MainStep
    BY <1>1 DEF Main, requestVars
  <2>2. CASE Drained
    BY <1>1, <2>1, <2>2 DEF Main, MayDrain, InProgress
  <2>3. CASE ~Drained /\ ~DrainTimesOut /\ ~StartLoops
    <3>1. phase' = phase \/ phase \notin {"serve", "drain", "exit"}
      BY <2>1, <2>3 DEF MainStep, ConnectOne, ConnectFails, AllConnected, AddCollector,
         AllTested, SelfTestPasses, SelfTestFails, BeginPoolClose, CloseOne, AllClosed, AtService
    <3> QED BY <2>1, <3>1
  <2>4. CASE DrainTimesOut \/ StartLoops
    BY <2>1, <2>4 DEF DrainTimesOut, StartLoops
  <2> QED BY <2>2, <2>3, <2>4
<1>2. CASE Signal /\ UNCHANGED requestVars
  BY <1>2 DEF Signal, requestVars
<1>3. ASSUME NEW r \in Requests, Arrive(r) PROVE RequestInv'
  BY <1>3 DEF Arrive, managerVars, mainVars
<1>4. ASSUME NEW r \in Requests, RequestStep(r), UNCHANGED mainVars
      PROVE  RequestInv'
  <2>1. rpc[r] # "idle" /\ \A q \in Requests \ {r} : rpc'[q] = rpc[q]
    BY <1>4 DEF RequestStep, Check, ExportOverall, Snapshot, ExportService, AllExported, Respond,
       At, GaugesOK
  <2> QED BY <1>4, <2>1 DEF mainVars
<1>5. CASE UNCHANGED <<mainVars, requestVars>>
  BY <1>5 DEF mainVars, requestVars
<1>6. \A r : RequestStep(r) => UNCHANGED mainVars
  BY DEF RequestStep, Check, ExportOverall, Snapshot, ExportService, AllExported, Respond,
     managerVars
<1> QED
  BY <1>1, <1>2, <1>3, <1>4, <1>5, <1>6, OnlyMain DEF Next, vars, managerVars

-----------------------------------------------------------------------------

(* The invariant of main, the two loops, the gauges and the requests holds always. *)
THEOREM InvariantHolds == Spec => []ReadinessInv
<1>1. Init => ReadinessInv
  <2> SUFFICES ASSUME Init PROVE ReadinessInv
    OBVIOUS
  <2>1. Len(Base) \in Nat \ {0} /\ services = Base
    BY ListFacts DEF Init, ManagerInit
  <2>2. MainOK /\ CloseInv
    BY <2>1 DEF Init, ManagerInit, MainOK, CloseInv, Phases
  <2>3. StatusOK
    BY AppendedServices DEF Init, ManagerInit, StatusOK
  <2>4. LoopsOK
    <3>1. /\ hpc = "off" /\ hat = 1 /\ hval = FALSE /\ hcancelled = FALSE
          /\ cpc = "off" /\ ccancelled = FALSE
          /\ well = [s \in AllServices |-> TRUE] /\ flips = 0
      BY DEF Init, ManagerInit
    <3>2. well \in [AllServices -> BOOLEAN]
      BY <3>1
    <3>3. hval \in BOOLEAN /\ hcancelled \in BOOLEAN /\ ccancelled \in BOOLEAN
      BY <3>1, Zenon
    <3>4. hat \in 1..Len(services) /\ flips \in 0..MaxFlips
      BY <2>1, <3>1, FlakyAssumption
    <3> QED BY <3>1, <3>2, <3>3, <3>4 DEF LoopsOK
  <2>5. GaugesOK /\ RequestInv
    <3>1. /\ overall = FALSE /\ gauge = [s \in AllServices |-> FALSE]
          /\ rpc = [r \in Requests |-> "idle"] /\ rok = [r \in Requests |-> FALSE]
          /\ rsnap = [r \in Requests |-> <<>>]
      BY DEF Init, ManagerInit
    <3>2. gauge \in [AllServices -> BOOLEAN] /\ rok \in [Requests -> BOOLEAN]
      BY <3>1
    <3>3. overall \in BOOLEAN
      BY <3>1, Zenon
    <3>4. DOMAIN rsnap = Requests /\ \A r \in Requests : DOMAIN rsnap[r] = {}
      BY <3>1
    <3>5. rpc \in [Requests -> {"idle"}]
      BY <3>1
    <3>6. GaugesOK
      BY <3>2, <3>3, <3>4, <3>5 DEF GaugesOK
    <3>7. RequestInv
      BY <3>1 DEF RequestInv, InProgress
    <3> QED BY <3>6, <3>7
  <2> QED BY <2>2, <2>3, <2>4, <2>5 DEF ReadinessInv
<1>2. ReadinessInv /\ [Next]_vars => ReadinessInv'
  BY MainPart, StatusPart, LoopsPart, GaugesPart, RequestsPart DEF ReadinessInv
<1> QED BY <1>1, <1>2, PTL DEF Spec

(* Every variable has its type. *)
THEOREM TypeCorrect == Spec => []TypeOK
<1>1. ReadinessInv => TypeOK
  <2> SUFFICES ASSUME ReadinessInv PROVE TypeOK
    OBVIOUS
  <2>1. at \in 1..(Len(Base) + 2) /\ hat \in 1..(Len(Base) + 2)
    BY ListFacts DEF ReadinessInv, MainOK, LoopsOK
  <2> QED
    BY <2>1 DEF ReadinessInv, MainOK, StatusOK, LoopsOK, GaugesOK, TypeOK, ManagerTypeOK
<1> QED BY <1>1, InvariantHolds, PTL

(* No request is in progress while CloseAll closes the connections. *)
THEOREM RequestsEndBeforeClose == Spec => []NoRequestOnClosedConnection
<1>1. ReadinessInv => NoRequestOnClosedConnection
  BY DEF ReadinessInv, RequestInv, NoRequestOnClosedConnection
<1> QED BY <1>1, InvariantHolds, PTL

(* CloseAll leaves no connection open, whichever Close fails. *)
THEOREM NothingStaysOpen == Spec => ClosedDespiteErrors
<1>1. ReadinessInv /\ [Next]_vars =>
        [phase = "close" /\ phase' = "exit" => \A c \in Connections : conn[c] # "open"]_vars
  <2> SUFFICES ASSUME ReadinessInv, Next, phase = "close", phase' = "exit",
                      NEW c \in Connections
               PROVE  conn[c] # "open"
    BY DEF vars
  <2>1. AllClosed
    <3>1. Main \/ Signal
      BY OnlyMain DEF mainVars
    <3> QED
      BY <3>1 DEF Main, MainStep, ConnectOne, ConnectFails, AllConnected, AddCollector, AllTested,
         SelfTestPasses, SelfTestFails, StartLoops, Drained, DrainTimesOut, BeginPoolClose,
         CloseOne, Signal, AtService
  <2>2. PICK i \in DOMAIN services : services[i] = c
    BY ListFacts DEF ReadinessInv, MainOK
  <2>3. i < at
    BY <2>1, ListFacts DEF AllClosed, ReadinessInv, MainOK
  <2> QED BY <2>2, <2>3 DEF ReadinessInv, CloseInv
<1> QED BY <1>1, InvariantHolds, PTL DEF Spec, ClosedDespiteErrors
=============================================================================
