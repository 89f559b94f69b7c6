------------------------------ MODULE Readiness ------------------------------
(***************************************************************************)
(* The process of Manager while HTTP requests for /health/ready run in it: *)
(* ReadyHandler of internal/server/health.go, one goroutine per request,   *)
(* each reading the statuses three times and writing the gauges that the   *)
(* health loop writes too.                                                 *)
(***************************************************************************)
EXTENDS Manager

CONSTANT Requests   \* goroutines that serve requests, one after the other

VARIABLES
    rpc,    \* "idle", "check", "overall", "snap", "gauges" or "body"
    rok,    \* what IsHealthy answered the request
    rsnap   \* statuses of the first call of Statuses still to be exported

requestVars == <<rpc, rok, rsnap>>
vars == <<managerVars, requestVars>>

TypeOK ==
    /\ ManagerTypeOK
    /\ rpc \in [Requests -> {"idle", "check", "overall", "snap", "gauges", "body"}]
    /\ rok \in [Requests -> BOOLEAN]
    /\ DOMAIN rsnap = Requests
    /\ \A r \in Requests : \A s \in DOMAIN rsnap[r] :
          s \in AllServices /\ rsnap[r][s] \in BOOLEAN

Init ==
    /\ ManagerInit
    /\ rpc = [r \in Requests |-> "idle"]
    /\ rok = [r \in Requests |-> FALSE]
    /\ rsnap = [r \in Requests |-> <<>>]

-----------------------------------------------------------------------------
InProgress(r) == rpc[r] # "idle"

At(r, here, there) == /\ Running /\ rpc[r] = here
                      /\ rpc' = [rpc EXCEPT ![r] = there]

Arrive(r) ==
    /\ phase = "serve"
    /\ At(r, "idle", "check")
    /\ UNCHANGED <<managerVars, rok, rsnap>>

Check(r) ==
    /\ At(r, "check", "overall")
    /\ rok' = [rok EXCEPT ![r] = IsHealthy]
    /\ UNCHANGED <<managerVars, rsnap>>

ExportOverall(r) ==
    /\ At(r, "overall", "snap")
    /\ overall' = rok[r]
    /\ rok' = [rok EXCEPT ![r] = FALSE]
    /\ UNCHANGED <<mainVars, statuses, healthVars, collVars, gauge, envVars, rsnap>>

Snapshot(r) ==
    /\ At(r, "snap", "gauges")
    /\ rsnap' = [rsnap EXCEPT ![r] = statuses]
    /\ UNCHANGED <<managerVars, rok>>

(* Ranging over a map visits the services in any order. *)
ExportService(r) ==
    /\ Running /\ rpc[r] = "gauges"
    /\ \E s \in DOMAIN rsnap[r] :
          /\ gauge' = [gauge EXCEPT ![s] = rsnap[r][s]]
          /\ rsnap' = [rsnap EXCEPT ![r] = [t \in DOMAIN @ \ {s} |-> @[t]]]
    /\ UNCHANGED <<mainVars, statuses, healthVars, collVars, overall, envVars, rpc, rok>>

AllExported(r) ==
    /\ At(r, "gauges", "body")
    /\ DOMAIN rsnap[r] = {}
    /\ UNCHANGED <<managerVars, rok, rsnap>>

(* The statuses are read once more for the body, then the request is over. *)
Respond(r) ==
    /\ At(r, "body", "idle")
    /\ rsnap' = [rsnap EXCEPT ![r] = <<>>]
    /\ UNCHANGED <<managerVars, rok>>

RequestStep(r) ==
    \/ Check(r) \/ ExportOverall(r) \/ Snapshot(r) \/ ExportService(r)
    \/ AllExported(r) \/ Respond(r)

-----------------------------------------------------------------------------
(* srv.Shutdown succeeds only when no request is in progress. *)
MayDrainAlways == TRUE     \* mutant: srv.Close instead of srv.Shutdown
MayDrain == \A r \in Requests : ~InProgress(r)

Main == MainStep /\ (Drained => MayDrain) /\ UNCHANGED requestVars

Next ==
    \/ Main
    \/ Signal /\ UNCHANGED requestVars
    \/ HealthStep /\ UNCHANGED requestVars
    \/ CollectStep /\ UNCHANGED requestVars
    \/ (\E s \in Flaky : Flip(s)) /\ UNCHANGED requestVars
    \/ \E r \in Requests : Arrive(r) \/ RequestStep(r)

Spec == Init /\ [][Next]_vars

(* Goroutines are scheduled, the health ticker fires, pings return (they   *)
(* have five seconds), and PostgreSQL answers the upserts of a cycle. The  *)
(* loops are not promised to stop: main ends without them.                 *)
Fairness ==
    /\ WF_vars(Main)
    /\ WF_vars(HealthStep /\ UNCHANGED requestVars)
    /\ WF_vars(CollectStep /\ UNCHANGED requestVars)
    /\ WF_vars(CollectQuery /\ UNCHANGED requestVars)
    /\ \A r \in Requests : WF_vars(RequestStep(r))

FairSpec == Spec /\ Fairness

-----------------------------------------------------------------------------
(* Properties *)

(* A process that got to CloseAll, after its requests or after a failed    *)
(* self-test, leaves no connection open when it exits, whichever Close     *)
(* returned an error.                                                      *)
ClosedDespiteErrors ==
    [][phase = "close" /\ phase' = "exit" =>
          \A c \in Connections : conn[c] # "open"]_vars

(* No request runs while CloseAll closes the connections its handler uses: *)
(* the server is drained first, and is not followed by CloseAll otherwise. *)
NoRequestOnClosedConnection ==
    (\E r \in Requests : InProgress(r)) => phase \notin {"connect", "add", "close"}

Healthy(s) == s \in Registered /\ statuses[s]

(* An outage that lasts is seen in the statuses and in both gauges in the  *)
(* end, whichever other services fail before it in a round, and whatever   *)
(* the requests that read the statuses earlier still write.                *)
LastingOutageIsReported ==
    \A s \in AllServices :
        <>[](phase = "serve" /\ s \in Registered /\ ~well[s])
            => <>[](~Healthy(s) /\ ~gauge[s] /\ ~overall)

(* When all services stay well, all of them are reported healthy again.    *)
RecoveryIsReported ==
    <>[](phase = "serve" /\ \A s \in Registered : well[s])
        => <>[](IsHealthy /\ overall /\ \A s \in Registered : gauge[s])

(* A signal ends the process: no Close waits for a loop for ever, although *)
(* the collector is told to stop only after the pool it uses is closed.    *)
SignalEndsProcess == phase = "drain" ~> phase = "exit"

(* CheckHealth: "so Prometheus always reflects the aggregate status". With *)
(* no check and no request in progress, the gauge does not say healthy     *)
(* while a service is known to be unhealthy.                               *)
GaugeReflectsAggregate ==
    phase = "serve" /\ hpc = "select" /\ (\A r \in Requests : ~InProgress(r))
        /\ overall => IsHealthy
=============================================================================
