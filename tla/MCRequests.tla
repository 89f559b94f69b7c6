------------------------------ MODULE MCRequests ------------------------------
(***************************************************************************)
(* Instances for TLC of three parts that share no state: the requests of   *)
(* the GitHub proxy with the transport below it (Proxy, AppTransport),     *)
(* those of the debug browser (DebugBrowser), and the way of credentials   *)
(* from the settings to the pool (Configuration). A behaviour is one of    *)
(* the chosen part, the others stay in their initial states.               *)
(***************************************************************************)
EXTENDS Proxy, DebugBrowser, Configuration

CONSTANT Parts
VARIABLE part

MCInit ==
    /\ part \in Parts
    /\ ProxyInit /\ BrowserInit /\ ConfigInit
    /\ part # "proxy" => drift = 0

MCNext ==
    /\ \/ part = "proxy" /\ ProxyNext /\ UNCHANGED <<browserVars, configVars>>
       \/ part = "browser" /\ BrowserNext /\ UNCHANGED <<proxyVars, configVars>>
       \/ part = "configuration" /\ ConfigNext /\ UNCHANGED <<proxyVars, browserVars>>
    /\ UNCHANGED part

MCSpec == MCInit /\ [][MCNext]_<<proxyVars, browserVars, configVars, part>>

MCDrifts == {-1, 0, 2, 3}

\* Keys 1 and 2 share a bucket.
MCBucket == [k \in 1..4 |-> IF k <= 2 THEN 0 ELSE k - 2]

-----------------------------------------------------------------------------

App(id, installation, key) ==
    [app_id |-> id, installation_id |-> installation, private_key_path |-> key]

\* An application of the old settings, one with the same id, another one, the
\* placeholder of the sample configuration, and one without a readable key.
MCFiles ==
    {[k \in Settings |-> CASE k = "token" -> token
                           [] k = "tokens" -> tokens
                           [] k = "applications" -> apps
                           [] k = "collector_interval" -> interval
                           [] OTHER -> old[k]] :
        token \in {Unset, "pat1"},
        tokens \in {Unset, <<"">>, <<"pat2", "pat1">>, <<"pat2", "">>},
        apps \in {Unset, <<App(0, 0, "")>>, <<App(1, 2, "key2")>>, <<App(2, 3, "key3")>>,
                  <<App(2, 3, "key3"), App(3, 4, "lost")>>},
        old \in {App(Unset, Unset, Unset), App(1, 1, "key1"), App(Unset, 1, "key1")},
        interval \in {0, Unparsable}}

MCEnvironments ==
    {[NothingSet EXCEPT !["token"] = token, !["tokens"] = tokens,
                        !["app_id"] = id, !["applications"] = apps] :
        token \in {Unset, "pat2"}, tokens \in {Unset, <<"pat3">>},
        id \in {Unset, 2}, apps \in {Unset, Unparsable}}
=============================================================================
