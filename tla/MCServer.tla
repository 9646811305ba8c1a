------------------------------- MODULE MCServer -------------------------------
(* The web service, the statistics collector and the programs that serve   *)
(* an interface share no state: a behaviour follows one of the three, and  *)
(* one run checks them all.                                                *)
EXTENDS Web, Collector, Daemon, TLC

CONSTANTS r1, r2, here

MCAddress == [r \in {r1, r2} |-> here]
MCPrograms == <<"hostapd", "wpa_supplicant">>

VARIABLE part

serverVars == <<webVars, collectorVars, daemonVars, part>>

ServerInit ==
  /\ WebInit /\ CollectorInit /\ DaemonInit
  /\ part \in {"web", "collector", "daemon"}
  /\ part # "web" => users = {}

ServerNext ==
  \/ part = "web" /\ WebNext /\ UNCHANGED <<collectorVars, daemonVars, part>>
  \/ part = "collector" /\ CollectorNext /\ UNCHANGED <<webVars, daemonVars, part>>
  \/ part = "daemon" /\ DaemonNext /\ UNCHANGED <<webVars, collectorVars, part>>

ServerSpec == ServerInit /\ [][ServerNext]_serverVars /\ WebFairness /\ DaemonFairness
=============================================================================
