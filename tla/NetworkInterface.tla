---------------------------- MODULE NetworkInterface ----------------------------
(***************************************************************************)
(* app_main and the interface it starts.  The build decides: Knx.c defines *)
(* KNXNETIP_USE_WIFI_INTERFACE, and has the call of lanw5500_init ready    *)
(* for KNXNETIP_USE_ETH_INTERFACE.  Neither calls lanw5500_deinit, passes  *)
(* a time-out callback or tries again, as KnxEthernet.h lets a program do; *)
(* the third build is of such a program, without app_main.                 *)
(***************************************************************************)
EXTENDS WifiStation, KnxEthernet

VARIABLE build  \* "wifi", "eth" or "other"

netVars == << build, vars, ethVars >>

NetInit == Init /\ EthInit /\ build \in { "wifi", "eth", "other" }

\* The build with the WiFi interface.
WifiBuild ==
  /\ build = "wifi"
  /\ Next
  /\ UNCHANGED << build, ethVars >>

\* app_main calls lanw5500_init without a time-out callback,
StartEthernet ==
  /\ build = "eth"
  /\ main = "starting" /\ main' = "waiting"
  /\ Begin(FALSE)
  /\ UNCHANGED << build, driver, events, station >>

\* Seeded bug: the servers are started only if lanw5500_init has succeeded.
EthernetStartedChecked ==
  /\ build = "eth"
  /\ main = "waiting" /\ call = "up"
  /\ main' = "running"
  /\ UNCHANGED << build, driver, events, station, ethVars >>

\* and starts the servers whatever it returns.
EthernetStarted ==
  /\ build = "eth"
  /\ main = "waiting" /\ call \in { "up", "failed" }
  /\ main' = "running"
  /\ UNCHANGED << build, driver, events, station, ethVars >>

EthRuns ==
  /\ build # "wifi"
  /\ Caller \/ Background
  /\ UNCHANGED << build, vars >>

OtherProgram ==
  /\ build = "other"
  /\ (\E cb \in BOOLEAN : Begin(cb)) \/ Undo
  /\ UNCHANGED << build, vars >>

NetNext ==
  \/ WifiBuild
  \/ StartEthernet \/ EthernetStarted
  \/ EthRuns
  \/ OtherProgram

NetSpec == NetInit /\ [][NetNext]_netVars

NetFairSpec ==
  /\ NetSpec
  /\ Fairness /\ WF_vars(build = "wifi" /\ StartWifi)
  /\ EthFairness
  /\ WF_netVars(StartEthernet) /\ WF_netVars(EthernetStarted)

-----------------------------------------------------------------------------
(***************************************************************************)
(* Properties.  Those of the interfaces are in their modules.              *)
(***************************************************************************)
\* app_main gets to start the servers, whatever the access point does and
\* wherever lanw5500_init fails, unless the station's driver refuses to connect, or
\* stays for ever in an attempt to join or to get an address: event_handler is not
\* told, and the wait has no time-out.
ServersStart ==
  build # "other" =>
    \/ <>(main = "running")
    \/ build = "wifi" /\ <>[](link \in { "joining", "joined" } \/ refused)
=============================================================================
