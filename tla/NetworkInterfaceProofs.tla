------------------------ MODULE NetworkInterfaceProofs ------------------------
(***************************************************************************)
(* What is proved of the station and of the Ethernet interface alone also  *)
(* holds beside app_main, in each of the builds: app_main's own steps only *)
(* move main on, or are calls the Ethernet interface is ready for.         *)
(***************************************************************************)
EXTENDS NetworkInterface, WifiStationProofs, KnxEthernetProofs

\* A step of any build is a step of the Ethernet interface, or none.
LEMMA EthernetStep == [NetNext]_netVars => [EthNext]_ethVars
<1> SUFFICES ASSUME [NetNext]_netVars PROVE [EthNext]_ethVars
  OBVIOUS
<1>1. CASE EthRuns \/ OtherProgram \/ StartEthernet
  BY <1>1 DEF EthRuns, OtherProgram, StartEthernet, EthNext
<1>2. CASE WifiBuild \/ EthernetStarted \/ UNCHANGED netVars
  BY <1>2 DEF WifiBuild, EthernetStarted, netVars
<1>3. QED
  BY <1>1, <1>2 DEF NetNext

\* The steps of app_main in the build with Ethernet.
LEMMA MainAlone ==
  ASSUME Inv, UNCHANGED << driver, events, station >>,
         main' \in { "waiting", "running" }
  PROVE  Inv'
<1>1. TypeOK'
  BY DEF Inv, TypeOK, driver, station
<1>2. QED
  BY <1>1, QueueKept DEF Inv

LEMMA StationKept == Inv /\ [NetNext]_netVars => Inv'
<1> SUFFICES ASSUME Inv, [NetNext]_netVars PROVE Inv'
  OBVIOUS
<1>1. CASE WifiBuild
  BY <1>1, NextInv DEF WifiBuild
<1>2. CASE StartEthernet \/ EthernetStarted
  BY <1>2, MainAlone DEF StartEthernet, EthernetStarted, driver, station
<1>3. CASE EthRuns \/ OtherProgram \/ UNCHANGED netVars
  BY <1>3, NextInv DEF EthRuns, OtherProgram, netVars
<1>4. QED
  BY <1>1, <1>2, <1>3 DEF NetNext

\* Beside any program that calls it, the Ethernet interface is the one
\* KnxEthernet describes.
THEOREM EthernetImplemented == NetSpec => EthSpec
<1>1. NetInit => EthInit
  BY DEF NetInit
<1>2. QED
  BY <1>1, EthernetStep, PTL DEF NetSpec, EthSpec

LEMMA NetInvariant == NetSpec => [](Inv /\ EthInv)
<1>1. NetInit => Inv /\ EthInv
  BY InitInv, EthInitInv DEF NetInit
<1>2. Inv /\ EthInv /\ [NetNext]_netVars => Inv' /\ EthInv'
  BY StationKept, EthernetStep, EthNextInv
<1>3. QED
  BY <1>1, <1>2, PTL DEF NetSpec

\* Every variable of either interface keeps its type in every build.
THEOREM NetTypeCorrect == NetSpec => [](TypeOK /\ EthTypeOK)
<1>1. Inv /\ EthInv => TypeOK /\ EthTypeOK
  BY DEF Inv, EthInv
<1>2. QED
  BY <1>1, NetInvariant, PTL

\* Beside app_main of any build, a station that is not connected while no event
\* waits has given up or was refused an attempt, and the address of the servers is
\* the lease once its event is handled.
THEOREM StationCorrect == NetSpec => [](OfflineOnlyIfGivenUp /\ AddressIsCurrent)
<1>1. Inv => OfflineOnlyIfGivenUp /\ AddressIsCurrent
  BY InvImplies DEF Inv
<1>2. QED
  BY <1>1, NetInvariant, PTL

\* However a program calls lanw5500_init and lanw5500_deinit: deinit leaves what
\* the driver holds and nothing else, a device left on the bus makes every later
\* init fail, conn_info is current, and a time-out is called with an address there
\* only if the stop of the timer waits for the timer task or was lost.
THEOREM EthernetCorrect ==
  NetSpec => /\ [](GivesBackWhatItTook /\ LeftMacBlocksInit /\ ConnInfoIsCurrent)
             /\ TimeoutBeforeAddress
  BY EthernetImplemented, GivenBackButTheDriver, LeftMacBlocks, ConnInfoCurrent,
     NoLateTimeout, PTL
=============================================================================
