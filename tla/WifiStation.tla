------------------------------ MODULE WifiStation ------------------------------
(***************************************************************************)
(* The WiFi station: event_handler, which the event loop task runs, keeps   *)
(* the station connected and records the address the servers announce;     *)
(* wifi_init_sta waits for the first outcome and lets app_main start the   *)
(* servers.                                                                *)
(*                                                                         *)
(* The driver (external) posts events in the order in which the link       *)
(* changes; the handler works on them later, when the link may be          *)
(* elsewhere again.                                                        *)
(***************************************************************************)
EXTENDS Naturals, Sequences

CONSTANTS
  MaxRetry,     \* ESP_MAXIMUM_RETRY
  MaxEvents,    \* the length of the event loop's queue
  Leases,       \* the addresses DHCP may assign
  NoAddress     \* 0.0.0.0

ASSUME WifiStationAssumption ==
  /\ MaxRetry \in Nat /\ MaxEvents \in Nat \ {0}
  /\ NoAddress \notin Leases

Address == Leases \cup {NoAddress}
GotIp(l)   == [ id |-> "got_ip", ip |-> l ]
Event      == { [ id |-> "start" ], [ id |-> "disconnected" ] }
              \cup { GotIp(l) : l \in Leases }

VARIABLES
  main,                   \* where app_main is
  link,                   \* what the driver is doing
  lease,                  \* the address the station has been assigned
  events,                 \* the events posted and not yet handled
  s_retry_num,
  bits,                   \* the bits of s_wifi_event_group
  KnxIPInterface_IpAddr,
  losses,                 \* how often the link went down since it was online
  refused                 \* the last esp_wifi_connect returned an error

driver  == << link, lease, losses, refused >>
station == << s_retry_num, bits, KnxIPInterface_IpAddr >>
vars    == << main, driver, events, station >>

TypeOK ==
  /\ main \in { "starting", "waiting", "running" }
  /\ link \in { "stopped", "down", "joining", "joined", "online" }
  /\ lease \in Address
  /\ events \in Seq(Event) /\ Len(events) <= MaxEvents
  /\ s_retry_num \in 0 .. MaxRetry
  /\ bits \subseteq { "connected", "fail" }
  /\ KnxIPInterface_IpAddr \in Address
  /\ losses \in 0 .. MaxRetry + 1
  /\ refused \in BOOLEAN

Init ==
  /\ main = "starting"
  /\ link = "stopped" /\ lease = NoAddress /\ losses = 0 /\ refused = FALSE
  /\ events = << >>
  /\ s_retry_num = 0 /\ bits = {}
  /\ KnxIPInterface_IpAddr = NoAddress

-----------------------------------------------------------------------------
\* wifi_init_sta starts the driver and waits for one of the bits.
StartWifi ==
  /\ main = "starting" /\ main' = "waiting"
  /\ link' = "down"
  /\ events' = Append(events, [ id |-> "start" ])
  /\ UNCHANGED << lease, losses, refused, station >>

\* Either bit ends the wait; app_main starts the servers whichever it is.
WaitEnds ==
  /\ main = "waiting" /\ bits # {}
  /\ main' = "running"
  /\ UNCHANGED << driver, events, station >>

-----------------------------------------------------------------------------
\* The driver.

Post(e) == Len(events) < MaxEvents /\ events' = Append(events, e)

Joins ==
  /\ link = "joining" /\ link' = "joined"
  /\ UNCHANGED << lease, losses, refused, events >>

\* An attempt fails, or the access point is lost.
Drops ==
  /\ link \in { "joining", "joined", "online" } /\ link' = "down"
  /\ lease' = NoAddress
  /\ losses' = IF losses > MaxRetry THEN losses ELSE losses + 1
  /\ Post([ id |-> "disconnected" ])
  /\ UNCHANGED refused

\* DHCP assigns an address, or another one.
Leased(l) ==
  /\ link \in { "joined", "online" } /\ l # lease
  /\ link' = "online" /\ lease' = l /\ losses' = 0
  /\ Post(GotIp(l))
  /\ UNCHANGED refused

DriverStep ==
  /\ Joins \/ Drops \/ \E l \in Leases : Leased(l)
  /\ UNCHANGED << main, station >>

\* What event_handler asks of the driver.  It may return an error, which
\* event_handler does not look at: no attempt starts then and no event follows.
esp_wifi_connect ==
  /\ link = "down" =>
       \/ link' = "joining" /\ refused' = FALSE
       \/ link' = "down" /\ refused' = TRUE
  /\ link # "down" => UNCHANGED << link, refused >>
  /\ UNCHANGED << lease, losses >>

-----------------------------------------------------------------------------
\* event_handler.

Handled(id) == events # << >> /\ Head(events).id = id /\ events' = Tail(events)

OnStart ==
  /\ Handled("start")
  /\ esp_wifi_connect
  /\ UNCHANGED station

\* Seeded bug: the retry is counted and not made.
OnDisconnectedRetryForgotten ==
  /\ Handled("disconnected") /\ s_retry_num < MaxRetry
  /\ s_retry_num' = s_retry_num + 1
  /\ UNCHANGED << driver, bits, KnxIPInterface_IpAddr >>

\* Seeded bug: one retry too many.
OnDisconnectedRetryOnceMore ==
  /\ Handled("disconnected") /\ s_retry_num <= MaxRetry
  /\ esp_wifi_connect
  /\ s_retry_num' = s_retry_num + 1
  /\ UNCHANGED << bits, KnxIPInterface_IpAddr >>

\* Seeded bug: the retry is made and not counted.
OnDisconnectedRetryUncounted ==
  /\ Handled("disconnected") /\ s_retry_num < MaxRetry
  /\ esp_wifi_connect
  /\ UNCHANGED station

OnDisconnectedRetry ==
  /\ Handled("disconnected") /\ s_retry_num < MaxRetry
  /\ esp_wifi_connect
  /\ s_retry_num' = s_retry_num + 1
  /\ UNCHANGED << bits, KnxIPInterface_IpAddr >>

OnDisconnectedGiveUp ==
  /\ Handled("disconnected") /\ s_retry_num >= MaxRetry
  /\ bits' = bits \cup { "fail" }
  /\ UNCHANGED << driver, s_retry_num, KnxIPInterface_IpAddr >>

\* Seeded bug: only the first address is recorded.
OnGotIpOnce ==
  /\ Handled("got_ip")
  /\ KnxIPInterface_IpAddr' =
       IF KnxIPInterface_IpAddr = NoAddress THEN Head(events).ip
       ELSE KnxIPInterface_IpAddr
  /\ s_retry_num' = 0
  /\ bits' = bits \cup { "connected" }
  /\ UNCHANGED driver

\* Seeded bug: the retries are not given back.
OnGotIpKeepsRetries ==
  /\ Handled("got_ip")
  /\ KnxIPInterface_IpAddr' = Head(events).ip
  /\ bits' = bits \cup { "connected" }
  /\ UNCHANGED << driver, s_retry_num >>

OnGotIp ==
  /\ Handled("got_ip")
  /\ KnxIPInterface_IpAddr' = Head(events).ip
  /\ s_retry_num' = 0
  /\ bits' = bits \cup { "connected" }
  /\ UNCHANGED driver

event_handler ==
  /\ OnStart \/ OnDisconnectedRetry \/ OnDisconnectedGiveUp \/ OnGotIp
  /\ UNCHANGED main

Next ==
  \/ StartWifi \/ WaitEnds
  \/ DriverStep
  \/ event_handler

Spec == Init /\ [][Next]_vars

\* The event loop and app_main are scheduled.  Of the driver nothing is assumed:
\* an attempt to join may last for ever, and so may the search for an address,
\* which the DHCP client repeats without an event.
Fairness == WF_vars(WaitEnds) /\ WF_vars(event_handler)

-----------------------------------------------------------------------------
(***************************************************************************)
(* Properties.                                                             *)
(***************************************************************************)
\* Once the handler has caught up, the station is on its way back or given up:
\* no order of joining, leases and losses leaves it offline with retries left,
\* unless the driver refused to connect, which the handler does not look at.
OfflineOnlyIfGivenUp ==
  events = << >> /\ link = "down" =>
    refused \/ ("fail" \in bits /\ s_retry_num = MaxRetry)

\* Once the handler has caught up, the servers announce the address the station
\* has, however often it changed.
AddressIsCurrent ==
  events = << >> /\ link = "online" => KnxIPInterface_IpAddr = lease

\* The handler gives up only after MaxRetry retries in a row have failed: what
\* was lost before the station was online does not count.
GivesUpOnlyAfterRetries ==
  [][ "fail" \in bits' \ bits => losses > MaxRetry ]_vars
=============================================================================
