--------------------------- MODULE WifiStationProofs ---------------------------
(***************************************************************************)
(* The invariants of WifiStation, for any number of retries, length of the *)
(* queue and set of leases.                                                *)
(*                                                                         *)
(* The argument is about the queue.  The link leaves "down" only when the  *)
(* start or a loss is handled, and a loss is posted only when the link     *)
(* goes down; so at most one of the two is waiting, it is the last in the  *)
(* queue, and the link is down as long as it waits.  The leases in front   *)
(* of it are those assigned while the link was online, in their order.     *)
(***************************************************************************)
EXTENDS WifiStation, SequenceTheorems, TLAPS

Last == events[Len(events)]

\* The event of a loss is waiting.
Pending == IF events # << >> /\ Last.id = "disconnected" THEN 1 ELSE 0

\* The queue as described above.
LossIsLast ==
  \A i \in 1 .. Len(events) :
    events[i].id # "got_ip" => i = Len(events) /\ link = "down"

\* Before app_main starts the driver there are no events.
NothingBefore == main = "starting" => events = << >> /\ link = "stopped"

\* A link that is down is either about to be handled or given up.
DownIsKnown ==
  link = "down" =>
    IF events = << >> THEN refused \/ ("fail" \in bits /\ s_retry_num = MaxRetry)
    ELSE Last.id # "got_ip"

\* An address that is not yet recorded is the last in the queue.
LeaseIsLast ==
  link = "online" =>
    IF events = << >> THEN KnxIPInterface_IpAddr = lease ELSE Last = GotIp(lease)

\* A retry was made for each loss counted, since the last lease that is handled.
RetriesCounted ==
  /\ losses >= Pending
  /\ (\A i \in 1 .. Len(events) : events[i].id # "got_ip") =>
       losses >= s_retry_num + Pending

Inv ==
  /\ TypeOK
  /\ NothingBefore /\ LossIsLast /\ DownIsKnown /\ LeaseIsLast /\ RetriesCounted

-----------------------------------------------------------------------------
LEMMA EventIds ==
  ASSUME NEW e \in Event
  PROVE  /\ e.id \in { "start", "disconnected", "got_ip" }
         /\ e.id = "got_ip" => e.ip \in Leases
BY DEF Event, GotIp

\* What posting an event does to the queue.
LEMMA Posted ==
  ASSUME TypeOK, NEW e \in Event, Post(e)
  PROVE  /\ events' \in Seq(Event) /\ Len(events') = Len(events) + 1
         /\ Len(events') <= MaxEvents /\ events' # << >>
         /\ events'[Len(events')] = e
         /\ \A i \in 1 .. Len(events) : events'[i] = events[i]
<1>1. events \in Seq(Event) /\ events' = Append(events, e) /\ Len(events) < MaxEvents
  BY DEF TypeOK, Post
<1>2. QED
  BY <1>1, AppendProperties, WifiStationAssumption

\* What handling one does.
LEMMA Taken ==
  ASSUME TypeOK, NEW i, Handled(i)
  PROVE  /\ events' \in Seq(Event) /\ Len(events') = Len(events) - 1
         /\ Len(events) >= 1 /\ Head(events) = events[1] /\ events[1].id = i
         /\ events[1] \in Event
         /\ \A k \in 1 .. Len(events') : events'[k] = events[k + 1]
         /\ (events' = << >>) <=> (Len(events) = 1)
         /\ events' # << >> => Last' = Last
<1>1. events \in Seq(Event) /\ events # << >> /\ events' = Tail(events)
      /\ Head(events).id = i
  BY DEF TypeOK, Handled
<1>2. /\ events' \in Seq(Event) /\ Len(events') = Len(events) - 1
      /\ Head(events) \in Event
      /\ \A k \in 1 .. Len(events') : events'[k] = events[k + 1]
  BY <1>1, HeadTailProperties
<1>3. Len(events) \in Nat /\ Len(events) >= 1
  BY <1>1, EmptySeq, LenProperties
<1>4. Head(events) = events[1]
  BY <1>1
<1>5. (events' = << >>) <=> (Len(events) = 1)
  BY <1>2, <1>3, EmptySeq
<1>6. events' # << >> => Last' = Last
  BY <1>2, <1>3, <1>5, LenProperties DEF Last
<1>7. QED
  BY <1>1, <1>2, <1>3, <1>4, <1>5, <1>6

LEMMA InitInv == Init => Inv
<1> SUFFICES ASSUME Init PROVE Inv
  OBVIOUS
<1>1. events \in Seq(Event) /\ Len(events) = 0
  BY EmptySeq DEF Init
<1>2. TypeOK
  <2>1. /\ main = "starting" /\ link = "stopped" /\ lease = NoAddress /\ losses = 0
        /\ s_retry_num = 0 /\ bits = {} /\ KnxIPInterface_IpAddr = NoAddress
        /\ refused \in BOOLEAN
    BY DEF Init
  <2>2. QED
    BY <1>1, <2>1, WifiStationAssumption DEF TypeOK, Address
<1>3. QED
  BY <1>1, <1>2, WifiStationAssumption
  DEF Init, Inv, NothingBefore, LossIsLast, DownIsKnown, LeaseIsLast, RetriesCounted,
      Pending

-----------------------------------------------------------------------------
\* app_main and the servers do not touch the queue.
LEMMA QueueKept ==
  ASSUME Inv, TypeOK', UNCHANGED << driver, events, station >>,
         main' = "starting" => main = "starting"
  PROVE  NothingBefore' /\ LossIsLast' /\ DownIsKnown' /\ LeaseIsLast'
         /\ RetriesCounted'
  BY DEF Inv, NothingBefore, LossIsLast, DownIsKnown, LeaseIsLast, RetriesCounted,
         Pending, Last, driver, station

LEMMA StartWifiInv ==
  ASSUME Inv, StartWifi
  PROVE  Inv'
<1>1. events = << >> /\ main = "starting" /\ link' = "down"
      /\ events' = Append(events, [ id |-> "start" ])
  BY DEF Inv, NothingBefore, StartWifi
<1>2. [ id |-> "start" ] \in Event /\ Post([ id |-> "start" ])
  BY <1>1, EmptySeq, WifiStationAssumption DEF Event, Post
<1>3. events' \in Seq(Event) /\ Len(events') = 1 /\ events' # << >>
      /\ events'[1] = [ id |-> "start" ] /\ Len(events') <= MaxEvents
  BY <1>1, <1>2, Posted, EmptySeq DEF Inv
<1>4. TypeOK'
  BY <1>3 DEF Inv, TypeOK, StartWifi, station
<1>5. NothingBefore' /\ LossIsLast' /\ DownIsKnown' /\ LeaseIsLast'
  BY <1>1, <1>3 DEF NothingBefore, LossIsLast, DownIsKnown, LeaseIsLast, Last, StartWifi
<1>6. RetriesCounted'
  <2>1. Pending' = 0 /\ Pending = 0
    BY <1>1, <1>3 DEF Pending, Last
  <2>2. losses >= s_retry_num /\ losses >= 0
    BY <1>1, <2>1, EmptySeq DEF Inv, TypeOK, RetriesCounted
  <2>3. QED
    BY <2>1, <2>2 DEF RetriesCounted, StartWifi, station, Inv, TypeOK
<1>7. QED
  BY <1>4, <1>5, <1>6 DEF Inv

LEMMA WaitEndsInv ==
  ASSUME Inv, WaitEnds
  PROVE  Inv'
<1>1. TypeOK'
  BY DEF Inv, TypeOK, WaitEnds, driver, station
<1>2. QED
  BY <1>1, QueueKept DEF Inv, WaitEnds

-----------------------------------------------------------------------------
\* The driver.
LEMMA JoinsInv ==
  ASSUME Inv, Joins, UNCHANGED << main, station >>
  PROVE  Inv'
<1>1. link = "joining" /\ link' = "joined"
  BY DEF Joins
<1>2. TypeOK'
  BY <1>1 DEF Inv, TypeOK, Joins, station
<1>3. QED
  BY <1>1, <1>2
  DEF Inv, Joins, station, NothingBefore, LossIsLast, DownIsKnown, LeaseIsLast,
      RetriesCounted, Pending, Last

LEMMA DropsInv ==
  ASSUME Inv, Drops, UNCHANGED << main, station >>
  PROVE  Inv'
<1> DEFINE e == [ id |-> "disconnected" ]
<1>1. e \in Event /\ Post(e) /\ link # "down" /\ link # "stopped" /\ link' = "down"
  BY DEF Drops, Event
<1>2. /\ events' \in Seq(Event) /\ Len(events') = Len(events) + 1
      /\ Len(events') <= MaxEvents /\ events' # << >>
      /\ events'[Len(events')] = e
      /\ \A i \in 1 .. Len(events) : events'[i] = events[i]
  BY <1>1, Posted DEF Inv
<1>3. Len(events) \in Nat
  BY LenProperties DEF Inv, TypeOK
<1>4. \A i \in 1 .. Len(events) : events[i].id = "got_ip"
  BY <1>1 DEF Inv, LossIsLast
<1>5. TypeOK'
  BY <1>2, WifiStationAssumption DEF Inv, TypeOK, Drops, station, Address
<1>6. NothingBefore' /\ LossIsLast' /\ DownIsKnown' /\ LeaseIsLast'
  BY <1>1, <1>2, <1>3, <1>4
  DEF Inv, NothingBefore, LossIsLast, DownIsKnown, LeaseIsLast, Last
<1>7. RetriesCounted'
  <2>1. Pending' = 1
    BY <1>2 DEF Pending, Last
  <2>2. losses' >= 1 /\ (losses' = losses + 1 \/ losses' = MaxRetry + 1)
        /\ losses \in Nat /\ s_retry_num \in 0 .. MaxRetry /\ s_retry_num' = s_retry_num
    BY WifiStationAssumption DEF Inv, TypeOK, Drops, station
  <2>3. ASSUME \A i \in 1 .. Len(events') : events'[i].id # "got_ip"
        PROVE  losses >= s_retry_num
    <3>1. \A i \in 1 .. Len(events) : FALSE
      BY <1>2, <1>3, <1>4, <2>3
    <3>2. QED
      BY <2>2, <3>1 DEF Inv, RetriesCounted, Pending
  <2>4. QED
    BY <2>1, <2>2, <2>3, WifiStationAssumption DEF RetriesCounted
<1>8. QED
  BY <1>5, <1>6, <1>7 DEF Inv

LEMMA LeasedInv ==
  ASSUME Inv, NEW l \in Leases, Leased(l), UNCHANGED << main, station >>
  PROVE  Inv'
<1>1. GotIp(l) \in Event /\ Post(GotIp(l)) /\ link \in { "joined", "online" }
      /\ link' = "online" /\ lease' = l /\ losses' = 0 /\ refused' = refused
  BY DEF Leased, Event
<1>2. /\ events' \in Seq(Event) /\ Len(events') = Len(events) + 1
      /\ Len(events') <= MaxEvents /\ events' # << >>
      /\ events'[Len(events')] = GotIp(l)
      /\ \A i \in 1 .. Len(events) : events'[i] = events[i]
  BY <1>1, Posted DEF Inv
<1>3. Len(events) \in Nat /\ GotIp(l).id = "got_ip"
  BY LenProperties DEF Inv, TypeOK, GotIp
<1>4. \A i \in 1 .. Len(events) : events[i].id = "got_ip"
  BY <1>1 DEF Inv, LossIsLast
<1>5. TypeOK'
  BY <1>1, <1>2, WifiStationAssumption DEF Inv, TypeOK, station, Address
<1>6. NothingBefore' /\ LossIsLast' /\ DownIsKnown' /\ LeaseIsLast'
  BY <1>1, <1>2, <1>3, <1>4
  DEF Inv, NothingBefore, LossIsLast, DownIsKnown, LeaseIsLast, Last
<1>7. RetriesCounted'
  <2>1. Pending' = 0
    BY <1>2, <1>3 DEF Pending, Last
  <2>2. events'[Len(events')].id = "got_ip" /\ Len(events') \in 1 .. Len(events')
    BY <1>2, <1>3
  <2>3. QED
    BY <1>1, <2>1, <2>2 DEF RetriesCounted
<1>8. QED
  BY <1>5, <1>6, <1>7 DEF Inv

-----------------------------------------------------------------------------
\* event_handler.  A start or a loss is the only event that waits.
LEMMA LossAlone ==
  ASSUME Inv, NEW i, Handled(i), i # "got_ip"
  PROVE  Len(events) = 1 /\ link = "down" /\ events' = << >> /\ Len(events') = 0
<1>1. Len(events) >= 1 /\ Len(events) \in Nat /\ events[1].id = i
      /\ Len(events') = Len(events) - 1 /\ (events' = << >> <=> Len(events) = 1)
  BY Taken, LenProperties DEF Inv, TypeOK
<1>2. 1 = Len(events) /\ link = "down"
  BY <1>1 DEF Inv, LossIsLast
<1>3. QED
  BY <1>1, <1>2

\* What the handler of a start or a loss makes of the queue, if it connects.
LEMMA Connects ==
  ASSUME Inv, NEW i, Handled(i), i # "got_ip", esp_wifi_connect,
         UNCHANGED << main, bits, KnxIPInterface_IpAddr >>,
         s_retry_num' \in 0 .. MaxRetry,
         s_retry_num' = s_retry_num + Pending
  PROVE  Inv'
<1>1. Len(events) = 1 /\ link = "down" /\ events' = << >> /\ Len(events') = 0
      /\ events' \in Seq(Event)
  BY LossAlone, Taken DEF Inv
<1>2. UNCHANGED << lease, losses >>
  BY DEF esp_wifi_connect
<1>3. \/ link' = "joining" /\ refused' = FALSE
      \/ link' = "down" /\ refused' = TRUE
  BY <1>1, Zenon DEF esp_wifi_connect
<1>4. events # << >>
  BY DEF Handled
<1>5. TypeOK'
  <2>1. refused' \in BOOLEAN /\ link' \in { "joining", "down" }
    BY <1>3
  <2>2. QED
    BY <1>1, <1>2, <2>1, WifiStationAssumption DEF Inv, TypeOK
<1>6. NothingBefore' /\ LossIsLast' /\ DownIsKnown' /\ LeaseIsLast'
  <2>1. main' = main /\ main # "starting" /\ link' # "online"
    BY <1>3, <1>4 DEF Inv, NothingBefore
  <2>2. link' = "down" => refused'
    BY <1>3
  <2>3. QED
    BY <1>1, <2>1, <2>2 DEF NothingBefore, LossIsLast, DownIsKnown, LeaseIsLast
<1>7. RetriesCounted'
  <2>1. Pending' = 0 /\ Pending \in 0 .. 1
    BY <1>1 DEF Pending
  <2>2. events[1].id # "got_ip" /\ losses \in Nat /\ s_retry_num \in Nat
    BY Taken DEF Inv, TypeOK
  <2>3. losses >= s_retry_num + Pending
    BY <1>1, <2>2 DEF Inv, RetriesCounted
  <2>4. QED
    BY <1>1, <1>2, <2>1, <2>2, <2>3 DEF RetriesCounted
<1>8. QED
  BY <1>5, <1>6, <1>7 DEF Inv

LEMMA OnStartInv ==
  ASSUME Inv, OnStart, UNCHANGED main
  PROVE  Inv'
<1>1. Handled("start") /\ esp_wifi_connect /\ UNCHANGED station
  BY DEF OnStart
<1>2. Len(events) = 1 /\ events[1].id = "start"
  BY <1>1, LossAlone, Taken DEF Inv
<1>3. Pending = 0
  BY <1>2 DEF Pending, Last
<1>4. s_retry_num' \in 0 .. MaxRetry /\ s_retry_num' = s_retry_num + Pending
  BY <1>1, <1>3, WifiStationAssumption DEF Inv, TypeOK, station
<1>5. QED
  BY <1>1, <1>4, Connects DEF station

LEMMA OnDisconnectedRetryInv ==
  ASSUME Inv, OnDisconnectedRetry, UNCHANGED main
  PROVE  Inv'
<1>1. Handled("disconnected") /\ esp_wifi_connect
      /\ UNCHANGED << bits, KnxIPInterface_IpAddr >>
  BY DEF OnDisconnectedRetry
<1>2. Len(events) = 1 /\ events[1].id = "disconnected" /\ events # << >>
  BY <1>1, LossAlone, Taken, EmptySeq DEF Inv
<1>3. Pending = 1
  BY <1>2 DEF Pending, Last
<1>4. s_retry_num' \in 0 .. MaxRetry /\ s_retry_num' = s_retry_num + Pending
  BY <1>3, WifiStationAssumption DEF Inv, TypeOK, OnDisconnectedRetry
<1>5. QED
  BY <1>1, <1>4, Connects

\* When the handler gives up it has counted MaxRetry + 1 losses.
LEMMA GivesUpLate ==
  ASSUME Inv, OnDisconnectedGiveUp
  PROVE  losses > MaxRetry /\ s_retry_num = MaxRetry
<1>1. Handled("disconnected") /\ s_retry_num >= MaxRetry
  BY DEF OnDisconnectedGiveUp
<1>2. Len(events) = 1 /\ events[1].id = "disconnected" /\ events # << >>
  BY <1>1, LossAlone, Taken, EmptySeq DEF Inv
<1>3. Pending = 1 /\ \A i \in 1 .. Len(events) : events[i].id # "got_ip"
  BY <1>2 DEF Pending, Last
<1>4. QED
  BY <1>1, <1>3, WifiStationAssumption DEF Inv, TypeOK, RetriesCounted

LEMMA OnDisconnectedGiveUpInv ==
  ASSUME Inv, OnDisconnectedGiveUp, UNCHANGED main
  PROVE  Inv'
<1>1. Handled("disconnected") /\ bits' = bits \cup { "fail" }
      /\ UNCHANGED << link, lease, losses, refused, s_retry_num, KnxIPInterface_IpAddr >>
  BY DEF OnDisconnectedGiveUp, driver
<1>2. /\ Len(events) = 1 /\ link = "down" /\ events' = << >> /\ Len(events') = 0
      /\ events' \in Seq(Event) /\ events[1].id = "disconnected" /\ events # << >>
  BY <1>1, LossAlone, Taken, EmptySeq DEF Inv
<1>3. s_retry_num = MaxRetry /\ losses > MaxRetry
  BY GivesUpLate
<1>4. TypeOK'
  BY <1>1, <1>2, WifiStationAssumption DEF Inv, TypeOK
<1>5. NothingBefore' /\ LossIsLast' /\ DownIsKnown' /\ LeaseIsLast'
  BY <1>1, <1>2, <1>3 DEF Inv, NothingBefore, LossIsLast, DownIsKnown, LeaseIsLast
<1>6. RetriesCounted'
  <2>1. Pending' = 0
    BY <1>2 DEF Pending
  <2>2. QED
    BY <1>1, <1>3, <2>1, WifiStationAssumption DEF RetriesCounted, Inv, TypeOK
<1>7. QED
  BY <1>4, <1>5, <1>6 DEF Inv

LEMMA OnGotIpInv ==
  ASSUME Inv, OnGotIp, UNCHANGED main
  PROVE  Inv'
<1>1. /\ Handled("got_ip") /\ KnxIPInterface_IpAddr' = Head(events).ip
      /\ s_retry_num' = 0 /\ bits' = bits \cup { "connected" }
      /\ UNCHANGED << link, lease, losses, refused >>
  BY DEF OnGotIp, driver
<1>2. /\ events' \in Seq(Event) /\ Len(events') = Len(events) - 1
      /\ Len(events) >= 1 /\ Head(events) = events[1] /\ events[1].id = "got_ip"
      /\ events[1] \in Event
      /\ \A k \in 1 .. Len(events') : events'[k] = events[k + 1]
      /\ (events' = << >>) <=> (Len(events) = 1)
      /\ events' # << >> => Last' = Last
  BY <1>1, Taken DEF Inv
<1>3. Len(events) \in Nat /\ events # << >>
  BY <1>2, LenProperties, EmptySeq DEF Inv, TypeOK
<1>4. KnxIPInterface_IpAddr' = events[1].ip /\ events[1].ip \in Leases
  BY <1>1, <1>2, EventIds
<1>5. TypeOK'
  BY <1>1, <1>2, <1>3, <1>4, WifiStationAssumption DEF Inv, TypeOK, Address
<1>6. NothingBefore'
  BY <1>3 DEF Inv, NothingBefore
<1>7. LossIsLast'
  <2>1. ASSUME NEW k \in 1 .. Len(events'), events'[k].id # "got_ip"
        PROVE  k = Len(events') /\ link' = "down"
    <3>1. k + 1 \in 1 .. Len(events) /\ events[k + 1].id # "got_ip"
      BY <1>2, <1>3, <2>1
    <3>2. k + 1 = Len(events) /\ link = "down"
      BY <3>1 DEF Inv, LossIsLast
    <3>3. QED
      BY <1>1, <1>2, <1>3, <3>2
  <2>2. QED
    BY <2>1 DEF LossIsLast
<1>8. DownIsKnown'
  <2>1. link = "down" => Last.id # "got_ip"
    BY <1>3 DEF Inv, DownIsKnown
  <2>2. Len(events) = 1 => Last = events[1]
    BY DEF Last
  <2>3. QED
    BY <1>1, <1>2, <2>1, <2>2 DEF DownIsKnown
<1>9. LeaseIsLast'
  <2>1. link = "online" => Last = GotIp(lease)
    BY <1>3 DEF Inv, LeaseIsLast
  <2>2. Len(events) = 1 => Last = events[1]
    BY DEF Last
  <2>3. GotIp(lease).ip = lease
    BY DEF GotIp
  <2>4. QED
    BY <1>1, <1>2, <1>4, <2>1, <2>2, <2>3 DEF LeaseIsLast, GotIp
<1>10. RetriesCounted'
  <2>1. losses \in Nat /\ losses >= Pending /\ Pending \in 0 .. 1
    BY DEF Inv, TypeOK, RetriesCounted, Pending
  <2>2. Pending' = IF events' # << >> THEN Pending ELSE 0
    BY <1>2, <1>3 DEF Pending
  <2>3. Pending' \in 0 .. 1 /\ losses >= Pending'
    BY <2>1, <2>2
  <2>4. QED
    BY <1>1, <2>3 DEF RetriesCounted
<1>11. QED
  BY <1>5, <1>6, <1>7, <1>8, <1>9, <1>10 DEF Inv

-----------------------------------------------------------------------------
LEMMA NextInv == Inv /\ [Next]_vars => Inv'
<1> SUFFICES ASSUME Inv, [Next]_vars PROVE Inv'
  OBVIOUS
<1>1. CASE StartWifi
  BY <1>1, StartWifiInv
<1>2. CASE WaitEnds
  BY <1>2, WaitEndsInv
<1>3. CASE DriverStep
  BY <1>3, JoinsInv, DropsInv, LeasedInv DEF DriverStep
<1>4. CASE event_handler
  BY <1>4, OnStartInv, OnDisconnectedRetryInv, OnDisconnectedGiveUpInv, OnGotIpInv
  DEF event_handler
<1>5. CASE UNCHANGED vars
  BY <1>5
  DEF vars, driver, station, Inv, TypeOK, NothingBefore, LossIsLast, DownIsKnown,
      LeaseIsLast, RetriesCounted, Pending, Last
<1>6. QED
  BY <1>1, <1>2, <1>3, <1>4, <1>5 DEF Next

LEMMA Invariant == Spec => []Inv
  BY InitInv, NextInv, PTL DEF Spec

LEMMA InvImplies ==
  ASSUME Inv
  PROVE  OfflineOnlyIfGivenUp /\ AddressIsCurrent
  BY DEF Inv, DownIsKnown, LeaseIsLast, OfflineOnlyIfGivenUp, AddressIsCurrent

\* Every variable keeps its type: in particular the retries stay within
\* ESP_MAXIMUM_RETRY, whatever the driver posts.
THEOREM TypeCorrect == Spec => []TypeOK
  BY Invariant, PTL DEF Inv

\* Once event_handler has caught up, the station stays offline only when it has
\* given up after ESP_MAXIMUM_RETRY retries or the driver has refused to connect,
\* whatever the order in which it joins, gets addresses and loses them.
THEOREM GivenUpIfOffline == Spec => []OfflineOnlyIfGivenUp
<1>1. Inv => OfflineOnlyIfGivenUp
  BY InvImplies
<1>2. QED
  BY <1>1, Invariant, PTL

\* Once event_handler has caught up, the servers announce the address of the
\* station.
THEOREM AddressCurrent == Spec => []AddressIsCurrent
<1>1. Inv => AddressIsCurrent
  BY InvImplies
<1>2. QED
  BY <1>1, Invariant, PTL

\* event_handler gives up only after ESP_MAXIMUM_RETRY retries since the station
\* was last online.
THEOREM GivesUpAfterRetries == Spec => GivesUpOnlyAfterRetries
<1>1. Inv /\ [Next]_vars => [ "fail" \in bits' \ bits => losses > MaxRetry ]_vars
  <2> SUFFICES ASSUME Inv, [Next]_vars, "fail" \in bits' \ bits
               PROVE  losses > MaxRetry
    OBVIOUS
  <2>1. OnDisconnectedGiveUp
    BY DEF vars, driver, station, Next, StartWifi, WaitEnds, DriverStep, event_handler,
       OnStart, OnDisconnectedRetry, OnGotIp
  <2>2. QED
    BY <2>1, GivesUpLate
<1>2. QED
  BY <1>1, Invariant, PTL DEF Spec, GivesUpOnlyAfterRetries
=============================================================================
