------------------------------ MODULE KnxEthernet ------------------------------
(***************************************************************************)
(* The W5500 interface: lanw5500_init takes one resource after another and *)
(* gives back by hand, in a list of its own for each call that may fail,   *)
(* what it has taken so far; lanw5500_deinit gives back the rest.  Not all *)
(* comes back: see GiveBack.                                               *)
(*                                                                         *)
(* The event loop task runs the two handlers meanwhile.  They and          *)
(* lanw5500_deinit only send commands to the timer: the timer task obeys   *)
(* them later, and calls the time-out callback.                            *)
(*                                                                         *)
(* The caller may be in the midst of either function, may call             *)
(* lanw5500_init again after it has failed or been undone, and calls       *)
(* lanw5500_deinit only after it has succeeded.  A driver that neither     *)
(* function uninstalls stays; what it does later is not followed.          *)
(***************************************************************************)
EXTENDS Naturals, Sequences

CONSTANTS
  MaxEthEvents,   \* the length of the event loop's queue
  MaxCommands,    \* the length of the timer task's queue
  MaxInits,       \* how often lanw5500_init is called
  EthLeases,      \* the addresses DHCP may assign
  NoEthAddress    \* conn_info.ip before any

ASSUME KnxEthernetAssumption ==
  /\ MaxEthEvents \in Nat \ {0} /\ MaxInits \in Nat \ {0} /\ MaxCommands \in Nat
  /\ NoEthAddress \notin EthLeases

\* The mac comes with its device on the SPI bus.
Resource == { "tcpip", "loop", "netif", "bus", "mac", "phy", "driver", "glue" }
EthHandler == { "eth", "ip" }
Stage ==
  { "netif_init", "loop", "netif_new", "bus", "mac_phy", "driver", "set_mac",
    "attach", "register_eth", "register_ip", "timer", "start", "give_up" }
Undoing == { "delete_timer", "stop", "unregister", "release" }

EthGotIp(l) == [ id |-> "got_ip", ip |-> l ]
EthEvent ==
  { [ id |-> i ] : i \in { "start", "connected", "disconnected", "stop" } }
    \cup { EthGotIp(l) : l \in EthLeases }

VARIABLES
  call,        \* where the caller is: outside ("never", "failed", "up",
               \* "undone") or before a call of lanw5500_init or _deinit
  eth_timeout_cb, \* is there a time-out callback
  inits,       \* how often lanw5500_init was called
  ok,          \* no call OR-ed into ret has failed
  held,        \* the resources taken since lanw5500_init was called last
  left,        \* those that earlier calls took and did not give back
  missing,     \* those given back without being held
  registered,  \* the handlers the event loop knows
  handle,      \* is the pointer `timer` of the code set
  timer,       \* the state of the time-out timer
  commands,    \* the commands sent to it and not yet obeyed
  lost,        \* a command found no room in the timer task's queue
  cable,       \* the link of the driver that was started last
  ethLease,    \* the address DHCP has assigned
  ethEvents,   \* the events posted and not yet handled
  conn_info,   \* the address conn_info names
  addressed,   \* eth_got_ip_cb was called since lanw5500_init
  timedOut     \* eth_timeout_cb was called since lanw5500_init

caller    == << call, eth_timeout_cb, inits, ok >>
resources == << held, left, missing, registered >>
timing    == << handle, timer, commands, lost >>
network   == << cable, ethLease >>
callbacks == << conn_info, addressed, timedOut >>
ethVars   == << caller, resources, timing, network, ethEvents, callbacks >>

EthTypeOK ==
  /\ call \in { "never", "failed", "up", "undone" } \cup Stage \cup Undoing
  /\ eth_timeout_cb \in BOOLEAN
  /\ inits \in 0 .. MaxInits
  /\ ok \in BOOLEAN
  /\ held \subseteq Resource /\ left \subseteq Resource /\ missing \subseteq Resource
  /\ registered \subseteq EthHandler
  /\ handle \in BOOLEAN
  /\ timer \in { "none", "idle", "armed", "deleted" }
  /\ commands \in Seq({ "start", "stop", "delete" }) /\ Len(commands) <= MaxCommands
  /\ lost \in BOOLEAN
  /\ cable \in { "stopped", "down", "up" }
  /\ ethLease \in EthLeases \cup {NoEthAddress}
  /\ ethEvents \in Seq(EthEvent) /\ Len(ethEvents) <= MaxEthEvents
  /\ conn_info \in EthLeases \cup {NoEthAddress}
  /\ addressed \in BOOLEAN /\ timedOut \in BOOLEAN

EthInit ==
  /\ call = "never" /\ eth_timeout_cb = FALSE /\ inits = 0 /\ ok = TRUE
  /\ held = {} /\ left = {} /\ missing = {} /\ registered = {}
  /\ handle = FALSE /\ timer = "none" /\ commands = << >> /\ lost = FALSE
  /\ cable = "stopped" /\ ethLease = NoEthAddress
  /\ ethEvents = << >>
  /\ conn_info = NoEthAddress /\ addressed = FALSE /\ timedOut = FALSE

-----------------------------------------------------------------------------
\* An event without room in the queue waits for the event loop task; one for a
\* loop that is gone is lost.
PostEth(e) ==
  IF "loop" \in held
  THEN Len(ethEvents) < MaxEthEvents /\ ethEvents' = Append(ethEvents, e)
  ELSE UNCHANGED ethEvents

\* The timer is sent the commands cs, one or two, none of which waits for room in
\* a queue that it shares with other timers; nobody looks whether they got there.
Arriving(cs) == { << >>, cs } \cup { << cs[i] >> : i \in DOMAIN cs }

Command(cs) ==
  IF handle
  THEN \E q \in Arriving(cs) :
         /\ Len(commands) + Len(q) <= MaxCommands
         /\ commands' = commands \o q
         /\ lost' = (lost \/ q # cs)
  ELSE UNCHANGED << commands, lost >>

Take(S) ==
  /\ held' = held \cup S
  /\ UNCHANGED << left, missing, registered, ethEvents >>

\* What is left of the resources H when R is given back: the device of the mac
\* stays on the bus, as spi_handle is never set, and a bus with a device on it is
\* not freed.
Rest(H, R) == H \ (IF "mac" \in H THEN R \ { "bus" } ELSE R)

\* H is held and R given back.  Deleting the loop drops its queue and its
\* handlers; destroying a netif that there is not does nothing.
GiveBack(H, R) ==
  /\ held' = {}
  /\ left' = left \cup Rest(H, R)
  /\ missing' = missing \cup (R \ (H \cup { "netif" }))
  /\ IF "loop" \in R THEN registered' = {} /\ ethEvents' = << >>
     ELSE UNCHANGED << registered, ethEvents >>

-----------------------------------------------------------------------------
\* lanw5500_init.

Begin(cb) ==
  /\ call \in { "never", "failed", "undone" } /\ inits < MaxInits
  /\ inits' = inits + 1
  /\ eth_timeout_cb' = cb /\ ok' = TRUE
  /\ addressed' = FALSE /\ timedOut' = FALSE
  /\ call' = "netif_init"
  /\ UNCHANGED << resources, timing, network, ethEvents, conn_info >>

\* A call that takes resource r, if `may` allows it, or fails and has the
\* resources R given back.
TakeOrFail(stage, may, r, next, R) ==
  /\ call = stage
  /\ \/ may /\ Take({r}) /\ call' = next
     \/ GiveBack(held, R) /\ call' = "failed"
  /\ UNCHANGED << eth_timeout_cb, inits, ok, timing, network, callbacks >>

\* Calls whose results nobody looks at: each may take some of the resources S.
TakeSome(stage, S, next) ==
  /\ call = stage /\ call' = next
  /\ \E T \in SUBSET S : Take(T)
  /\ UNCHANGED << eth_timeout_cb, inits, ok, timing, network, callbacks >>

esp_netif_init    == TakeOrFail("netif_init", TRUE, "tcpip", "loop", {})
create_event_loop == TakeOrFail("loop", TRUE, "loop", "netif_new", { "tcpip" })
esp_netif_new     == TakeSome("netif_new", { "netif" }, "bus")

\* Seeded bug: the netif is not destroyed.
spi_bus_initializeKeepsNetif ==
  TakeOrFail("bus", "bus" \notin left, "bus", "mac_phy", { "loop", "tcpip" })

\* Seeded bug: that the bus is initialized already is no error.
spi_bus_initializeAgain ==
  TakeOrFail("bus", TRUE, "bus", "mac_phy", { "netif", "loop", "tcpip" })

\* A bus that was not freed cannot be taken again.
spi_bus_initialize ==
  TakeOrFail("bus", "bus" \notin left, "bus", "mac_phy", { "netif", "loop", "tcpip" })

esp_eth_new_w5500 == TakeSome("mac_phy", { "mac", "phy" }, "driver")

\* What the branches behind this call have in common.
GivenBack == { "bus", "netif", "loop", "tcpip" }

esp_eth_driver_install ==
  TakeOrFail("driver", { "mac", "phy" } \subseteq held, "driver", "set_mac", GivenBack)

SetMacAddress ==
  /\ call = "set_mac"
  /\ \/ call' = "attach" /\ UNCHANGED << resources, ethEvents >>
     \/ GiveBack(held, GivenBack) /\ call' = "failed"
  /\ UNCHANGED << eth_timeout_cb, inits, ok, timing, network, callbacks >>

\* The new glue, if there is any, is attached to the netif.
esp_netif_attach ==
  /\ call = "attach"
  /\ \/ "netif" \in held /\ Take({ "glue" }) /\ call' = "register_eth"
     \/ /\ \E G \in SUBSET { "glue" } : GiveBack(held \cup G, GivenBack)
        /\ call' = "failed"
  /\ UNCHANGED << eth_timeout_cb, inits, ok, timing, network, callbacks >>

\* A handler that cannot be registered fails lanw5500_init only at its end.
Register(stage, handler, next) ==
  /\ call = stage /\ call' = next
  /\ \/ registered' = registered \cup {handler} /\ UNCHANGED ok
     \/ ok' = FALSE /\ UNCHANGED registered
  /\ UNCHANGED << eth_timeout_cb, inits, held, left, missing, timing, network,
                  ethEvents, callbacks >>

\* A timer that cannot be created is only logged.
xTimerCreate ==
  /\ call = "timer" /\ call' = "start"
  /\ \/ eth_timeout_cb /\ handle' = TRUE /\ timer' = "idle"
     \/ eth_timeout_cb /\ handle' = FALSE /\ UNCHANGED timer
     \/ ~eth_timeout_cb /\ UNCHANGED << handle, timer >>
  /\ UNCHANGED << eth_timeout_cb, inits, ok, resources, commands, lost, network,
                  ethEvents, callbacks >>

\* The driver posts ETHERNET_EVENT_START.  If it does not start, or a handler was
\* not registered, everything is given back: after the second the driver runs,
\* and a handler that was registered may see its events until then.
esp_eth_start ==
  /\ call = "start"
  /\ \/ /\ cable' = "down"
        /\ PostEth([ id |-> "start" ])
        /\ call' = IF ok THEN "up" ELSE "give_up"
     \/ call' = "give_up" /\ UNCHANGED << cable, ethEvents >>
  /\ UNCHANGED << eth_timeout_cb, inits, ok, resources, timing, ethLease,
                  callbacks >>

\* The timer is left behind, with its handle.
GiveUp ==
  /\ call = "give_up" /\ call' = "failed"
  /\ GiveBack(held, GivenBack)
  /\ cable' = "stopped" /\ ethLease' = NoEthAddress
  /\ UNCHANGED << eth_timeout_cb, inits, ok, timing, callbacks >>

lanw5500_init ==
  \/ esp_netif_init \/ create_event_loop \/ esp_netif_new \/ spi_bus_initialize
  \/ esp_eth_new_w5500 \/ esp_eth_driver_install \/ SetMacAddress \/ esp_netif_attach
  \/ Register("register_eth", "eth", "register_ip")
  \/ Register("register_ip", "ip", "timer")
  \/ xTimerCreate \/ esp_eth_start \/ GiveUp

-----------------------------------------------------------------------------
\* lanw5500_deinit.  The handle of the timer keeps its value until the end.

Undo ==
  /\ call = "up" /\ call' = "delete_timer"
  /\ UNCHANGED << eth_timeout_cb, inits, ok, resources, timing, network, ethEvents,
                  callbacks >>

xTimerDelete ==
  /\ call = "delete_timer" /\ call' = "stop"
  /\ Command(<< "delete" >>)
  /\ UNCHANGED << eth_timeout_cb, inits, ok, resources, handle, timer, network,
                  ethEvents, callbacks >>

esp_eth_stop ==
  /\ call = "stop" /\ call' = "unregister"
  /\ cable' = "stopped" /\ ethLease' = NoEthAddress
  /\ PostEth([ id |-> "stop" ])
  /\ UNCHANGED << eth_timeout_cb, inits, ok, resources, timing, callbacks >>

UnregisterHandlers ==
  /\ call = "unregister" /\ call' = "release"
  /\ registered' = {}
  /\ UNCHANGED << eth_timeout_cb, inits, ok, held, left, missing, timing, network,
                  ethEvents, callbacks >>

\* spi_bus_remove_device, spi_bus_free, esp_netif_destroy,
\* esp_event_loop_delete_default and esp_netif_deinit; the driver is a TODO of the
\* code.  The time-out may still come: the timer task may not yet have obeyed.
ReleaseAll ==
  /\ call = "release" /\ call' = "undone"
  /\ GiveBack(held, GivenBack)
  /\ handle' = FALSE
  /\ UNCHANGED << eth_timeout_cb, inits, ok, timer, commands, lost, network,
                  callbacks >>

lanw5500_deinit ==
  xTimerDelete \/ esp_eth_stop \/ UnregisterHandlers \/ ReleaseAll

-----------------------------------------------------------------------------
\* The cable and the DHCP client.

CableChanges ==
  \/ cable = "down" /\ cable' = "up" /\ UNCHANGED ethLease
       /\ PostEth([ id |-> "connected" ])
  \/ cable = "up" /\ cable' = "down" /\ ethLease' = NoEthAddress
       /\ PostEth([ id |-> "disconnected" ])

EthLeased(l) ==
  /\ cable = "up" /\ l # ethLease /\ ethLease' = l
  /\ PostEth(EthGotIp(l))
  /\ UNCHANGED cable

NetworkStep ==
  /\ CableChanges \/ \E l \in EthLeases : EthLeased(l)
  /\ UNCHANGED << caller, resources, timing, callbacks >>

-----------------------------------------------------------------------------
\* The timer task.

\* What a command makes of a timer in state t; of one that is gone nothing more
\* is followed.
Obeyed(c, t) ==
  IF t = "deleted" \/ c = "delete" THEN "deleted"
  ELSE IF c = "start" THEN "armed" ELSE "idle"

TimerCommand ==
  /\ commands # << >>
  /\ timer' = Obeyed(Head(commands), timer) /\ commands' = Tail(commands)
  /\ UNCHANGED << caller, resources, handle, lost, network, ethEvents, callbacks >>

\* The time may be up while a command waits.
TimerExpires ==
  /\ timer = "armed" /\ timer' = "idle"
  /\ timedOut' = TRUE
  /\ UNCHANGED << caller, resources, handle, commands, lost, network, ethEvents,
                  conn_info, addressed >>

-----------------------------------------------------------------------------
\* The event loop task.

NextEthEvent(h) ==
  /\ ethEvents # << >> /\ h \in registered
  /\ (h = "ip") = (Head(ethEvents).id = "got_ip")
  /\ ethEvents' = Tail(ethEvents)

\* Seeded bug: the timer is stopped behind the switch.
eth_event_handlerStopsLast ==
  /\ NextEthEvent("eth")
  /\ Command(IF Head(ethEvents).id = "start" THEN << "start", "stop" >> ELSE << "stop" >>)
  /\ UNCHANGED << handle, timer, callbacks >>

\* Seeded bug: only the loss of the link stops the timer.
eth_event_handlerKeepsTimer ==
  /\ NextEthEvent("eth")
  /\ IF Head(ethEvents).id \in { "start", "disconnected" }
     THEN Command(IF Head(ethEvents).id = "start" THEN << "start" >> ELSE << "stop" >>)
     ELSE UNCHANGED << commands, lost >>
  /\ UNCHANGED << handle, timer, callbacks >>

\* Every event stops the timer, and that the driver has started starts it.
eth_event_handler ==
  /\ NextEthEvent("eth")
  /\ Command(IF Head(ethEvents).id = "start" THEN << "stop", "start" >> ELSE << "stop" >>)
  /\ UNCHANGED << handle, timer, callbacks >>

\* Seeded bug: the handler is registered for every event.
got_ip_event_handlerOfAnyEvent ==
  /\ ethEvents # << >> /\ "ip" \in registered
  /\ ethEvents' = Tail(ethEvents)
  /\ conn_info' = IF Head(ethEvents).id = "got_ip" THEN Head(ethEvents).ip
                  ELSE Head(ethEvents).id
  /\ addressed' = TRUE
  /\ UNCHANGED << timing, timedOut >>

\* Seeded bug: only the first address is recorded.
got_ip_event_handlerOnce ==
  /\ NextEthEvent("ip")
  /\ conn_info' = IF conn_info = NoEthAddress THEN Head(ethEvents).ip ELSE conn_info
  /\ addressed' = TRUE
  /\ UNCHANGED << timing, timedOut >>

got_ip_event_handler ==
  /\ NextEthEvent("ip")
  /\ conn_info' = Head(ethEvents).ip
  /\ addressed' = TRUE
  /\ UNCHANGED << timing, timedOut >>

NoHandler ==
  /\ ethEvents # << >>
  /\ (IF Head(ethEvents).id = "got_ip" THEN "ip" ELSE "eth") \notin registered
  /\ ethEvents' = Tail(ethEvents)
  /\ UNCHANGED << timing, callbacks >>

EventLoop ==
  /\ eth_event_handler \/ got_ip_event_handler \/ NoHandler
  /\ UNCHANGED << caller, resources, network >>

Background == NetworkStep \/ TimerCommand \/ TimerExpires \/ EventLoop
Caller == lanw5500_init \/ lanw5500_deinit

EthNext ==
  \/ \E cb \in BOOLEAN : Begin(cb)
  \/ Undo \/ Caller \/ Background

EthSpec == EthInit /\ [][EthNext]_ethVars

\* Every task is scheduled, and the time of the timer passes.
EthFairness ==
  /\ WF_ethVars(Caller) /\ WF_ethVars(EventLoop)
  /\ WF_ethVars(TimerCommand) /\ WF_ethVars(TimerExpires)

-----------------------------------------------------------------------------
(***************************************************************************)
(* Properties.                                                             *)
(***************************************************************************)
\* The lists of what to give back, one per call that may fail and one in
\* lanw5500_deinit, name what was taken before but the mac, the phy, the driver and
\* the glue, and nothing that was not, whatever was left by an earlier failure.
\* The SPI bus comes back only if no mac is left on it.
GivesBackWhatItTook ==
  /\ missing = {}
  /\ left \subseteq { "mac", "phy", "driver", "glue" }
                    \cup (IF "mac" \in left THEN { "bus" } ELSE {})
  /\ call \in { "failed", "undone" } => registered = {}

\* Once a call has left its mac on the bus, as lanw5500_deinit always does and
\* lanw5500_init when it fails behind esp_eth_mac_new_w5500, no later call of
\* lanw5500_init succeeds: what is left is enough to block the interface.
LeftMacBlocksInit == "mac" \in left => call # "up"

\* Once the handlers have caught up, conn_info names the address DHCP has
\* assigned last.
ConnInfoIsCurrent ==
  call = "up" /\ ethEvents = << >> /\ ethLease # NoEthAddress =>
    conn_info = ethLease

\* Once both handlers are registered, nobody is told of a time-out after being told
\* of an address, unless the timer task has not got round to the stop that the
\* event of the link, handled before, has sent, or never received it.
TimeoutBeforeAddress ==
  [][ timedOut' /\ ~timedOut /\ ok /\ ~lost =>
        ~addressed \/ \E i \in 1 .. Len(commands) : commands[i] \in { "stop", "delete" }
    ]_ethVars

\* If no cable is plugged in after the driver has started, the callback is
\* called, unless a command is lost or lanw5500_init fails or is undone.
TimesOutWithoutLink ==
  call = "start" /\ timer = "idle" ~>
    timedOut \/ lost \/ cable = "up" \/ call \notin { "start", "up" }
=============================================================================
