# KNXnetIP: a specification of the KNXnet/IP gateway

KNXnetIP is firmware for an ESP32-S3 that connects KNXnet/IP clients to a KNX
TP bus. This directory models it in TLA+, checks the model with TLC and proves
its main safety properties with TLAPS. Paths below are relative to
`src/main/`.

## 1. The system

`app_main` (Source/Knx.c:179) starts the WiFi station and three FreeRTOS tasks
that run on two cores without a lock:

| task | code | priority | waits in |
|---|---|---|---|
| `udp_mcast_task` | Source/KNXnetIP_UdpServer.c:193 | 5 | `select`, `recvfrom` |
| `tcp_server_task` | Source/KNXnetIP_TcpServer.c:131 | 5 | `accept`, `recv` |
| `tpuart_rx_task` | Source/Knx.c:75 | highest | `uart_read_bytes` |

### Components

| component | state | operations | interacts with |
|---|---|---|---|
| IP data link layer (IP_DataLinkLayer.c) | `IP_TxBuffer`, `IP_RxBuffer`, `KNXnetIP_Connected` | `IP_L_Data_Ind`: check the frame, build the answer, hand it over | called by both server tasks; calls Core, Tunnelling, `KNXnetIP_UDPSend`, `KNXnetIP_TcpUpdateTxBuffer` |
| UDP server | `KNXnetIP_MulticastSocket` | the receive loop, `KNXnetIP_UDPSend` (repeats `sendto` until it succeeds) | IP data link layer |
| TCP server | `KNXnetIP_TcpSock`, `Tcp_TxBufferPtr`, `Tcp_TxLength` | accept and receive loops, `KNXnetIP_TcpUpdateTxBuffer`, `tcp_transmitPendingTunnelReq` | IP data link layer; the bus receive task sends on its socket |
| Core services | constant tables of channels, service families, addresses and slots | builders of the search, description, connect, state and disconnect answers, block by block | IP data link layer; reads `KnxIPInterface_IpAddr` |
| Tunnelling | `KNXnetIP_TunnellingFeature` | acknowledge, feature get and set, `KNXnetIP_TunnellingRequest`, `KNXnetIP_TunnelIP2TP` | IP data link layer, TP data link layer, TCP server |
| TP data link layer | `L_TxBuffer`, `L_RxBuffer` | cEMI to TP (`TP_GW_L_Data_Req`), TP to cEMI (`TP_GW_L_Data_Ind`, `_ACK`), checksum | Tunnelling, TP-UART data link layer |
| TP-UART data link layer | `TpUart2_TxBuffer` | `TpUart2_L_Data_Req`, `TpUart2_L_Data_Ind`, `TpUart2_DetectEOP` | TP-UART services, receive task |
| TP-UART services | none | one `uart_write_bytes` per service | the TP-UART chip |
| Bus receive task (Knx.c) | its chunk of octets | find a telegram, pass it on, look for a confirmation | TP-UART and TP data link layers |
| WiFi station (KnxWiFi.c) | `s_retry_num`, the event bits, `KnxIPInterface_IpAddr` | `event_handler`, `wifi_init_sta` | `app_main` |
| Ethernet (KnxEthernet.c) | the handles of netif, bus, driver and timer, `conn_info`; the commands sent to the timer | `lanw5500_init`, `lanw5500_deinit`, two event handlers, a time-out | `app_main` of the build with `KNXNETIP_USE_ETH_INTERFACE`, which this commit does not define |
| Management | none | | not part of the build |

### What is hard about it

* Both server tasks run `IP_L_Data_Ind`, the receive task builds its frames in
  the same `IP_TxBuffer`, and all share `Tcp_TxLength`, `KNXnetIP_Connected`
  and `KNXnetIP_TcpSock`. Nothing orders their accesses.
* `send` may take part of a frame; the loops that continue it re-read a shared
  length.
* Descriptors are reused, and `KNXnetIP_TcpSock` outlives its connection.
* Tunnelled telegrams of two clients meet in `IP_RxBuffer`, `L_TxBuffer`,
  `TpUart2_TxBuffer` and on the UART.
* The bus receive task finds the end of a telegram by its checksum, in chunks
  the UART driver cuts by time.
* Errors are retried at once and without limit, or end a task.
* `lanw5500_init` has a hand-written list of what to give back for each call
  that may fail, and no handle for the device on its SPI bus; the event loop and a
  timer run meanwhile, and the timer obeys late.
* How many octets a telegram came with and what its length field says are checked
  nowhere against each other.
* Both handlers read and write one table of tunnelling features.
* Structure lengths are written as constants in front of the octets they count.

Each of these is a row of `hazards` in PROJECT.json, with the properties that
cover it.

### What makes a component correct

| component | correctness |
|---|---|
| IP data link layer, TCP server, Tunnelling | a frame arrives whole, in order, at one client, unless tasks overlap; what was answered is true: who got a CONNECT_RESPONSE is connected |
| UDP server | each answered request gets one datagram, of its own length, at its sender, before the next request is read |
| TCP server | what a request is sent goes to the client that asked and ends at the length of a frame; no answered request is passed over |
| all three tasks | each comes back to where it waits, unless one system call of its own goes on failing, or blocks, for ever; then the others still do |
| TP and TP-UART layers, towards the bus | a telegram is written complete, in order, with a checksum of its own octets and the gateway's source address, in services whose positions fit as long as the length field is at most 56 |
| TP and TP-UART layers, from the bus | a telegram at the start of a chunk is tunnelled whole; checksum and confirmation are octets of the chunk |
| WiFi station | offline only after all retries or when the driver refused an attempt; the recorded address is the one the station has; the servers get started unless an attempt is refused or never ends |
| Ethernet | what a failed or undone start took is given back but for the driver's parts and the bus they are on, nothing else is; the address is current; a time-out is reported when there is no cable, and after an address only if the command to stop the timer is late or lost |
| Core services, Tunnelling | an answer can be parsed by its own lengths; the tunnel has one address; a feature is answered with a value it has |
| Tunnelling, end to end | a telegram is on the bus before its client is told so, unchanged unless requests overlapped |

## 2. The modules

| module | what it is | proofs |
|---|---|---|
| IpFrames | the frames: which requests are accepted and answered, and with what | |
| UdpExchange | abstract: what a UDP client is promised | |
| TcpExchange | abstract: what a TCP client is promised | |
| IpGateway | the three tasks over `IP_TxBuffer`, `Tcp_TxLength`, `KNXnetIP_Connected` and the sockets; implements UdpExchange and TcpExchange | IpGatewayProofs |
| TpTransmit | a tunnelled telegram on its way to the bus, from two tasks | TpTransmitProofs |
| TunnelExchange | abstract: what a client that tunnels a telegram is promised | |
| Gateway | IpGateway and TpTransmit together, from the request to the bus and back to the confirmation; implements TunnelExchange | GatewayProofs |
| TpReceive | a telegram on its way from the bus, out of chunks of octets | TpReceiveProofs |
| CoreFrames | the bodies, blocks and headers of the answers, octet by octet | |
| IpAnswers | the two handlers, seen by a client that reads every octet, and the table of tunnelling features | IpAnswersProofs |
| WifiStation | the station, its address, and app_main waiting for it | WifiStationProofs |
| KnxEthernet | `lanw5500_init` and `_deinit` call by call, the event handlers and the timer | KnxEthernetProofs |
| NetworkInterface | app_main of either build with WifiStation and KnxEthernet | NetworkInterfaceProofs |

MC modules (MCIpGateway, MCTpTransmit, MCTpReceive, MCGateway, MCIpAnswers,
MCNetworkInterface) only give the constants their values. Definitions whose comment starts with "Seeded bug"
are not used by a specification: each is a wrong version of the definition
below it, which the runs find out when it takes its place.

The modules meet where the components do.

* The label `"tunnel"` of IpGateway stands for `KNXnetIP_TunnelIP2TP`, which is
  TpTransmit: Gateway puts the one behind the other.
* `IpGateway!ReadTelegram` takes a telegram and a confirmation out of the air
  which `TpReceive!UartRead` ... `NotConfirmed` find in octets. The two are kept
  apart: TpReceive decides by the values of octets, IpGateway abstracts them.
* `TpReceive!Connection` stands for `IpGateway!SetConnected`.
* IpFrames says which answer a request gets; CoreFrames says of what octets.
  IpAnswers puts an answer together in one step, because IpGateway has what the
  tasks do to a frame in `IP_TxBuffer` while it is written.
* NetworkInterface runs app_main over either interface.

### IpGateway

Each task has a label in `pc`; an action is the code from one access to shared
state to the next. The pairs that matter:

| state | code |
|---|---|
| `IP_TxBuffer`, `Tcp_TxLength`, `KNXnetIP_Connected`, `KNXnetIP_TcpSock`, `KNXnetIP_MulticastSocket` | the variables of that name |
| `req`, `frame` | the request a handler works on; the frame a task builds, by service and data |
| `to_write`, `rxSock` | the local of the send loops; the descriptor passed to `tcp_transmitPendingTunnelReq` by value |
| `conn` | what lwIP knows: the open connection and its peer |
| `sent`, `sentTo`, `disturbed`, `established`, `rival` | history: what the environment has seen |

Body and header are written in separate steps, in the order of the code
(IP_L_Data_Ind: body first; KNXnetIP_TunnellingRequest: header first). A partial
`send` reads `Tcp_TxLength` again for its offset, as TcpServer.c:90 does, and may
read outside the buffer (`Outside`). A frame is two or three *segments*: the
header and pieces of the body. The answer to a telegram tunnelled over TCP is as
long as octet 5 of the request says (IP_DataLinkLayer.c:291), which nothing checks.
If it is 0 there is no answer (line 362), but the telegram goes to the bus and two
octets of the buffer are patched (`Unlengthed`, `PatchStray`). Other wrong values are
not followed: an echoed frame has the length of its service.

Two abstract modules say what clients are promised. UdpExchange: a request, one
datagram of its own length, the next request. TcpExchange: a client connects and
asks; what is sent for a request goes to that client, in parts, and must have the
length of some frame when the exchange finishes; only a request that has no answer
may be passed over. It does not say which frame, because the code does not: for
a request without an answer, one of zero length included, the last frame is sent
again, and the receive task may
put its own into the buffer. That part of the promise is
`UndisturbedFrameIsIntact`. `Exchange` and `Service` are the refinement mappings:
the request is `req`, what was sent counts by its length, and the client that is
served is the peer of the connection while the TCP task has one.

### TpTransmit

One action per statement of `TP_GW_L_Data_Req` that reads or writes a shared
buffer (consecutive assignments from the same octets are one), one per
`memcpy`, one per service written to the UART. An octet is the telegram it was
made from and its position; a checksum is the sequence of octets it is the
checksum of, so that equal checksums mean equal octets. `SetLength` merges the two
fields it ORs into the one octet of the frame.

A telegram has two lengths. `CemiLength` is how many octets of it came: that many
are copied to `IP_RxBuffer` (IP_DataLinkLayer.c:253), whose other octets keep what
earlier telegrams left. `Length` is its length field, any octet: that many are taken
out again, behind the end of the buffer too (`RxOctet`, `Outside`). `LengthField` is
read from `IP_RxBuffer` each time the code reads it. `index` is an octet, so it counts
modulo `IndexRange`, which is 256: with a length field of 248 or more the checksum
ends up at the start of the frame. `Complete` is a telegram that came with all of its
TPDU and is short enough for `index`.

### TpReceive

Octets are numbers, and the checksum is computed: the task's decisions depend
on their values. `data` is `data[3073]` with `MaxChunk` for 3072; `Garbage` is
what `malloc` returned. `UartRead(n)` takes any part of what has arrived, as the
driver does when its time is up, writes the terminating 0, and resets the loop
of `TpUart2_DetectEOP`, which then runs one round per step. `^` is the constant
`BitXor`: TLC gets the bitwise operator, the proofs assume only that it stays
in an octet and is 0 exactly for equal arguments. `Sum[t]` holds the running
checksums of telegram `t`.

### WifiStation

`event_handler` has an action per branch. The driver changes `link` and posts
events; the handler takes them later. `esp_wifi_connect` may return an error, which
the code does not look at: then no attempt starts and no event follows (`refused`).
`losses`, `lease`, `link` and `refused` are history or environment.

### Gateway

The variables are those of IpGateway and TpTransmit; three that have the same
name in both are called `at`, `given` and `mixed` on the bus side. A handler at
`"tunnel"` starts the way to the bus (`StartTunnelling`: `IP_L_Data_Ind` copies
the telegram to `IP_RxBuffer`), goes it statement by statement, and leaves the
label when it returns. `IpSide` is any step of IpGateway that does not skip it,
so both servers, the receive task and the sockets go on meanwhile. `carried` and
`overlapped` are history: what went to the bus for a request, and whether
something else used the bus side at the same time or the telegram did not come in
whole.

TunnelExchange is the abstract side: a client asks, its telegram is carried, the
client is sent something, the exchange is finished. `Phase` and the `WITH` of
`Promise` are the refinement mapping.

### CoreFrames and IpAnswers

An octet is a block, a field and a value. Only the values something depends on
are the code's: structure lengths, types, addresses of the tunnel, the feature.
The others are counted. Multi-octet numbers are split high octet first; the
features' values of sixteen bits are cut to the low octet, as the code does.
`KNXnetIP_TunnellingFeature` is written in one step and read in another
(`FeatureSet`, `FeatureGet`), and the answer is built after that. `canHold`,
`before` and `overlap` are what the clients can know of the table.

### KnxEthernet and NetworkInterface

`call` is where the caller is in `lanw5500_init` or `lanw5500_deinit`: one action
per call of ESP-IDF that may fail, with the branch that gives things back.
The cable, the DHCP client, the event queue, the event loop, the timer task
and the timer run between any two calls. Deleting the event loop drops its queue.

* `held` is what the present `lanw5500_init` has taken, `left` what earlier ones took
  and nobody gave back, `missing` what was given back without being held. `Rest` and
  `GiveBack` say what a branch gives back: the mac comes with its device on the SPI
  bus, `spi_handle` is never set (KnxEthernet.c:26), so the device stays and the bus is
  not freed; mac, phy and glue have no branch that deletes them. A bus that was not
  freed cannot be taken again (`spi_bus_initialize`).
  `esp_netif_deinit` is taken to undo `esp_netif_init`, as the code uses it.
* The handlers and `lanw5500_deinit` only send commands to the timer, without waiting
  for room and without a look at the result: each may be `lost`. The timer task obeys
  the `commands` later (`TimerCommand`), and the timer may expire before it does.
* The driver is never uninstalled (a TODO of the code): what one that is left behind
  does later is not followed.

NetworkInterface chooses a build at the start: WiFi, Ethernet as app_main would use
it, or another program that uses all of KnxEthernet.h.

### What the abstractions hide

* The body of an IP frame, a `memcpy` and a datagram are one access each. Two
  tasks inside the same body or the same `memcpy` show as the mix of pieces the
  properties call disturbed anyway.
* In IpGateway the answers are one abstract body per service; CoreFrames has
  their octets.
* The log output, the delays (`vTaskDelay`) and the task priorities: the tasks
  interleave in every way, which includes every schedule on two cores.
* 32-bit accesses are atomic on the target, and the tasks see memory in order.

## 3. The runs

| run | question | result |
|---|---|---|
| three_tasks | one client connects over UDP, a second sends what is never answered, a third disconnects over TCP, the bus sends: do the sessions, the exchanges and the frames keep what they promise, and does every task come back to where it waits? | holds |
| tunnel | do bus telegrams and tunnelled requests over one TCP connection, which two clients open in turn under one descriptor, arrive whole, and does each request get what a TCP client is promised? | holds |
| transmit | does a telegram reach the TP-UART whole, and with the gateway's source address, while another task sends one that came with less than it announces? | holds |
| gateway | is a telegram on the bus before its client is told so, and is what it is told true? | holds |
| receive | is a telegram found, tunnelled and acknowledged in chunks cut anywhere, with noise between? | holds |
| answers | can every answer be parsed by its own lengths, and does it name the address and the feature it should? | holds |
| interfaces | do the station and the Ethernet interface recover, announce the right address and give back all but the driver's parts, while events and timer commands lag behind, and do the servers get started? | holds |
| stale_answer, partial_send, silent_client, long_apdu, lost_confirmation | do five statements of comments hold? | no: section 6 |

### Bounds

* IpGateway, `tunnel`: frames of three segments, so that `send` can stop inside
  a body, after a header, or not at all; two lengths, so that one task's length is
  wrong for another's frame. Two TCP clients, one descriptor that `accept`
  returns again: a third client meets the same variables. The two clients are a
  symmetry set: the specification names none of them, and the run checks safety
  only. `three_tasks`: frames of two lengths (a CONNECT_RESPONSE has three segments,
  every other two); two UDP clients, one that sends a CONNECT_REQUEST and one that
  sends a DISCONNECT_REQUEST for another host protocol, which gets no answer, so that a wrong
  client, a wrong length and an answer to an unanswered request can each happen; one
  TCP client. Each request may come again and again. No counter is bounded: the state
  space is finite.
* TpTransmit, `transmit`: two tasks (the code has two) and two telegrams. `short` is
  complete, with a length field of 1. `wild` comes with all but the last octet that
  `short` has and announces a length of 4: what it takes out of `IP_RxBuffer` is in part
  from an earlier `short` and in part from behind the buffer. `BufferSize` is 11 and
  `IndexRange` 10, so that the index of `wild` wraps and its checksum is put on the source
  address, as it is in the code for a length field of 249 or 250. The tasks are a
  symmetry set; the run checks safety only. `long_apdu` has one task, one telegram of
  sixty octets of data, and the sizes of the code, 128 and 256.
* TpReceive: `MaxItems` = 2 telegrams or other octets arrive. Two
  are enough to have a telegram with something before it, behind it, or left
  over from an earlier chunk; `Garbage` being 0 or 0x8B stands for still earlier
  chunks. `MaxChunk` = 22 is longer than both together. The three telegrams: an
  ordinary group write; one whose destination is its source and is
  cleared; one with an octet in it that equals the checksum so far. The others:
  both confirmations, a poll, and 0xFF.
* Gateway: one client per transport, one telegram each, both without data, and
  polls. Frames are a header and a body. Two handlers are all there are, and
  telegrams of two lengths, and one that came in part, are in `transmit`. The bus
  telegrams of the receive task are left to `three_tasks`: they touch nothing on the way
  to the bus.
* IpAnswers: a bool feature, one of sixteen bits and an identifier the code does
  not know; the values 0 and 2, so that a bool differs from what was set; a
  telegram of 11 octets and one of 128, as many as `IP_RxBuffer` has; all three branches
  of the CRD. Both
  handlers may have any of the requests.
* NetworkInterface: two retries (the code has three), two addresses, up to four
  events that wait in each queue, three calls of `lanw5500_init`, so that a
  failed or undone one is followed by another and that by a third, and three commands
  in the queue of the timer task: the two of a start behind one that is late. `losses`
  stops one above `MaxRetry`.

The passing runs reach, in distinct states: three_tasks 584,368, tunnel 1,989,912,
gateway 148,805, answers 277,976, interfaces 209,916; each takes from seconds to a
little over two minutes.

`CHECK_DEADLOCK` is on but in `interfaces`, where a program that has used up its
calls of `lanw5500_init` stops: in each other model some task or the environment can
always act.

### Fairness

`three_tasks` (IpGateway!Fairness): weak fairness of each task where it is not in a
system call. Nothing is assumed of `socket`, `sendto` and `send`: the first two are
repeated without limit (UdpServer.c:177-189, 195-203), the third may block.
`AlwaysListensAgain` says so: a task comes back to where it waits unless it stays for
ever in that one call of its own, and such a task does not keep the others from coming
back. Where the tasks wait, in `select`, `accept`, `recv` and `uart_read_bytes`, nothing
need ever come.

`silent_client` (SteadySpec) adds `CallsEnd`: the calls return and in the end succeed. The
statement it refutes is about sessions, and would otherwise be refuted by a task that
hangs.

`gateway` (GatewayFairSpec): the liveness half of `TunnelExchangeKept` says that a
tunnelled telegram's exchange is finished, so it does rest on calls that end: it
assumes `UdpCall` and `SendCall` by name, and that `uart_write_bytes` and
`uart_wait_tx_done` return. What happens if `sendto` never succeeds is in `three_tasks`.

`interfaces` (NetFairSpec): the event loop task, app_main, the caller of
`lanw5500_init` and the timer task are scheduled, and the time of a timer passes.
Nothing is assumed of the WiFi driver and the DHCP client, which may search for an
address for ever without an event; `xEventGroupWaitBits` at KnxWiFi.c:103 has no
time-out, and `ServersStart` names that case. Nor is it assumed that a cable is ever
plugged in.

## 4. What is proved

All theorems hold for every value of the constants that satisfies the named
assumptions, and TLC evaluates the assumptions in the runs.

**IpGatewayProofs.** `TypeInv` is the type invariant and `Shape`: which of
`req`, `frame`, `conn` are set at which label. Without it no action could be
shown to index what it indexes. On top of it:

* `EstablishedStaysConnected` from `SessionInv`: if a client is established, or
  a handler with no rival is past its flag with a CONNECT_RESPONSE, the flag is
  set, and no handler is about to clear it without a rival.
* `UdpExchangeImplemented` from `ExchangeInv` (what has been sent before and
  after `UDPSend`): the initial states map to UdpExchange's, and each step is
  one of its steps or a stutter, action by action (`ExchangeStep`).
* `OnlyWrittenIsSent` from `WrittenInv`: the segments below `Tcp_TxLength`, and
  those of a frame that is ready, have been written; since lengths only come
  from ready frames, an offset computed from a length that changed is still
  below one.
* `UndisturbedFramesAreIntact` from `IntactInv`: at each label, an undisturbed
  task's segments so far are in the buffer (`Held`), its length is its own
  (`Sending`) and what was sent is a prefix of its frame to one client (`Sent`).
  The frame rule `Spared` says that a step of another task either leaves them
  alone or disturbs the task.
* `TcpExchangeImplemented` from `ServiceInv`: `Tcp_TxLength` is 0 or the length of
  some frame, whoever wrote it; an answered request finds it other than 0; and
  what was sent and what `to_write` still counts add up to the length of a frame.
  `ServiceSteps` takes the steps one by one.

Three of the disagreements of section 6 have a theorem that says how far the
comment is wrong:

* `UnansweredOnly`: the TCP task sends an answer it has not built only after a
  request that is not answered (finding 1).
* `LoneSenderContinues`: a partial `send` is continued where it stopped if only
  one of the two send loops is in use, that is, nothing comes from the bus or
  nothing over TCP (finding 2). The assumption `OneSender` is about the use, not
  about the code, and the run shows that it is needed.
* `OnlyDisconnectEnds`: no step but that of a handler with a DISCONNECT_REQUEST
  clears `KNXnetIP_Connected`, so there is no time-out at all (finding 3).

**TpTransmitProofs.** `IndexInv` is the type invariant with, per label, what
`index` and `written` can be, when the length field is read twice from a buffer
in between changed (`IndexAlways`). Length fields are any octets and telegrams come
with any number of octets up to the buffer's size. Then:

* `SourceKept` from `SourceInv`: after the first statements octets 1 and 2 of
  both frame buffers are the gateway's, and nothing is stored there otherwise, except
  for one case: a length field so large that the checksum is put there
  (`ChecksumAt`). For an undisturbed handler that is its own telegram's length field;
  for another it may be any (`LengthOwners`).
* `RangesKept` from `IndexInv` alone: the index bounds the positions. It assumes
  that `IndexRange` is more than 64 and that no length field is above 56; the run
  shows that it does not hold otherwise.
* `UndisturbedIsIntact` from `IntactInv`: for an undisturbed handler with a `Complete`
  telegram, the request is in `IP_RxBuffer` as far as its TPDU goes, the frame in
  `L_TxBuffer` built up to the label, the index is the frame's length, and the services
  written are a prefix of the telegram's.

**TpReceiveProofs.** `LoopInv` is the type invariant with what the loop of
`TpUart2_DetectEOP` knows: the octet behind the chunk is 0 (`Terminated`), the
octet at `index` is not the checksum before it (`Unmatched`), what was found
matches (`Matched`). `ChecksumReceived` follows: a match with the 0 behind the
chunk needs the checksum so far to be 0, hence the last octet to have equalled the checksum
before it. `TelegramInv` adds, for a telegram the chunk starts with, that `fcs` is
`Sum[t]` at `index` and that the loop stops at its end at the latest.
`WholeTunnelled`, `ConfirmationReceived` and `PlainAcked` are action properties
proved from the two. They hold for chunks of every length the driver can return:
where `rxLength`, the `uint8_t` the search gets, is cut, they speak of the telegrams
that fit into what is left of it (`WholeFits`). `PlainConfirmed` says how far finding 5
goes: if no telegram has an octet that equals the checksum of those before it,
every confirmation is passed on.

**GatewayProofs.** `IpStep` and `BusStep` show that each step of the composition
is one of IpGateway, and one of TpTransmit, or leaves its variables alone:
`IpGatewayImplemented` and `BusImplemented`. So the theorems on either hold of the
composition (`SameInit` and `SameNext` identify the two instances of TpTransmit).
What ties them together is `CarryInv`: `Before` a handler returns from the bus
side its telegram is that of its request, and whatever the bus side calls disturbed,
or did not come in whole, is `overlapped`; `After`, what was carried is the request's telegram unless
overlapped, and a frame that answers a tunnelling request means that something was
carried. Its step `CarryReturn` is where TpTransmit's
`UndisturbedTelegramIsIntact` is used. Then:

* `ConfirmationTrue` from `CarryInv` and IpGateway's `UndisturbedFrameIsIntact`.
* `TunnelExchangeImplemented`: the initial states and steps map to
  TunnelExchange's. `NextMoves` says once, for all actions of IpGateway, how
  request, frame and answer of a handler can move; `Update` reduces a step of one
  handler to that handler.
* `IpSideCorrect` and `BusSideCorrect`: what was proved of either side alone holds
  of the composition.

**IpAnswersProofs.** `TableInv` relates the table to what the clients can know of
it: what it holds was left by an answered set or stored by one under way
(`TableIsKnown`), and for a handler that works on a feature two bounds last until it
returns (`SinceAsked`, `SinceStored`). `FeatureCurrent` follows. For
`TypeCorrect` every block is shown to be a piece of a frame of its length, pieces
join, and so every octet of every answer fits into an octet, and `L_Data_con` reads
nothing behind its request. `AnswersParsed` and `TunnelIsOne` are about lengths: for
telegrams of up to 128 octets whose length field is right.
A *section* of a frame is a run of octets in which every block begins with the
number of its octets, has them one behind the other, and names no tunnel but
0x11FA. Each block is one, two sections with different blocks join to one
(`SectionsJoined`), and a section behind the header that announces it is a frame a
client can read (`FrameReadable`). So every answer is (`AnswerIsReadable`), and the
invariant `AnswersReadable` keeps it so until the handler returns.

**WifiStationProofs.** The invariant is about the queue: the last event in it
that matters agrees with the state of the link (`DownIsKnown`), unless the driver has
refused an attempt, and of the lease (`LeaseIsLast`), and the retries are counted by
the losses. With an empty queue it gives `AddressIsCurrent` and
`OfflineOnlyIfGivenUp`; `GivesUpOnlyAfterRetries` is an action property proved from it.

**KnxEthernetProofs.** `HeldIsOwned` says what is held at each call, whatever was
called before, and `LeftIsBlocked` that a mac left behind has kept its bus and that no
call gets past `spi_bus_initialize` then. `GivenBackButTheDriver` and `LeftMacBlocks`
follow. `EthLeaseIsLast` is the queue invariant for `conn_info`. `NoLateTimeout` needs
that there is one timer at most and that the handlers know it (`TimerKnown`), that the
driver's start is handled before anything of the link (`StartIsFirst`), that the link is
handled before an address (`LinkToCome`), and that from then on the timer is `Disarmed`:
it is not armed, or a command that stops it is on its way and none that starts it is
behind (`DisarmedInTime`).

**NetworkInterfaceProofs.** app_main's own steps keep both invariants, so that
those properties, with the exceptions they name, hold in every build
(`StationCorrect`, `EthernetCorrect`).

## 5. What is only model-checked

* Liveness, which is out of the proof system's reach: `AlwaysListensAgain`,
  `ServersStart`, `TimesOutWithoutLink`, and the liveness half of
  `TunnelExchangeKept`; its safety half is proved.
* That the violated statements of section 6 are violated. How far they still hold
  is proved: `UnansweredOnly`, `LoneSenderContinues`, `OnlyDisconnectEnds`,
  `RangesKept` and `PlainConfirmed`, in the order of the list.

## 6. Where the code and its comments disagree

1. `stale_answer`: TcpServer.c:78 says the data link layer updates the buffer
   before the task sends. For a request that has no answer it does not, and the
   last frame is sent again (`TcpSendsItsAnswer`).
2. `partial_send`: TcpServer.c:86-87 calls the send loop robust against partial
   sends. The loop computes where to go on from `Tcp_TxLength`, which the other sender
   may have changed (`ContinuesWhereItStopped`). In the trace the TCP task sends a
   CONNECT_RESPONSE of three segments and `send` takes one; the receive task then
   announces a frame of two; the next `send` of the TCP task starts at 2 - 2 = 0 instead of
   1, and sends the first segment again.
3. `silent_client`: Knx_Types.h:56 says a client that is silent for 120 seconds
   is disconnected. No code does it (`SilentClientIsDropped`).
4. `long_apdu`: KnxTpUart2_Services.h:38-39 gives the positions of octets as
   1..62 and 7..63. The code masks them to six bits, whatever the length of the
   telegram (`ServicesInRange`).
5. `lost_confirmation`: Knx.c:151-155 says a positive confirmation is passed on.
   If an octet of the telegram equals the checksum of those before it, the
   confirmation is looked for inside the telegram (`ConfirmedIsAcknowledged`).
   The telegram itself is tunnelled whole all the same
   (`WholeTelegramIsTunnelled`), because `TP_GW_L_Data_Ind` takes the length from
   the telegram and not from the search.

Seen while modelling, but said by no comment to be otherwise:

* A feature set is answered with the value of the request, although a bool stores
  it as 0 or 1; a feature of sixteen bits is answered with its low octet; an
  unknown identifier is answered with 0 and no error (KNXnetIP_Tunnelling.c:134-222).
* The description names the individual address 0xFF00, the search answers
  0x1101 (KNXnetIP_Core.c).
* The link alone stops the Ethernet time-out: if DHCP never answers, nobody is told,
  though KnxEthernet.h:23 reads as if it were. `TimesOutWithoutLink` is the case
  in which the callback comes.
* The device that `esp_eth_mac_new_w5500` adds to the SPI bus is never removed, as
  `spi_handle` stays NULL; mac, phy and glue are never deleted, and the driver is
  never uninstalled (KnxEthernet.c:98, 203). After `lanw5500_deinit`, or a failure behind
  the mac, `lanw5500_init` does not succeed again (`LeftMacBlocksInit`).
* Commands to the timer are sent without a look at the result (KnxEthernet.c:46, 61,
  91); a failed `lanw5500_init` leaves its timer behind.
* The build with Ethernet never sets `KnxIPInterface_IpAddr`, and would announce
  0.0.0.0.
* The error of `esp_wifi_connect` is not looked at (KnxWiFi.c:37, 40): a refused attempt
  is the last. The wait of app_main has no time-out (line 103).
* A datagram with fewer octets than its length field says is completed with what an
  earlier telegram left in `IP_RxBuffer` (IP_DataLinkLayer.c:253), with nobody
  interfering. One that is longer than the 128 octets of that buffer overwrites what
  is behind it.
* A length field of 248 or more makes the index of the frame wrap
  (TP_DataLinkLayer.c:40): with 249 or 250 the checksum replaces an octet of the source
  address (`SourceIsGateway`).
* A TCP tunnelling request with 0 in octet 5 goes to the bus and is not answered
  (IP_DataLinkLayer.c:291, 362).
* `KNXnetIP_UDPSend` and the creation of the UDP socket are repeated without limit or
  delay while they fail (KNXnetIP_UdpServer.c:177-189, 195-203).

## 7. What is not modelled, and why

* Management: it is not in the build.
* `lanw5500_get_status` and `lanw5500_conn_info`, which only read.
* Driver, flash and event loop set-up of app_main, which aborts if it fails.
* TP-UART services without a caller, `KNXnetIP_DisconnectRequest` and
  `create_unicast_ipv4_socket`, which nothing calls.
* What is written behind `IP_RxBuffer`, when a telegram is longer than it, and lengths of
  datagrams cut to an octet (UdpServer.c:267). Telegrams come with at most as many octets
  as the buffer has.
* A cEMI with additional information: the offsets of TpTransmit and IpAnswers are those
  without.
* A change of the address while a search answer copies its octets.
* What a driver does that was left behind.
* Chunks of 256 octets or more in a run: `rxLength` models the cut, and the theorems
  cover them.
* A TCP stream cut other than at a request: IpGateway's frames are abstract.
* The structures and constants of the headers that steer nothing.

## 8. Plan

Done: the shared buffer and the sessions (IpGateway), the way to the bus and
back (TpTransmit, TpReceive), both network interfaces, the answers octet by octet,
the composition of the IP side with the way to the bus, and proofs about each.

Left, in this order:

1. TpReceive in front of `IpGateway!ReadTelegram`: what the search for the end of a
   telegram finds, as the environment of the receive task. It needs telegrams of
   octets on the one side and abstract ones on the other, and a mapping between.
2. That the frame a TCP client is sent is its own whenever nobody disturbed it and it
   is answered, as one refinement instead of an invariant beside `TcpExchangeKept`.
3. A stream that is cut anywhere in front of `IpGateway!Recv`.
