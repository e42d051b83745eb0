--------------------------- MODULE KnxEthernetProofs ---------------------------
(***************************************************************************)
(* The invariants of KnxEthernet, for any number of calls, length of the   *)
(* queues and set of leases.                                               *)
(*                                                                         *)
(* What is held follows from where the caller is: each list of what to     *)
(* give back is compared with what the stages before it take.  A mac that  *)
(* is left keeps the bus, and that keeps every later call from the stages  *)
(* behind; so a program has one timer at most.                             *)
(*                                                                         *)
(* Events are posted only while the driver runs, and the event of its      *)
(* start is the first, so that a timer that is armed, or may still be,     *)
(* waits in front of the event of the link, and that waits in front of any *)
(* address.  Behind it the last command for the timer is to stop.          *)
(***************************************************************************)
EXTENDS KnxEthernet, SequenceTheorems, TLAPS

Outside == { "never", "failed", "undone" }
Running == { "up", "give_up" } \cup Undoing
Commands == { "start", "stop", "delete" }

\* Where the caller has not yet come by the bus, the mac.
BeforeBus == Outside \cup { "netif_init", "loop", "netif_new", "bus" }
BeforeMac == BeforeBus \cup { "mac_phy" }

\* What is held is what the stages have taken that the caller has come by.
HeldIsOwned ==
  /\ "tcpip" \in held <=> call \notin Outside \cup { "netif_init" }
  /\ "loop" \in held <=> call \notin Outside \cup { "netif_init", "loop" }
  /\ "netif" \in held => call \notin Outside \cup { "netif_init", "loop", "netif_new" }
  /\ "bus" \in held <=> call \notin BeforeBus
  /\ "mac" \in held => call \notin BeforeMac
  /\ call \notin BeforeMac \cup { "driver" } => "mac" \in held
  /\ missing = {}

\* What is left of earlier calls.
LeftIsBlocked ==
  /\ "tcpip" \notin left /\ "loop" \notin left /\ "netif" \notin left
  /\ "bus" \in left <=> "mac" \in left
  /\ "mac" \in left => call \in BeforeBus

\* Nothing happens in the background before the driver runs.
Quiet ==
  /\ call \notin Running =>
       ethEvents = << >> /\ cable = "stopped" /\ ethLease = NoEthAddress
  /\ call \notin Running \cup Outside => ~addressed

NoLeaseWithoutLink ==
  /\ cable # "up" => ethLease = NoEthAddress
  /\ cable # "stopped" => call \in { "up", "give_up", "delete_timer", "stop" }

Unregistered ==
  { "netif_init", "loop", "netif_new", "bus", "mac_phy", "driver", "set_mac", "attach",
    "register_eth" }

\* If nothing has failed, the handlers are those the caller has come by.
Registers ==
  /\ call \in Outside \cup Unregistered => registered = {}
  /\ ok /\ call = "register_ip" => registered = { "eth" }
  /\ ok /\ call \in { "timer", "start", "up", "give_up", "delete_timer", "stop",
                      "unregister" } => registered = EthHandler
  /\ call \in { "up" } \cup Undoing => ok

\* There is no timer, or it is deleted, or will be.
Doomed ==
  \/ timer = "none" /\ commands = << >>
  \/ timer = "deleted"
  \/ \E i \in 1 .. Len(commands) : commands[i] = "delete"

\* The timer is created once, and deleted first by lanw5500_deinit.
TimerKnown ==
  /\ handle => timer # "none"
  /\ handle \/ timer # "none" \/ commands # << >> =>
       "mac" \in left \/ call \in { "start" } \cup Running
  /\ call \in { "start" } \cup Running /\ ~handle => timer = "none" /\ commands = << >>
  /\ call \in { "stop", "unregister", "release" } /\ ~lost => Doomed

StartIsFirst ==
  \A i \in 1 .. Len(ethEvents) : ethEvents[i].id = "start" => i = 1

LastEth == ethEvents[Len(ethEvents)]

\* An address that is not yet recorded is the last in the queue.
EthLeaseIsLast ==
  call = "up" /\ ethLease # NoEthAddress =>
    IF ethEvents = << >> THEN conn_info = ethLease ELSE LastEth = EthGotIp(ethLease)

\* The commands that wait leave the timer not armed,
Stopping ==
  IF commands = << >> THEN timer # "armed" ELSE commands[Len(commands)] # "start"

\* and no event will arm it,
Disarmed ==
  \/ Doomed
  \/ Stopping /\ \A i \in 1 .. Len(ethEvents) : ethEvents[i].id # "start"

\* or the event of the link is still to come, before any address.
LinkToCome ==
  /\ ~addressed
  /\ cable = "up" => \E j \in 1 .. Len(ethEvents) : ethEvents[j].id = "connected"
  /\ \A i \in 1 .. Len(ethEvents) :
       ethEvents[i].id = "got_ip" =>
         \E j \in 1 .. i - 1 : ethEvents[j].id = "connected"

DisarmedInTime == ok /\ ~lost => Disarmed \/ LinkToCome

EthInv ==
  /\ EthTypeOK
  /\ HeldIsOwned /\ LeftIsBlocked /\ Quiet /\ NoLeaseWithoutLink /\ Registers
  /\ TimerKnown /\ StartIsFirst /\ EthLeaseIsLast /\ DisarmedInTime

USE DEF Outside, Running, Undoing, Unregistered, BeforeBus, BeforeMac

-----------------------------------------------------------------------------
LEMMA EthEventIds ==
  ASSUME NEW e \in EthEvent
  PROVE  /\ e.id \in { "start", "connected", "disconnected", "stop", "got_ip" }
         /\ e.id = "got_ip" => e.ip \in EthLeases
BY DEF EthEvent, EthGotIp

\* What posting an event does to the queue of a loop that is there.
LEMMA EthPosted ==
  ASSUME EthTypeOK, NEW e \in EthEvent, PostEth(e), "loop" \in held
  PROVE  /\ ethEvents' \in Seq(EthEvent) /\ Len(ethEvents') = Len(ethEvents) + 1
         /\ Len(ethEvents') <= MaxEthEvents /\ ethEvents' # << >>
         /\ ethEvents'[Len(ethEvents) + 1] = e
         /\ \A i \in 1 .. Len(ethEvents) : ethEvents'[i] = ethEvents[i]
<1>1. /\ ethEvents \in Seq(EthEvent) /\ ethEvents' = Append(ethEvents, e)
      /\ Len(ethEvents) < MaxEthEvents
  BY DEF EthTypeOK, PostEth
<1>2. QED
  BY <1>1, AppendProperties, KnxEthernetAssumption

\* What handling one does.
Takes == ethEvents # << >> /\ ethEvents' = Tail(ethEvents)

LEMMA EventTaken ==
  ASSUME EthTypeOK, Takes
  PROVE  /\ ethEvents' \in Seq(EthEvent) /\ Len(ethEvents') = Len(ethEvents) - 1
         /\ Len(ethEvents) \in Nat /\ Len(ethEvents) >= 1
         /\ Head(ethEvents) = ethEvents[1] /\ ethEvents[1] \in EthEvent
         /\ \A k \in 1 .. Len(ethEvents') : ethEvents'[k] = ethEvents[k + 1]
         /\ (ethEvents' = << >>) <=> (Len(ethEvents) = 1)
         /\ ethEvents' # << >> => LastEth' = LastEth
<1>1. ethEvents \in Seq(EthEvent) /\ ethEvents # << >>
  BY DEF EthTypeOK, Takes
<1>2. /\ ethEvents' \in Seq(EthEvent) /\ Len(ethEvents') = Len(ethEvents) - 1
      /\ Head(ethEvents) \in EthEvent
      /\ \A k \in 1 .. Len(ethEvents') : ethEvents'[k] = ethEvents[k + 1]
  BY <1>1, HeadTailProperties DEF Takes
<1>3. Len(ethEvents) \in Nat /\ Len(ethEvents) >= 1
  BY <1>1, EmptySeq, LenProperties
<1>4. Head(ethEvents) = ethEvents[1]
  BY <1>1
<1>5. \A q \in Seq(EthEvent) : q = << >> <=> Len(q) = 0
  BY EmptySeq
<1>6. (ethEvents' = << >>) <=> (Len(ethEvents) = 1)
  BY <1>2, <1>3, <1>5
<1>7. ethEvents' # << >> => LastEth' = LastEth
  BY <1>2, <1>3, <1>6, LenProperties DEF LastEth
<1>8. QED
  BY <1>2, <1>3, <1>4, <1>6, <1>7

\* The parts that hold as long as nothing is in the queue.
LEMMA EmptyQueue ==
  ASSUME ethEvents = << >>
  PROVE  /\ Len(ethEvents) = 0 /\ ethEvents \in Seq(EthEvent)
         /\ StartIsFirst
         /\ cable # "up" /\ ~addressed => LinkToCome
BY EmptySeq DEF StartIsFirst, LinkToCome

LEMMA EmptyQueueNext ==
  ASSUME ethEvents' = << >>
  PROVE  /\ Len(ethEvents') = 0 /\ ethEvents' \in Seq(EthEvent)
         /\ StartIsFirst'
         /\ cable' # "up" /\ ~addressed' => LinkToCome'
BY EmptySeq DEF StartIsFirst, LinkToCome

\* What sending commands does to the timer's queue.
LEMMA Commanded ==
  ASSUME EthTypeOK, NEW cs \in { << "delete" >>, << "stop" >>, << "stop", "start" >> },
         Command(cs), handle => timer # "none", UNCHANGED << handle, timer >>
  PROVE  /\ commands' \in Seq(Commands) /\ Len(commands') <= MaxCommands
         /\ lost' \in BOOLEAN
         /\ ~lost' => ~lost
         /\ ~handle => commands' = commands /\ lost' = lost
         /\ Doomed => Doomed'
         /\ handle /\ ~lost' => /\ Len(commands') >= 1
                                /\ commands'[Len(commands')] = cs[Len(cs)]
<1>1. cs \in Seq(Commands) /\ Len(cs) \in 1 .. 2 /\ DOMAIN cs = 1 .. Len(cs)
      /\ \A i \in 1 .. Len(cs) : cs[i] \in Commands
  <2>1. << "delete" >> \in Seq(Commands) /\ Len(<< "delete" >>) = 1
    BY DEF Commands
  <2>2. << "stop" >> \in Seq(Commands) /\ Len(<< "stop" >>) = 1
    BY DEF Commands
  <2>3. << "stop", "start" >> \in Seq(Commands) /\ Len(<< "stop", "start" >>) = 2
    BY DEF Commands
  <2>4. cs \in Seq(Commands) /\ (Len(cs) = 1 \/ Len(cs) = 2)
    BY <2>1, <2>2, <2>3, Zenon
  <2>5. QED
    BY <2>4, ElementOfSeq, LenProperties
<1>2. commands \in Seq(Commands) /\ Len(commands) \in Nat /\ lost \in BOOLEAN
  BY LenProperties DEF EthTypeOK, Commands
<1>3. CASE ~handle
  <2>1. commands' = commands /\ lost' = lost
    BY <1>3 DEF Command
  <2>2. QED
    BY <1>2, <1>3, <2>1 DEF EthTypeOK, Doomed
<1>4. CASE handle
  <2>1. PICK q \in Arriving(cs) :
          /\ Len(commands) + Len(q) <= MaxCommands
          /\ commands' = commands \o q
          /\ lost' = (lost \/ q # cs)
    BY <1>4 DEF Command
  <2>2. q \in Seq(Commands) /\ Len(q) \in Nat
    <3>1. << >> \in Seq(Commands)
      BY EmptySeq
    <3>2. \A c \in Commands : << c >> \in Seq(Commands)
      OBVIOUS
    <3>3. q = << >> \/ q = cs \/ \E i \in 1 .. Len(cs) : q = << cs[i] >>
      BY <1>1, <2>1 DEF Arriving
    <3>4. q \in Seq(Commands)
      BY <1>1, <3>1, <3>2, <3>3
    <3>5. QED
      BY <3>4, LenProperties
  <2>3. /\ commands' \in Seq(Commands) /\ Len(commands') = Len(commands) + Len(q)
        /\ \A i \in 1 .. Len(commands') :
             commands'[i] = IF i <= Len(commands) THEN commands[i]
                            ELSE q[i - Len(commands)]
    BY <1>2, <2>1, <2>2, ConcatProperties
  <2>4. Doomed => Doomed'
    <3>1. CASE timer = "deleted" \/ timer = "none"
      BY <1>4, <1>2, <2>2, <2>3, <3>1 DEF Doomed
    <3>2. ASSUME NEW i \in 1 .. Len(commands), commands[i] = "delete"
          PROVE  i \in 1 .. Len(commands') /\ commands'[i] = "delete"
      BY <1>2, <2>2, <2>3, <3>2
    <3>3. QED
      BY <3>1, <3>2 DEF Doomed
  <2>5. lost' \in BOOLEAN /\ (~lost' => ~lost /\ q = cs)
    BY <1>2, <2>1
  <2>6. ASSUME q = cs
        PROVE  Len(commands') >= 1 /\ commands'[Len(commands')] = cs[Len(cs)]
    <3>1. Len(commands') = Len(commands) + Len(cs) /\ Len(commands') >= 1
          /\ ~(Len(commands') <= Len(commands)) /\ Len(commands') \in 1 .. Len(commands')
          /\ Len(commands') - Len(commands) = Len(cs)
      BY <1>1, <1>2, <2>3, <2>6
    <3>2. QED
      BY <2>3, <2>6, <3>1
  <2>7. QED
    BY <1>4, <2>1, <2>3, <2>4, <2>5, <2>6
<1>5. QED
  BY <1>3, <1>4

\* What the timer task does to the timer and to its queue.
LEMMA TimerTask ==
  ASSUME EthTypeOK, TimerKnown, TimerCommand \/ TimerExpires
  PROVE  /\ timer' \in { "idle", "armed", "deleted" }
         /\ commands' \in Seq(Commands) /\ Len(commands') <= MaxCommands
         /\ Doomed => Doomed'
         /\ Stopping => Stopping' \/ Doomed'
         /\ timer # "none" \/ commands # << >>
<1>1. commands \in Seq(Commands) /\ Len(commands) \in Nat /\ Len(commands) <= MaxCommands
  BY LenProperties DEF EthTypeOK, Commands
<1>2. CASE TimerExpires
  <2>1. timer = "armed" /\ timer' = "idle" /\ commands' = commands
    BY <1>2 DEF TimerExpires
  <2>2. QED
    BY <1>1, <2>1 DEF Doomed, Stopping
<1>3. CASE TimerCommand
  <2>1. commands # << >> /\ timer' = Obeyed(Head(commands), timer)
        /\ commands' = Tail(commands)
    BY <1>3 DEF TimerCommand
  <2>2. /\ commands' \in Seq(Commands) /\ Len(commands') = Len(commands) - 1
        /\ Head(commands) = commands[1]
        /\ \A k \in 1 .. Len(commands') : commands'[k] = commands[k + 1]
    BY <1>1, <2>1, HeadTailProperties
  <2>3. Len(commands) >= 1
    BY <1>1, <2>1, EmptySeq
  <2>4. (commands' = << >>) <=> (Len(commands) = 1)
    <3>1. \A s \in Seq(Commands) : s = << >> <=> Len(s) = 0
      BY EmptySeq
    <3>2. QED
      BY <1>1, <2>2, <2>3, <3>1
  <2>5. timer' \in { "idle", "armed", "deleted" }
        /\ (timer = "deleted" \/ commands[1] = "delete" => timer' = "deleted")
        /\ (timer' = "armed" => commands[1] = "start")
    BY <2>1, <2>2 DEF Obeyed
  <2>6. Doomed => Doomed'
    <3>1. CASE timer = "deleted" \/ commands[1] = "delete"
      BY <2>5, <3>1 DEF Doomed
    <3>2. ASSUME NEW i \in 1 .. Len(commands), commands[i] = "delete", commands[1] # "delete"
          PROVE  i - 1 \in 1 .. Len(commands') /\ commands'[i - 1] = "delete"
      <4>1. i # 1
        BY <3>2
      <4>2. i - 1 \in 1 .. Len(commands') /\ (i - 1) + 1 = i
        BY <1>1, <2>2, <4>1
      <4>3. QED
        BY <2>2, <3>2, <4>2
    <3>3. QED
      BY <2>1, <3>1, <3>2 DEF Doomed
  <2>7. Stopping => Stopping'
    <3>1. CASE Len(commands) = 1
      BY <2>1, <2>4, <2>5, <3>1 DEF Stopping
    <3>2. CASE Len(commands) # 1
      <4>1. Len(commands') \in 1 .. Len(commands') /\ Len(commands') + 1 = Len(commands)
            /\ commands' # << >>
        BY <1>1, <2>2, <2>3, <2>4, <3>2
      <4>2. commands'[Len(commands')] = commands[Len(commands)]
        BY <2>2, <4>1
      <4>3. QED
        BY <2>1, <4>1, <4>2 DEF Stopping
    <3>3. QED
      BY <3>1, <3>2
  <2>8. Len(commands') <= MaxCommands
    BY <1>1, <2>2, KnxEthernetAssumption
  <2>9. QED
    BY <2>1, <2>2, <2>5, <2>6, <2>7, <2>8
<1>4. QED
  BY <1>2, <1>3

LEMMA EthInitInv == EthInit => EthInv
<1> SUFFICES ASSUME EthInit PROVE EthInv
  OBVIOUS
<1>1. EthTypeOK
  <2>1. inits \in 0 .. MaxInits /\ ethEvents \in Seq(EthEvent)
        /\ Len(ethEvents) <= MaxEthEvents
        /\ commands \in Seq({ "start", "stop", "delete" }) /\ Len(commands) <= MaxCommands
    BY EmptyQueue, EmptySeq, KnxEthernetAssumption DEF EthInit
  <2>2. QED
    BY <2>1 DEF EthInit, EthTypeOK
<1>2. HeldIsOwned /\ LeftIsBlocked
  BY DEF EthInit, HeldIsOwned, LeftIsBlocked
<1>3. StartIsFirst /\ LinkToCome
  BY EmptyQueue DEF EthInit
<1>4. TimerKnown
  BY DEF EthInit, TimerKnown
<1>5. QED
  BY <1>1, <1>2, <1>3, <1>4
  DEF EthInit, EthInv, Quiet, NoLeaseWithoutLink, Registers, EthLeaseIsLast,
      DisarmedInTime

-----------------------------------------------------------------------------
\* A step of the caller that leaves the queue empty and the driver stopped.
LEMMA Calm ==
  ASSUME EthInv, ethEvents' = << >>, cable' = "stopped", ethLease' = NoEthAddress,
         call' # "up", EthTypeOK', HeldIsOwned', LeftIsBlocked', Registers', TimerKnown',
         ok' /\ ~lost' => Doomed' \/ Stopping' \/ ~addressed',
         call' \notin Running \cup Outside => ~addressed'
  PROVE  EthInv'
<1>1. Len(ethEvents') = 0 /\ StartIsFirst' /\ (~addressed' => LinkToCome')
  BY EmptyQueueNext
<1>2. Doomed' \/ Stopping' => Disarmed'
  BY <1>1 DEF Disarmed
<1>3. DisarmedInTime'
  BY <1>1, <1>2 DEF DisarmedInTime
<1>4. QED
  BY <1>1, <1>3 DEF EthInv, Quiet, NoLeaseWithoutLink, EthLeaseIsLast

\* What is known before the driver runs.
LEMMA BeforeStart ==
  ASSUME EthInv, call \notin Running
  PROVE  /\ ethEvents = << >> /\ cable = "stopped" /\ ethLease = NoEthAddress
         /\ ok /\ ~lost => Doomed \/ Stopping \/ ~addressed
         /\ call \notin Outside => ~addressed
  BY DEF EthInv, Quiet, DisarmedInTime, Disarmed, LinkToCome

LEMMA TimingKept ==
  ASSUME UNCHANGED timing
  PROVE  /\ UNCHANGED << handle, timer, commands, lost >>
         /\ Doomed' = Doomed /\ Stopping' = Stopping
  BY DEF timing, Doomed, Stopping

\* What giving back leaves: H is what is held, R names all of it that the code has
\* a name for.
LEMMA GivenBackTo ==
  ASSUME EthInv, NEW H, NEW R, GiveBack(H, R),
         held \subseteq H, H \subseteq held \cup { "glue" },
         R \subseteq GivenBack, R \ { "netif" } \subseteq H,
         H \cap GivenBack \subseteq R, "mac" \in H => "bus" \in H,
         "mac" \in left => "mac" \notin H /\ "bus" \notin H
  PROVE  /\ held' = {} /\ missing' = {} /\ left' \subseteq Resource
         /\ "tcpip" \notin left' /\ "loop" \notin left' /\ "netif" \notin left'
         /\ "bus" \in left' <=> "mac" \in left'
         /\ "mac" \in left => "mac" \in left'
         /\ "mac" \in H => "mac" \in left'
<1>1. /\ held' = {} /\ left' = left \cup Rest(H, R)
      /\ missing' = missing \cup (R \ (H \cup { "netif" }))
  BY DEF GiveBack
<1>2. missing = {} /\ "tcpip" \notin left /\ "loop" \notin left /\ "netif" \notin left
      /\ ("bus" \in left <=> "mac" \in left) /\ left \subseteq Resource
      /\ held \subseteq Resource
  BY DEF EthInv, HeldIsOwned, LeftIsBlocked, EthTypeOK
<1>3. missing' = {}
  BY <1>1, <1>2
<1>4. Rest(H, R) \subseteq Resource /\ "tcpip" \notin Rest(H, R)
      /\ "loop" \notin Rest(H, R) /\ "netif" \notin Rest(H, R)
  BY <1>2 DEF Rest, Resource, GivenBack
<1>5. "mac" \in Rest(H, R) <=> "mac" \in H
  BY DEF Rest, GivenBack
<1>6. "bus" \in Rest(H, R) <=> "mac" \in H
  BY DEF Rest, GivenBack
<1>7. QED
  BY <1>1, <1>2, <1>3, <1>4, <1>5, <1>6

\* A call of lanw5500_init that fails, wherever it does.
LEMMA FailedInv ==
  ASSUME EthInv, NEW H, NEW R, GiveBack(H, R), call' = "failed",
         call \notin Outside \cup { "up" } \cup Undoing,
         held \subseteq H, H \subseteq held \cup { "glue" },
         R \subseteq GivenBack, R \ { "netif" } \subseteq H,
         H \cap GivenBack \subseteq R, "mac" \in H => "bus" \in H,
         "loop" \in R \/ (ethEvents = << >> /\ registered = {}),
         cable' = "stopped", ethLease' = NoEthAddress, UNCHANGED timing,
         UNCHANGED << eth_timeout_cb, inits, ok, conn_info, addressed, timedOut >>
  PROVE  EthInv'
<1>1. "mac" \in left => "mac" \notin H /\ "bus" \notin H
  BY DEF EthInv, LeftIsBlocked, HeldIsOwned
<1>2. /\ held' = {} /\ missing' = {} /\ left' \subseteq Resource
      /\ "tcpip" \notin left' /\ "loop" \notin left' /\ "netif" \notin left'
      /\ ("bus" \in left' <=> "mac" \in left')
      /\ ("mac" \in left => "mac" \in left')
      /\ ("mac" \in H => "mac" \in left')
  BY <1>1, GivenBackTo
<1>3. ethEvents' = << >> /\ registered' = {}
  BY DEF GiveBack
<1>4. /\ UNCHANGED << handle, timer, commands, lost >>
      /\ Doomed' = Doomed /\ Stopping' = Stopping
  BY TimingKept
<1>5. EthTypeOK'
  <2>1. ethEvents' \in Seq(EthEvent) /\ Len(ethEvents') <= MaxEthEvents
    BY <1>3, EmptyQueueNext, KnxEthernetAssumption
  <2>2. QED
    BY <1>2, <1>3, <1>4, <2>1 DEF EthInv, EthTypeOK
<1>6. HeldIsOwned' /\ LeftIsBlocked' /\ Registers'
  BY <1>2, <1>3 DEF HeldIsOwned, LeftIsBlocked, Registers
<1>7. TimerKnown'
  <2>1. handle \/ timer # "none" \/ commands # << >> => "mac" \in left \/ "mac" \in held
    BY DEF EthInv, TimerKnown, HeldIsOwned
  <2>2. handle => timer # "none"
    BY DEF EthInv, TimerKnown
  <2>3. QED
    BY <1>2, <1>4, <2>1, <2>2 DEF TimerKnown
<1>8. ok /\ ~lost => Doomed \/ Stopping \/ ~addressed
  BY DEF EthInv, DisarmedInTime, Disarmed, LinkToCome
<1>9. QED
  BY <1>3, <1>4, <1>5, <1>6, <1>7, <1>8, Calm

\* A stage before the timer is created that succeeds.
LEMMA StageInv ==
  ASSUME EthInv, call \notin Running \cup Outside \cup { "start", "timer" },
         call' \in Stage \ { "netif_init", "start", "give_up" }, UNCHANGED timing,
         UNCHANGED << eth_timeout_cb, inits, left, missing, ethEvents, cable, ethLease,
                      conn_info, addressed, timedOut >>,
         ok' \in BOOLEAN, registered' \subseteq EthHandler, held' \subseteq Resource,
         ok' => ok,
         HeldIsOwned', LeftIsBlocked', Registers'
  PROVE  EthInv'
<1>1. /\ UNCHANGED << handle, timer, commands, lost >>
      /\ Doomed' = Doomed /\ Stopping' = Stopping
  BY TimingKept
<1>2. /\ ethEvents = << >> /\ cable = "stopped" /\ ethLease = NoEthAddress
      /\ ok /\ ~lost => Doomed \/ Stopping \/ ~addressed
      /\ ~addressed
  BY BeforeStart
<1>3. call' \notin Running \cup Outside \cup { "start" }
  BY DEF Stage
<1>4. EthTypeOK'
  BY <1>1 DEF EthInv, EthTypeOK
<1>5. TimerKnown'
  BY <1>1, <1>3 DEF EthInv, TimerKnown
<1>6. QED
  BY <1>1, <1>2, <1>3, <1>4, <1>5, Calm

LEMMA BeginInv ==
  ASSUME EthInv, NEW cb \in BOOLEAN, Begin(cb)
  PROVE  EthInv'
<1>1. call \in Outside /\ call' = "netif_init" /\ addressed' = FALSE
      /\ UNCHANGED timing
      /\ UNCHANGED << held, left, missing, registered, cable, ethLease, ethEvents >>
  BY DEF Begin, resources, network
<1>2. ethEvents' = << >> /\ cable' = "stopped" /\ ethLease' = NoEthAddress
  BY <1>1, BeforeStart
<1>3. UNCHANGED << handle, timer, commands, lost >>
  BY <1>1, TimingKept
<1>4. EthTypeOK'
  <2>1. inits' \in 0 .. MaxInits
    BY KnxEthernetAssumption DEF EthInv, EthTypeOK, Begin
  <2>2. ethEvents' \in Seq(EthEvent) /\ Len(ethEvents') <= MaxEthEvents
    BY <1>1 DEF EthInv, EthTypeOK
  <2>3. addressed' \in BOOLEAN /\ timedOut' \in BOOLEAN /\ ok' \in BOOLEAN
        /\ eth_timeout_cb' \in BOOLEAN /\ conn_info' = conn_info
    BY DEF Begin
  <2>4. QED
    BY <1>1, <1>3, <2>1, <2>2, <2>3 DEF EthInv, EthTypeOK, Stage
<1>5. HeldIsOwned' /\ LeftIsBlocked' /\ Registers'
  BY <1>1 DEF EthInv, HeldIsOwned, LeftIsBlocked, Registers
<1>6. TimerKnown'
  BY <1>1, <1>3 DEF EthInv, TimerKnown
<1>7. QED
  BY <1>1, <1>2, <1>4, <1>5, <1>6, Calm

LEMMA TakeOrFailInv ==
  ASSUME EthInv, NEW stage, NEW may, NEW r, NEW next, NEW R,
         \/ stage = "netif_init" /\ r = "tcpip" /\ next = "loop" /\ R = {}
         \/ stage = "loop" /\ r = "loop" /\ next = "netif_new" /\ R = { "tcpip" }
         \/ /\ stage = "bus" /\ r = "bus" /\ next = "mac_phy"
            /\ R = { "netif", "loop", "tcpip" }
            /\ may => "bus" \notin left
         \/ /\ stage = "driver" /\ r = "driver" /\ next = "set_mac" /\ R = GivenBack
            /\ may => "mac" \in held,
         TakeOrFail(stage, may, r, next, R)
  PROVE  EthInv'
<1>1. call = stage /\ call \in { "netif_init", "loop", "bus", "driver" }
      /\ UNCHANGED timing
      /\ UNCHANGED << eth_timeout_cb, inits, ok, cable, ethLease, conn_info,
                      addressed, timedOut >>
  BY DEF TakeOrFail, network, callbacks
<1>2. ethEvents = << >> /\ cable = "stopped" /\ ethLease = NoEthAddress /\ registered = {}
  BY <1>1, BeforeStart DEF EthInv, Registers
<1>3. CASE may /\ Take({r}) /\ call' = next
  <2>1. held' = held \cup {r} /\ UNCHANGED << left, missing, registered, ethEvents >>
    BY <1>3 DEF Take
  <2>2. held' \subseteq Resource /\ registered' \subseteq EthHandler /\ ok' \in BOOLEAN
    BY <1>1, <1>2, <2>1 DEF EthInv, EthTypeOK, Resource
  <2>3. HeldIsOwned' /\ LeftIsBlocked' /\ Registers'
    BY <1>1, <1>2, <1>3, <2>1 DEF EthInv, HeldIsOwned, LeftIsBlocked, Registers
  <2>4. QED
    BY <1>1, <1>3, <2>1, <2>2, <2>3, StageInv DEF Stage
<1>4. CASE GiveBack(held, R) /\ call' = "failed"
  <2>1. /\ R \subseteq GivenBack /\ R \ { "netif" } \subseteq held
        /\ held \cap GivenBack \subseteq R
        /\ "mac" \in held => "bus" \in held
    BY <1>1 DEF EthInv, HeldIsOwned, GivenBack
  <2>2. QED
    BY <1>1, <1>2, <1>4, <2>1, FailedInv
<1>5. QED
  BY <1>3, <1>4 DEF TakeOrFail

LEMMA TakeSomeInv ==
  ASSUME EthInv, NEW stage, NEW S, NEW next,
         \/ stage = "netif_new" /\ S = { "netif" } /\ next = "bus"
         \/ stage = "mac_phy" /\ S = { "mac", "phy" } /\ next = "driver",
         TakeSome(stage, S, next)
  PROVE  EthInv'
<1>1. call = stage /\ call \in { "netif_new", "mac_phy" } /\ call' = next
      /\ UNCHANGED timing
      /\ UNCHANGED << eth_timeout_cb, inits, ok, cable, ethLease, conn_info,
                      addressed, timedOut >>
  BY DEF TakeSome, network, callbacks
<1>2. PICK T \in SUBSET S :
        held' = held \cup T /\ UNCHANGED << left, missing, registered, ethEvents >>
  BY DEF TakeSome, Take
<1>3. \/ T \subseteq { "netif" } /\ call = "netif_new"
      \/ T \subseteq { "mac", "phy" } /\ call = "mac_phy"
  <2>1. T \subseteq S
    BY <1>2
  <2>2. \/ S = { "netif" } /\ call = "netif_new"
        \/ S = { "mac", "phy" } /\ call = "mac_phy"
    BY <1>1
  <2>3. QED
    BY <2>1, <2>2, Zenon
<1>4. registered = {} /\ registered' \subseteq EthHandler /\ ok' \in BOOLEAN
  BY <1>1, <1>2 DEF EthInv, EthTypeOK, Registers
<1>5. held' \subseteq Resource
  BY <1>2, <1>3 DEF EthInv, EthTypeOK, Resource
<1>6. HeldIsOwned' /\ LeftIsBlocked' /\ Registers'
  BY <1>1, <1>2, <1>3, <1>4 DEF EthInv, HeldIsOwned, LeftIsBlocked, Registers
<1>7. QED
  BY <1>1, <1>2, <1>4, <1>5, <1>6, StageInv DEF Stage

\* What the failing branches behind esp_eth_driver_install give back is what is held.
LEMMA BehindDriver ==
  ASSUME EthInv, call \in { "set_mac", "attach", "give_up", "release" }
  PROVE  /\ "loop" \in GivenBack
         /\ GivenBack \ { "netif" } \subseteq held
         /\ "mac" \in held /\ "bus" \in held
  BY DEF EthInv, HeldIsOwned, GivenBack

LEMMA SetMacAddressInv ==
  ASSUME EthInv, SetMacAddress
  PROVE  EthInv'
<1>1. call = "set_mac" /\ UNCHANGED timing
      /\ UNCHANGED << eth_timeout_cb, inits, ok, cable, ethLease, conn_info,
                      addressed, timedOut >>
  BY DEF SetMacAddress, network, callbacks
<1>2. ethEvents = << >> /\ cable = "stopped" /\ ethLease = NoEthAddress /\ registered = {}
  BY <1>1, BeforeStart DEF EthInv, Registers
<1>3. CASE call' = "attach" /\ UNCHANGED << resources, ethEvents >>
  <2>1. UNCHANGED << held, left, missing, registered, ethEvents >>
    BY <1>3 DEF resources
  <2>2. held' \subseteq Resource /\ registered' \subseteq EthHandler /\ ok' \in BOOLEAN
    BY <1>1, <2>1 DEF EthInv, EthTypeOK
  <2>3. HeldIsOwned' /\ LeftIsBlocked' /\ Registers'
    BY <1>1, <1>2, <1>3, <2>1 DEF EthInv, HeldIsOwned, LeftIsBlocked, Registers
  <2>4. QED
    BY <1>1, <1>3, <2>1, <2>2, <2>3, StageInv DEF Stage
<1>4. CASE GiveBack(held, GivenBack) /\ call' = "failed"
  BY <1>1, <1>2, <1>4, BehindDriver, FailedInv
<1>5. QED
  BY <1>3, <1>4 DEF SetMacAddress

LEMMA AttachInv ==
  ASSUME EthInv, esp_netif_attach
  PROVE  EthInv'
<1>1. call = "attach" /\ UNCHANGED timing
      /\ UNCHANGED << eth_timeout_cb, inits, ok, cable, ethLease, conn_info,
                      addressed, timedOut >>
  BY DEF esp_netif_attach, network, callbacks
<1>2. ethEvents = << >> /\ cable = "stopped" /\ ethLease = NoEthAddress /\ registered = {}
  BY <1>1, BeforeStart DEF EthInv, Registers
<1>3. CASE Take({ "glue" }) /\ call' = "register_eth"
  <2>1. held' = held \cup { "glue" } /\ UNCHANGED << left, missing, registered, ethEvents >>
    BY <1>3 DEF Take
  <2>2. held' \subseteq Resource /\ registered' \subseteq EthHandler /\ ok' \in BOOLEAN
    BY <1>1, <2>1 DEF EthInv, EthTypeOK, Resource
  <2>3. HeldIsOwned' /\ LeftIsBlocked' /\ Registers'
    BY <1>1, <1>2, <1>3, <2>1 DEF EthInv, HeldIsOwned, LeftIsBlocked, Registers
  <2>4. QED
    BY <1>1, <1>3, <2>1, <2>2, <2>3, StageInv DEF Stage
<1>4. ASSUME NEW G \in SUBSET { "glue" }, GiveBack(held \cup G, GivenBack), call' = "failed"
      PROVE  EthInv'
  <2> DEFINE H == held \cup G
  <2>1. /\ held \subseteq H /\ H \subseteq held \cup { "glue" }
        /\ GivenBack \ { "netif" } \subseteq H /\ H \cap GivenBack \subseteq GivenBack
        /\ "bus" \in H /\ "loop" \in GivenBack
    BY <1>1, BehindDriver
  <2> HIDE DEF H
  <2>2. QED
    BY <1>1, <1>2, <1>4, <2>1, FailedInv DEF H
<1>5. QED
  BY <1>3, <1>4 DEF esp_netif_attach

LEMMA RegisterInv ==
  ASSUME EthInv, NEW stage, NEW handler, NEW next,
         \/ stage = "register_eth" /\ handler = "eth" /\ next = "register_ip"
         \/ stage = "register_ip" /\ handler = "ip" /\ next = "timer",
         Register(stage, handler, next)
  PROVE  EthInv'
<1>1. call = stage /\ call \in { "register_eth", "register_ip" } /\ call' = next
      /\ handler \in EthHandler /\ UNCHANGED timing
      /\ UNCHANGED << eth_timeout_cb, inits, held, left, missing, cable, ethLease,
                      ethEvents, conn_info, addressed, timedOut >>
  BY DEF Register, network, callbacks, EthHandler
<1>2. \/ registered' = registered \cup {handler} /\ ok' = ok
      \/ ok' = FALSE /\ registered' = registered
  BY DEF Register
<1>3. registered' \subseteq EthHandler
  BY <1>1, <1>2 DEF EthInv, EthTypeOK
<1>4. ok' \in BOOLEAN /\ (ok' => ok) /\ held' \subseteq Resource
  <2>1. ok \in BOOLEAN /\ held' \subseteq Resource
    BY <1>1 DEF EthInv, EthTypeOK
  <2>2. ok' = ok \/ ok' = FALSE
    BY <1>2
  <2>3. CASE ok' = ok
    BY <2>1, <2>3, Zenon
  <2>4. CASE ok' = FALSE
    BY <2>1, <2>4, Zenon
  <2>5. QED
    BY <2>2, <2>3, <2>4, Zenon
<1>5. HeldIsOwned' /\ LeftIsBlocked'
  BY <1>1 DEF EthInv, HeldIsOwned, LeftIsBlocked
<1>6. Registers'
  BY <1>1, <1>2 DEF EthInv, Registers, EthHandler
<1>7. QED
  BY <1>1, <1>3, <1>4, <1>5, <1>6, StageInv DEF Stage

\* There was no timer before: the mac of an earlier one would have kept the bus.
LEMMA TimerCreateInv ==
  ASSUME EthInv, xTimerCreate
  PROVE  EthInv'
<1>1. call = "timer" /\ call' = "start"
      /\ UNCHANGED << eth_timeout_cb, inits, ok, held, left, missing, registered,
                      commands, lost, cable, ethLease, ethEvents, conn_info, addressed,
                      timedOut >>
  BY DEF xTimerCreate, resources, network, callbacks
<1>2. /\ ethEvents' = << >> /\ cable' = "stopped" /\ ethLease' = NoEthAddress
      /\ ~addressed
  BY <1>1, BeforeStart
<1>3. ~handle /\ timer = "none" /\ commands = << >>
  BY <1>1 DEF EthInv, TimerKnown, LeftIsBlocked
<1>4. handle' \in BOOLEAN /\ timer' \in { "idle", "none" }
      /\ (handle' <=> timer' # "none")
  <2>1. \/ handle' = TRUE /\ timer' = "idle"
        \/ handle' = FALSE /\ timer' = timer
        \/ handle' = handle /\ timer' = timer
    BY DEF xTimerCreate
  <2>2. handle \in BOOLEAN
    BY DEF EthInv, EthTypeOK
  <2>3. handle' \in BOOLEAN
    BY <2>1, <2>2, Zenon
  <2>4. timer' \in { "idle", "none" } /\ (handle' <=> timer' # "none")
    BY <1>3, <2>1
  <2>5. QED
    BY <2>3, <2>4
<1>5. EthTypeOK'
  BY <1>1, <1>4 DEF EthInv, EthTypeOK, Stage
<1>6. HeldIsOwned' /\ LeftIsBlocked' /\ Registers'
  BY <1>1 DEF EthInv, HeldIsOwned, LeftIsBlocked, Registers
<1>7. TimerKnown'
  BY <1>1, <1>3, <1>4 DEF TimerKnown
<1>8. QED
  BY <1>1, <1>2, <1>5, <1>6, <1>7, Calm

LEMMA GiveUpInv ==
  ASSUME EthInv, GiveUp
  PROVE  EthInv'
<1>1. call = "give_up" /\ call' = "failed" /\ GiveBack(held, GivenBack)
      /\ cable' = "stopped" /\ ethLease' = NoEthAddress /\ UNCHANGED timing
      /\ UNCHANGED << eth_timeout_cb, inits, ok, conn_info, addressed, timedOut >>
  BY DEF GiveUp, callbacks
<1>2. /\ GivenBack \ { "netif" } \subseteq held /\ held \cap GivenBack \subseteq GivenBack
      /\ held \subseteq held \cup { "glue" } /\ "bus" \in held /\ "loop" \in GivenBack
  BY <1>1, BehindDriver
<1>3. QED
  BY <1>1, <1>2, FailedInv

\* The event of the start is the first in an empty queue.
LEMMA StartInv ==
  ASSUME EthInv, esp_eth_start
  PROVE  EthInv'
<1>1. call = "start" /\ UNCHANGED timing
      /\ UNCHANGED << eth_timeout_cb, inits, ok, held, left, missing, registered,
                      ethLease, conn_info, addressed, timedOut >>
  BY DEF esp_eth_start, resources, callbacks
<1>2. /\ ethEvents = << >> /\ cable = "stopped" /\ ethLease = NoEthAddress
      /\ ok /\ ~lost => Doomed \/ Stopping \/ ~addressed
      /\ ~addressed
      /\ "loop" \in held
  BY <1>1, BeforeStart DEF EthInv, HeldIsOwned
<1>3. UNCHANGED << handle, timer, commands, lost >>
  BY <1>1, TimingKept
<1>4. call' \in { "up", "give_up" } /\ ok \in BOOLEAN
  BY DEF esp_eth_start, EthInv, EthTypeOK
<1>5. HeldIsOwned' /\ LeftIsBlocked' /\ TimerKnown'
  BY <1>1, <1>3, <1>4 DEF EthInv, HeldIsOwned, LeftIsBlocked, TimerKnown
<1>6. CASE cable' = "down" /\ PostEth([ id |-> "start" ])
           /\ call' = IF ok THEN "up" ELSE "give_up"
  <2> DEFINE e == [ id |-> "start" ]
  <2>1. e \in EthEvent
    BY DEF EthEvent
  <2>2. /\ ethEvents' \in Seq(EthEvent) /\ Len(ethEvents') = 1 /\ ethEvents'[1] = e
        /\ Len(ethEvents') <= MaxEthEvents /\ ethEvents' # << >>
    BY <1>2, <1>6, <2>1, EthPosted, EmptySeq DEF EthInv
  <2>3. EthTypeOK'
    BY <1>1, <1>3, <1>4, <1>6, <2>2 DEF EthInv, EthTypeOK, Stage
  <2>4. Registers' /\ Quiet' /\ NoLeaseWithoutLink'
    BY <1>1, <1>2, <1>6 DEF EthInv, EthTypeOK, Registers, Quiet, NoLeaseWithoutLink
  <2>5. StartIsFirst' /\ EthLeaseIsLast'
    BY <1>1, <1>2, <2>2 DEF StartIsFirst, EthLeaseIsLast
  <2>6. DisarmedInTime'
    <3>1. LinkToCome'
      BY <1>1, <1>2, <1>6, <2>2 DEF LinkToCome
    <3>2. QED
      BY <3>1 DEF DisarmedInTime
  <2>7. QED
    BY <1>5, <2>3, <2>4, <2>5, <2>6 DEF EthInv
<1>7. CASE call' = "give_up" /\ UNCHANGED << cable, ethEvents >>
  <2>1. EthTypeOK'
    BY <1>1, <1>3, <1>7 DEF EthInv, EthTypeOK, Stage
  <2>2. Registers'
    BY <1>1, <1>7 DEF EthInv, Registers
  <2>3. QED
    BY <1>1, <1>2, <1>5, <1>7, <2>1, <2>2, Calm
<1>8. QED
  BY <1>6, <1>7 DEF esp_eth_start

-----------------------------------------------------------------------------
\* lanw5500_deinit.
LEMMA UndoInv ==
  ASSUME EthInv, Undo
  PROVE  EthInv'
<1>1. call = "up" /\ call' = "delete_timer" /\ UNCHANGED timing
      /\ UNCHANGED << eth_timeout_cb, inits, ok, held, left, missing, registered, cable,
                      ethLease, ethEvents, conn_info, addressed, timedOut >>
  BY DEF Undo, resources, network, callbacks
<1>2. /\ UNCHANGED << handle, timer, commands, lost >>
      /\ Doomed' = Doomed /\ Stopping' = Stopping
  BY <1>1, TimingKept
<1>3. EthTypeOK'
  BY <1>1, <1>2 DEF EthInv, EthTypeOK
<1>4. HeldIsOwned' /\ LeftIsBlocked' /\ Quiet' /\ NoLeaseWithoutLink' /\ Registers'
  BY <1>1 DEF EthInv, HeldIsOwned, LeftIsBlocked, Quiet, NoLeaseWithoutLink, Registers
<1>5. TimerKnown'
  BY <1>1, <1>2 DEF EthInv, TimerKnown
<1>6. StartIsFirst' /\ EthLeaseIsLast' /\ DisarmedInTime'
  BY <1>1, <1>2 DEF EthInv, StartIsFirst, EthLeaseIsLast, DisarmedInTime, Disarmed, LinkToCome
<1>7. QED
  BY <1>3, <1>4, <1>5, <1>6 DEF EthInv

LEMMA TimerDeleteInv ==
  ASSUME EthInv, xTimerDelete
  PROVE  EthInv'
<1>1. call = "delete_timer" /\ call' = "stop" /\ Command(<< "delete" >>)
      /\ UNCHANGED << handle, timer >>
      /\ UNCHANGED << eth_timeout_cb, inits, ok, held, left, missing, registered, cable,
                      ethLease, ethEvents, conn_info, addressed, timedOut >>
  BY DEF xTimerDelete, resources, network, callbacks
<1>2. handle => timer # "none"
  BY DEF EthInv, TimerKnown
<1>3. /\ commands' \in Seq(Commands) /\ Len(commands') <= MaxCommands /\ lost' \in BOOLEAN
      /\ ~lost' => ~lost
      /\ ~handle => commands' = commands /\ lost' = lost
      /\ handle /\ ~lost' => Len(commands') >= 1 /\ commands'[Len(commands')] = "delete"
  <2>1. EthTypeOK /\ << "delete" >>[Len(<< "delete" >>)] = "delete"
    BY DEF EthInv
  <2>2. QED
    BY <1>1, <1>2, <2>1, Commanded
<1>4. ~lost' => Doomed'
  <2>1. CASE handle
    <3>1. ~lost' => Len(commands') \in 1 .. Len(commands')
      BY <1>3, <2>1, LenProperties
    <3>2. QED
      BY <1>3, <2>1, <3>1 DEF Doomed
  <2>2. CASE ~handle
    BY <1>1, <1>3, <2>2 DEF EthInv, TimerKnown, Doomed
  <2>3. QED
    BY <2>1, <2>2
<1>5. EthTypeOK'
  BY <1>1, <1>3 DEF EthInv, EthTypeOK, Commands
<1>6. HeldIsOwned' /\ LeftIsBlocked' /\ Quiet' /\ NoLeaseWithoutLink' /\ Registers'
  BY <1>1 DEF EthInv, HeldIsOwned, LeftIsBlocked, Quiet, NoLeaseWithoutLink, Registers
<1>7. TimerKnown'
  BY <1>1, <1>3, <1>4 DEF EthInv, TimerKnown
<1>8. StartIsFirst' /\ EthLeaseIsLast'
  BY <1>1 DEF EthInv, StartIsFirst, EthLeaseIsLast
<1>9. DisarmedInTime'
  BY <1>4 DEF DisarmedInTime, Disarmed
<1>10. QED
  BY <1>5, <1>6, <1>7, <1>8, <1>9 DEF EthInv

LEMMA StopInv ==
  ASSUME EthInv, esp_eth_stop
  PROVE  EthInv'
<1> DEFINE e == [ id |-> "stop" ]
<1>1. call = "stop" /\ call' = "unregister" /\ cable' = "stopped"
      /\ ethLease' = NoEthAddress /\ PostEth(e) /\ UNCHANGED timing
      /\ UNCHANGED << eth_timeout_cb, inits, ok, held, left, missing, registered,
                      conn_info, addressed, timedOut >>
  BY DEF esp_eth_stop, resources, callbacks
<1>2. "loop" \in held /\ e \in EthEvent /\ e.id = "stop"
  BY <1>1 DEF EthInv, HeldIsOwned, EthEvent
<1>3. /\ ethEvents' \in Seq(EthEvent) /\ Len(ethEvents') = Len(ethEvents) + 1
      /\ Len(ethEvents') <= MaxEthEvents /\ ethEvents' # << >>
      /\ ethEvents'[Len(ethEvents) + 1] = e
      /\ \A i \in 1 .. Len(ethEvents) : ethEvents'[i] = ethEvents[i]
  BY <1>1, <1>2, EthPosted DEF EthInv
<1>4. Len(ethEvents) \in Nat
  BY LenProperties DEF EthInv, EthTypeOK
<1>5. UNCHANGED << handle, timer, commands, lost >> /\ Doomed' = Doomed
  BY <1>1, TimingKept
<1>6. EthTypeOK'
  BY <1>1, <1>3, <1>5 DEF EthInv, EthTypeOK
<1>7. HeldIsOwned' /\ LeftIsBlocked' /\ Quiet' /\ NoLeaseWithoutLink' /\ Registers'
  BY <1>1 DEF EthInv, HeldIsOwned, LeftIsBlocked, Quiet, NoLeaseWithoutLink, Registers
<1>8. TimerKnown'
  BY <1>1, <1>5 DEF EthInv, TimerKnown
<1>9. StartIsFirst'
  BY <1>2, <1>3, <1>4 DEF EthInv, StartIsFirst
<1>10. EthLeaseIsLast' /\ DisarmedInTime'
  BY <1>1, <1>5 DEF EthInv, EthLeaseIsLast, DisarmedInTime, Disarmed, TimerKnown
<1>11. QED
  BY <1>6, <1>7, <1>8, <1>9, <1>10 DEF EthInv

LEMMA UnregisterInv ==
  ASSUME EthInv, UnregisterHandlers
  PROVE  EthInv'
<1>1. call = "unregister" /\ call' = "release" /\ registered' = {} /\ UNCHANGED timing
      /\ UNCHANGED << eth_timeout_cb, inits, ok, held, left, missing, cable,
                      ethLease, ethEvents, conn_info, addressed, timedOut >>
  BY DEF UnregisterHandlers, network, callbacks
<1>2. UNCHANGED << handle, timer, commands, lost >> /\ Doomed' = Doomed
  BY <1>1, TimingKept
<1>3. EthTypeOK'
  BY <1>1, <1>2 DEF EthInv, EthTypeOK
<1>4. HeldIsOwned' /\ LeftIsBlocked' /\ Quiet' /\ NoLeaseWithoutLink' /\ Registers'
  BY <1>1 DEF EthInv, HeldIsOwned, LeftIsBlocked, Quiet, NoLeaseWithoutLink, Registers
<1>5. TimerKnown'
  BY <1>1, <1>2 DEF EthInv, TimerKnown
<1>6. StartIsFirst' /\ EthLeaseIsLast' /\ DisarmedInTime'
  BY <1>1, <1>2
  DEF EthInv, StartIsFirst, EthLeaseIsLast, DisarmedInTime, Disarmed, TimerKnown
<1>7. QED
  BY <1>3, <1>4, <1>5, <1>6 DEF EthInv

LEMMA ReleaseAllInv ==
  ASSUME EthInv, ReleaseAll
  PROVE  EthInv'
<1>1. call = "release" /\ call' = "undone" /\ GiveBack(held, GivenBack) /\ handle' = FALSE
      /\ UNCHANGED << eth_timeout_cb, inits, ok, timer, commands, lost, cable, ethLease,
                      conn_info, addressed, timedOut >>
  BY DEF ReleaseAll, network, callbacks
<1>2. /\ GivenBack \ { "netif" } \subseteq held /\ "mac" \in held /\ "bus" \in held
      /\ held \cap GivenBack \subseteq GivenBack /\ held \subseteq held \cup { "glue" }
      /\ GivenBack \subseteq GivenBack /\ held \subseteq held
      /\ "mac" \notin left /\ "loop" \in GivenBack
  BY <1>1, BehindDriver DEF EthInv, LeftIsBlocked
<1>3. /\ held' = {} /\ missing' = {} /\ left' \subseteq Resource
      /\ "tcpip" \notin left' /\ "loop" \notin left' /\ "netif" \notin left'
      /\ ("bus" \in left' <=> "mac" \in left')
      /\ "mac" \in left'
  BY <1>1, <1>2, GivenBackTo
<1>4. ethEvents' = << >> /\ registered' = {}
  BY <1>1, <1>2 DEF GiveBack
<1>5. cable' = "stopped" /\ ethLease' = NoEthAddress
  BY <1>1 DEF EthInv, NoLeaseWithoutLink, EthTypeOK
<1>6. EthTypeOK'
  <2>1. ethEvents' \in Seq(EthEvent) /\ Len(ethEvents') <= MaxEthEvents
    BY <1>4, EmptyQueueNext, KnxEthernetAssumption
  <2>2. handle' \in BOOLEAN
    BY <1>1
  <2>3. QED
    BY <1>1, <1>3, <1>4, <2>1, <2>2 DEF EthInv, EthTypeOK
<1>7. HeldIsOwned' /\ LeftIsBlocked' /\ Registers'
  BY <1>1, <1>3, <1>4 DEF HeldIsOwned, LeftIsBlocked, Registers
<1>8. TimerKnown'
  BY <1>1, <1>3 DEF TimerKnown
<1>9. ok /\ ~lost => Doomed'
  BY <1>1 DEF EthInv, TimerKnown, Doomed
<1>10. QED
  BY <1>1, <1>4, <1>5, <1>6, <1>7, <1>8, <1>9, Calm

-----------------------------------------------------------------------------
\* What happens in the background leaves the caller and the resources alone.
LEMMA BackgroundKeeps ==
  ASSUME EthInv, UNCHANGED << caller, resources >>, call \in Running,
         EthTypeOK', NoLeaseWithoutLink', StartIsFirst', EthLeaseIsLast', TimerKnown',
         DisarmedInTime'
  PROVE  EthInv'
<1>1. UNCHANGED << call, eth_timeout_cb, inits, ok, held, left, missing, registered >>
  BY DEF caller, resources
<1>2. HeldIsOwned' /\ LeftIsBlocked' /\ Quiet' /\ Registers'
  BY <1>1 DEF EthInv, HeldIsOwned, LeftIsBlocked, Quiet, Registers
<1>3. QED
  BY <1>2 DEF EthInv

LEMMA CableUpInv ==
  ASSUME EthInv, cable = "down", cable' = "up", UNCHANGED ethLease,
         PostEth([ id |-> "connected" ]),
         UNCHANGED << caller, resources, timing, callbacks >>
  PROVE  EthInv'
<1> DEFINE e == [ id |-> "connected" ]
<1>1. UNCHANGED << call, eth_timeout_cb, inits, ok, held, left, missing, registered,
                   conn_info, addressed, timedOut >>
  BY DEF caller, resources, callbacks
<1>2. /\ call \in { "up", "give_up", "delete_timer", "stop" }
      /\ "loop" \in held /\ e \in EthEvent /\ e.id = "connected"
      /\ ethLease = NoEthAddress
  BY DEF EthInv, NoLeaseWithoutLink, HeldIsOwned, EthEvent
<1>3. /\ ethEvents' \in Seq(EthEvent) /\ Len(ethEvents') = Len(ethEvents) + 1
      /\ Len(ethEvents') <= MaxEthEvents /\ ethEvents' # << >>
      /\ ethEvents'[Len(ethEvents) + 1] = e
      /\ \A i \in 1 .. Len(ethEvents) : ethEvents'[i] = ethEvents[i]
  BY <1>2, EthPosted DEF EthInv
<1>4. Len(ethEvents) \in Nat
  BY LenProperties DEF EthInv, EthTypeOK
<1>5. /\ UNCHANGED << handle, timer, commands, lost >>
      /\ Doomed' = Doomed /\ Stopping' = Stopping
  BY TimingKept
<1>6. EthTypeOK' /\ TimerKnown'
  <2>1. EthTypeOK'
    BY <1>1, <1>3, <1>5 DEF EthInv, EthTypeOK
  <2>2. TimerKnown'
    BY <1>1, <1>5 DEF EthInv, TimerKnown
  <2>3. QED
    BY <2>1, <2>2
<1>7. NoLeaseWithoutLink' /\ EthLeaseIsLast'
  BY <1>1, <1>2 DEF NoLeaseWithoutLink, EthLeaseIsLast
<1>8. StartIsFirst'
  BY <1>2, <1>3, <1>4 DEF EthInv, StartIsFirst
<1>9. DisarmedInTime'
  <2>1. Disarmed => Disarmed'
    BY <1>2, <1>3, <1>4, <1>5 DEF Disarmed
  <2>2. LinkToCome => LinkToCome'
    <3> SUFFICES ASSUME LinkToCome PROVE LinkToCome'
      OBVIOUS
    <3>1. ethEvents'[Len(ethEvents')].id = "connected"
          /\ Len(ethEvents') \in 1 .. Len(ethEvents')
      BY <1>2, <1>3, <1>4
    <3>2. ASSUME NEW i \in 1 .. Len(ethEvents'), ethEvents'[i].id = "got_ip"
          PROVE  \E j \in 1 .. i - 1 : ethEvents'[j].id = "connected"
      <4>1. i \in 1 .. Len(ethEvents) /\ ethEvents[i].id = "got_ip"
        BY <1>2, <1>3, <1>4, <3>2
      <4>2. PICK j \in 1 .. i - 1 : ethEvents[j].id = "connected"
        BY <4>1 DEF LinkToCome
      <4>3. j \in 1 .. Len(ethEvents) /\ ethEvents'[j].id = "connected"
        BY <1>3, <1>4, <4>1, <4>2
      <4>4. QED
        BY <4>2, <4>3
    <3>3. QED
      BY <1>1, <3>1, <3>2 DEF LinkToCome
  <2>3. QED
    BY <1>1, <1>5, <2>1, <2>2 DEF EthInv, DisarmedInTime
<1>10. QED
  BY <1>2, <1>6, <1>7, <1>8, <1>9, BackgroundKeeps

LEMMA CableDownInv ==
  ASSUME EthInv, cable = "up", cable' = "down", ethLease' = NoEthAddress,
         PostEth([ id |-> "disconnected" ]),
         UNCHANGED << caller, resources, timing, callbacks >>
  PROVE  EthInv'
<1> DEFINE e == [ id |-> "disconnected" ]
<1>1. UNCHANGED << call, eth_timeout_cb, inits, ok, held, left, missing, registered,
                   conn_info, addressed, timedOut >>
  BY DEF caller, resources, callbacks
<1>2. /\ call \in { "up", "give_up", "delete_timer", "stop" }
      /\ "loop" \in held /\ e \in EthEvent /\ e.id = "disconnected"
  BY DEF EthInv, NoLeaseWithoutLink, HeldIsOwned, EthEvent
<1>3. /\ ethEvents' \in Seq(EthEvent) /\ Len(ethEvents') = Len(ethEvents) + 1
      /\ Len(ethEvents') <= MaxEthEvents /\ ethEvents' # << >>
      /\ ethEvents'[Len(ethEvents) + 1] = e
      /\ \A i \in 1 .. Len(ethEvents) : ethEvents'[i] = ethEvents[i]
  BY <1>2, EthPosted DEF EthInv
<1>4. Len(ethEvents) \in Nat
  BY LenProperties DEF EthInv, EthTypeOK
<1>5. /\ UNCHANGED << handle, timer, commands, lost >>
      /\ Doomed' = Doomed /\ Stopping' = Stopping
  BY TimingKept
<1>6. EthTypeOK' /\ TimerKnown'
  <2>1. EthTypeOK'
    BY <1>1, <1>3, <1>5 DEF EthInv, EthTypeOK
  <2>2. TimerKnown'
    BY <1>1, <1>5 DEF EthInv, TimerKnown
  <2>3. QED
    BY <2>1, <2>2
<1>7. NoLeaseWithoutLink' /\ EthLeaseIsLast'
  BY <1>1, <1>2 DEF NoLeaseWithoutLink, EthLeaseIsLast
<1>8. StartIsFirst'
  BY <1>2, <1>3, <1>4 DEF EthInv, StartIsFirst
<1>9. DisarmedInTime'
  <2>1. Disarmed => Disarmed'
    BY <1>2, <1>3, <1>4, <1>5 DEF Disarmed
  <2>2. LinkToCome => LinkToCome'
    <3> SUFFICES ASSUME LinkToCome PROVE LinkToCome'
      OBVIOUS
    <3>1. ASSUME NEW i \in 1 .. Len(ethEvents'), ethEvents'[i].id = "got_ip"
          PROVE  \E j \in 1 .. i - 1 : ethEvents'[j].id = "connected"
      <4>1. i \in 1 .. Len(ethEvents) /\ ethEvents[i].id = "got_ip"
        BY <1>2, <1>3, <1>4, <3>1
      <4>2. PICK j \in 1 .. i - 1 : ethEvents[j].id = "connected"
        BY <4>1 DEF LinkToCome
      <4>3. j \in 1 .. Len(ethEvents) /\ ethEvents'[j].id = "connected"
        BY <1>3, <1>4, <4>1, <4>2
      <4>4. QED
        BY <4>2, <4>3
    <3>2. QED
      BY <1>1, <3>1 DEF LinkToCome
  <2>3. QED
    BY <1>1, <1>5, <2>1, <2>2 DEF EthInv, DisarmedInTime
<1>10. QED
  BY <1>2, <1>6, <1>7, <1>8, <1>9, BackgroundKeeps

LEMMA EthLeasedInv ==
  ASSUME EthInv, NEW l \in EthLeases, EthLeased(l),
         UNCHANGED << caller, resources, timing, callbacks >>
  PROVE  EthInv'
<1> DEFINE e == EthGotIp(l)
<1>1. /\ cable = "up" /\ cable' = "up" /\ ethLease' = l /\ PostEth(e)
      /\ UNCHANGED << call, eth_timeout_cb, inits, ok, held, left, missing, registered,
                      conn_info, addressed, timedOut >>
  BY DEF EthLeased, caller, resources, callbacks
<1>2. /\ call \in { "up", "give_up", "delete_timer", "stop" }
      /\ "loop" \in held /\ e \in EthEvent /\ e.id = "got_ip"
  BY <1>1
  DEF EthInv, NoLeaseWithoutLink, HeldIsOwned, EthEvent, EthGotIp
<1>3. /\ ethEvents' \in Seq(EthEvent) /\ Len(ethEvents') = Len(ethEvents) + 1
      /\ Len(ethEvents') <= MaxEthEvents /\ ethEvents' # << >>
      /\ ethEvents'[Len(ethEvents) + 1] = e
      /\ \A i \in 1 .. Len(ethEvents) : ethEvents'[i] = ethEvents[i]
  BY <1>1, <1>2, EthPosted DEF EthInv
<1>4. Len(ethEvents) \in Nat
  BY LenProperties DEF EthInv, EthTypeOK
<1>5. /\ UNCHANGED << handle, timer, commands, lost >>
      /\ Doomed' = Doomed /\ Stopping' = Stopping
  BY TimingKept
<1>6. EthTypeOK' /\ TimerKnown'
  <2>1. EthTypeOK'
    BY <1>1, <1>3, <1>5 DEF EthInv, EthTypeOK
  <2>2. TimerKnown'
    BY <1>1, <1>5 DEF EthInv, TimerKnown
  <2>3. QED
    BY <2>1, <2>2
<1>7. NoLeaseWithoutLink' /\ EthLeaseIsLast'
  BY <1>1, <1>2, <1>3 DEF NoLeaseWithoutLink, EthLeaseIsLast, LastEth
<1>8. StartIsFirst'
  BY <1>2, <1>3, <1>4 DEF EthInv, StartIsFirst
<1>9. DisarmedInTime'
  <2>1. Disarmed => Disarmed'
    BY <1>2, <1>3, <1>4, <1>5 DEF Disarmed
  <2>2. LinkToCome => LinkToCome'
    <3> SUFFICES ASSUME LinkToCome PROVE LinkToCome'
      OBVIOUS
    <3>1. PICK c \in 1 .. Len(ethEvents) : ethEvents[c].id = "connected"
      BY <1>1 DEF LinkToCome
    <3>2. ethEvents'[c].id = "connected" /\ c \in 1 .. Len(ethEvents')
      BY <1>3, <1>4, <3>1
    <3>3. ASSUME NEW i \in 1 .. Len(ethEvents'), ethEvents'[i].id = "got_ip"
          PROVE  \E j \in 1 .. i - 1 : ethEvents'[j].id = "connected"
      <4>1. CASE i = Len(ethEvents')
        BY <1>3, <1>4, <3>1, <3>2, <4>1
      <4>2. CASE i # Len(ethEvents')
        <5>1. i \in 1 .. Len(ethEvents) /\ ethEvents[i].id = "got_ip"
          BY <1>3, <1>4, <3>3, <4>2
        <5>2. PICK j \in 1 .. i - 1 : ethEvents[j].id = "connected"
          BY <5>1 DEF LinkToCome
        <5>3. j \in 1 .. Len(ethEvents) /\ ethEvents'[j].id = "connected"
          BY <1>3, <1>4, <5>1, <5>2
        <5>4. QED
          BY <5>2, <5>3
      <4>3. QED
        BY <4>1, <4>2
    <3>4. QED
      BY <1>1, <3>2, <3>3 DEF LinkToCome
  <2>3. QED
    BY <1>1, <1>5, <2>1, <2>2 DEF EthInv, DisarmedInTime
<1>10. QED
  BY <1>2, <1>6, <1>7, <1>8, <1>9, BackgroundKeeps

-----------------------------------------------------------------------------
\* The timer task: a timer that is stopped or doomed stays it.
LEMMA TimerTaskInv ==
  ASSUME EthInv, TimerCommand \/ TimerExpires
  PROVE  EthInv'
<1>1. /\ UNCHANGED << call, eth_timeout_cb, inits, ok, held, left, missing, registered,
                      handle, lost, cable, ethLease, ethEvents, conn_info, addressed >>
      /\ timedOut' = TRUE \/ timedOut' = timedOut
  BY DEF TimerCommand, TimerExpires, caller, resources, network, callbacks
<1>2. /\ timer' \in { "idle", "armed", "deleted" }
      /\ commands' \in Seq(Commands) /\ Len(commands') <= MaxCommands
      /\ Doomed => Doomed'
      /\ Stopping => Stopping' \/ Doomed'
      /\ timer # "none" \/ commands # << >>
  BY TimerTask DEF EthInv
<1>3. EthTypeOK'
  <2>1. timedOut' \in BOOLEAN
    <3>1. timedOut \in BOOLEAN
      BY DEF EthInv, EthTypeOK
    <3>2. QED
      BY <1>1, <3>1, Zenon
  <2>2. QED
    BY <1>1, <1>2, <2>1 DEF EthInv, EthTypeOK, Commands
<1>4. HeldIsOwned' /\ LeftIsBlocked' /\ Quiet' /\ NoLeaseWithoutLink' /\ Registers'
  BY <1>1 DEF EthInv, HeldIsOwned, LeftIsBlocked, Quiet, NoLeaseWithoutLink, Registers
<1>5. StartIsFirst' /\ EthLeaseIsLast'
  BY <1>1 DEF EthInv, StartIsFirst, EthLeaseIsLast, LastEth
<1>6. TimerKnown'
  BY <1>1, <1>2 DEF EthInv, TimerKnown
<1>7. DisarmedInTime'
  BY <1>1, <1>2 DEF EthInv, DisarmedInTime, Disarmed, LinkToCome
<1>8. QED
  BY <1>3, <1>4, <1>5, <1>6, <1>7 DEF EthInv

-----------------------------------------------------------------------------
\* The event loop task.
\* Behind the first event there is no start.
LEMMA TailOfQueue ==
  ASSUME EthInv, Takes
  PROVE  /\ call \in Running
         /\ StartIsFirst'
         /\ \A k \in 1 .. Len(ethEvents') : ethEvents'[k].id # "start"
<1>1. /\ Len(ethEvents') = Len(ethEvents) - 1 /\ Len(ethEvents) \in Nat
      /\ \A k \in 1 .. Len(ethEvents') : ethEvents'[k] = ethEvents[k + 1]
  BY EventTaken DEF EthInv
<1>2. ASSUME NEW k \in 1 .. Len(ethEvents')
      PROVE  ethEvents'[k].id # "start"
  <2>1. k + 1 \in 1 .. Len(ethEvents) /\ ethEvents'[k] = ethEvents[k + 1] /\ k + 1 # 1
    BY <1>1
  <2>2. QED
    BY <2>1 DEF EthInv, StartIsFirst
<1>3. QED
  BY <1>2 DEF EthInv, Quiet, Takes, StartIsFirst

LEMMA EthHandlerInv ==
  ASSUME EthInv, eth_event_handler, UNCHANGED << caller, resources, network >>
  PROVE  EthInv'
<1> DEFINE cs == IF Head(ethEvents).id = "start" THEN << "stop", "start" >> ELSE << "stop" >>
<1>1. Takes /\ Head(ethEvents).id # "got_ip" /\ Command(cs) /\ UNCHANGED << handle, timer >>
  BY DEF eth_event_handler, NextEthEvent, Takes
<1>2. UNCHANGED << call, eth_timeout_cb, inits, ok, held, left, missing, registered,
                   cable, ethLease, conn_info, addressed, timedOut >>
  BY DEF eth_event_handler, caller, resources, network, callbacks
<1>3. /\ ethEvents' \in Seq(EthEvent) /\ Len(ethEvents') = Len(ethEvents) - 1
      /\ Len(ethEvents) \in Nat /\ Len(ethEvents) >= 1
      /\ Head(ethEvents) = ethEvents[1]
      /\ \A k \in 1 .. Len(ethEvents') : ethEvents'[k] = ethEvents[k + 1]
      /\ (ethEvents' = << >>) <=> (Len(ethEvents) = 1)
      /\ ethEvents' # << >> => LastEth' = LastEth
      /\ ethEvents # << >>
  BY <1>1, EventTaken DEF EthInv, Takes
<1>4. /\ call \in Running /\ StartIsFirst'
      /\ \A k \in 1 .. Len(ethEvents') : ethEvents'[k].id # "start"
  BY <1>1, TailOfQueue
<1>5. /\ cs \in { << "delete" >>, << "stop" >>, << "stop", "start" >> }
      /\ ethEvents[1].id # "start" => cs[Len(cs)] = "stop"
  <2>1. << "stop" >>[Len(<< "stop" >>)] = "stop"
    OBVIOUS
  <2>2. CASE ethEvents[1].id = "start"
    BY <1>3, <2>2
  <2>3. CASE ethEvents[1].id # "start"
    BY <1>3, <2>1, <2>3
  <2>4. QED
    BY <2>2, <2>3
<1> HIDE DEF cs
<1>6. /\ commands' \in Seq(Commands) /\ Len(commands') <= MaxCommands
      /\ lost' \in BOOLEAN
      /\ ~lost' => ~lost
      /\ ~handle => commands' = commands /\ lost' = lost
      /\ Doomed => Doomed'
      /\ handle /\ ~lost' => /\ Len(commands') >= 1
                             /\ commands'[Len(commands')] = cs[Len(cs)]
  <2>1. EthTypeOK /\ (handle => timer # "none")
    BY DEF EthInv, TimerKnown
  <2>2. QED
    BY <1>1, <1>5, <2>1, Commanded
<1>7. EthTypeOK'
  <2>1. Len(ethEvents') <= MaxEthEvents
    BY <1>3, KnxEthernetAssumption DEF EthInv, EthTypeOK
  <2>2. QED
    BY <1>1, <1>2, <1>3, <1>6, <2>1 DEF EthInv, EthTypeOK, Commands
<1>8. TimerKnown'
  BY <1>1, <1>2, <1>4, <1>6 DEF EthInv, TimerKnown
<1>9. NoLeaseWithoutLink'
  BY <1>2 DEF EthInv, NoLeaseWithoutLink
<1>10. EthLeaseIsLast'
  <2>1. call = "up" /\ ethLease # NoEthAddress => LastEth.id = "got_ip"
    BY <1>3 DEF EthInv, EthLeaseIsLast, EthGotIp
  <2>2. Len(ethEvents) = 1 => LastEth = ethEvents[1]
    BY DEF LastEth
  <2>3. QED
    BY <1>1, <1>2, <1>3, <2>1, <2>2 DEF EthInv, EthLeaseIsLast
<1>11. DisarmedInTime'
  <2> SUFFICES ASSUME ok, ~lost' PROVE Disarmed' \/ LinkToCome'
    BY <1>2 DEF DisarmedInTime
  <2>1. ~lost
    BY <1>6
  <2>2. CASE Doomed
    BY <1>6, <2>2 DEF Disarmed
  <2>3. CASE ~handle
    BY <1>4, <1>6, <2>3 DEF EthInv, TimerKnown, Doomed, Disarmed
  <2>4. CASE handle /\ ethEvents[1].id # "start"
    <3>1. commands' # << >>
      BY <1>6, <2>4, EmptySeq
    <3>2. QED
      BY <1>4, <1>5, <1>6, <2>4, <3>1 DEF Disarmed, Stopping
  <2>5. CASE ~Doomed /\ ethEvents[1].id = "start"
    <3>1. LinkToCome
      BY <1>3, <2>1, <2>5 DEF EthInv, DisarmedInTime, Disarmed
    <3>2. ASSUME NEW j \in 1 .. Len(ethEvents), ethEvents[j].id = "connected"
          PROVE  j - 1 \in 1 .. Len(ethEvents') /\ ethEvents'[j - 1].id = "connected"
      <4>1. j # 1
        BY <2>5, <3>2
      <4>2. j - 1 \in 1 .. Len(ethEvents') /\ (j - 1) + 1 = j
        BY <1>3, <4>1
      <4>3. ethEvents'[j - 1] = ethEvents[(j - 1) + 1]
        BY <1>3, <4>2
      <4>4. QED
        BY <3>2, <4>2, <4>3
    <3>3. cable' = "up" => \E j \in 1 .. Len(ethEvents') : ethEvents'[j].id = "connected"
      BY <1>2, <3>1, <3>2 DEF LinkToCome
    <3>4. ASSUME NEW i \in 1 .. Len(ethEvents'), ethEvents'[i].id = "got_ip"
          PROVE  \E j \in 1 .. i - 1 : ethEvents'[j].id = "connected"
      <4>1. i + 1 \in 1 .. Len(ethEvents) /\ ethEvents[i + 1].id = "got_ip"
        BY <1>3, <3>4
      <4>2. PICK j \in 1 .. (i + 1) - 1 : ethEvents[j].id = "connected"
        BY <3>1, <4>1 DEF LinkToCome
      <4>3. j \in 1 .. Len(ethEvents)
        BY <4>1, <4>2
      <4>4. j - 1 \in 1 .. Len(ethEvents') /\ ethEvents'[j - 1].id = "connected"
        BY <3>2, <4>2, <4>3
      <4>5. j - 1 \in 1 .. i - 1
        BY <1>3, <4>2, <4>4
      <4>6. QED
        BY <4>4, <4>5
    <3>5. QED
      BY <1>2, <3>1, <3>3, <3>4 DEF LinkToCome
  <2>6. QED
    BY <2>2, <2>3, <2>4, <2>5
<1>12. QED
  BY <1>4, <1>7, <1>8, <1>9, <1>10, <1>11, BackgroundKeeps

LEMMA IpHandlerInv ==
  ASSUME EthInv, got_ip_event_handler, UNCHANGED << caller, resources, network >>
  PROVE  EthInv'
<1>1. Takes /\ Head(ethEvents).id = "got_ip" /\ conn_info' = Head(ethEvents).ip
      /\ addressed' \in BOOLEAN /\ UNCHANGED timing
      /\ UNCHANGED << call, eth_timeout_cb, inits, ok, held, left, missing, registered,
                      cable, ethLease, timedOut >>
  BY DEF got_ip_event_handler, NextEthEvent, Takes, caller, resources, network
<1>2. /\ ethEvents' \in Seq(EthEvent) /\ Len(ethEvents') = Len(ethEvents) - 1
      /\ Len(ethEvents) \in Nat /\ Len(ethEvents) >= 1
      /\ Head(ethEvents) = ethEvents[1] /\ ethEvents[1] \in EthEvent
      /\ (ethEvents' = << >>) <=> (Len(ethEvents) = 1)
      /\ ethEvents' # << >> => LastEth' = LastEth
      /\ ethEvents # << >>
  BY <1>1, EventTaken DEF EthInv, Takes
<1>3. /\ call \in Running /\ StartIsFirst'
      /\ \A k \in 1 .. Len(ethEvents') : ethEvents'[k].id # "start"
  BY <1>1, TailOfQueue
<1>4. conn_info' = ethEvents[1].ip /\ ethEvents[1].ip \in EthLeases
  BY <1>1, <1>2, EthEventIds
<1>5. /\ UNCHANGED << handle, timer, commands, lost >>
      /\ Doomed' = Doomed /\ Stopping' = Stopping
  BY <1>1, TimingKept
<1>6. EthTypeOK'
  <2>1. Len(ethEvents') <= MaxEthEvents
    BY <1>2, KnxEthernetAssumption DEF EthInv, EthTypeOK
  <2>2. QED
    BY <1>1, <1>2, <1>4, <1>5, <2>1 DEF EthInv, EthTypeOK
<1>7. NoLeaseWithoutLink' /\ TimerKnown'
  BY <1>1, <1>5 DEF EthInv, NoLeaseWithoutLink, TimerKnown
<1>8. EthLeaseIsLast'
  <2>1. call = "up" /\ ethLease # NoEthAddress => LastEth = EthGotIp(ethLease)
    BY <1>2 DEF EthInv, EthLeaseIsLast
  <2>2. Len(ethEvents) = 1 => LastEth = ethEvents[1]
    BY DEF LastEth
  <2>3. EthGotIp(ethLease).ip = ethLease
    BY DEF EthGotIp
  <2>4. QED
    BY <1>1, <1>2, <1>4, <2>1, <2>2, <2>3 DEF EthLeaseIsLast, EthGotIp
<1>9. DisarmedInTime'
  <2> SUFFICES ASSUME ok, ~lost PROVE Disarmed'
    BY <1>1, <1>5 DEF DisarmedInTime
  <2>1. ~LinkToCome
    <3>1. 1 \in 1 .. Len(ethEvents) /\ ethEvents[1].id = "got_ip"
      BY <1>1, <1>2
    <3>2. QED
      BY <3>1 DEF LinkToCome
  <2>2. Disarmed
    BY <2>1 DEF EthInv, DisarmedInTime
  <2>3. QED
    BY <1>3, <1>5, <2>2 DEF Disarmed
<1>10. QED
  BY <1>1, <1>3, <1>6, <1>7, <1>8, <1>9, BackgroundKeeps

LEMMA NoHandlerInv ==
  ASSUME EthInv, NoHandler, UNCHANGED << caller, resources, network >>
  PROVE  EthInv'
<1>1. Takes /\ UNCHANGED timing
      /\ UNCHANGED << call, eth_timeout_cb, inits, ok, held, left, missing, registered,
                      cable, ethLease, conn_info, addressed, timedOut >>
  BY DEF NoHandler, Takes, caller, resources, network, callbacks
<1>2. ethEvents' \in Seq(EthEvent) /\ Len(ethEvents') = Len(ethEvents) - 1
      /\ Len(ethEvents) \in Nat
  BY <1>1, EventTaken DEF EthInv
<1>3. call \in Running /\ StartIsFirst' /\ registered # EthHandler
  BY <1>1, TailOfQueue DEF NoHandler, EthHandler
<1>4. UNCHANGED << handle, timer, commands, lost >> /\ Doomed' = Doomed
  BY <1>1, TimingKept
<1>5. EthTypeOK'
  <2>1. Len(ethEvents') <= MaxEthEvents
    BY <1>2, KnxEthernetAssumption DEF EthInv, EthTypeOK
  <2>2. QED
    BY <1>1, <1>2, <1>4, <2>1 DEF EthInv, EthTypeOK
<1>6. ok => call = "release"
  BY <1>3 DEF EthInv, Registers
<1>7. NoLeaseWithoutLink' /\ EthLeaseIsLast' /\ TimerKnown'
  BY <1>1, <1>4, <1>6 DEF EthInv, NoLeaseWithoutLink, EthLeaseIsLast, Registers, TimerKnown
<1>8. DisarmedInTime'
  BY <1>1, <1>4, <1>6 DEF EthInv, TimerKnown, DisarmedInTime, Disarmed
<1>9. QED
  BY <1>1, <1>3, <1>5, <1>7, <1>8, BackgroundKeeps

-----------------------------------------------------------------------------
LEMMA InitStagesInv ==
  ASSUME EthInv, lanw5500_init
  PROVE  EthInv'
<1>1. CASE esp_netif_init
  BY <1>1, TakeOrFailInv DEF esp_netif_init
<1>2. CASE create_event_loop
  BY <1>2, TakeOrFailInv DEF create_event_loop
<1>3. CASE spi_bus_initialize
  BY <1>3, TakeOrFailInv DEF spi_bus_initialize
<1>4. CASE esp_eth_driver_install
  BY <1>4, TakeOrFailInv DEF esp_eth_driver_install
<1>5. CASE esp_netif_new
  BY <1>5, TakeSomeInv DEF esp_netif_new
<1>6. CASE esp_eth_new_w5500
  BY <1>6, TakeSomeInv DEF esp_eth_new_w5500
<1>7. QED
  BY <1>1, <1>2, <1>3, <1>4, <1>5, <1>6, SetMacAddressInv, AttachInv, RegisterInv,
     TimerCreateInv, StartInv, GiveUpInv
  DEF lanw5500_init

LEMMA EthNextInv == EthInv /\ [EthNext]_ethVars => EthInv'
<1> SUFFICES ASSUME EthInv, [EthNext]_ethVars PROVE EthInv'
  OBVIOUS
<1>1. CASE \E cb \in BOOLEAN : Begin(cb)
  BY <1>1, BeginInv
<1>2. CASE Undo
  BY <1>2, UndoInv
<1>3. CASE Caller
  BY <1>3, InitStagesInv, TimerDeleteInv, StopInv, UnregisterInv, ReleaseAllInv
  DEF Caller, lanw5500_deinit
<1>4. CASE NetworkStep
  BY <1>4, CableUpInv, CableDownInv, EthLeasedInv DEF NetworkStep, CableChanges
<1>5. CASE TimerCommand \/ TimerExpires
  BY <1>5, TimerTaskInv
<1>6. CASE EventLoop
  BY <1>6, EthHandlerInv, IpHandlerInv, NoHandlerInv DEF EventLoop
<1>7. CASE UNCHANGED ethVars
  BY <1>7
  DEF ethVars, caller, resources, timing, network, callbacks, EthInv, EthTypeOK,
      HeldIsOwned, LeftIsBlocked, Quiet, NoLeaseWithoutLink, Registers, Doomed, TimerKnown,
      StartIsFirst, LastEth, EthLeaseIsLast, Stopping, Disarmed, LinkToCome, DisarmedInTime
<1>8. QED
  BY <1>1, <1>2, <1>3, <1>4, <1>5, <1>6, <1>7 DEF EthNext, Background

LEMMA EthInvariant == EthSpec => []EthInv
  BY EthInitInv, EthNextInv, PTL DEF EthSpec

\* Every variable keeps its type.
THEOREM EthTypeCorrect == EthSpec => []EthTypeOK
  BY EthInvariant, PTL DEF EthInv

\* Wherever lanw5500_init fails, and after lanw5500_deinit, everything has been
\* given back but the mac, the phy, the driver and the glue, and the bus if a mac is
\* on it; and nothing that was not held.
THEOREM GivenBackButTheDriver == EthSpec => []GivesBackWhatItTook
<1>1. EthInv => GivesBackWhatItTook
  <2> SUFFICES ASSUME EthInv PROVE GivesBackWhatItTook
    OBVIOUS
  <2>1. left \subseteq Resource /\ missing = {}
        /\ (call \in { "failed", "undone" } => registered = {})
    BY DEF EthInv, EthTypeOK, HeldIsOwned, Registers
  <2>2. "tcpip" \notin left /\ "loop" \notin left /\ "netif" \notin left
        /\ ("bus" \in left <=> "mac" \in left)
    BY DEF EthInv, LeftIsBlocked
  <2>3. QED
    BY <2>1, <2>2 DEF GivesBackWhatItTook, Resource
<1>2. QED
  BY <1>1, EthInvariant, PTL

\* A mac that a call has left on the bus keeps every later call of lanw5500_init
\* from succeeding: after lanw5500_deinit the interface cannot be started again.
THEOREM LeftMacBlocks == EthSpec => []LeftMacBlocksInit
<1>1. EthInv => LeftMacBlocksInit
  BY DEF EthInv, LeftIsBlocked, LeftMacBlocksInit
<1>2. QED
  BY <1>1, EthInvariant, PTL

\* Once the handlers have caught up, conn_info names the address of the interface.
THEOREM ConnInfoCurrent == EthSpec => []ConnInfoIsCurrent
<1>1. EthInv => ConnInfoIsCurrent
  BY DEF EthInv, EthLeaseIsLast, ConnInfoIsCurrent
<1>2. QED
  BY <1>1, EthInvariant, PTL

\* No time-out is reported after an address, unless the command to stop or to
\* delete the timer still waits for the timer task or was lost on the way.
THEOREM NoLateTimeout == EthSpec => TimeoutBeforeAddress
<1> DEFINE A == timedOut' /\ ~timedOut /\ ok /\ ~lost =>
                  ~addressed \/ \E i \in 1 .. Len(commands) :
                                  commands[i] \in { "stop", "delete" }
<1>1. EthInv /\ [EthNext]_ethVars => [A]_ethVars
  <2> SUFFICES ASSUME EthInv, [EthNext]_ethVars, timedOut', ~timedOut, ok, ~lost, addressed
               PROVE  \E i \in 1 .. Len(commands) : commands[i] \in { "stop", "delete" }
    OBVIOUS
  <2>1. TimerExpires
    BY DEF ethVars, caller, callbacks, EthNext, Begin, Undo, Caller, lanw5500_init,
       lanw5500_deinit, esp_netif_init, create_event_loop, esp_netif_new,
       spi_bus_initialize, esp_eth_new_w5500, esp_eth_driver_install, TakeOrFail, TakeSome,
       SetMacAddress, esp_netif_attach, Register, xTimerCreate, esp_eth_start, GiveUp,
       xTimerDelete, esp_eth_stop, UnregisterHandlers, ReleaseAll, Background, NetworkStep,
       TimerCommand, EventLoop, eth_event_handler, got_ip_event_handler, NoHandler
  <2>2. timer = "armed" /\ Disarmed
    BY <2>1 DEF EthInv, DisarmedInTime, LinkToCome, TimerExpires
  <2>3. CASE Doomed
    BY <2>2, <2>3 DEF Doomed
  <2>4. CASE Stopping
    <3>1. commands # << >> /\ commands[Len(commands)] # "start"
      BY <2>2, <2>4 DEF Stopping
    <3>2. commands \in Seq(Commands)
      BY DEF EthInv, EthTypeOK, Commands
    <3>3. Len(commands) \in 1 .. Len(commands)
      BY <3>1, <3>2, EmptySeq, LenProperties
    <3>4. commands[Len(commands)] \in Commands
      BY <3>2, <3>3, ElementOfSeq
    <3>5. QED
      BY <3>1, <3>3, <3>4 DEF Commands
  <2>5. QED
    BY <2>2, <2>3, <2>4 DEF Disarmed
<1>2. QED
  BY <1>1, EthInvariant, PTL DEF EthSpec, TimeoutBeforeAddress
=============================================================================
