----------------------------- MODULE TunnelExchange -----------------------------
(***************************************************************************)
(* What the gateway promises a client that tunnels a telegram: the telegram *)
(* is put on the bus once, before anything is sent back, and unchanged      *)
(* unless the bus was in use for something else meanwhile or it did not     *)
(* come in whole; it is then confirmed, unless the TCP connection fails.    *)
(***************************************************************************)
CONSTANTS
  Handlers, Telegrams, Nothing, Mixed,
  Complete  \* the telegrams that come in whole

VARIABLES
  phase,      \* phase[h]: "idle", "carrying", "carried" or "confirmed"
  asked,      \* asked[h]: the telegram handler h is asked to put on the bus
  carried,    \* carried[h]: what it has put there, Mixed if not just that
  overlapped  \* overlapped[h]: the bus was in use for something else meanwhile

vars == << phase, asked, carried, overlapped >>

Init ==
  /\ phase = [h \in Handlers |-> "idle"]
  /\ asked = [h \in Handlers |-> Nothing]
  /\ carried = [h \in Handlers |-> Nothing]
  /\ overlapped = [h \in Handlers |-> FALSE]

Goto(h, from, to) == phase[h] = from /\ phase' = [phase EXCEPT ![h] = to]

Ask(h, t) ==
  /\ Goto(h, "idle", "carrying")
  /\ asked' = [asked EXCEPT ![h] = t]
  /\ LET others == { g \in Handlers \ {h} : phase[g] = "carrying" }
     IN  overlapped' = [g \in Handlers |->
                          IF g = h THEN others # {} ELSE overlapped[g] \/ g \in others]
  /\ UNCHANGED carried

\* The receive task answers a poll.
Poll ==
  /\ overlapped' = [h \in Handlers |-> overlapped[h] \/ phase[h] = "carrying"]
  /\ UNCHANGED << phase, asked, carried >>

Carry(h) ==
  /\ Goto(h, "carrying", "carried")
  /\ \E t \in { asked[h] } \cup (IF overlapped[h] \/ asked[h] \notin Complete
                                   THEN { Mixed } ELSE {}) :
       carried' = [carried EXCEPT ![h] = t]
  /\ UNCHANGED << asked, overlapped >>

Confirm(h) ==
  /\ Goto(h, "carried", "confirmed")
  /\ UNCHANGED << asked, carried, overlapped >>

\* A datagram is repeated until it is sent, a TCP connection may fail first.
Finish(h) ==
  /\ Goto(h, "confirmed", "idle") \/ (h = "tcp" /\ Goto(h, "carried", "idle"))
  /\ asked' = [asked EXCEPT ![h] = Nothing]
  /\ carried' = [carried EXCEPT ![h] = Nothing]
  /\ overlapped' = [overlapped EXCEPT ![h] = FALSE]

Answer(h) == Carry(h) \/ Confirm(h) \/ Finish(h)

Next ==
  \/ \E h \in Handlers : Answer(h) \/ \E t \in Telegrams : Ask(h, t)
  \/ Poll

Spec == Init /\ [][Next]_vars

\* A telegram under way is carried and answered.
FairSpec == Spec /\ \A h \in Handlers : WF_vars(Answer(h))
=============================================================================
