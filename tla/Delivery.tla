-------------------------------- MODULE Delivery --------------------------------
(***************************************************************************)
(* What tcp.go and udp.go of lecture-07/transport promise: a client sends  *)
(* Total messages, and the server receives them in that order, each at     *)
(* most once; over TCP none is left out.                                   *)
(***************************************************************************)
EXTENDS Naturals, Sequences

CONSTANTS
  Total,      \* how many messages the client sends
  Lossless    \* whether every message is received

VARIABLES
  sent,       \* how many messages the client has sent, or tried to
  received    \* the numbers of the messages received

vars == <<sent, received>>

Init == sent = 0 /\ received = << >>

Send == sent < Total /\ sent' = sent + 1 /\ UNCHANGED received

Receive ==
  \E m \in 0 .. sent - 1 :
    /\ \A k \in DOMAIN received : received[k] < m
    /\ Lossless => m = Len(received)
    /\ received' = Append(received, m)
    /\ UNCHANGED sent

Next == Send \/ Receive

Spec == Init /\ [][Next]_vars
===============================================================================
