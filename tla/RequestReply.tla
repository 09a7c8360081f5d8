------------------------------ MODULE RequestReply ------------------------------
(***************************************************************************)
(* What every client and server pair of lecture-03/ipc promises: the       *)
(* client asks Iterations questions, one at a time; the server hears each  *)
(* of them once and in order; the client hears the answer to the question  *)
(* it has just asked before it asks the next.                              *)
(***************************************************************************)
EXTENDS Naturals, Sequences

CONSTANTS
  Iterations,     \* how many questions the client asks
  Request(_),     \* the text of the i-th question
  Reply(_)        \* the text of the answer to it

VARIABLES
  asked,      \* how many questions the client has asked
  heard,      \* what the server has heard
  answers     \* what the client has heard

vars == <<asked, heard, answers>>

Init == asked = 0 /\ heard = << >> /\ answers = << >>

Ask ==
  /\ asked < Iterations
  /\ asked = Len(answers)
  /\ asked' = asked + 1
  /\ UNCHANGED <<heard, answers>>

Hear ==
  /\ Len(heard) < asked
  /\ heard' = Append(heard, Request(Len(heard)))
  /\ UNCHANGED <<asked, answers>>

Answer ==
  /\ Len(answers) < Len(heard)
  /\ answers' = Append(answers, Reply(Len(answers)))
  /\ UNCHANGED <<asked, heard>>

Next == Ask \/ Hear \/ Answer

Spec == Init /\ [][Next]_vars
===============================================================================
