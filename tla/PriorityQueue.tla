----------------------------- MODULE PriorityQueue -----------------------------
(***************************************************************************)
(* priority_queue.c: the client sends one message a second, each with a    *)
(* higher priority than the one before; the server sleeps until all are    *)
(* sent, and gets the highest first.  That it does rests on two sleeps     *)
(* only, so the model has a clock, and processes that run late.  The queue *)
(* s2c is opened by both and never used.                                   *)
(***************************************************************************)
EXTENDS Naturals, Sequences, FiniteSetsExt

CONSTANTS
  Iterations,   \* ITERATIONS: 5
  Nap,          \* the seconds the server sleeps: 6
  Second,       \* the ticks of the clock in a second
  MaxLate       \* how many ticks after it could a process takes its step

VARIABLES
  clock,      \* the time
  pc,         \* where each process is
  due,        \* when each process can take its next step
  named,      \* whether mq_open can find c2s
  opened,     \* whether the client's mq_open has found it
  pending,    \* the priorities in c2s
  i,          \* the loop counter of each process
  heard       \* the priorities the server has printed

vars == <<clock, pc, due, named, opened, pending, i, heard>>

Procs == {"client", "server"}

TypeOK ==
  /\ clock \in Nat /\ due \in [Procs -> Nat]
  /\ pc.client \in {"open", "send", "reap", "done"}
  /\ pc.server \in {"open", "receive", "unlink", "done"}
  /\ named \in BOOLEAN /\ opened \in BOOLEAN
  /\ pending \in SUBSET (0 .. Iterations - 1)
  /\ i \in [Procs -> 0 .. Iterations]
  /\ heard \in Seq(0 .. Iterations - 1) /\ Len(heard) = i.server

\* main() after fork
Init ==
  /\ clock = 0
  /\ pc = [p \in Procs |-> "open"]
  /\ due = [client |-> Second, server |-> 0]
  /\ named = FALSE /\ opened = FALSE /\ pending = {}
  /\ i = [p \in Procs |-> 0] /\ heard = << >>

\* p goes on, and can take its next step `ticks' later.
Goto(p, from, to, ticks) ==
  /\ pc[p] = from /\ clock >= due[p]
  /\ pc' = [pc EXCEPT ![p] = to]
  /\ due' = [due EXCEPT ![p] = clock + ticks]
  /\ UNCHANGED clock

-------------------------------------------------------------------------------
(* run_server                                                              *)

\* Mutant: the server sleeps as long as the client sends.
ServerOpenShort ==
  /\ Goto("server", "open", "receive", (Nap - 1) * Second)
  /\ named' = TRUE
  /\ UNCHANGED <<opened, pending, i, heard>>

\* mq_open(MQ_NAME_C2S, O_RDONLY | O_CREAT), sleep(6)
ServerOpen ==
  /\ Goto("server", "open", "receive", Nap * Second)
  /\ named' = TRUE
  /\ UNCHANGED <<opened, pending, i, heard>>

\* Mutant: the loop condition is i <= ITERATIONS.
ServerReceiveLate ==
  /\ pending # {}
  /\ Goto("server", "receive", IF i.server < Iterations THEN "receive" ELSE "unlink", 0)
  /\ heard' = Append(heard, Max(pending))
  /\ pending' = pending \ {Max(pending)}
  /\ i' = [i EXCEPT !.server = @ + 1]
  /\ UNCHANGED <<named, opened>>

\* mq_receive() gives the message of the highest priority.
ServerReceive ==
  /\ pending # {}
  /\ Goto("server", "receive", IF i.server + 1 < Iterations THEN "receive" ELSE "unlink", 0)
  /\ heard' = Append(heard, Max(pending))
  /\ pending' = pending \ {Max(pending)}
  /\ i' = [i EXCEPT !.server = @ + 1]
  /\ UNCHANGED <<named, opened>>

ServerUnlink ==
  /\ Goto("server", "unlink", "done", 0)
  /\ named' = FALSE
  /\ UNCHANGED <<opened, pending, i, heard>>

-------------------------------------------------------------------------------
(* run_client, and the end of main()                                       *)

\* mq_open(MQ_NAME_C2S, O_WRONLY); nobody looks whether it has failed.
ClientOpen ==
  /\ Goto("client", "open", "send", 0)
  /\ opened' = named
  /\ UNCHANGED <<named, pending, i, heard>>

\* mq_send(c2s, buffer, strlen(buffer), i), sleep(1).  A message into the queue of
\* a server that waits for one can be taken from now on.
ClientSend ==
  /\ pc.client = "send" /\ clock >= due.client
  /\ pc' = [pc EXCEPT !.client = IF i.client + 1 < Iterations THEN "send" ELSE "reap"]
  /\ pending' = IF opened THEN pending \cup {i.client} ELSE pending
  /\ due' = [client |-> clock + Second,
             server |-> IF pending = {} THEN Max({due.server, clock}) ELSE due.server]
  /\ i' = [i EXCEPT !.client = @ + 1]
  /\ UNCHANGED <<clock, named, opened, heard>>

\* wait(NULL)
Reap ==
  /\ pc.server = "done"
  /\ Goto("client", "reap", "done", 0)
  /\ UNCHANGED <<named, opened, pending, i, heard>>

-------------------------------------------------------------------------------

Blocked(p) ==
  \/ pc[p] = "done"
  \/ pc[p] = "receive" /\ pending = {}
  \/ pc[p] = "reap" /\ pc.server # "done"

Tick ==
  /\ \E p \in Procs : ~Blocked(p)
  /\ \A p \in Procs : ~Blocked(p) => clock < due[p] + MaxLate
  /\ clock' = clock + 1
  /\ UNCHANGED <<pc, due, named, opened, pending, i, heard>>

Step ==
  \/ ServerOpen \/ ServerReceive \/ ServerUnlink
  \/ ClientOpen \/ ClientSend \/ Reap

Ended == \A p \in Procs : pc[p] = "done"

-------------------------------------------------------------------------------

\* The server prints the messages from the highest priority to the lowest, as
\* long as what the processes are late by adds up to less than the second by
\* which the server's sleep outlasts the client's sends.
Descending == \A j, k \in DOMAIN heard : j < k => heard[j] > heard[k]

\* The program comes to its end, and each message has been heard once.
EndsWithAll == <>(Ended /\ {heard[k] : k \in DOMAIN heard} = 0 .. Iterations - 1)

\* However late the processes are, the program comes to its end with every
\* message heard, or the client's mq_open came before the server's: then the
\* server waits for a message, and the client for the server, for ever.
HangsOnlyUnopened ==
  \/ EndsWithAll
  \/ <>[](pc.client = "reap" /\ ~opened /\ heard = << >>)
===============================================================================
