----------------------------- MODULE MessageQueues -----------------------------
(***************************************************************************)
(* queue.c, run after run.  Client and server talk through two POSIX       *)
(* message queues that outlive the processes: only a server that comes to  *)
(* its end unlinks them.  The user may interrupt a run at any moment, which*)
(* kills both processes, and start the program again.  The client's        *)
(* sleep(1) is all that makes the server open the queues first; here the   *)
(* client may come too early, and nobody checks what mq_open returns.      *)
(***************************************************************************)
EXTENDS Naturals, Sequences

CONSTANTS
  Iterations,   \* ITERATIONS: 5
  MaxMsg,       \* mq_maxmsg: 10
  MaxRuns       \* how often the program is started

VARIABLES
  run,        \* the number of runs so far
  names,      \* the queues that mq_open can find
  queue,      \* the messages in each queue
  cpc, ci,    \* where the client is ("off" between two runs), and its i
  cfd,        \* the queues that the client has open
  answers,    \* what the client has printed in this run
  spc, si,    \* where the server is, and its i
  heard,      \* what the server has printed in this run
  clean       \* history: did the last run come to its end by itself?

client == <<cpc, ci, cfd, answers>>
server == <<spc, si, heard>>
mqueues == <<names, queue>>
vars == <<run, mqueues, client, server, clean>>

\* "ping server %d"; the number of the run tells the old ones.
Ping(n) == <<run, n>>
Queues == {"c2s", "s2c"}

Texts == (1 .. MaxRuns) \X (0 .. Iterations - 1)

TypeOK ==
  /\ run \in 0 .. MaxRuns
  /\ names \in SUBSET Queues /\ cfd \in SUBSET Queues
  /\ queue \in [Queues -> Seq(Texts)] /\ \A q \in Queues : Len(queue[q]) <= MaxMsg
  /\ cpc \in {"off", "open_c2s", "open_s2c", "send", "receive", "close", "reap"}
  /\ spc \in {"off", "open_c2s", "open_s2c", "receive", "send", "unlink_c2s", "unlink_s2c"}
  /\ ci \in 0 .. Iterations /\ Len(answers) = ci
  /\ si \in 0 .. Iterations /\ Len(heard) = si + (IF spc = "send" THEN 1 ELSE 0)
  /\ answers \in Seq(Texts) /\ heard \in Seq(Texts)
  /\ clean \in BOOLEAN

Init ==
  /\ run = 0 /\ names = {} /\ queue = [q \in Queues |-> << >>]
  /\ cpc = "off" /\ ci = 0 /\ cfd = {} /\ answers = << >>
  /\ spc = "off" /\ si = 0 /\ heard = << >>
  /\ clean = TRUE

Client(from, to) == cpc = from /\ cpc' = to /\ UNCHANGED <<run, server, clean>>
Server(from, to) == spc = from /\ spc' = to /\ UNCHANGED <<run, client, clean>>

-------------------------------------------------------------------------------
(* The user, and main()                                                    *)

\* The program is started: fork().
Start ==
  /\ cpc = "off" /\ run < MaxRuns
  /\ run' = run + 1
  /\ cpc' = "open_c2s" /\ spc' = "open_c2s"
  /\ UNCHANGED <<mqueues, ci, cfd, answers, si, heard, clean>>

\* Both processes are gone, and with them a queue that has lost its name.
Gone ==
  /\ cpc' = "off" /\ ci' = 0 /\ cfd' = {} /\ answers' = << >>
  /\ spc' = "off" /\ si' = 0 /\ heard' = << >>
  /\ queue' = [q \in Queues |-> IF q \in names THEN queue[q] ELSE << >>]
  /\ UNCHANGED <<run, names>>

\* Ctrl-C
Interrupt == cpc # "off" /\ clean' = FALSE /\ Gone

\* wait(NULL) and the end of main()
Reap == cpc = "reap" /\ spc = "off" /\ clean' = TRUE /\ Gone

-------------------------------------------------------------------------------
(* run_server                                                              *)

\* mq_open(..., O_CREAT, ...): an old queue is opened as it is.
ServerOpen ==
  /\ \/ Server("open_c2s", "open_s2c") /\ names' = names \cup {"c2s"}
     \/ Server("open_s2c", "receive") /\ names' = names \cup {"s2c"}
  /\ UNCHANGED <<queue, si, heard>>

ServerReceive ==
  /\ queue["c2s"] # << >>
  /\ Server("receive", "send")
  /\ heard' = Append(heard, Head(queue["c2s"]))
  /\ queue' = [queue EXCEPT !["c2s"] = Tail(@)]
  /\ UNCHANGED <<names, si>>

\* mq_send waits while the queue is full.
ServerSend ==
  /\ Len(queue["s2c"]) < MaxMsg
  /\ Server("send", IF si + 1 < Iterations THEN "receive" ELSE "unlink_c2s")
  /\ queue' = [queue EXCEPT !["s2c"] = Append(@, heard[Len(heard)])]
  /\ si' = si + 1
  /\ UNCHANGED <<names, heard>>

\* Mutant: the queue of answers is not unlinked.
ServerUnlinkOne ==
  /\ \/ Server("unlink_c2s", "unlink_s2c") /\ names' = names \ {"c2s"}
     \/ Server("unlink_s2c", "off") /\ UNCHANGED names
  /\ UNCHANGED <<queue, si, heard>>

ServerUnlink ==
  /\ \/ Server("unlink_c2s", "unlink_s2c") /\ names' = names \ {"c2s"}
     \/ Server("unlink_s2c", "off") /\ names' = names \ {"s2c"}
  /\ UNCHANGED <<queue, si, heard>>

-------------------------------------------------------------------------------
(* run_client                                                              *)

\* mq_open without O_CREAT fails when there is no such queue.
ClientOpen ==
  /\ \/ Client("open_c2s", "open_s2c") /\ cfd' = cfd \cup (names \cap {"c2s"})
     \/ Client("open_s2c", "send") /\ cfd' = cfd \cup (names \cap {"s2c"})
  /\ UNCHANGED <<mqueues, ci, answers>>

\* Nobody looks at what mq_send returns.
ClientSend ==
  /\ Client("send", "receive")
  /\ IF "c2s" \in cfd
       THEN /\ Len(queue["c2s"]) < MaxMsg
            /\ queue' = [queue EXCEPT !["c2s"] = Append(@, Ping(ci))]
       ELSE UNCHANGED queue
  /\ UNCHANGED <<names, ci, cfd, answers>>

ClientReceive ==
  /\ "s2c" \in cfd /\ queue["s2c"] # << >>
  /\ Client("receive", IF ci + 1 < Iterations THEN "send" ELSE "close")
  /\ answers' = Append(answers, Head(queue["s2c"]))
  /\ queue' = [queue EXCEPT !["s2c"] = Tail(@)]
  /\ ci' = ci + 1
  /\ UNCHANGED <<names, cfd>>

\* n <= 0: the queue of answers could not be opened.
ClientBreak ==
  /\ "s2c" \notin cfd
  /\ Client("receive", "close")
  /\ UNCHANGED <<mqueues, ci, cfd, answers>>

ClientClose ==
  /\ Client("close", "reap")
  /\ cfd' = {}
  /\ UNCHANGED <<mqueues, ci, answers>>

-------------------------------------------------------------------------------

ServerStep == ServerOpen \/ ServerReceive \/ ServerSend \/ ServerUnlink
ClientStep == ClientOpen \/ ClientSend \/ ClientReceive \/ ClientBreak \/ ClientClose \/ Reap

Next == Start \/ Interrupt \/ ServerStep \/ ClientStep

-------------------------------------------------------------------------------

\* A run that follows one that came to its end by itself, and the first run,
\* exchange the messages of that run, in order, each answer to the ping before
\* it: what the run before left over, even from an interrupted one before that,
\* has been unlinked.
RightAfterCleanEnd ==
  clean =>
    /\ heard = [n \in 1 .. Len(heard) |-> Ping(n - 1)]
    /\ answers = [n \in 1 .. Len(answers) |-> Ping(n - 1)]

\* Each run leaves at most one message behind, so that it takes as many
\* interrupted runs as mq_maxmsg before a queue can be full.
OneLeftPerRun == Len(queue["c2s"]) + Len(queue["s2c"]) <= run
===============================================================================
