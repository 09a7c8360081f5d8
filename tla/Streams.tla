-------------------------------- MODULE Streams --------------------------------
(***************************************************************************)
(* The client and server pairs of lecture-03/ipc that talk through byte    *)
(* streams: pipes.c, mkfifo.c, sockets.c and unix_sockets.c.  A behaviour  *)
(* is a run of one of the four programs.                                   *)
(***************************************************************************)
EXTENDS StreamPair, FiniteSets

VARIABLES
  program,    \* which of the programs runs
  word,       \* see Fifos
  split       \* see Pipes

allVars == <<vars, program, word, split>>

Pipe == INSTANCE Pipes
Fifo == INSTANCE Fifos
Inet == INSTANCE Sockets WITH Family <- "inet"
Unix == INSTANCE Sockets WITH Family <- "unix"

Init ==
  \/ program = "pipes" /\ Pipe!Init /\ word = [p \in Procs |-> Nul]
  \/ program = "mkfifo" /\ Fifo!Init /\ split = FALSE
  \/ /\ program = "sockets" /\ Inet!Init
     /\ split = FALSE /\ word = [p \in Procs |-> Nul]
  \/ /\ program = "unix_sockets" /\ Unix!Init
     /\ split = FALSE /\ word = [p \in Procs |-> Nul]

PipeStep(p) == program = "pipes" /\ Pipe!Step(p) /\ UNCHANGED <<program, word>>
FifoStep(p) == program = "mkfifo" /\ Fifo!Step(p) /\ UNCHANGED <<program, split>>
InetStep(p) == program = "sockets" /\ Inet!Step(p) /\ UNCHANGED <<program, word, split>>
UnixStep(p) == program = "unix_sockets" /\ Unix!Step(p) /\ UNCHANGED <<program, word, split>>

Step(p) == PipeStep(p) \/ FifoStep(p) \/ InetStep(p) \/ UnixStep(p)

Killed(p) == Kill(p) /\ UNCHANGED <<program, word, split>>

Terminated == AllEnded /\ UNCHANGED allVars

Next == (\E p \in Procs : Step(p) \/ Killed(p)) \/ Terminated

Spec == Init /\ [][Next]_allVars

\* The kernel lets both processes run.
FairSpec == Spec /\ \A p \in Procs : WF_allVars(Step(p))

-------------------------------------------------------------------------------

\* What a process has printed, but for an empty last line: a process whose partner
\* has died prints one, and no other, before it ends.
Spoken(lines) ==
  IF lines # << >> /\ lines[Len(lines)] = Nul THEN SubSeq(lines, 1, Len(lines) - 1) ELSE lines

Said(p) == Spoken(printed[p])

\* How many texts are on their way to a process, or in its buffer
OnTheWay(pieces, text) ==
  Cardinality({n \in DOMAIN pieces : pieces[n] # Nul}) + (IF text = Nul THEN 0 ELSE 1)

Asked == Len(Said("server")) + OnTheWay(stream["c2s"], word["server"])

Channel == INSTANCE RequestReply WITH
  Request <- Ping, Reply <- Ping,
  asked   <- IF program = "pipes" THEN 0 ELSE Asked,
  heard   <- IF program = "pipes" THEN << >> ELSE Said("server"),
  answers <- IF program = "pipes" THEN << >> ELSE Said("client")

\* Over FIFOs and sockets the server gets every ping once and in order, and the
\* client the echo of the ping it has just sent: the NULs that mkfifo.c reads up
\* to, and the turns that the socket programs take, keep the messages apart,
\* whatever the interleaving and whoever is killed.  pipes.c has neither, see
\* MessagesStayWhole.
ImplementsRequestReply == Channel!Spec

\* In pipes.c only split reads break a message: as long as each read() takes one
\* whole message, the pings are printed in order, without gap or repetition, and
\* however the reads fall none is doubled or overtaken.  Elsewhere a process
\* prints an empty line only if its partner has died.
MessagesStayWhole ==
  IF program = "pipes"
    THEN Pipe!WholeReadsInOrder /\ Pipe!NeverBackwards
    ELSE \A p \in Procs :
           (\E n \in DOMAIN printed[p] : printed[p][n] = Nul) => pc[Other(p)] = "killed"

\* The two processes have found each other: pipes are there from the start.
Met ==
  CASE program = "pipes"        -> TRUE
    [] program = "mkfifo"       -> Fifo!Met
    [] program = "sockets"      -> Inet!Connected("client")
    [] program = "unix_sockets" -> Unix!Connected("client")

ServerWaitsAlone ==
  program \in {"sockets", "unix_sockets"} /\ pc["server"] = "accept"
  /\ pc["client"] \in {"reap", "killed"}

\* A process waits in open() for a partner that was killed before they met there.
OpensAlone ==
  program = "mkfifo" /\ \E p \in Procs :
    pc[p] \in {"wait_c2s", "wait_s2c"} /\ pc[Other(p)] = "killed"

\* Once they have found each other both processes end, whoever dies: a reader
\* sees the end of the stream, a writer is killed by SIGPIPE.  Nor does anybody
\* wait for ever before that, but a server that no client has reached, and a process
\* whose partner was killed before the two met at a FIFO.
NoneLeftWaiting ==
  /\ Met ~> AllEnded
  /\ <>[](AllEnded \/ ServerWaitsAlone \/ OpensAlone)
===============================================================================
