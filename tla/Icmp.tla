---------------------------------- MODULE Icmp ----------------------------------
(***************************************************************************)
(* The world of ping.c and ping.go: a clock, a host that answers every     *)
(* request, a network that may lose, double, delay and reorder the         *)
(* answers, and a raw socket that receives every ICMP packet that reaches  *)
(* the machine, whoever it is for.                                         *)
(***************************************************************************)
EXTENDS Naturals, Sequences

CONSTANTS
  Pids,         \* what getpid() may return, up to 4194304
  Field,        \* how many values a 16-bit field of a packet has: 65536
  Second,       \* the ticks of the clock in one second
  MaxLate,      \* how many ticks late the program may run
  MaxSeq,       \* bound: the requests sent
  MaxForeign,   \* bound: the packets that are not for this process
  MaxSock       \* bound: the packets that wait in the socket; more are lost

VARIABLES
  pid,        \* the process's pid
  clock,      \* the time
  seq,        \* the program's seq, an int
  transit,    \* the answers on their way
  sock,       \* the packets that wait in the socket
  foreign,    \* how many packets for others have come
  pc,         \* where the program is
  start,      \* when the latest request was sent
  deadline,   \* when select(), the read or the sleep in progress ends
  lines,      \* what the program has printed: a line for each request
  time,       \* the time in the latest line for a reply
  inTime      \* history: the requests answered before their deadline

vars == <<pid, clock, seq, transit, sock, foreign, pc, start, deadline, lines, time, inTime>>

\* An answer: its fields, and for the properties its request and when that was
\* sent (which ping.go also puts into the payload).  A request may be answered
\* twice, in two copies.
Answer(id, n, copy) ==
  [kind |-> "reply", id |-> id, seq |-> n % Field, req |-> n, sent |-> clock, copy |-> copy]

\* The identifier of a request: ping.go masks the pid, in ping.c the assignment to
\* a field of 16 bits does.
Id == pid % Field

Kinds == {"reply", "unreachable", "exceeded", "runt"}

\* Packets for others: an answer to a process with another identifier; an error
\* message, or another's request ("unreachable"); one of these whose bytes are fewer
\* than four times its ICMP type ("exceeded": a time exceeded, type 11, of 36 bytes);
\* and one too short to hold a header.
Foreign ==
  {packet \in [kind : Kinds, id : 0 .. Field - 1, seq : {1}, req : {0}, sent : {0}, copy : {1}] :
     packet.kind = "reply" <=> packet.id # Id}

Packets ==
  [kind : Kinds, id : 0 .. Field - 1, seq : 0 .. Field - 1,
   req : 0 .. MaxSeq, sent : Nat, copy : 1 .. 2]

TypeOK ==
  /\ pid \in Pids
  /\ clock \in Nat /\ seq \in 0 .. MaxSeq
  /\ transit \in SUBSET Packets /\ sock \in Seq(Packets)
  /\ foreign \in 0 .. MaxForeign
  /\ pc \in {"send", "wait", "sleep", "panicked"}
  /\ start \in 0 .. clock /\ deadline \in 0 .. clock + Second
  /\ time \in 0 .. clock /\ inTime \in SUBSET (1 .. seq)
  /\ Len(lines) = (IF pc \in {"wait", "panicked"} THEN seq - 1 ELSE seq)

Init ==
  /\ pid \in Pids
  /\ clock = 0 /\ seq = 0 /\ transit = {} /\ sock = << >> /\ foreign = 0
  /\ pc = "send" /\ start = 0 /\ deadline = 0
  /\ lines = << >> /\ time = 0 /\ inTime = {}

-------------------------------------------------------------------------------
(* The network and the clock                                               *)

\* A request is answered once or twice; an answer that is never delivered
\* stands for one that is lost.
SendRequest ==
  \E copies \in 1 .. 2 :
    transit' = transit \cup {Answer(Id, seq', copy) : copy \in 1 .. copies}

Deliver ==
  \E packet \in transit :
    /\ Len(sock) < MaxSock
    /\ packet.copy = 1 \/ [packet EXCEPT !.copy = 1] \notin transit
    /\ transit' = transit \ {packet}
    /\ sock' = Append(sock, packet)
    /\ inTime' = IF pc = "wait" /\ packet.req = seq /\ clock < deadline
                   THEN inTime \cup {seq} ELSE inTime
    /\ UNCHANGED <<pid, clock, seq, foreign, pc, start, deadline, lines, time>>

DeliverForeign ==
  /\ foreign < MaxForeign /\ Len(sock) < MaxSock
  /\ foreign' = foreign + 1
  /\ \E packet \in Foreign : sock' = Append(sock, packet)
  /\ UNCHANGED <<pid, clock, seq, transit, pc, start, deadline, lines, time, inTime>>

\* The code between two system calls takes no time: the clock ticks while the
\* program waits or sleeps.
Tick ==
  /\ pc \in {"wait", "sleep"}
  /\ clock < deadline + (IF pc = "wait" THEN MaxLate ELSE 0)
  /\ clock' = clock + 1
  /\ UNCHANGED <<pid, seq, transit, sock, foreign, pc, start, deadline, lines, time, inTime>>

-------------------------------------------------------------------------------
(* What both programs do                                                   *)

\* A line is printed, with a time if it is about a reply, and the program goes
\* to sleep for a second.
PrintAndSleep(line, took) ==
  /\ lines' = Append(lines, line) /\ time' = took
  /\ pc' = "sleep"
  /\ deadline' = clock + Second
  /\ UNCHANGED <<pid, clock, seq, transit, foreign, start, inTime>>

\* "Request timed out for icmp_seq %d"
PrintTimeout == PrintAndSleep([kind |-> "timeout", of |-> seq], time)

\* "%d bytes from %s: icmp_seq=%d ttl=%d time=%ld ms"
PrintReply(packet, took) == PrintAndSleep([kind |-> "reply", of |-> packet.req], took)

WakeUp ==
  /\ pc = "sleep" /\ clock = deadline
  /\ pc' = "send"
  /\ UNCHANGED <<pid, clock, seq, transit, sock, foreign, start, deadline, lines, time, inTime>>
===============================================================================
