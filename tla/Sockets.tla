-------------------------------- MODULE Sockets --------------------------------
(***************************************************************************)
(* sockets.c and unix_sockets.c: the same conversation over a stream       *)
(* socket.  The client's sleep(1) is all that makes the server listen      *)
(* first; here connect() may come too early, and nobody checks its result. *)
(* A message is one write(), and both sides leave their loops when read()  *)
(* has nothing to give.                                                    *)
(***************************************************************************)
EXTENDS StreamPair

CONSTANT Family    \* AF_INET (sockets.c) or AF_UNIX (unix_sockets.c)

TypeOK ==
  /\ StreamTypeOK({"connect", "listen", "accept", "read", "write", "close"})
  /\ \A s \in Streams : Len(stream[s]) <= 1

\* main() after fork.
Init ==
  /\ StreamInit
  /\ pc = [p \in Procs |-> IF p = "client" THEN "connect" ELSE "listen"]
  /\ ends = {}

Side(p) == {<<p, In(p), "r">>, <<p, Out(p), "w">>}
Connected(p) == Side(p) \subseteq ends

-------------------------------------------------------------------------------
(* Setting up                                                              *)

\* socket, bind, listen
Listen ==
  /\ Goto("server", "listen", "accept")
  /\ UNCHANGED <<i, printed, stream, ends, kills>>

\* connect() succeeds as soon as somebody listens; else the socket stays
\* unconnected and the client goes on.
Connect ==
  /\ Goto("client", "connect", "write")
  /\ ends' = IF pc["server"] = "accept" THEN Side("client") \cup Side("server") ELSE ends
  /\ UNCHANGED <<i, printed, stream, kills>>

Accept ==
  /\ Connected("server")
  /\ Goto("server", "accept", "read")
  /\ UNCHANGED <<i, printed, stream, ends, kills>>

-------------------------------------------------------------------------------
(* The loops of run_server and run_client                                  *)

Message(p) ==
  IF p = "client" THEN Ping(i[p]) ELSE printed[p][Len(printed[p])]

\* What comes after a write(): read() the echo, or the server's next round.
AfterWrite(p) == IF p = "client" THEN "read" ELSE Round(p, "read", "close")

SendText(p) ==
  /\ pc[p] = "write"
  /\ Write(p, "write", Message(p), AfterWrite(p))
  /\ i' = IF p = "server" THEN [i EXCEPT ![p] = @ + 1] ELSE i

\* write() that reaches nobody, and whose result nobody checks: an AF_UNIX
\* socket that is not connected reports ENOTCONN, and TCP learns only later
\* that its peer has gone.
SendNothing(p) ==
  /\ ~CanRead(Out(p))
  /\ IF Connected(p) THEN Family = "inet" ELSE Family = "unix"
  /\ Goto(p, "write", AfterWrite(p))
  /\ i' = IF p = "server" THEN [i EXCEPT ![p] = @ + 1] ELSE i
  /\ UNCHANGED <<printed, stream, ends, kills>>

\* An unconnected AF_UNIX socket is not killed by SIGPIPE.
MaySignal(p) == CanRead(Out(p)) \/ Connected(p) \/ Family = "inet"

\* read(fd, buffer, BUF_SIZE - 1) takes all there is.
Receive(p) ==
  /\ pc[p] = "read"
  /\ stream[In(p)] # << >>
  /\ printed' = [printed EXCEPT ![p] = Append(@, Head(stream[In(p)]))]
  /\ stream' = [stream EXCEPT ![In(p)] = << >>]
  /\ IF p = "server"
       THEN Goto(p, "read", "write") /\ UNCHANGED i
       ELSE Goto(p, "read", Round(p, "write", "close")) /\ i' = [i EXCEPT ![p] = @ + 1]
  /\ UNCHANGED <<ends, kills>>

\* Mutant: n <= 0 is not looked at, and read() is tried again.
BreakNot(p) ==
  /\ pc[p] = "read"
  /\ AtEof(p)
  /\ UNCHANGED vars

\* n <= 0: the peer has gone, or the socket was never connected.
Break(p) ==
  /\ AtEof(p)
  /\ Goto(p, "read", "close")
  /\ UNCHANGED <<i, printed, stream, ends, kills>>

CloseSocket(p) ==
  Close(p, "close", {<<In(p), "r">>, <<Out(p), "w">>}, IF p = "client" THEN "reap" ELSE "done")

-------------------------------------------------------------------------------

Step(p) ==
  \/ p = "client" /\ (Connect \/ Reap)
  \/ p = "server" /\ (Listen \/ Accept)
  \/ MaySignal(p) /\ SendText(p)
  \/ SendNothing(p) \/ Receive(p) \/ Break(p) \/ CloseSocket(p)
===============================================================================
