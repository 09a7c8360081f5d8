------------------------------- MODULE LineStream -------------------------------
(***************************************************************************)
(* tcp.go and echo.go of lecture-07/transport: a server and a client,      *)
(* goroutines of one process, and a TCP connection over the loopback that  *)
(* each side reads line by line through a bufio.Reader.  Bytes are grouped *)
(* into pieces, the text of a line and the '\n' after it; they arrive in   *)
(* order, in portions of any size.                                         *)
(***************************************************************************)
EXTENDS Naturals, Sequences, SequencesExt

CONSTANTS
  Total,      \* the messages the client sends: 1000, or without end in echo.go
  Window      \* the pieces that fit between a writer and its reader

ASSUME LineStreamAssumption == Total \in Nat \ {0} /\ Window \in Nat /\ Window >= 2

VARIABLES
  up,         \* whether the process runs: a panic of a goroutine ends them all
  spc,        \* where startServer is
  hpc,        \* where the goroutine is that handles the connection
  cpc,        \* where startClient is
  i,          \* how many messages startClient has sent
  wire,       \* the pieces sent and not yet read, for each direction
  buf,        \* the pieces that the bufio.Reader of each direction holds
  fin,        \* the directions that the client's Close has ended
  received,   \* the messages the server has printed
  echoed      \* the messages the client has printed

connection == <<wire, buf, fin>>
vars == <<up, spc, hpc, cpc, i, connection, received, echoed>>

Directions == {"c2s", "s2c"}
Newline == Total
Pieces == 0 .. Total

StreamTypeOK ==
  /\ up \in BOOLEAN
  /\ spc \in {"listen", "accept"} /\ hpc \in {"none", "read", "echo", "closed"}
  /\ cpc \in {"dial", "send", "read", "done"}
  /\ i \in 0 .. Total
  /\ wire \in [Directions -> Seq(Pieces)] /\ buf \in [Directions -> Seq(Pieces)]
  /\ \A d \in Directions : Len(wire[d]) <= Window
  /\ fin \in SUBSET Directions
  /\ received \in Seq(Pieces) /\ echoed \in Seq(Pieces)

\* main() after the go statements
Init ==
  /\ up = TRUE
  /\ spc = "listen" /\ hpc = "none" /\ cpc = "dial" /\ i = 0
  /\ wire = [d \in Directions |-> << >>] /\ buf = [d \in Directions |-> << >>]
  /\ fin = {}
  /\ received = << >> /\ echoed = << >>

-------------------------------------------------------------------------------
(* The connection                                                          *)

\* conn.Write: it waits until there is room.
Write(d, m) ==
  /\ Len(wire[d]) + 2 <= Window
  /\ wire' = [wire EXCEPT ![d] = @ \o <<m, Newline>>]
  /\ UNCHANGED <<buf, fin>>

HasLine(d) == Contains(buf[d], Newline)

\* The bufio.Reader takes what has arrived, if it has no whole line yet.
Fill(d) ==
  /\ up /\ ~HasLine(d)
  /\ \E n \in 1 .. Len(wire[d]) :
       /\ buf' = [buf EXCEPT ![d] = @ \o SubSeq(wire[d], 1, n)]
       /\ wire' = [wire EXCEPT ![d] = SubSeq(@, n + 1, Len(@))]
  /\ UNCHANGED <<up, spc, hpc, cpc, i, fin, received, echoed>>

\* Mutant: what Read has given is taken for one message, as without a bufio.Reader.
ReadPortion(d) ==
  /\ buf[d] # << >>
  /\ buf' = [buf EXCEPT ![d] = << >>]
  /\ UNCHANGED <<wire, fin>>

\* reader.ReadString('\n')
ReadString(d) ==
  /\ HasLine(d)
  /\ buf' = [buf EXCEPT ![d] = SubSeq(@, SelectInSeq(@, LAMBDA x : x = Newline) + 1, Len(@))]
  /\ UNCHANGED <<wire, fin>>

\* The line that ReadString gives: a message's number if it is what was sent.
Line(d) == Head(buf[d])

\* ReadString fails: the other side has closed.
AtEof(d) == d \in fin /\ wire[d] = << >> /\ ~HasLine(d)

-------------------------------------------------------------------------------
(* Setting up                                                              *)

\* net.Listen succeeds, or panics because the address is in use.
Listen ==
  /\ up /\ spc = "listen"
  /\ \/ spc' = "accept" /\ UNCHANGED up
     \/ up' = FALSE /\ UNCHANGED spc
  /\ UNCHANGED <<hpc, cpc, i, connection, received, echoed>>

\* net.Dial after a sleep that makes it likely, not certain, that the server
\* listens; if it does not, panic.
Dial ==
  /\ up /\ cpc = "dial"
  /\ IF spc = "accept"
       THEN cpc' = "send" /\ UNCHANGED up
       ELSE up' = FALSE /\ UNCHANGED cpc
  /\ UNCHANGED <<spc, hpc, i, connection, received, echoed>>

\* listener.Accept, go handleConnection(conn)
Accept ==
  /\ up /\ cpc # "dial" /\ spc = "accept" /\ hpc = "none"
  /\ hpc' = "read"
  /\ UNCHANGED <<up, spc, cpc, i, connection, received, echoed>>

-------------------------------------------------------------------------------
(* tcp.go: a client that writes faster than the server reads               *)

\* conn.Write([]byte(message)) in startTCPClient
TcpSend ==
  /\ up /\ cpc = "send" /\ i < Total
  /\ Write("c2s", i)
  /\ i' = i + 1
  /\ UNCHANGED <<up, spc, hpc, cpc, received, echoed>>

\* The deferred conn.Close
TcpClose ==
  /\ up /\ cpc = "send" /\ i = Total
  /\ cpc' = "done" /\ fin' = fin \cup {"c2s"}
  /\ UNCHANGED <<up, spc, hpc, i, wire, buf, received, echoed>>

\* A round of handleTCPConnection
TcpHandle ==
  /\ up /\ hpc = "read"
  /\ ReadString("c2s")
  /\ received' = Append(received, Line("c2s"))
  /\ UNCHANGED <<up, spc, hpc, cpc, i, echoed>>

\* "Read error: EOF", and the deferred conn.Close
TcpHandleEof ==
  /\ up /\ hpc = "read" /\ AtEof("c2s")
  /\ hpc' = "closed"
  /\ UNCHANGED <<up, spc, cpc, i, connection, received, echoed>>

TcpServer == Listen \/ Accept \/ TcpHandle \/ TcpHandleEof \/ Fill("c2s")
TcpClient == Dial \/ TcpSend \/ TcpClose

TcpPromise == INSTANCE Delivery WITH Lossless <- TRUE, sent <- i

-------------------------------------------------------------------------------
(* echo.go: the server sends every line back, and the client sends the next *)
(* when it has the echo of the last.                                       *)

\* fmt.Fprintf(conn, message+"\n") in startClient
EchoSend ==
  /\ up /\ cpc = "send" /\ i < Total
  /\ Write("c2s", i)
  /\ i' = i + 1 /\ cpc' = "read"
  /\ UNCHANGED <<up, spc, hpc, received, echoed>>

EchoRead ==
  /\ up /\ cpc = "read"
  /\ ReadString("s2c")
  /\ echoed' = Append(echoed, Line("s2c"))
  /\ cpc' = "send"
  /\ UNCHANGED <<up, spc, hpc, i, received>>

\* reader.ReadString, strings.TrimSpace
EchoHandle ==
  /\ up /\ hpc = "read"
  /\ ReadString("c2s")
  /\ received' = Append(received, Line("c2s"))
  /\ hpc' = "echo"
  /\ UNCHANGED <<up, spc, cpc, i, echoed>>

\* Mutant: the line is sent back without the '\n' that TrimSpace took away.
EchoTrimmed ==
  /\ up /\ hpc = "echo"
  /\ wire' = [wire EXCEPT !.s2c = Append(@, Last(received))]
  /\ hpc' = "read"
  /\ UNCHANGED <<up, spc, cpc, i, buf, fin, received, echoed>>

\* conn.Write([]byte(message + "\n"))
Echo ==
  /\ up /\ hpc = "echo"
  /\ Write("s2c", Last(received))
  /\ hpc' = "read"
  /\ UNCHANGED <<up, spc, cpc, i, received, echoed>>

EchoServer == Listen \/ Accept \/ EchoHandle \/ Echo \/ Fill("c2s")
EchoClient == Dial \/ EchoSend \/ EchoRead \/ Fill("s2c")

Message(n) == n

EchoPromise == INSTANCE RequestReply WITH
  Iterations <- Total, Request <- Message, Reply <- Message,
  asked <- i, heard <- received, answers <- echoed
===============================================================================
