------------------------------- MODULE Transports -------------------------------
(***************************************************************************)
(* The transports of lecture-07: tcp.go, echo.go and udp.go, each with its *)
(* server and its client in one process, and the HTTP server of            *)
(* application/tcp.go with a client of its own.  A behaviour is a run of   *)
(* one of them; what the others own stays as it is.                        *)
(*                                                                         *)
(* udp.go is in this module: the client writes a datagram every            *)
(* millisecond, the server reads one every ten.  A datagram that finds no  *)
(* room is lost in silence; one that finds no server is answered by ICMP   *)
(* port unreachable, and the error waits for the client's next Write, which*)
(* reports it in place of sending.                                         *)
(***************************************************************************)
EXTENDS LineStream

CONSTANTS
  MaxSock,               \* the datagrams that fit into the socket of udp.go's server
  MaxHeaders, MaxBody    \* see HttpGo

ASSUME TransportsAssumption == MaxSock \in Nat \ {0} /\ {MaxHeaders, MaxBody} \subseteq Nat

VARIABLES
  program,      \* which of them runs
  listening,    \* whether ListenUDP has succeeded
  refused,      \* whether an ICMP error waits for the client's next Write
  sock,         \* the datagrams in the server's socket
  errors,       \* the "Write error" lines of the client
  missed,       \* history: the datagrams for which there was no room or no server
  early,        \* history: the client has written before the server listened
  request, sent, client, inbox, at, contentLength, got, answer, reset, outcome  \* see HttpGo

stream == <<spc, hpc, cpc, connection, echoed>>
datagrams == <<listening, refused, sock, errors, missed, early>>
counters == <<up, i, received>>
serving == <<request, sent, client, inbox, at, contentLength, got, answer, reset, outcome>>
all == <<program, counters, stream, datagrams, serving>>

Http == INSTANCE HttpGo WITH wire <- inbox, hpc <- at

UdpTypeOK ==
  /\ listening \in BOOLEAN /\ refused \in BOOLEAN /\ early \in BOOLEAN
  /\ sock \in Seq(0 .. Total - 1) /\ Len(sock) <= MaxSock
  /\ errors \in SUBSET (0 .. Total - 1) /\ missed \in SUBSET (0 .. Total - 1)

UdpInit ==
  /\ listening = FALSE /\ refused = FALSE /\ sock = << >>
  /\ errors = {} /\ missed = {} /\ early = FALSE

TransportsInit ==
  /\ program \in {"tcp", "echo", "udp", "http"}
  /\ Init /\ UdpInit /\ Http!Init
  /\ program # "http" => request = CHOOSE r \in Http!Requests : TRUE

-------------------------------------------------------------------------------
(* udp.go                                                                  *)

\* net.ListenUDP succeeds, or panics because the address is in use.
UdpListen ==
  /\ up /\ ~listening
  /\ \/ listening' = TRUE /\ UNCHANGED up
     \/ up' = FALSE /\ UNCHANGED listening
  /\ UNCHANGED <<i, refused, sock, received, errors, missed, early>>

\* Mutant: after a "Write error" the same message is written again.
UdpErrorAgain ==
  /\ up /\ i < Total /\ refused
  /\ errors' = errors \cup {i}
  /\ refused' = FALSE
  /\ UNCHANGED <<up, listening, i, sock, received, missed, early>>

\* "Write error: connection refused"
UdpError ==
  /\ up /\ i < Total /\ refused
  /\ errors' = errors \cup {i}
  /\ refused' = FALSE
  /\ i' = i + 1
  /\ UNCHANGED <<up, listening, sock, received, missed, early>>

\* A datagram into the server's socket, if it has room.
UdpWrite ==
  /\ up /\ i < Total /\ ~refused /\ listening
  /\ IF Len(sock) < MaxSock
       THEN sock' = Append(sock, i) /\ UNCHANGED missed
       ELSE missed' = missed \cup {i} /\ UNCHANGED sock
  /\ i' = i + 1
  /\ UNCHANGED <<up, listening, refused, received, errors, early>>

\* Nobody listens: the kernel answers with an error for the next Write.
UdpUnreachable ==
  /\ up /\ i < Total /\ ~refused /\ ~listening
  /\ missed' = missed \cup {i} /\ early' = TRUE
  /\ refused' = TRUE
  /\ i' = i + 1
  /\ UNCHANGED <<up, listening, sock, received, errors>>

\* ReadFromUDP, "Received (%d): %s from %s"
UdpReceive ==
  /\ up /\ listening /\ sock # << >>
  /\ received' = Append(received, Head(sock))
  /\ sock' = Tail(sock)
  /\ UNCHANGED <<up, listening, i, refused, errors, missed, early>>

UdpServer == UdpListen \/ UdpReceive
UdpClient == UdpError \/ UdpWrite \/ UdpUnreachable

UdpPromise == INSTANCE Delivery WITH Lossless <- FALSE, sent <- i

-------------------------------------------------------------------------------

OnlyTcp  == program = "tcp" /\ UNCHANGED <<program, datagrams, serving>>
OnlyEcho == program = "echo" /\ UNCHANGED <<program, datagrams, serving>>
OnlyUdp  == program = "udp" /\ UNCHANGED <<program, stream, serving>>
OnlyHttp == program = "http" /\ UNCHANGED <<program, counters, stream, datagrams>>

Server ==
  \/ OnlyTcp /\ TcpServer
  \/ OnlyEcho /\ EchoServer
  \/ OnlyUdp /\ UdpServer
  \/ OnlyHttp /\ Http!Server

Client ==
  \/ OnlyTcp /\ TcpClient
  \/ OnlyEcho /\ EchoClient
  \/ OnlyUdp /\ UdpClient
  \/ OnlyHttp /\ Http!Client

GoAway == OnlyHttp /\ Http!GoAway

\* main() blocks for ever when all is sent, received and printed: select {}.  In
\* echo.go it is the bound Total that ends the client's endless loop.  The HTTP
\* server waits for the next connection, or for the rest of a request.
Blocked ==
  /\ \/ ~up
     \/ program = "tcp" /\ hpc = "closed"
     \/ program = "echo" /\ cpc = "send" /\ i = Total
     \/ program = "udp" /\ i = Total /\ sock = << >>
     \/ program = "http" /\ (at = "closed" \/ sent = Len(request))
  /\ UNCHANGED all

Next == Server \/ Client \/ GoAway \/ Blocked

Spec == TransportsInit /\ [][Next]_all

\* Goroutines are scheduled, and a client of the HTTP server sends what it means
\* to send and reads the answer, if it does not go away.
FairSpec == Spec /\ WF_all(Server) /\ WF_all(Client)

-------------------------------------------------------------------------------

\* tcp.go: every message is received once and in order, however the stream is cut
\* into portions and however far the client is ahead.  udp.go: what is received
\* is received once and in order.  echo.go: lines are heard and echoed one at a
\* time, whole and in turn.
ImplementsPromise ==
  /\ TcpPromise!Init /\ UdpPromise!Init /\ EchoPromise!Init
  /\ [][/\ program = "tcp" => [TcpPromise!Next]_(TcpPromise!vars)
        /\ program = "udp" => [UdpPromise!Next]_(UdpPromise!vars)
        /\ program = "echo" => [EchoPromise!Next]_(EchoPromise!vars)]_all

\* A client is told the truth.  udp.go's sees an error only if it was too early,
\* and then for another message than the one that was refused: every error
\* follows an unreported loss.  The HTTP client gets the answer its request
\* deserves, or loses it because it sent more than the server read.
ToldTheTruth ==
  /\ \A n \in errors : early /\ n > 0 /\ n - 1 \in missed /\ n \notin missed
  /\ Http!AnswersAreRight

\* If both sides come up, all messages arrive: over TCP the server has them and
\* its handler ends, the echo server's client gets every echo, of udp.go's each
\* was received, or missed, or reported as not written, and none of two; and the
\* HTTP server serves every client that sends the body it announces.
AllArrive ==
  LET arrived == {received[k] : k \in DOMAIN received}
  IN  /\ \/ program = "http"
         \/ <>(\/ ~up
               \/ program = "tcp" /\ Len(received) = Total /\ hpc = "closed"
               \/ program = "echo" /\ Len(echoed) = Total
               \/ /\ program = "udp"
                  /\ arrived \cup missed \cup errors = 0 .. Total - 1
                  /\ arrived \cap (missed \cup errors) = {})
      /\ program = "http" => Http!EveryClientIsServed
===============================================================================
