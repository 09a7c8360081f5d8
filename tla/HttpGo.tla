--------------------------------- MODULE HttpGo ---------------------------------
(***************************************************************************)
(* tcp.go of lecture-07/application: an HTTP server that reads the request *)
(* from the connection itself.  One connection, which a goroutine serves,  *)
(* and its client: any client that sends a request line by line and byte   *)
(* by byte, and may go away at any point.  A line of which only a part has *)
(* come is to ReadString what no line is, so lines are whole.              *)
(***************************************************************************)
EXTENDS Naturals, SequencesExt

CONSTANTS
  MaxHeaders,   \* bound: the headers of a request
  MaxBody       \* bound: the bytes of a body, and the lengths announced

VARIABLES
  request,          \* what the client means to send
  sent,             \* how much of it it has sent
  client,           \* where it is: "there" or "gone"
  wire,             \* what is sent and not yet read
  hpc,              \* where handleConnection is
  contentLength,    \* as in the code; a natural number
  got,              \* the bytes of the body that io.ReadFull has
  answer,           \* what the server has sent back: nothing, 400 or 200
  reset,            \* the server has closed, and there was or came more to read
  outcome           \* what the client has got for its request

ofServer == <<hpc, contentLength, got, answer>>
ofClient == <<request, sent, client, outcome>>
vars == <<ofServer, ofClient, wire, reset>>

Piece(kind) == [kind |-> kind, length |-> 0]
Length(n) == [kind |-> "content-length", length |-> n]

Headers == {Piece("header")} \cup {Length(n) : n \in 0 .. MaxBody}

\* A request line of three fields or of another number, headers, the empty line
\* and a body, whose length need not be the one announced.
Requests ==
  {<<Piece(line)>> \o headers \o <<Piece("empty")>> \o [k \in 1 .. n |-> Piece("byte")] :
     line \in {"good", "bad"}, headers \in BoundedSeq(Headers, MaxHeaders), n \in 0 .. MaxBody}

\* main() has accepted the connection.
Init ==
  /\ request \in Requests
  /\ sent = 0 /\ client = "there" /\ wire = << >>
  /\ hpc = "line" /\ contentLength = 0 /\ got = 0 /\ answer = 0
  /\ reset = FALSE /\ outcome = "none"

-------------------------------------------------------------------------------
(* handleConnection                                                        *)

Take(from, kinds) ==
  /\ hpc = from /\ wire # << >> /\ Head(wire).kind \in kinds
  /\ wire' = Tail(wire)
  /\ UNCHANGED <<ofClient, reset>>

\* parseRequestLine finds three fields, or not.
RequestLine ==
  /\ Take("line", {"good", "bad"})
  /\ IF Head(wire).kind = "good" THEN hpc' = "headers" /\ UNCHANGED answer
                                 ELSE hpc' = "close" /\ answer' = 400
  /\ UNCHANGED <<contentLength, got>>

Header == Take("headers", {"header"}) /\ UNCHANGED ofServer

\* Mutant: the first Content-Length counts.
FirstContentLength ==
  /\ Take("headers", {"content-length"})
  /\ contentLength' = IF contentLength = 0 THEN Head(wire).length ELSE contentLength
  /\ UNCHANGED <<hpc, got, answer>>

\* fmt.Sscanf(value, "%d", &contentLength): the last one counts.
ContentLength ==
  /\ Take("headers", {"content-length"})
  /\ contentLength' = Head(wire).length
  /\ UNCHANGED <<hpc, got, answer>>

EndOfHeaders ==
  /\ Take("headers", {"empty"})
  /\ hpc' = "body"
  /\ UNCHANGED <<contentLength, got, answer>>

\* io.ReadFull(reader, body)
ReadBody ==
  /\ got < contentLength
  /\ Take("body", {"byte"})
  /\ got' = got + 1
  /\ UNCHANGED <<hpc, contentLength, answer>>

\* The client has gone; the handler gives up without an answer.
ReadFails ==
  /\ hpc \in {"line", "headers"} \/ (hpc = "body" /\ got < contentLength)
  /\ wire = << >> /\ client = "gone"
  /\ hpc' = "close"
  /\ UNCHANGED <<contentLength, got, answer, ofClient, wire, reset>>

Answer ==
  /\ hpc = "body" /\ got = contentLength
  /\ answer' = 200 /\ hpc' = "close"
  /\ UNCHANGED <<contentLength, got, ofClient, wire, reset>>

\* The deferred conn.Close.  What the kernel still holds for the server resets the
\* connection; what the bufio.Reader has taken without need does not.
Close ==
  /\ hpc = "close"
  /\ hpc' = "closed"
  /\ reset' \in {FALSE, wire # << >>}
  /\ UNCHANGED <<contentLength, got, answer, ofClient, wire>>

-------------------------------------------------------------------------------
(* The client                                                              *)

Send ==
  /\ client = "there" /\ outcome = "none" /\ sent < Len(request)
  /\ sent' = sent + 1
  /\ wire' = IF hpc = "closed" THEN wire ELSE Append(wire, request[sent'])
  /\ reset' = (reset \/ hpc = "closed")
  /\ UNCHANGED <<ofServer, request, client, outcome>>

\* The answer has no length: it ends with the connection, and is lost with it.
Receive ==
  /\ client = "there" /\ outcome = "none" /\ hpc = "closed"
  /\ \/ outcome' = "answered"
     \/ reset /\ outcome' = "reset"
  /\ UNCHANGED <<ofServer, request, sent, client, wire, reset>>

GoAway ==
  /\ client = "there" /\ outcome = "none"
  /\ client' = "gone"
  /\ UNCHANGED <<ofServer, request, sent, outcome, wire, reset>>

Server ==
  \/ RequestLine \/ Header \/ ContentLength \/ EndOfHeaders \/ ReadBody
  \/ ReadFails \/ Answer \/ Close

Client == Send \/ Receive

-------------------------------------------------------------------------------

Kind(kind) == {k \in DOMAIN request : request[k].kind = kind}

\* The length that counts, and the number of bytes that follow the headers.
Announced ==
  LET lengths == Kind("content-length")
  IN  IF lengths = {} THEN 0
      ELSE request[CHOOSE k \in lengths : \A j \in lengths : j <= k].length
Short == Cardinality(Kind("byte")) < Announced
Bad == request[1].kind = "bad"

\* A client that stays gets 400 exactly for a request line that has not three
\* fields, and 200 exactly for a request whose body is as long as its last
\* Content-Length says or longer.  It loses the answer only if it has sent what
\* the server did not read: anything after a bad line, or a body that is longer.
AnswersAreRight ==
  /\ outcome = "answered" => IF Bad THEN answer = 400 ELSE answer = 200 /\ ~Short
  /\ outcome = "reset" => Bad \/ Cardinality(Kind("byte")) > Announced

\* Every client that stays gets its answer or loses it, unless it announces a body
\* that it does not send: then it and the server wait for each other for ever.
EveryClientIsServed ==
  \/ <>(hpc = "closed" /\ (client = "gone" \/ outcome # "none"))
  \/ <>[](hpc = "body" /\ client = "there" /\ sent = Len(request) /\ ~Bad /\ Short)
===============================================================================
