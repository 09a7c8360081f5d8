--------------------------------- MODULE Pipes ---------------------------------
(***************************************************************************)
(* pipes.c: the same conversation over two pipes that both processes       *)
(* inherit, with a reader that takes whatever one read() finds for one     *)
(* message.  A text and its NUL are two writes, so a read() that comes     *)
(* between them takes half a message, and the other half, or a half and    *)
(* the next message, is taken for a message of its own.                    *)
(***************************************************************************)
EXTENDS StreamPair

VARIABLE split   \* history: has some read() taken anything but one whole message?

pipeVars == <<vars, split>>

TypeOK ==
  /\ StreamTypeOK({"close_unused", "read", "write", "write_nul", "close_in", "close_out"})
  /\ split \in BOOLEAN

\* main() after fork: both processes hold all four ends.
Init ==
  /\ StreamInit
  /\ pc = [p \in Procs |-> "close_unused"]
  /\ ends = Procs \X Streams \X {"r", "w"}
  /\ split = FALSE

First(p) == IF p = "client" THEN "write" ELSE "read"

\* The first two close() of each process
CloseUnused(p) ==
  /\ Close(p, "close_unused", {<<In(p), "w">>, <<Out(p), "r">>}, First(p))
  /\ UNCHANGED split

-------------------------------------------------------------------------------
(* The loops of run_server and run_client                                  *)

\* The text in a buffer that holds these pieces, up to the first NUL.
TextOf(pieces) == IF pieces = << >> THEN Nul ELSE Head(pieces)

\* The buffer is printed, and answered by the server.
Got(p, text) ==
  /\ printed' = [printed EXCEPT ![p] = Append(@, text)]
  /\ IF p = "server"
       THEN Goto(p, "read", "write") /\ UNCHANGED i
       ELSE /\ Goto(p, "read", Round(p, "write", "close_out"))
            /\ i' = [i EXCEPT ![p] = @ + 1]

\* read(read_fd, &buffer, sizeof(buffer)) takes all there is.
Read(p) ==
  /\ pc[p] = "read"
  /\ stream[In(p)] # << >>
  /\ Got(p, TextOf(stream[In(p)]))
  /\ split' = (split \/ Len(stream[In(p)]) # 2 \/ Head(stream[In(p)]) = Nul)
  /\ stream' = [stream EXCEPT ![In(p)] = << >>]
  /\ UNCHANGED <<ends, kills>>

\* At the end of the stream the server's buffer becomes empty; the client's
\* still holds the request.
ReadEof(p) ==
  /\ pc[p] = "read"
  /\ AtEof(p)
  /\ Got(p, IF p = "server" THEN Nul ELSE Ping(i[p]))
  /\ split' = TRUE
  /\ UNCHANGED <<stream, ends, kills>>

\* Mutant: the server echoes the message it got first.
MessageFirst(p) == IF p = "client" THEN Ping(i[p]) ELSE printed[p][1]

\* What a process writes: the client's next request, the server's echo.
Message(p) ==
  IF p = "client" THEN Ping(i[p]) ELSE printed[p][Len(printed[p])]

\* write() of an empty text writes nothing and cannot fail.
WriteText(p) ==
  /\ pc[p] = "write"
  /\ UNCHANGED <<i, split>>
  /\ IF Message(p) = Nul
       THEN Goto(p, "write", "write_nul") /\ UNCHANGED <<printed, stream, ends, kills>>
       ELSE Write(p, "write", Message(p), "write_nul")

WriteNul(p) ==
  /\ UNCHANGED split
  /\ IF p = "client"
       THEN Write(p, "write_nul", Nul, "read") /\ UNCHANGED i
       ELSE /\ Write(p, "write_nul", Nul, Round(p, "read", "close_in"))
            /\ i' = [i EXCEPT ![p] = @ + 1]

ClientClose ==
  /\ UNCHANGED split
  /\ \/ Close("client", "close_out", {<<"c2s", "w">>}, "close_in")
     \/ Close("client", "close_in", {<<"s2c", "r">>}, "reap")

ServerClose ==
  /\ UNCHANGED split
  /\ \/ Close("server", "close_in", {<<"c2s", "r">>}, "close_out")
     \/ Close("server", "close_out", {<<"s2c", "w">>}, "done")

-------------------------------------------------------------------------------

Step(p) ==
  \/ CloseUnused(p) \/ Read(p) \/ ReadEof(p) \/ WriteText(p) \/ WriteNul(p)
  \/ p = "client" /\ (ClientClose \/ (Reap /\ UNCHANGED split))
  \/ p = "server" /\ ServerClose

-------------------------------------------------------------------------------

\* As long as each read() takes one whole message, each process prints the pings
\* in order, without gap or repetition.
WholeReadsInOrder ==
  split \/ \A p \in Procs : printed[p] = [n \in 1 .. Len(printed[p]) |-> Ping(n - 1)]

\* However the reads fall, no ping is doubled or overtaken by a later one: the
\* server prints them in the order they were sent, and so does the client, even
\* though it may print an old echo, or at the end of the pipe its own request.
NeverBackwards ==
  \A p \in Procs : \A m, n \in DOMAIN printed[p] :
    m < n /\ printed[p][m] # Nul /\ printed[p][n] # Nul => printed[p][m][2] < printed[p][n][2]
===============================================================================
