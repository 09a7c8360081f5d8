--------------------------------- MODULE Fifos ---------------------------------
(***************************************************************************)
(* mkfifo.c: the two processes meet by opening two FIFOs in the same       *)
(* order; each message ends with a NUL, and a reader takes one character   *)
(* at a time until it sees one.                                            *)
(***************************************************************************)
EXTENDS StreamPair

VARIABLE word    \* what each process has read of the message in progress

fifoVars == <<vars, word>>

TypeOK ==
  /\ StreamTypeOK({"open_c2s", "wait_c2s", "open_s2c", "wait_s2c", "read", "write",
                   "write_nul", "close_in", "close_out"})
  /\ word \in [Procs -> Texts]

\* main() after mkfifo and fork.
Init ==
  /\ StreamInit
  /\ pc = [p \in Procs |-> "open_c2s"]
  /\ ends = {}
  /\ word = [p \in Procs |-> Nul]

-------------------------------------------------------------------------------
(* open() of a FIFO waits until the other process has opened its other end *)

Mode(p, s) == IF s = Out(p) THEN "w" ELSE "r"

OpenFifo(p, s, from, waiting, Opened(_)) ==
  /\ pc[p] = from
  /\ ends' = ends \cup {<<p, s, Mode(p, s)>>}
  /\ pc' = [pc EXCEPT
              ![p] = IF <<Other(p), s, Mode(Other(p), s)>> \in ends THEN Opened(p) ELSE waiting,
              ![Other(p)] = IF @ = waiting THEN Opened(Other(p)) ELSE @]
  /\ UNCHANGED <<i, printed, stream, kills, word>>

First(p) == IF p = "client" THEN "write" ELSE "read"

OpenC2S(p) == OpenFifo(p, "c2s", "open_c2s", "wait_c2s", LAMBDA q : "open_s2c")
OpenS2C(p) == OpenFifo(p, "s2c", "open_s2c", "wait_s2c", First)

-------------------------------------------------------------------------------
(* The loops of run_server and run_client                                  *)

\* Mutant: pos is not set back to 0, so the old text stays in the buffer.
GotOnTop(p, text) ==
  /\ printed' = [printed EXCEPT ![p] = Append(@, text)]
  /\ UNCHANGED word
  /\ IF p = "server"
       THEN Goto(p, "read", "write") /\ UNCHANGED i
       ELSE /\ Goto(p, "read", Round(p, "write", "close_out"))
            /\ i' = [i EXCEPT ![p] = @ + 1]

\* The message is read: print it, and answer it (the server) or go on.
Got(p, text) ==
  /\ printed' = [printed EXCEPT ![p] = Append(@, text)]
  /\ word' = [word EXCEPT ![p] = Nul]
  /\ IF p = "server"
       THEN Goto(p, "read", "write") /\ UNCHANGED i
       ELSE /\ Goto(p, "read", Round(p, "write", "close_out"))
            /\ i' = [i EXCEPT ![p] = @ + 1]

\* read(read_fd, &c, 1) of the characters before the NUL
ReadText(p) ==
  /\ pc[p] = "read"
  /\ stream[In(p)] # << >> /\ Head(stream[In(p)]) # Nul
  /\ word' = [word EXCEPT ![p] = Head(stream[In(p)])]
  /\ stream' = [stream EXCEPT ![In(p)] = Tail(@)]
  /\ UNCHANGED <<pc, i, printed, ends, kills>>

ReadNul(p) ==
  /\ stream[In(p)] # << >> /\ Head(stream[In(p)]) = Nul
  /\ stream' = [stream EXCEPT ![In(p)] = Tail(@)]
  /\ Got(p, word[p])
  /\ UNCHANGED <<ends, kills>>

\* read() != 1 also ends the message.
ReadEof(p) ==
  /\ pc[p] = "read"
  /\ AtEof(p)
  /\ Got(p, word[p])
  /\ UNCHANGED <<stream, ends, kills>>

\* The text a process writes: the client's next request, the server's echo.
Message(p) ==
  IF p = "client" THEN Ping(i[p]) ELSE printed[p][Len(printed[p])]

\* write() of an empty text writes nothing and cannot fail.
WriteText(p) ==
  /\ pc[p] = "write"
  /\ UNCHANGED <<i, word>>
  /\ IF Message(p) = Nul
       THEN Goto(p, "write", "write_nul") /\ UNCHANGED <<printed, stream, ends, kills>>
       ELSE Write(p, "write", Message(p), "write_nul")

WriteNul(p) ==
  /\ UNCHANGED word
  /\ IF p = "client"
       THEN Write(p, "write_nul", Nul, "read") /\ UNCHANGED i
       ELSE /\ Write(p, "write_nul", Nul, Round(p, "read", "close_in"))
            /\ i' = [i EXCEPT ![p] = @ + 1]

-------------------------------------------------------------------------------

ClientClose ==
  /\ UNCHANGED word
  /\ \/ Close("client", "close_out", {<<"c2s", "w">>}, "close_in")
     \/ Close("client", "close_in", {<<"s2c", "r">>}, "reap")

ServerClose ==
  /\ UNCHANGED word
  /\ \/ Close("server", "close_in", {<<"c2s", "r">>}, "close_out")
     \/ Close("server", "close_out", {<<"s2c", "w">>}, "done")

Step(p) ==
  \/ OpenC2S(p) \/ OpenS2C(p)
  \/ ReadText(p) \/ ReadNul(p) \/ ReadEof(p)
  \/ WriteText(p) \/ WriteNul(p)
  \/ p = "client" /\ (ClientClose \/ (Reap /\ UNCHANGED word))
  \/ p = "server" /\ ServerClose

-------------------------------------------------------------------------------

\* Both FIFOs are open on both sides.
Met == \A p \in Procs : pc[p] \notin {"open_c2s", "wait_c2s", "open_s2c", "wait_s2c"}
===============================================================================
