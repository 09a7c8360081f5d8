---------------------------- MODULE Streams_proofs ----------------------------
(***************************************************************************)
(* What is proved about pipes.c, mkfifo.c, sockets.c and unix_sockets.c,   *)
(* for any number of iterations: MessagesStayWhole and                     *)
(* ImplementsRequestReply.                                                 *)
(***************************************************************************)
EXTENDS Streams, FiniteSetTheorems, SequenceTheorems, TLAPS

-------------------------------------------------------------------------------
(* The invariant, in the numbers a and h of the pings that the client and  *)
(* the server have printed                                                 *)

\* The first n pings, and the empty line that may follow them
PingsTo(n) == [k \in 1 .. n |-> Ping(k - 1)]
Lines(n, empty) == IF empty THEN Append(PingsTo(n), Nul) ELSE PingsTo(n)

\* How far the n-th ping has come on its way: what is in the stream, and in the
\* buffer at its end.
Empty(pieces, text) == pieces = << >> /\ text = Nul

Half(pieces, text, n) ==
  \/ pieces = <<Ping(n)>> /\ text = Nul
  \/ pieces = << >> /\ text = Ping(n)

Whole(pieces, text, n) ==
  \/ pieces = <<Ping(n), Nul>> /\ text = Nul
  \/ pieces = <<Nul>> /\ text = Ping(n)

OnItsWay(pieces, text, n) ==
  Empty(pieces, text) \/ Half(pieces, text, n) \/ Whole(pieces, text, n)

\* One ping is on its way to the server, or its echo back, but never both.
Turn(a, h, c2s, wS, s2c, wC) ==
  \/ h = a /\ OnItsWay(c2s, wS, a) /\ Empty(s2c, wC)
  \/ h = a + 1 /\ Empty(c2s, wS) /\ OnItsWay(s2c, wC, a)

\* Where the client is, with n its loop counter, unless it has printed an empty line
AtStart == {"close_unused", "open_c2s", "wait_c2s", "open_s2c", "wait_s2c"}

ClientAt(at, n, a, h, empty, c2s, wS) ==
  /\ at \in AtStart \cup {"write"} /\ ~empty =>
       n = a /\ a < Iterations /\ h = a /\ Empty(c2s, wS)
  /\ at = "write_nul" => n = a /\ a < Iterations /\ h = a /\ Half(c2s, wS, a)
  /\ at = "read" => n = a /\ a < Iterations /\ (h = a => Whole(c2s, wS, a))
  /\ at \in {"close_out", "close_in", "reap", "done"} /\ ~empty => a = Iterations

\* The same for the server
ServerAt(at, n, a, h, empty, s2c, wC) ==
  /\ at \in AtStart \cup {"read"} =>
       n = h /\ h < Iterations /\ (h = a + 1 => Whole(s2c, wC, a))
  /\ at = "write" /\ ~empty => n + 1 = h /\ h = a + 1 /\ Empty(s2c, wC)
  /\ at = "write_nul" /\ ~empty => n + 1 = h /\ h = a + 1 /\ Half(s2c, wC, a)
  /\ at \in {"close_in", "close_out", "done"} =>
       h = Iterations /\ (h = a + 1 => Whole(s2c, wC, a))

Talk(a, h, eC, eS) ==
  /\ printed["client"] = Lines(a, eC)
  /\ printed["server"] = Lines(h, eS)
  /\ Turn(a, h, stream["c2s"], word["server"], stream["s2c"], word["client"])
  /\ ClientAt(pc["client"], i["client"], a, h, eC, stream["c2s"], word["server"])
  /\ ServerAt(pc["server"], i["server"], a, h, eS, stream["s2c"], word["client"])

\* An empty line is printed by a process that is alone and whose next write() kills it.
Alone(eC, eS) ==
  /\ eC => /\ pc["server"] = "killed"
           /\ pc["client"] \in {"write", "close_out", "close_in", "reap", "done", "killed"}
  /\ eS => /\ pc["client"] = "killed"
           /\ pc["server"] \in {"write", "write_nul", "killed"}

\* The variables are functions on the processes and the streams.
Shape ==
  /\ pc = [p \in Procs |-> pc[p]]
  /\ i = [p \in Procs |-> i[p]]
  /\ printed = [p \in Procs |-> printed[p]]
  /\ word = [p \in Procs |-> word[p]]
  /\ stream = [s \in Streams |-> stream[s]]

TalkAt(a, h, eC, eS) ==
  /\ Shape
  /\ a \in 0 .. Iterations /\ h \in 0 .. Iterations /\ eC \in BOOLEAN /\ eS \in BOOLEAN
  /\ Talk(a, h, eC, eS) /\ Alone(eC, eS)

\* A ping is on its way to the server.
Waiting == ~Empty(stream["c2s"], word["server"])

\* What the numbers may do in a step: nothing, a question, its hearing, its answer.
Moved(a, h, waits, a2, h2, waits2) ==
  \/ a2 = a /\ h2 = h /\ waits2 = waits
  \/ a2 = a /\ h2 = h /\ ~waits /\ waits2 /\ h = a /\ a < Iterations
  \/ a2 = a /\ h2 = h + 1 /\ waits /\ ~waits2
  \/ a2 = a + 1 /\ h2 = h /\ a < h /\ ~waits /\ ~waits2

-------------------------------------------------------------------------------
(* Pings, lines and pieces                                                 *)

\* Pings differ from one another and from the NUL.
LEMMA PingFacts ==
  /\ \A n : Ping(n) # Nul /\ Ping(n)[2] = n
  /\ \A m, n : Ping(m) = Ping(n) => m = n
BY DEF Ping, Nul

\* A sequence of one or of two pieces
LEMMA Short ==
  ASSUME NEW x, NEW y
  PROVE  /\ Append(<< >>, x) = <<x>>
         /\ Append(<<x>>, y) = <<x, y>>
         /\ <<x>> # << >> /\ <<x, y>> # << >> /\ << >> # <<x>> /\ << >> # <<x, y>>
         /\ Head(<<x>>) = x /\ Tail(<<x>>) = << >>
         /\ Head(<<x, y>>) = x /\ Tail(<<x, y>>) = <<y>>
         /\ Len(<<x>>) = 1 /\ Len(<<x, y>>) = 2
<1>1. Append(<< >>, x) = <<x>> /\ Append(<<x>>, y) = <<x, y>>
  <2>1. << >> \in Seq({x, y}) /\ <<x>> \in Seq({x, y})
    OBVIOUS
  <2>2. Len(Append(<< >>, x)) = 1 /\ Append(<< >>, x)[1] = x /\ Append(<< >>, x) \in Seq({x, y})
    BY <2>1
  <2>3. /\ Len(Append(<<x>>, y)) = 2 /\ Append(<<x>>, y) \in Seq({x, y})
        /\ Append(<<x>>, y)[1] = x /\ Append(<<x>>, y)[2] = y
    BY <2>1
  <2>4. <<x, y>> \in Seq({x, y})
    OBVIOUS
  <2>5. Append(<< >>, x) = <<x>>
    BY <2>1, <2>2, SeqEqual
  <2>6. Append(<<x>>, y) = <<x, y>>
    <3> DEFINE long == Append(<<x>>, y)
               pair == <<x, y>>
    <3>1. Len(pair) = 2 /\ pair[1] = x /\ pair[2] = y
      OBVIOUS
    <3>2. Len(long) = Len(pair) /\ \A k \in 1 .. Len(long) : long[k] = pair[k]
      <4> HIDE DEF pair
      <4> QED
        BY <2>3, <3>1
    <3> HIDE DEF long, pair
    <3>3. long = pair
      <4>1. long \in Seq({x, y}) /\ pair \in Seq({x, y})
        BY <2>3, <2>4 DEF long, pair
      <4> QED
        BY <3>2, <4>1, SeqEqual
    <3> QED
      BY <3>3 DEF long, pair
  <2> QED
    BY <2>5, <2>6
<1>2. Len(<<x>>) = 1 /\ Len(<<x, y>>) = 2 /\ Len(<< >>) = 0
  OBVIOUS
<1>3. Head(<<x>>) = x /\ Head(<<x, y>>) = x
  OBVIOUS
<1>4. Tail(<<x>>) = << >>
  OBVIOUS
<1>5. Tail(<<x, y>>) = <<y>>
  OBVIOUS
<1> QED
  BY <1>1, <1>2, <1>3, <1>4, <1>5

\* write() of a ping
LEMMA PutText ==
  ASSUME NEW n, NEW pieces, NEW text, Empty(pieces, text)
  PROVE  Half(Append(pieces, Ping(n)), text, n)
BY Short DEF Empty, Half

\* write() of the NUL
LEMMA PutNul ==
  ASSUME NEW n, NEW pieces, NEW text, Half(pieces, text, n)
  PROVE  Whole(Append(pieces, Nul), text, n)
BY Short DEF Half, Whole

\* The reader takes the ping.
LEMMA TakeText ==
  ASSUME NEW n, NEW pieces, NEW text, pieces # << >>, Head(pieces) # Nul
  PROVE  /\ Half(pieces, text, n) => Half(Tail(pieces), Head(pieces), n)
         /\ Whole(pieces, text, n) => Whole(Tail(pieces), Head(pieces), n)
         /\ ~Empty(pieces, text)
<1>1. CASE pieces = <<Ping(n)>>
  <2>1. Head(pieces) = Ping(n) /\ Tail(pieces) = << >>
    BY <1>1, Short
  <2> QED
    BY <1>1, <2>1, Short DEF Empty, Half, Whole
<1>2. CASE pieces = <<Ping(n), Nul>>
  <2>1. Head(pieces) = Ping(n) /\ Tail(pieces) = <<Nul>>
    BY <1>2, Short
  <2> QED
    BY <1>2, <2>1, Short DEF Empty, Half, Whole
<1>3. pieces # <<Nul>>
  BY Short
<1> QED
  BY <1>1, <1>2, <1>3 DEF Empty, Half, Whole

\* The reader takes the NUL.
LEMMA TakeNul ==
  ASSUME NEW n, NEW pieces, NEW text, pieces # << >>, Head(pieces) = Nul
  PROVE  /\ ~Half(pieces, text, n) /\ ~Empty(pieces, text)
         /\ Whole(pieces, text, n) => text = Ping(n) /\ Empty(Tail(pieces), Nul)
<1>1. pieces # <<Ping(n)>> /\ pieces # <<Ping(n), Nul>>
  BY Short, PingFacts
<1>2. Tail(<<Nul>>) = << >>
  BY Short
<1> QED
  BY <1>1, <1>2 DEF Empty, Half, Whole

\* The reader finds the end of the stream.
LEMMA TakeEnd ==
  ASSUME NEW n, NEW pieces, NEW text, pieces = << >>
  PROVE  /\ Half(pieces, text, n) => text = Ping(n) /\ Empty(pieces, Nul)
         /\ Empty(pieces, text) => text = Nul
         /\ ~Whole(pieces, text, n)
BY Short DEF Empty, Half, Whole

\* At most one ping is on its way.
LEMMA Counted ==
  ASSUME NEW n, NEW pieces, NEW text
  PROVE  /\ Empty(pieces, text) => OnTheWay(pieces, text) = 0
         /\ Half(pieces, text, n) \/ Whole(pieces, text, n) => OnTheWay(pieces, text) = 1
<1> DEFINE Set == {k \in DOMAIN pieces : pieces[k] # Nul}
<1>1. pieces = << >> \/ pieces = <<Nul>> => Cardinality(Set) = 0
  <2>1. pieces = << >> \/ pieces = <<Nul>> => Set = {}
    OBVIOUS
  <2> QED
    BY <2>1, FS_EmptySet
<1>2. pieces = <<Ping(n)>> \/ pieces = <<Ping(n), Nul>> => Cardinality(Set) = 1
  <2>1. pieces = <<Ping(n)>> \/ pieces = <<Ping(n), Nul>> => Set = {1}
    BY PingFacts
  <2> QED
    BY <2>1, FS_Singleton
<1> HIDE DEF Set
<1>3. OnTheWay(pieces, text) = Cardinality(Set) + (IF text = Nul THEN 0 ELSE 1)
  BY DEF OnTheWay, Set
<1> QED
  BY <1>1, <1>2, <1>3, PingFacts DEF Empty, Half, Whole

\* What is printed, line by line
LEMMA LineFacts ==
  ASSUME NEW n \in Nat
  PROVE  /\ Append(Lines(n, FALSE), Ping(n)) = Lines(n + 1, FALSE)
         /\ Append(Lines(n, FALSE), Nul) = Lines(n, TRUE)
         /\ Len(PingsTo(n)) = n
         /\ PingsTo(0) = << >>
         /\ \A e \in BOOLEAN : Spoken(Lines(n, e)) = PingsTo(n)
<1>1. PingsTo(n) \in Seq({Ping(k) : k \in Nat}) /\ Len(PingsTo(n)) = n
  BY DEF PingsTo
<1>2. Append(PingsTo(n), Ping(n)) = PingsTo(n + 1)
  BY <1>1 DEF PingsTo
<1>3. PingsTo(0) = << >>
  BY DEF PingsTo
<1>4. Spoken(PingsTo(n)) = PingsTo(n)
  <2>1. PingsTo(n) # << >> => PingsTo(n)[n] = Ping(n - 1)
    BY <1>1 DEF PingsTo
  <2> QED
    BY <1>1, <2>1, PingFacts DEF Spoken
<1>5. Spoken(Append(PingsTo(n), Nul)) = PingsTo(n)
  <2> DEFINE long == Append(PingsTo(n), Nul)
  <2>1. Len(long) = n + 1 /\ long[n + 1] = Nul /\ long # << >>
    BY <1>1
  <2>2. \A k \in 1 .. n : long[k] = PingsTo(n)[k]
    BY <1>1
  <2>3. SubSeq(long, 1, n) = PingsTo(n)
    BY <1>1, <2>1, <2>2 DEF PingsTo
  <2> HIDE DEF long
  <2>4. Spoken(long) = SubSeq(long, 1, n)
    BY <2>1 DEF Spoken
  <2> QED
    BY <2>3, <2>4 DEF long
<1> QED
  BY <1>1, <1>2, <1>3, <1>4, <1>5 DEF Lines

-------------------------------------------------------------------------------
(* mkfifo.c                                                                *)

\* The places at which p holds its end of s open
Holders(p, s) ==
  {"wait_s2c", "write", "write_nul", "read"} \cup
  (IF s = "c2s" THEN {"wait_c2s", "open_s2c"} ELSE {}) \cup
  (IF p = "client" THEN {"close_out"} ELSE {"close_in"}) \cup
  (IF p = "client" /\ s = "s2c" THEN {"close_in"} ELSE {}) \cup
  (IF p = "server" /\ s = "s2c" THEN {"close_out"} ELSE {})

FifoEnds ==
  \A p \in Procs, s \in Streams, m \in {"r", "w"} :
    <<p, s, m>> \in ends <=> m = (IF s = Out(p) THEN "w" ELSE "r") /\ pc[p] \in Holders(p, s)

FifoPlaces(p) ==
  {"open_c2s", "wait_c2s", "open_s2c", "wait_s2c", "read", "write", "write_nul", "close_in",
   "close_out", "done", "killed"} \cup (IF p = "client" THEN {"reap"} ELSE {})

\* Nobody is through with an open() before the other is at it.
Meeting ==
  \A p \in Procs :
    /\ pc[p] \in FifoPlaces(p)
    /\ pc[p] \notin {"open_c2s", "wait_c2s", "killed"} =>
         pc[Other(p)] \notin {"open_c2s", "wait_c2s"}
    /\ pc[p] \notin {"open_c2s", "wait_c2s", "open_s2c", "wait_s2c", "killed"} =>
         pc[Other(p)] \notin {"open_s2c", "wait_s2c"}

FifoAt(a, h, eC, eS) == TalkAt(a, h, eC, eS) /\ FifoEnds /\ Meeting

\* The names of the instance are those of this module.
LEMMA FifoNames ==
  /\ Fifo!Nul = Nul /\ Nul = <<"nul", 0>>
  /\ Fifo!Procs = Procs /\ Procs = {"client", "server"} /\ Streams = {"c2s", "s2c"}
  /\ Fifo!Out("client") = "c2s" /\ Fifo!Out("server") = "s2c"
  /\ Fifo!In("client") = "s2c" /\ Fifo!In("server") = "c2s"
  /\ Fifo!Other("client") = "server" /\ Fifo!Other("server") = "client"
  /\ Out("client") = "c2s" /\ Out("server") = "s2c"
  /\ In("client") = "s2c" /\ In("server") = "c2s"
  /\ Other("client") = "server" /\ Other("server") = "client"
BY DEF Fifo!Nul, Nul, Fifo!Procs, Procs, Streams, Fifo!Out, Fifo!In, Fifo!Other, Out, In, Other

\* Who has lost its partner: a reader that meets the end of the stream, and a writer
\* whose text nobody can read.
LEMMA FifoPartner ==
  ASSUME NEW a, NEW h, NEW eC, NEW eS, FifoAt(a, h, eC, eS)
  PROVE  /\ pc["client"] = "read" /\ Fifo!AtEof("client") => pc["server"] = "killed"
         /\ pc["server"] = "read" /\ Fifo!AtEof("server") => pc["client"] = "killed"
         /\ pc["server"] = "killed" => ~Fifo!CanRead("c2s")
         /\ pc["client"] = "killed" => ~Fifo!CanRead("s2c")
<1>1. Fifo!CanRead("c2s") <=> pc["server"] \in Holders("server", "c2s")
  BY FifoNames DEF FifoAt, TalkAt, FifoEnds, Fifo!CanRead
<1>2. Fifo!CanRead("s2c") <=> pc["client"] \in Holders("client", "s2c")
  BY FifoNames DEF FifoAt, TalkAt, FifoEnds, Fifo!CanRead
<1>3. Fifo!CanWrite("c2s") <=> pc["client"] \in Holders("client", "c2s")
  BY FifoNames DEF FifoAt, TalkAt, FifoEnds, Fifo!CanWrite
<1>4. Fifo!CanWrite("s2c") <=> pc["server"] \in Holders("server", "s2c")
  BY FifoNames DEF FifoAt, TalkAt, FifoEnds, Fifo!CanWrite
<1>5. pc["client"] = "read" /\ Fifo!AtEof("client") => pc["server"] = "killed"
  <2> SUFFICES ASSUME pc["client"] = "read", Fifo!AtEof("client")
               PROVE  pc["server"] = "killed"
    OBVIOUS
  <2>1. stream["s2c"] = << >> /\ pc["server"] \notin Holders("server", "s2c")
    BY <1>4, FifoNames DEF Fifo!AtEof
  <2>2. pc["server"] \in {"open_c2s", "wait_c2s", "open_s2c", "done", "killed"}
    BY <2>1, FifoNames DEF Holders, FifoAt, Meeting, FifoPlaces
  <2>3. pc["server"] \notin {"open_c2s", "wait_c2s", "open_s2c"}
    BY FifoNames DEF FifoAt, TalkAt, Meeting
  <2>4. pc["server"] # "done"
    <3> SUFFICES ASSUME pc["server"] = "done" PROVE FALSE
      OBVIOUS
    <3>1. a < Iterations /\ h = Iterations /\ (h = a + 1 => Whole(stream["s2c"], word["client"], a))
      BY DEF FifoAt, TalkAt, Talk, ClientAt, ServerAt
    <3>2. ~Whole(stream["s2c"], word["client"], a)
      BY <2>1, TakeEnd
    <3>3. h = a \/ h = a + 1
      BY DEF FifoAt, TalkAt, Talk, Turn
    <3> QED
      BY <3>1, <3>2, <3>3 DEF FifoAt, TalkAt
  <2> QED
    BY <2>2, <2>3, <2>4
<1>6. pc["server"] = "read" /\ Fifo!AtEof("server") => pc["client"] = "killed"
  <2> SUFFICES ASSUME pc["server"] = "read", Fifo!AtEof("server")
               PROVE  pc["client"] = "killed"
    OBVIOUS
  <2>1. stream["c2s"] = << >> /\ pc["client"] \notin Holders("client", "c2s")
    BY <1>3, FifoNames DEF Fifo!AtEof
  <2>2. pc["client"] \in {"open_c2s", "close_in", "reap", "done", "killed"}
    BY <2>1, FifoNames DEF Holders, FifoAt, Meeting, FifoPlaces
  <2>3. pc["client"] # "open_c2s"
    BY FifoNames DEF FifoAt, TalkAt, Meeting
  <2>4. pc["client"] \notin {"close_in", "reap", "done"}
    <3>1. ~eC /\ h < Iterations
      BY DEF FifoAt, TalkAt, Talk, Alone, ServerAt
    <3>2. h = a \/ h = a + 1
      BY DEF FifoAt, TalkAt, Talk, Turn
    <3> QED
      BY <3>1, <3>2 DEF FifoAt, TalkAt, Talk, ClientAt
  <2> QED
    BY <2>2, <2>3, <2>4
<1>7. pc["server"] = "killed" => ~Fifo!CanRead("c2s")
  BY <1>1, FifoNames DEF Holders
<1>8. pc["client"] = "killed" => ~Fifo!CanRead("s2c")
  BY <1>2, FifoNames DEF Holders
<1> QED
  BY <1>5, <1>6, <1>7, <1>8

\* What the next lemmas show of one action: the numbers after it are a2 and h2.
Says(a, h, a2, h2, eC2, eS2) ==
  Talk(a2, h2, eC2, eS2)' /\ Alone(eC2, eS2)' /\ Moved(a, h, Waiting, a2, h2, Waiting')

\* The server reads a text.
LEMMA ServerReadsText ==
  ASSUME NEW a, NEW h, NEW eC, NEW eS, FifoAt(a, h, eC, eS), Fifo!ReadText("server")
  PROVE  Says(a, h, a, h, eC, eS)
<1>1. /\ pc["server"] = "read" /\ stream["c2s"] # << >> /\ Head(stream["c2s"]) # Nul
      /\ word'["server"] = Head(stream["c2s"]) /\ word'["client"] = word["client"]
      /\ stream'["c2s"] = Tail(stream["c2s"]) /\ stream'["s2c"] = stream["s2c"]
      /\ UNCHANGED <<pc, i, printed>>
  BY FifoNames DEF FifoAt, TalkAt, Shape, Fifo!ReadText
<1>2. /\ Half(stream["c2s"], word["server"], a) => Half(stream'["c2s"], word'["server"], a)
      /\ Whole(stream["c2s"], word["server"], a) => Whole(stream'["c2s"], word'["server"], a)
      /\ ~Empty(stream["c2s"], word["server"])
  BY <1>1, TakeText
<1>3. ~Empty(stream'["c2s"], word'["server"])
  BY <1>1 DEF Empty
<1> QED
  BY <1>1, <1>2, <1>3 DEF FifoAt, TalkAt, Says, Talk, Alone, Moved, Waiting, Turn, OnItsWay, ClientAt, ServerAt

\* The client reads a text.
LEMMA ClientReadsText ==
  ASSUME NEW a, NEW h, NEW eC, NEW eS, FifoAt(a, h, eC, eS), Fifo!ReadText("client")
  PROVE  Says(a, h, a, h, eC, eS)
<1>1. /\ pc["client"] = "read" /\ stream["s2c"] # << >> /\ Head(stream["s2c"]) # Nul
      /\ word'["client"] = Head(stream["s2c"]) /\ word'["server"] = word["server"]
      /\ stream'["s2c"] = Tail(stream["s2c"]) /\ stream'["c2s"] = stream["c2s"]
      /\ UNCHANGED <<pc, i, printed>>
  BY FifoNames DEF FifoAt, TalkAt, Shape, Fifo!ReadText
<1>2. /\ Half(stream["s2c"], word["client"], a) => Half(stream'["s2c"], word'["client"], a)
      /\ Whole(stream["s2c"], word["client"], a) => Whole(stream'["s2c"], word'["client"], a)
      /\ ~Empty(stream["s2c"], word["client"])
  BY <1>1, TakeText
<1> QED
  BY <1>1, <1>2 DEF FifoAt, TalkAt, Says, Talk, Alone, Moved, Waiting, Turn, OnItsWay, ClientAt, ServerAt

\* What a reader does with the text t that it has read
LEMMA ServerGot ==
  ASSUME NEW t, FifoNames, Shape, Fifo!Got("server", t)
  PROVE  /\ pc["server"] = "read" /\ pc'["server"] = "write" /\ pc'["client"] = pc["client"]
         /\ printed'["server"] = Append(printed["server"], t)
         /\ printed'["client"] = printed["client"]
         /\ word'["server"] = Nul /\ word'["client"] = word["client"]
         /\ UNCHANGED i
BY FifoNames DEF Shape, Fifo!Got, Fifo!Goto

\* The same for the client
LEMMA ClientGot ==
  ASSUME NEW t, FifoNames, Shape, Fifo!Got("client", t)
  PROVE  /\ pc["client"] = "read" /\ pc'["server"] = pc["server"]
         /\ pc'["client"] = IF i["client"] + 1 < Iterations THEN "write" ELSE "close_out"
         /\ printed'["client"] = Append(printed["client"], t)
         /\ printed'["server"] = printed["server"]
         /\ word'["client"] = Nul /\ word'["server"] = word["server"]
         /\ i'["client"] = i["client"] + 1 /\ i'["server"] = i["server"]
BY FifoNames DEF Shape, Fifo!Got, Fifo!Goto, Fifo!Round

\* The server has heard a request, and is about to answer it.
LEMMA ServerHeard ==
  ASSUME NEW a, NEW h, NEW eC, NEW eS, TalkAt(a, h, eC, eS),
         pc["server"] = "read", pc'["server"] = "write", pc'["client"] = pc["client"],
         pc["client"] # "write_nul", UNCHANGED i,
         printed'["server"] = Append(printed["server"], Ping(a)),
         printed'["client"] = printed["client"],
         h = a, ~Empty(stream["c2s"], word["server"]),
         Empty(stream'["c2s"], word'["server"]), Empty(stream'["s2c"], word'["client"])
  PROVE  h + 1 \in 0 .. Iterations /\ Says(a, h, a, h + 1, eC, eS)
<1>1. /\ eS = FALSE /\ i["server"] = h /\ h < Iterations
      /\ h \in Nat /\ a \in Nat /\ Iterations \in Nat
  BY StreamAssumption DEF TalkAt, Talk, Alone, ServerAt
<1>2. printed'["server"] = Lines(h + 1, eS)
  BY <1>1, LineFacts DEF TalkAt, Talk
<1>3. Turn(a, h + 1, stream'["c2s"], word'["server"], stream'["s2c"], word'["client"])
  BY DEF Turn, OnItsWay
<1>4. ClientAt(pc'["client"], i'["client"], a, h + 1, eC, stream'["c2s"], word'["server"])
  BY <1>1 DEF TalkAt, Talk, ClientAt
<1>5. ServerAt(pc'["server"], i'["server"], a, h + 1, eS, stream'["s2c"], word'["client"])
  BY <1>1 DEF ServerAt, AtStart
<1>6. Alone(eC, eS)'
  BY <1>1 DEF TalkAt, Alone
<1>7. Moved(a, h, Waiting, a, h + 1, Waiting')
  BY DEF Moved, Waiting
<1>8. printed'["client"] = Lines(a, eC)
  BY DEF TalkAt, Talk
<1> QED
  BY <1>1, <1>2, <1>3, <1>4, <1>5, <1>6, <1>7, <1>8 DEF Says, Talk

\* The server has read a whole request.
LEMMA ServerReadsNul ==
  ASSUME NEW a, NEW h, NEW eC, NEW eS, FifoAt(a, h, eC, eS), Fifo!ReadNul("server")
  PROVE  h + 1 \in 0 .. Iterations /\ Says(a, h, a, h + 1, eC, eS)
<1>1. /\ stream["c2s"] # << >> /\ Head(stream["c2s"]) = Nul
      /\ stream'["c2s"] = Tail(stream["c2s"]) /\ stream'["s2c"] = stream["s2c"]
      /\ Fifo!Got("server", word["server"])
  BY FifoNames DEF FifoAt, TalkAt, Shape, Fifo!ReadNul
<1>2. /\ pc["server"] = "read" /\ pc'["server"] = "write" /\ pc'["client"] = pc["client"]
      /\ printed'["server"] = Append(printed["server"], word["server"])
      /\ printed'["client"] = printed["client"]
      /\ word'["server"] = Nul /\ word'["client"] = word["client"]
      /\ UNCHANGED i
  BY <1>1, ServerGot, FifoNames DEF FifoAt, TalkAt
<1>3. /\ ~Half(stream["c2s"], word["server"], a) /\ ~Empty(stream["c2s"], word["server"])
      /\ Whole(stream["c2s"], word["server"], a) =>
           word["server"] = Ping(a) /\ Empty(stream'["c2s"], Nul)
  BY <1>1, TakeNul
<1>4. /\ h = a /\ word["server"] = Ping(a) /\ Empty(stream'["c2s"], word'["server"])
      /\ Empty(stream["s2c"], word["client"])
  BY <1>2, <1>3 DEF FifoAt, TalkAt, Talk, Turn, OnItsWay
<1>5. pc["client"] # "write_nul"
  BY <1>3 DEF FifoAt, TalkAt, Talk, ClientAt
<1>6. Empty(stream'["s2c"], word'["client"])
  BY <1>1, <1>2, <1>4
<1> QED
  BY <1>2, <1>3, <1>4, <1>5, <1>6, ServerHeard DEF FifoAt

\* The server finds the end of its pipe: the client has died, and what is in the buffer
\* is a whole request or nothing.
LEMMA ServerReadsEnd ==
  ASSUME NEW a, NEW h, NEW eC, NEW eS, FifoAt(a, h, eC, eS), Fifo!ReadEof("server")
  PROVE  \/ h + 1 \in 0 .. Iterations /\ Says(a, h, a, h + 1, eC, eS)
         \/ Says(a, h, a, h, eC, TRUE)
<1>1. /\ stream["c2s"] = << >> /\ UNCHANGED stream /\ Fifo!AtEof("server")
      /\ Fifo!Got("server", word["server"])
  BY FifoNames DEF FifoAt, TalkAt, Shape, Fifo!ReadEof, Fifo!AtEof
<1>2. /\ pc["server"] = "read" /\ pc'["server"] = "write" /\ pc'["client"] = pc["client"]
      /\ printed'["server"] = Append(printed["server"], word["server"])
      /\ printed'["client"] = printed["client"]
      /\ word'["server"] = Nul /\ word'["client"] = word["client"]
      /\ UNCHANGED i
  BY <1>1, ServerGot, FifoNames DEF FifoAt, TalkAt
<1>3. pc["client"] = "killed"
  BY <1>1, <1>2, FifoPartner
<1>4. /\ eC = FALSE /\ eS = FALSE /\ i["server"] = h /\ h < Iterations
      /\ h \in Nat /\ a \in Nat /\ Iterations \in Nat
  BY <1>2, StreamAssumption DEF FifoAt, TalkAt, Talk, Alone, ServerAt
<1>5. /\ Half(stream["c2s"], word["server"], a) =>
           word["server"] = Ping(a) /\ Empty(stream["c2s"], Nul)
      /\ Empty(stream["c2s"], word["server"]) => word["server"] = Nul
      /\ ~Whole(stream["c2s"], word["server"], a)
  BY <1>1, TakeEnd
<1>6. Empty(stream'["c2s"], word'["server"])
  BY <1>1, <1>2 DEF Empty
<1>7. CASE Empty(stream["c2s"], word["server"])
  <2>1. printed'["server"] = Lines(h, TRUE)
    BY <1>2, <1>4, <1>5, <1>7, LineFacts DEF FifoAt, TalkAt, Talk
  <2>2. Turn(a, h, stream'["c2s"], word'["server"], stream'["s2c"], word'["client"])
    BY <1>1, <1>2, <1>6, <1>7 DEF FifoAt, TalkAt, Talk, Turn, OnItsWay
  <2>3. ClientAt(pc'["client"], i'["client"], a, h, eC, stream'["c2s"], word'["server"])
    BY <1>2, <1>3 DEF ClientAt, AtStart
  <2>4. ServerAt(pc'["server"], i'["server"], a, h, TRUE, stream'["s2c"], word'["client"])
    BY <1>2 DEF ServerAt, AtStart
  <2> QED
    BY <1>2, <1>3, <1>4, <1>6, <1>7, <2>1, <2>2, <2>3, <2>4
       DEF FifoAt, TalkAt, Says, Talk, Alone, Moved, Waiting
<1>8. CASE ~Empty(stream["c2s"], word["server"])
  <2>1. h = a /\ word["server"] = Ping(a) /\ Empty(stream["s2c"], word["client"])
    BY <1>5, <1>8 DEF FifoAt, TalkAt, Talk, Turn, OnItsWay
  <2>2. Empty(stream'["s2c"], word'["client"])
    BY <1>1, <1>2, <2>1
  <2> QED
    BY <1>2, <1>3, <1>6, <1>8, <2>1, <2>2, ServerHeard DEF FifoAt
<1> QED
  BY <1>7, <1>8

\* After its answer the client has left the turn to the next request, or is through.
LEMMA ClientAnswered ==
  ASSUME NEW a \in Nat, NEW h \in Nat, NEW eC, NEW eS, TalkAt(a, h, eC, eS),
         eC = FALSE, h = a + 1, i["client"] = a, a < Iterations,
         Empty(stream["c2s"], word["server"]), Empty(stream'["c2s"], word'["server"]),
         Empty(stream'["s2c"], word'["client"]),
         pc'["client"] = IF i["client"] + 1 < Iterations THEN "write" ELSE "close_out",
         i'["client"] = i["client"] + 1,
         printed'["client"] = Append(printed["client"], Ping(a)),
         printed'["server"] = printed["server"],
         pc'["server"] = pc["server"], i'["server"] = i["server"],
         pc["server"] = "write" => eS \/ ~Empty(stream["s2c"], word["client"]),
         pc["server"] = "write_nul" => eS,
         pc["client"] = "read"
  PROVE  a + 1 \in 0 .. Iterations /\ Says(a, h, a + 1, h, eC, eS)
<1>1. Iterations \in Nat /\ eS = FALSE
  BY StreamAssumption DEF TalkAt, Alone
<1>2. printed'["client"] = Lines(a + 1, eC)
  BY LineFacts DEF TalkAt, Talk
<1>3. Turn(a + 1, h, stream'["c2s"], word'["server"], stream'["s2c"], word'["client"])
  BY DEF Turn, OnItsWay
<1>4. ClientAt(pc'["client"], i'["client"], a + 1, h, eC, stream'["c2s"], word'["server"])
  <2>1. CASE a + 1 < Iterations
    BY <1>1, <2>1 DEF ClientAt, AtStart
  <2>2. CASE ~(a + 1 < Iterations)
    <3>1. a + 1 = Iterations /\ pc'["client"] = "close_out"
      BY <1>1, <2>2
    <3> QED
      BY <3>1 DEF ClientAt, AtStart
  <2> QED
    BY <2>1, <2>2
<1>5. ServerAt(pc'["server"], i'["server"], a + 1, h, eS, stream'["s2c"], word'["client"])
  <2>1. pc["server"] \notin {"write", "write_nul"}
    BY <1>1 DEF TalkAt, Talk, ServerAt
  <2>2. ServerAt(pc["server"], i["server"], a, h, eS, stream["s2c"], word["client"])
    BY DEF TalkAt, Talk
  <2>3. h # a + 1 + 1
    OBVIOUS
  <2> QED
    BY <2>1, <2>2, <2>3 DEF ServerAt
<1>6. a + 1 \in 0 .. Iterations
  BY <1>1
<1>7. printed'["server"] = Lines(h, eS)
  BY DEF TalkAt, Talk
<1>8. Alone(eC, eS)'
  BY <1>1 DEF Alone
<1>9. Moved(a, h, Waiting, a + 1, h, Waiting')
  BY DEF Moved, Waiting
<1> QED
  BY <1>2, <1>3, <1>4, <1>5, <1>6, <1>7, <1>8, <1>9 DEF Says, Talk

\* The client has read a whole echo.
LEMMA ClientReadsNul ==
  ASSUME NEW a, NEW h, NEW eC, NEW eS, FifoAt(a, h, eC, eS), Fifo!ReadNul("client")
  PROVE  a + 1 \in 0 .. Iterations /\ Says(a, h, a + 1, h, eC, eS)
<1>1. /\ stream["s2c"] # << >> /\ Head(stream["s2c"]) = Nul
      /\ stream'["s2c"] = Tail(stream["s2c"]) /\ stream'["c2s"] = stream["c2s"]
      /\ Fifo!Got("client", word["client"])
  BY FifoNames DEF FifoAt, TalkAt, Shape, Fifo!ReadNul
<1>2. /\ pc["client"] = "read" /\ pc'["server"] = pc["server"]
      /\ pc'["client"] = IF i["client"] + 1 < Iterations THEN "write" ELSE "close_out"
      /\ printed'["client"] = Append(printed["client"], word["client"])
      /\ printed'["server"] = printed["server"]
      /\ word'["client"] = Nul /\ word'["server"] = word["server"]
      /\ i'["client"] = i["client"] + 1 /\ i'["server"] = i["server"]
  BY <1>1, ClientGot, FifoNames DEF FifoAt, TalkAt
<1>3. /\ ~Half(stream["s2c"], word["client"], a) /\ ~Empty(stream["s2c"], word["client"])
      /\ Whole(stream["s2c"], word["client"], a) =>
           word["client"] = Ping(a) /\ Empty(stream'["s2c"], Nul)
  BY <1>1, TakeNul
<1>4. /\ h = a + 1 /\ word["client"] = Ping(a) /\ Empty(stream'["s2c"], word'["client"])
      /\ Empty(stream["c2s"], word["server"])
  BY <1>2, <1>3 DEF FifoAt, TalkAt, Talk, Turn, OnItsWay
<1>5. eC = FALSE /\ i["client"] = a /\ a < Iterations /\ h \in Nat /\ a \in Nat
  BY <1>2, StreamAssumption DEF FifoAt, TalkAt, Talk, Alone, ClientAt
<1>6. pc["server"] = "write_nul" => eS
  BY <1>3 DEF FifoAt, TalkAt, Talk, ServerAt
<1>7. Empty(stream'["c2s"], word'["server"])
  BY <1>1, <1>2, <1>4
<1> QED
  BY <1>2, <1>3, <1>4, <1>5, <1>6, <1>7, ClientAnswered DEF FifoAt

\* The client finds the end of its pipe: the server has died, and what is in the buffer
\* is a whole echo or nothing.
LEMMA ClientReadsEnd ==
  ASSUME NEW a, NEW h, NEW eC, NEW eS, FifoAt(a, h, eC, eS), Fifo!ReadEof("client")
  PROVE  \/ a + 1 \in 0 .. Iterations /\ Says(a, h, a + 1, h, eC, eS)
         \/ Says(a, h, a, h, TRUE, eS)
<1>1. /\ stream["s2c"] = << >> /\ UNCHANGED stream /\ Fifo!AtEof("client")
      /\ Fifo!Got("client", word["client"])
  BY FifoNames DEF FifoAt, TalkAt, Shape, Fifo!ReadEof, Fifo!AtEof
<1>2. /\ pc["client"] = "read" /\ pc'["server"] = pc["server"]
      /\ pc'["client"] = IF i["client"] + 1 < Iterations THEN "write" ELSE "close_out"
      /\ printed'["client"] = Append(printed["client"], word["client"])
      /\ printed'["server"] = printed["server"]
      /\ word'["client"] = Nul /\ word'["server"] = word["server"]
      /\ i'["client"] = i["client"] + 1 /\ i'["server"] = i["server"]
  BY <1>1, ClientGot, FifoNames DEF FifoAt, TalkAt
<1>3. pc["server"] = "killed"
  BY <1>1, <1>2, FifoPartner
<1>4. /\ Half(stream["s2c"], word["client"], a) =>
           word["client"] = Ping(a) /\ Empty(stream["s2c"], Nul)
      /\ Empty(stream["s2c"], word["client"]) => word["client"] = Nul
      /\ ~Whole(stream["s2c"], word["client"], a)
  BY <1>1, TakeEnd
<1>5. /\ eC = FALSE /\ eS = FALSE /\ i["client"] = a /\ a < Iterations
      /\ h \in Nat /\ a \in Nat /\ Iterations \in Nat
  BY <1>2, StreamAssumption DEF FifoAt, TalkAt, Talk, Alone, ClientAt
<1>6. Empty(stream'["s2c"], word'["client"])
  BY <1>1, <1>2 DEF Empty
<1>7. CASE Empty(stream["s2c"], word["client"])
  <2>1. printed'["client"] = Lines(a, TRUE)
    BY <1>2, <1>4, <1>5, <1>7, LineFacts DEF FifoAt, TalkAt, Talk
  <2>2. stream'["c2s"] = stream["c2s"] /\ stream'["s2c"] = stream["s2c"] /\ word'["server"] = word["server"]
    BY <1>1, <1>2
  <2>3. Turn(a, h, stream'["c2s"], word'["server"], stream'["s2c"], word'["client"])
    BY <1>6, <1>7, <2>2 DEF FifoAt, TalkAt, Talk, Turn, OnItsWay
  <2>4. pc'["client"] \in {"write", "close_out"}
    BY <1>2
  <2>5. ClientAt(pc'["client"], i'["client"], a, h, TRUE, stream'["c2s"], word'["server"])
    BY <2>4 DEF ClientAt, AtStart
  <2>6. ServerAt(pc'["server"], i'["server"], a, h, eS, stream'["s2c"], word'["client"])
    BY <1>2, <1>3 DEF ServerAt, AtStart
  <2>7. printed'["server"] = Lines(h, eS)
    BY <1>2 DEF FifoAt, TalkAt, Talk
  <2>8. Alone(TRUE, eS)'
    BY <1>2, <1>3, <1>5, <2>4 DEF Alone
  <2>9. Moved(a, h, Waiting, a, h, Waiting')
    BY <2>2 DEF Moved, Waiting
  <2> QED
    BY <2>1, <2>3, <2>5, <2>6, <2>7, <2>8, <2>9 DEF Says, Talk
<1>8. CASE ~Empty(stream["s2c"], word["client"])
  <2>1. h = a + 1 /\ word["client"] = Ping(a) /\ Empty(stream["c2s"], word["server"])
    BY <1>4, <1>8 DEF FifoAt, TalkAt, Talk, Turn, OnItsWay
  <2>2. Empty(stream'["c2s"], word'["server"])
    BY <1>1, <1>2, <2>1
  <2> QED
    BY <1>2, <1>3, <1>5, <1>6, <2>1, <2>2, ClientAnswered DEF FifoAt
<1> QED
  BY <1>7, <1>8

\* Steps that only take the processes to other places leave the conversation as it is.
LEMMA OnlyPlaces ==
  ASSUME NEW a, NEW h, NEW eC, NEW eS, TalkAt(a, h, eC, eS),
         UNCHANGED <<printed, stream, word>>, i'["client"] = i["client"],
         i'["server"] = i["server"] \/ pc'["server"] = "killed",
         \/ pc'["client"] \in {pc["client"], "killed"}
         \/ pc["client"] \in AtStart /\ pc'["client"] \in AtStart \cup {"write"}
         \/ /\ pc["client"] \in {"close_out", "close_in", "reap", "done"}
            /\ pc'["client"] \in {"close_out", "close_in", "reap", "done"},
         \/ pc'["server"] \in {pc["server"], "killed"}
         \/ pc["server"] \in AtStart /\ pc'["server"] \in AtStart \cup {"read"}
         \/ /\ pc["server"] \in {"close_in", "close_out", "done"}
            /\ pc'["server"] \in {"close_in", "close_out", "done"}
         \/ pc["server"] = "write" /\ pc'["server"] = "write_nul" /\ eS
  PROVE  Says(a, h, a, h, eC, eS)
<1>1. ClientAt(pc'["client"], i'["client"], a, h, eC, stream["c2s"], word["server"])
  BY DEF TalkAt, Talk, ClientAt, Alone, AtStart
<1>2. ServerAt(pc'["server"], i'["server"], a, h, eS, stream["s2c"], word["client"])
  BY DEF TalkAt, Talk, ServerAt, Alone, AtStart
<1>3. Alone(eC, eS)'
  BY DEF TalkAt, Alone, AtStart
<1>4. Talk(a, h, eC, eS)'
  BY <1>1, <1>2 DEF TalkAt, Talk
<1>5. Moved(a, h, Waiting, a, h, Waiting')
  BY DEF Moved, Waiting
<1> QED
  BY <1>3, <1>4, <1>5 DEF Says

\* The client writes a request, or dies.
LEMMA ClientWritesText ==
  ASSUME NEW a, NEW h, NEW eC, NEW eS, TalkAt(a, h, eC, eS), Fifo!WriteText("client"),
         eC => ~Fifo!CanRead("c2s")
  PROVE  Says(a, h, a, h, eC, eS)
<1>1. /\ pc["client"] = "write" /\ UNCHANGED <<i, printed, word>>
      /\ pc'["server"] = pc["server"] /\ stream'["s2c"] = stream["s2c"]
      /\ IF Fifo!CanRead("c2s")
           THEN /\ pc'["client"] = "write_nul"
                /\ stream'["c2s"] = Append(stream["c2s"], Ping(i["client"]))
           ELSE pc'["client"] = "killed" /\ UNCHANGED stream
  <2>1. Fifo!Message("client") = Ping(i["client"]) /\ Ping(i["client"]) # Nul
    BY PingFacts DEF Fifo!Message, Fifo!Ping, Ping
  <2> QED
    BY <2>1, FifoNames DEF TalkAt, Shape, Fifo!WriteText, Fifo!Write, Fifo!Goto
<1>2. CASE ~Fifo!CanRead("c2s")
  BY <1>1, <1>2, OnlyPlaces
<1>3. CASE Fifo!CanRead("c2s")
  <2>1. eC = FALSE /\ eS = FALSE
    BY <1>1, <1>3 DEF TalkAt, Alone
  <2>2. i["client"] = a /\ a < Iterations /\ h = a /\ Empty(stream["c2s"], word["server"])
    BY <1>1, <2>1 DEF TalkAt, Talk, ClientAt
  <2>3. Half(stream'["c2s"], word'["server"], a) /\ stream'["c2s"] # << >>
    <3>1. Half(Append(stream["c2s"], Ping(a)), word["server"], a)
      BY <2>2, PutText
    <3>2. Append(stream["c2s"], Ping(a)) = <<Ping(a)>>
      BY <2>2, Short DEF Empty
    <3> QED
      BY <1>1, <1>3, <2>2, <3>1, <3>2, Short
  <2>4. a \in Nat /\ Iterations \in Nat
    BY StreamAssumption DEF TalkAt
  <2>5. Empty(stream["s2c"], word["client"])
    BY <2>2, <2>4 DEF TalkAt, Talk, Turn
  <2>6. Turn(a, h, stream'["c2s"], word'["server"], stream'["s2c"], word'["client"])
    BY <1>1, <2>2, <2>3, <2>5 DEF Turn, OnItsWay
  <2>7. ClientAt(pc'["client"], i'["client"], a, h, eC, stream'["c2s"], word'["server"])
    BY <1>1, <1>3, <2>2, <2>3 DEF ClientAt, AtStart
  <2>8. ServerAt(pc'["server"], i'["server"], a, h, eS, stream'["s2c"], word'["client"])
    BY <1>1 DEF TalkAt, Talk
  <2>9. Talk(a, h, eC, eS)'
    BY <1>1, <2>6, <2>7, <2>8 DEF TalkAt, Talk
  <2>10. Alone(eC, eS)'
    BY <1>1, <2>1 DEF TalkAt, Alone
  <2>11. Moved(a, h, Waiting, a, h, Waiting')
    BY <2>2, <2>3 DEF Moved, Waiting, Empty
  <2> QED
    BY <2>9, <2>10, <2>11 DEF Says
<1> QED
  BY <1>2, <1>3

\* The client ends its request, or dies.
LEMMA ClientWritesNul ==
  ASSUME NEW a, NEW h, NEW eC, NEW eS, TalkAt(a, h, eC, eS), Fifo!WriteNul("client")
  PROVE  Says(a, h, a, h, eC, eS)
<1>1. /\ pc["client"] = "write_nul" /\ UNCHANGED <<i, printed, word>>
      /\ pc'["server"] = pc["server"] /\ stream'["s2c"] = stream["s2c"]
      /\ IF Fifo!CanRead("c2s")
           THEN /\ pc'["client"] = "read"
                /\ stream'["c2s"] = Append(stream["c2s"], Nul)
           ELSE pc'["client"] = "killed" /\ UNCHANGED stream
  BY FifoNames DEF TalkAt, Shape, Fifo!WriteNul, Fifo!Write, Fifo!Goto
<1>2. CASE ~Fifo!CanRead("c2s")
  BY <1>1, <1>2, OnlyPlaces
<1>3. CASE Fifo!CanRead("c2s")
  <2>1. eC = FALSE /\ eS = FALSE
    BY <1>1 DEF TalkAt, Alone
  <2>2. i["client"] = a /\ a < Iterations /\ h = a /\ Half(stream["c2s"], word["server"], a)
    BY <1>1, <2>1 DEF TalkAt, Talk, ClientAt
  <2>3. Whole(stream'["c2s"], word'["server"], a)
    BY <1>1, <1>3, <2>2, PutNul
  <2>4. a \in Nat /\ Iterations \in Nat
    BY StreamAssumption DEF TalkAt
  <2>5. Empty(stream["s2c"], word["client"]) /\ ~Empty(stream["c2s"], word["server"])
    BY <2>2, <2>4, PingFacts, Short DEF TalkAt, Talk, Turn, Half, Empty
  <2>6. Turn(a, h, stream'["c2s"], word'["server"], stream'["s2c"], word'["client"])
    BY <1>1, <2>2, <2>3, <2>5 DEF Turn, OnItsWay
  <2>7. ClientAt(pc'["client"], i'["client"], a, h, eC, stream'["c2s"], word'["server"])
    BY <1>1, <1>3, <2>2, <2>3 DEF ClientAt, AtStart
  <2>8. ServerAt(pc'["server"], i'["server"], a, h, eS, stream'["s2c"], word'["client"])
    BY <1>1 DEF TalkAt, Talk
  <2>9. Talk(a, h, eC, eS)'
    BY <1>1, <2>6, <2>7, <2>8 DEF TalkAt, Talk
  <2>10. Alone(eC, eS)'
    BY <2>1 DEF Alone
  <2>11. ~Empty(stream'["c2s"], word'["server"])
    BY <2>3, Short, PingFacts DEF Whole, Empty
  <2>12. Moved(a, h, Waiting, a, h, Waiting')
    BY <2>5, <2>11 DEF Moved, Waiting
  <2> QED
    BY <2>9, <2>10, <2>12 DEF Says
<1> QED
  BY <1>2, <1>3

\* What the server last printed is what it answers.
LEMMA LastLine ==
  ASSUME NEW n \in Nat
  PROVE  /\ Lines(n + 1, FALSE)[Len(Lines(n + 1, FALSE))] = Ping(n)
         /\ Lines(n, TRUE)[Len(Lines(n, TRUE))] = Nul
<1>1. PingsTo(n) \in Seq({Ping(k) : k \in Nat}) /\ Len(PingsTo(n)) = n
  BY DEF PingsTo
<1>2. PingsTo(n + 1)[n + 1] = Ping(n) /\ Len(PingsTo(n + 1)) = n + 1
  BY DEF PingsTo
<1>3. Append(PingsTo(n), Nul)[n + 1] = Nul /\ Len(Append(PingsTo(n), Nul)) = n + 1
  BY <1>1
<1> QED
  BY <1>2, <1>3 DEF Lines

\* The server writes its echo, an empty one for an empty line, or dies.
LEMMA ServerWritesText ==
  ASSUME NEW a, NEW h, NEW eC, NEW eS, TalkAt(a, h, eC, eS), Fifo!WriteText("server")
  PROVE  Says(a, h, a, h, eC, eS)
<1> DEFINE text == printed["server"][Len(printed["server"])]
<1>1. /\ pc["server"] = "write" /\ UNCHANGED <<i, printed, word>>
      /\ pc'["client"] = pc["client"] /\ stream'["c2s"] = stream["c2s"]
      /\ \/ text = Nul /\ pc'["server"] = "write_nul" /\ UNCHANGED stream
         \/ /\ text # Nul /\ Fifo!CanRead("s2c") /\ pc'["server"] = "write_nul"
            /\ stream'["s2c"] = Append(stream["s2c"], text)
         \/ text # Nul /\ ~Fifo!CanRead("s2c") /\ pc'["server"] = "killed" /\ UNCHANGED stream
  <2>1. Fifo!Message("server") = text
    BY DEF Fifo!Message
  <2> HIDE DEF text
  <2> QED
    BY <2>1, FifoNames DEF TalkAt, Shape, Fifo!WriteText, Fifo!Write, Fifo!Goto
<1>2. a \in Nat /\ h \in Nat
  BY StreamAssumption DEF TalkAt
<1>3. eS \/ (i["server"] + 1 = h /\ h = a + 1 /\ Empty(stream["s2c"], word["client"]))
  BY <1>1 DEF TalkAt, Talk, ServerAt
<1>4. eS = (text = Nul)
  <2>1. CASE eS = TRUE
    BY <1>2, <2>1, LastLine DEF TalkAt, Talk
  <2>2. CASE eS = FALSE
    <3>1. text = Ping(a)
      BY <1>2, <1>3, <2>2, LastLine DEF TalkAt, Talk
    <3> QED
      BY <2>2, <3>1, PingFacts
  <2> QED
    BY <2>1, <2>2 DEF TalkAt
<1>5. CASE eS \/ pc'["server"] = "killed"
  <2> HIDE DEF text
  <2>1. UNCHANGED stream /\ (pc'["server"] = "killed" \/ (eS /\ pc'["server"] = "write_nul"))
    BY <1>1, <1>4, <1>5
  <2> QED
    BY <1>1, <2>1, OnlyPlaces
<1>6. CASE ~eS /\ pc'["server"] # "killed"
  <2>1. eS = FALSE /\ text = Ping(a)
    BY <1>2, <1>3, <1>6, LastLine DEF TalkAt, Talk
  <2> HIDE DEF text
  <2>2. pc'["server"] = "write_nul" /\ stream'["s2c"] = Append(stream["s2c"], Ping(a))
    BY <1>1, <1>4, <1>6, <2>1
  <2>3. Half(stream'["s2c"], word'["client"], a)
    BY <1>1, <1>3, <1>6, <2>2, PutText
  <2>4. Empty(stream["c2s"], word["server"])
    BY <1>2, <1>3, <1>6 DEF TalkAt, Talk, Turn
  <2>5. Turn(a, h, stream'["c2s"], word'["server"], stream'["s2c"], word'["client"])
    BY <1>1, <1>3, <1>6, <2>3, <2>4 DEF Turn, OnItsWay
  <2>6. ClientAt(pc'["client"], i'["client"], a, h, eC, stream'["c2s"], word'["server"])
    BY <1>1 DEF TalkAt, Talk
  <2>7. ServerAt(pc'["server"], i'["server"], a, h, eS, stream'["s2c"], word'["client"])
    BY <1>1, <1>3, <1>6, <2>2, <2>3 DEF ServerAt, AtStart
  <2>8. Talk(a, h, eC, eS)'
    BY <1>1, <2>5, <2>6, <2>7 DEF TalkAt, Talk
  <2>9. Alone(eC, eS)'
    BY <1>1, <2>1 DEF TalkAt, Alone
  <2>10. Moved(a, h, Waiting, a, h, Waiting')
    BY <1>1 DEF Moved, Waiting
  <2> QED
    BY <2>8, <2>9, <2>10 DEF Says
<1> QED
  BY <1>5, <1>6

\* The server ends its echo, or dies.
LEMMA ServerWritesNul ==
  ASSUME NEW a, NEW h, NEW eC, NEW eS, TalkAt(a, h, eC, eS), Fifo!WriteNul("server"),
         eS => ~Fifo!CanRead("s2c")
  PROVE  Says(a, h, a, h, eC, eS)
<1>1. /\ pc["server"] = "write_nul" /\ UNCHANGED <<printed, word>>
      /\ pc'["client"] = pc["client"] /\ stream'["c2s"] = stream["c2s"]
      /\ i'["client"] = i["client"]
      /\ IF Fifo!CanRead("s2c")
           THEN /\ pc'["server"] = IF i["server"] + 1 < Iterations THEN "read" ELSE "close_in"
                /\ stream'["s2c"] = Append(stream["s2c"], Nul)
                /\ i'["server"] = i["server"] + 1
           ELSE pc'["server"] = "killed" /\ UNCHANGED stream
  BY FifoNames DEF TalkAt, Shape, Fifo!WriteNul, Fifo!Write, Fifo!Goto, Fifo!Round
<1>2. CASE ~Fifo!CanRead("s2c")
  BY <1>1, <1>2, OnlyPlaces
<1>3. CASE Fifo!CanRead("s2c")
  <2>1. eS = FALSE
    BY <1>3 DEF TalkAt, Alone
  <2>2. i["server"] + 1 = h /\ h = a + 1 /\ Half(stream["s2c"], word["client"], a)
    BY <1>1, <2>1 DEF TalkAt, Talk, ServerAt
  <2>3. Whole(stream'["s2c"], word'["client"], a)
    BY <1>1, <1>3, <2>2, PutNul
  <2>4. a \in Nat /\ h \in 0 .. Iterations /\ Iterations \in Nat
    BY StreamAssumption DEF TalkAt
  <2>5. Empty(stream["c2s"], word["server"])
    BY <2>2, <2>4 DEF TalkAt, Talk, Turn
  <2>6. Turn(a, h, stream'["c2s"], word'["server"], stream'["s2c"], word'["client"])
    BY <1>1, <2>2, <2>3, <2>5 DEF Turn, OnItsWay
  <2>7. ClientAt(pc'["client"], i'["client"], a, h, eC, stream'["c2s"], word'["server"])
    BY <1>1 DEF TalkAt, Talk
  <2>8. ServerAt(pc'["server"], i'["server"], a, h, eS, stream'["s2c"], word'["client"])
    <3>1. i'["server"] = h
      BY <1>1, <1>3, <2>2
    <3>2. CASE h < Iterations
      BY <1>1, <1>3, <2>2, <2>3, <3>1, <3>2 DEF ServerAt, AtStart
    <3>3. CASE h = Iterations
      BY <1>1, <1>3, <2>2, <2>3, <2>4, <3>3 DEF ServerAt, AtStart
    <3> QED
      BY <2>4, <3>2, <3>3
  <2>9. Talk(a, h, eC, eS)'
    BY <1>1, <2>6, <2>7, <2>8 DEF TalkAt, Talk
  <2>10. Alone(eC, eS)'
    BY <1>1, <1>3, <2>1, FifoPartner DEF TalkAt, Alone
  <2>11. Moved(a, h, Waiting, a, h, Waiting')
    BY <1>1 DEF Moved, Waiting
  <2> QED
    BY <2>9, <2>10, <2>11 DEF Says
<1> QED
  BY <1>2, <1>3

\* A process that reads or writes keeps its ends.
LEMMA CarryOn ==
  ASSUME FifoEnds, Meeting, NEW p \in Procs, UNCHANGED ends,
         pc[p] \in {"read", "write", "write_nul"},
         pc'[p] \in {"read", "write", "write_nul", IF p = "client" THEN "close_out" ELSE "close_in"},
         pc'[Other(p)] = pc[Other(p)]
  PROVE  FifoEnds' /\ Meeting'
<1>1. \A q \in Procs, s \in Streams : pc'[q] \in Holders(q, s) <=> pc[q] \in Holders(q, s)
  BY FifoNames DEF Holders
<1>2. FifoEnds'
  BY <1>1 DEF FifoEnds
<1>3. Meeting'
  BY FifoNames DEF Meeting, FifoPlaces
<1> QED
  BY <1>2, <1>3

\* A process that dies leaves all its ends.
LEMMA Dying ==
  ASSUME FifoEnds, Meeting, NEW p \in Procs, ends' = ends \ Lost(p),
         pc'[p] = "killed", pc'[Other(p)] = pc[Other(p)]
  PROVE  FifoEnds' /\ Meeting'
<1>1. \A q \in Procs, s \in Streams, m \in {"r", "w"} :
        <<q, s, m>> \in ends' <=> <<q, s, m>> \in ends /\ q # p
  BY DEF Lost
<1>2. \A s \in Streams : pc'[p] \notin Holders(p, s)
  BY FifoNames DEF Holders
<1>3. \A q \in Procs \ {p} : pc'[q] = pc[q]
  BY FifoNames
<1>4. FifoEnds'
  BY <1>1, <1>2, <1>3 DEF FifoEnds
<1>5. Meeting'
  BY FifoNames DEF Meeting, FifoPlaces
<1> QED
  BY <1>4, <1>5

\* close(): what a process closes is what it does not hold at the next place.
LEMMA Closing ==
  ASSUME FifoEnds, Meeting, NEW p \in Procs, NEW s \in Streams, NEW m \in {"r", "w"},
         NEW from, NEW to, pc[p] = from, pc'[p] = to, pc'[Other(p)] = pc[Other(p)],
         from \in {"close_in", "close_out"}, to \in {"close_in", "close_out", "reap", "done"},
         to = "reap" => p = "client",
         m = (IF s = Out(p) THEN "w" ELSE "r"),
         \A s2 \in Streams :
           to \in Holders(p, s2) <=> from \in Holders(p, s2) /\ s2 # s,
         ends' = ends \ {<<p, s, m>>}
  PROVE  FifoEnds' /\ Meeting'
<1>1. \A q \in Procs \ {p} : pc'[q] = pc[q]
  BY FifoNames
<1>2. \A q \in Procs, s2 \in Streams, m2 \in {"r", "w"} :
        <<q, s2, m2>> \in ends' <=> <<q, s2, m2>> \in ends /\ <<q, s2, m2>> # <<p, s, m>>
  OBVIOUS
<1>3. FifoEnds'
  <2> SUFFICES ASSUME NEW q \in Procs, NEW s2 \in Streams, NEW m2 \in {"r", "w"}
               PROVE  <<q, s2, m2>> \in ends' <=>
                        m2 = (IF s2 = Out(q) THEN "w" ELSE "r") /\ pc'[q] \in Holders(q, s2)
    BY DEF FifoEnds
  <2>1. <<q, s2, m2>> \in ends <=>
          m2 = (IF s2 = Out(q) THEN "w" ELSE "r") /\ pc[q] \in Holders(q, s2)
    BY DEF FifoEnds
  <2>2. <<q, s2, m2>> \in ends' <=> <<q, s2, m2>> \in ends /\ ~(q = p /\ s2 = s /\ m2 = m)
    BY <1>2
  <2> QED
    BY <1>1, <2>1, <2>2
<1>4. Meeting'
  BY FifoNames DEF Meeting, FifoPlaces
<1> QED
  BY <1>3, <1>4

\* The four close() of mkfifo.c and the end of the client's wait()
LEMMA FifoCloses ==
  ASSUME Shape, FifoEnds, Meeting,
         Fifo!ClientClose \/ Fifo!ServerClose \/ Fifo!Reap
  PROVE  FifoEnds' /\ Meeting'
<1>1. CASE Fifo!Close("client", "close_out", {<<"c2s", "w">>}, "close_in")
  <2>1. /\ pc["client"] = "close_out" /\ pc'["client"] = "close_in"
        /\ pc'["server"] = pc["server"] /\ ends' = ends \ {<<"client", "c2s", "w">>}
    BY <1>1, FifoNames DEF Shape, Fifo!Close, Fifo!Goto
  <2>2. \A s2 \in Streams : "close_in" \in Holders("client", s2) <=>
          "close_out" \in Holders("client", s2) /\ s2 # "c2s"
    BY FifoNames DEF Holders
  <2> QED
    BY <2>1, <2>2, FifoNames, Closing
<1>2. CASE Fifo!Close("client", "close_in", {<<"s2c", "r">>}, "reap")
  <2>1. /\ pc["client"] = "close_in" /\ pc'["client"] = "reap"
        /\ pc'["server"] = pc["server"] /\ ends' = ends \ {<<"client", "s2c", "r">>}
    BY <1>2, FifoNames DEF Shape, Fifo!Close, Fifo!Goto
  <2>2. \A s2 \in Streams : "reap" \in Holders("client", s2) <=>
          "close_in" \in Holders("client", s2) /\ s2 # "s2c"
    BY FifoNames DEF Holders
  <2> QED
    BY <2>1, <2>2, FifoNames, Closing
<1>3. CASE Fifo!Close("server", "close_in", {<<"c2s", "r">>}, "close_out")
  <2>1. /\ pc["server"] = "close_in" /\ pc'["server"] = "close_out"
        /\ pc'["client"] = pc["client"] /\ ends' = ends \ {<<"server", "c2s", "r">>}
    BY <1>3, FifoNames DEF Shape, Fifo!Close, Fifo!Goto
  <2>2. \A s2 \in Streams : "close_out" \in Holders("server", s2) <=>
          "close_in" \in Holders("server", s2) /\ s2 # "c2s"
    BY FifoNames DEF Holders
  <2> QED
    BY <2>1, <2>2, FifoNames, Closing
<1>4. CASE Fifo!Close("server", "close_out", {<<"s2c", "w">>}, "done")
  <2>1. /\ pc["server"] = "close_out" /\ pc'["server"] = "done"
        /\ pc'["client"] = pc["client"] /\ ends' = ends \ {<<"server", "s2c", "w">>}
    BY <1>4, FifoNames DEF Shape, Fifo!Close, Fifo!Goto
  <2>2. \A s2 \in Streams : "done" \in Holders("server", s2) <=>
          "close_out" \in Holders("server", s2) /\ s2 # "s2c"
    BY FifoNames DEF Holders
  <2> QED
    BY <2>1, <2>2, FifoNames, Closing
<1>5. CASE Fifo!Reap
  <2>1. /\ pc["client"] = "reap" /\ pc'["client"] = "done"
        /\ pc'["server"] = pc["server"] /\ UNCHANGED ends
    BY <1>5, FifoNames DEF Shape, Fifo!Reap, Fifo!Goto
  <2>2. \A q \in Procs, s \in Streams : pc'[q] \in Holders(q, s) <=> pc[q] \in Holders(q, s)
    BY <2>1, FifoNames DEF Holders
  <2>3. FifoEnds'
    BY <2>1, <2>2 DEF FifoEnds
  <2>4. Meeting'
    BY <2>1, FifoNames DEF Meeting, FifoPlaces
  <2> QED
    BY <2>3, <2>4
<1> QED
  BY <1>1, <1>2, <1>3, <1>4, <1>5 DEF Fifo!ClientClose, Fifo!ServerClose

\* open() of the FIFO from client to server
LEMMA FirstOpen ==
  ASSUME Shape, FifoEnds, Meeting, NEW p \in Procs, Fifo!OpenC2S(p)
  PROVE  /\ FifoEnds' /\ Meeting' /\ Shape'
         /\ pc[p] \in AtStart /\ pc'[p] \in AtStart
         /\ pc'[Other(p)] = pc[Other(p)] \/ (pc[Other(p)] \in AtStart /\ pc'[Other(p)] \in AtStart)
         /\ UNCHANGED <<i, printed, stream, kills, word>>
<1> DEFINE q == Other(p)
           met == <<q, "c2s", IF "c2s" = Out(q) THEN "w" ELSE "r">> \in ends
<1>1. q \in Procs /\ q # p /\ Procs = {p, q} /\ Other(q) = p /\ Other(p) = q
  BY FifoNames
<1>2. /\ pc[p] = "open_c2s"
      /\ ends' = ends \cup {<<p, "c2s", IF "c2s" = Out(p) THEN "w" ELSE "r">>}
      /\ pc' = [pc EXCEPT ![p] = IF met THEN "open_s2c" ELSE "wait_c2s",
                          ![q] = IF @ = "wait_c2s" THEN "open_s2c" ELSE @]
      /\ UNCHANGED <<i, printed, stream, kills, word>>
  BY DEF Fifo!OpenC2S, Fifo!OpenFifo, Fifo!Mode, Fifo!Out, Fifo!Other, Out, Other
<1>3. met <=> pc[q] \in Holders(q, "c2s")
  BY <1>1, FifoNames DEF FifoEnds
<1>4. pc[q] \in {"open_c2s", "wait_c2s", "killed"}
  BY <1>1, <1>2 DEF Meeting
<1>5. met <=> pc[q] = "wait_c2s"
  BY <1>3, <1>4, FifoNames DEF Holders
<1> HIDE DEF q, met
<1>6. /\ pc'[p] = IF met THEN "open_s2c" ELSE "wait_c2s"
      /\ pc'[q] = IF met THEN "open_s2c" ELSE pc[q]
      /\ pc' = [r \in Procs |-> pc'[r]]
  BY <1>1, <1>2, <1>5 DEF Shape
<1>7. Meeting'
  BY <1>1, <1>4, <1>5, <1>6 DEF Meeting, FifoPlaces
<1>8. FifoEnds'
  <2> SUFFICES ASSUME NEW r \in Procs, NEW s \in Streams, NEW m \in {"r", "w"}
               PROVE  <<r, s, m>> \in ends' <=>
                        m = (IF s = Out(r) THEN "w" ELSE "r") /\ pc'[r] \in Holders(r, s)
    BY DEF FifoEnds
  <2>1. <<r, s, m>> \in ends <=>
          m = (IF s = Out(r) THEN "w" ELSE "r") /\ pc[r] \in Holders(r, s)
    BY DEF FifoEnds
  <2>2. <<r, s, m>> \in ends' <=>
          \/ <<r, s, m>> \in ends
          \/ r = p /\ s = "c2s" /\ m = (IF "c2s" = Out(p) THEN "w" ELSE "r")
    BY <1>2
  <2>3. CASE r = p
    BY <1>2, <1>6, <2>1, <2>2, <2>3, FifoNames DEF Holders
  <2>4. CASE r = q
    BY <1>1, <1>4, <1>5, <1>6, <2>1, <2>2, <2>4, FifoNames DEF Holders
  <2> QED
    BY <1>1, <2>3, <2>4
<1>9. Shape'
  BY <1>2, <1>6 DEF Shape
<1> QED
  BY <1>2, <1>4, <1>5, <1>6, <1>7, <1>8, <1>9 DEF AtStart, q

\* open() of the FIFO from server to client
LEMMA SecondOpen ==
  ASSUME Shape, FifoEnds, Meeting, NEW p \in Procs, Fifo!OpenS2C(p)
  PROVE  /\ FifoEnds' /\ Meeting' /\ Shape'
         /\ pc[p] \in AtStart /\ pc'[p] \in {"wait_s2c", Fifo!First(p)}
         /\ \/ pc'[Other(p)] = pc[Other(p)]
            \/ pc[Other(p)] \in AtStart /\ pc'[Other(p)] = Fifo!First(Other(p))
         /\ UNCHANGED <<i, printed, stream, kills, word>>
<1> DEFINE q == Other(p)
           met == <<q, "s2c", IF "s2c" = Out(q) THEN "w" ELSE "r">> \in ends
<1>1. q \in Procs /\ q # p /\ Procs = {p, q} /\ Other(q) = p /\ Other(p) = q
  BY FifoNames
<1>2. /\ pc[p] = "open_s2c"
      /\ ends' = ends \cup {<<p, "s2c", IF "s2c" = Out(p) THEN "w" ELSE "r">>}
      /\ pc' = [pc EXCEPT ![p] = IF met THEN Fifo!First(p) ELSE "wait_s2c",
                          ![q] = IF @ = "wait_s2c" THEN Fifo!First(q) ELSE @]
      /\ UNCHANGED <<i, printed, stream, kills, word>>
  BY DEF Fifo!OpenS2C, Fifo!OpenFifo, Fifo!Mode, Fifo!Out, Fifo!Other, Out, Other
<1>3. met <=> pc[q] \in Holders(q, "s2c")
  BY <1>1, FifoNames DEF FifoEnds
<1>4. pc[q] \in {"open_s2c", "wait_s2c", "killed"}
  BY <1>1, <1>2 DEF Meeting
<1>5. met <=> pc[q] = "wait_s2c"
  BY <1>3, <1>4, FifoNames DEF Holders
<1>6. Fifo!First(p) \in {"read", "write"} /\ Fifo!First(q) \in {"read", "write"}
  BY DEF Fifo!First
<1> HIDE DEF q, met
<1>7. /\ pc'[p] = IF met THEN Fifo!First(p) ELSE "wait_s2c"
      /\ pc'[q] = IF met THEN Fifo!First(q) ELSE pc[q]
      /\ pc' = [r \in Procs |-> pc'[r]]
  BY <1>1, <1>2, <1>5 DEF Shape
<1>8. Meeting'
  BY <1>1, <1>4, <1>5, <1>6, <1>7 DEF Meeting, FifoPlaces
<1>9. FifoEnds'
  <2> SUFFICES ASSUME NEW r \in Procs, NEW s \in Streams, NEW m \in {"r", "w"}
               PROVE  <<r, s, m>> \in ends' <=>
                        m = (IF s = Out(r) THEN "w" ELSE "r") /\ pc'[r] \in Holders(r, s)
    BY DEF FifoEnds
  <2>1. <<r, s, m>> \in ends <=>
          m = (IF s = Out(r) THEN "w" ELSE "r") /\ pc[r] \in Holders(r, s)
    BY DEF FifoEnds
  <2>2. <<r, s, m>> \in ends' <=>
          \/ <<r, s, m>> \in ends
          \/ r = p /\ s = "s2c" /\ m = (IF "s2c" = Out(p) THEN "w" ELSE "r")
    BY <1>2
  <2>3. CASE r = p
    BY <1>2, <1>6, <1>7, <2>1, <2>2, <2>3, FifoNames DEF Holders
  <2>4. CASE r = q
    BY <1>1, <1>4, <1>5, <1>6, <1>7, <2>1, <2>2, <2>4, FifoNames DEF Holders
  <2> QED
    BY <1>1, <2>3, <2>4
<1>10. Shape'
  BY <1>2, <1>7 DEF Shape
<1> QED
  BY <1>2, <1>4, <1>5, <1>7, <1>8, <1>9, <1>10 DEF AtStart, q

\* The invariant of mkfifo.c after a step, and what the step does to the numbers
FifoGoes(a, h) ==
  \E a2, h2 \in 0 .. Iterations, eC2, eS2 \in BOOLEAN :
    FifoAt(a2, h2, eC2, eS2)' /\ Moved(a, h, Waiting, a2, h2, Waiting')

\* Its parts
LEMMA FifoParts ==
  ASSUME NEW a, NEW h, NEW a2 \in 0 .. Iterations, NEW h2 \in 0 .. Iterations,
         NEW eC2 \in BOOLEAN, NEW eS2 \in BOOLEAN,
         Says(a, h, a2, h2, eC2, eS2), Shape', FifoEnds', Meeting'
  PROVE  FifoGoes(a, h)
<1>1. FifoAt(a2, h2, eC2, eS2)'
  BY DEF FifoAt, TalkAt, Says
<1> QED
  BY <1>1 DEF FifoGoes, Says

\* The reads
LEMMA FifoReads ==
  ASSUME NEW a, NEW h, NEW eC, NEW eS, FifoAt(a, h, eC, eS), NEW p \in Procs,
         Fifo!ReadText(p) \/ Fifo!ReadNul(p) \/ Fifo!ReadEof(p)
  PROVE  FifoGoes(a, h)
<1>1. /\ a \in 0 .. Iterations /\ h \in 0 .. Iterations /\ eC \in BOOLEAN /\ eS \in BOOLEAN
      /\ Shape /\ FifoEnds /\ Meeting /\ TalkAt(a, h, eC, eS)
  BY DEF FifoAt, TalkAt
<1>2. p = "client" \/ p = "server"
  BY FifoNames
<1>3. /\ pc[p] = "read" /\ UNCHANGED ends /\ pc'[Other(p)] = pc[Other(p)]
      /\ pc'[p] \in {"read", "write", IF p = "client" THEN "close_out" ELSE "close_in"}
      /\ Shape'
  <2>1. CASE Fifo!ReadText(p)
    BY <1>1, <1>2, <2>1, FifoNames DEF Shape, Fifo!ReadText
  <2>2. CASE Fifo!ReadNul(p) \/ Fifo!ReadEof(p)
    <3>1. UNCHANGED ends /\ Fifo!Got(p, word[p]) /\ stream' = [s \in Streams |-> stream'[s]]
      BY <1>1, <1>2, <2>2, FifoNames DEF Shape, Fifo!ReadNul, Fifo!ReadEof
    <3>2. CASE p = "client"
      BY <1>1, <3>1, <3>2, FifoNames DEF Shape, Fifo!Got, Fifo!Goto, Fifo!Round
    <3>3. CASE p = "server"
      BY <1>1, <3>1, <3>3, FifoNames DEF Shape, Fifo!Got, Fifo!Goto
    <3> QED
      BY <1>2, <3>2, <3>3
  <2> QED
    BY <2>1, <2>2
<1>4. FifoEnds' /\ Meeting'
  BY <1>1, <1>3, CarryOn
<1>5. CASE p = "client"
  <2>1. CASE Fifo!ReadText("client")
    BY <1>1, <1>3, <1>4, <2>1, ClientReadsText, FifoParts
  <2>2. CASE Fifo!ReadNul("client")
    BY <1>1, <1>3, <1>4, <2>2, ClientReadsNul, FifoParts
  <2>3. CASE Fifo!ReadEof("client")
    <3>1. TRUE \in BOOLEAN
      OBVIOUS
    <3>2. CASE a + 1 \in 0 .. Iterations /\ Says(a, h, a + 1, h, eC, eS)
      BY <1>1, <1>3, <1>4, <3>2, FifoParts
    <3>3. CASE Says(a, h, a, h, TRUE, eS)
      BY <1>1, <1>3, <1>4, <3>1, <3>3, FifoParts
    <3> QED
      BY <2>3, <3>2, <3>3, ClientReadsEnd
  <2> QED
    BY <1>5, <2>1, <2>2, <2>3
<1>6. CASE p = "server"
  <2>1. CASE Fifo!ReadText("server")
    BY <1>1, <1>3, <1>4, <2>1, ServerReadsText, FifoParts
  <2>2. CASE Fifo!ReadNul("server")
    BY <1>1, <1>3, <1>4, <2>2, ServerReadsNul, FifoParts
  <2>3. CASE Fifo!ReadEof("server")
    <3>1. TRUE \in BOOLEAN
      OBVIOUS
    <3>2. CASE h + 1 \in 0 .. Iterations /\ Says(a, h, a, h + 1, eC, eS)
      BY <1>1, <1>3, <1>4, <3>2, FifoParts
    <3>3. CASE Says(a, h, a, h, eC, TRUE)
      BY <1>1, <1>3, <1>4, <3>1, <3>3, FifoParts
    <3> QED
      BY <2>3, <3>2, <3>3, ServerReadsEnd
  <2> QED
    BY <1>6, <2>1, <2>2, <2>3
<1> QED
  BY <1>2, <1>5, <1>6

\* The writes
LEMMA FifoWrites ==
  ASSUME NEW a, NEW h, NEW eC, NEW eS, FifoAt(a, h, eC, eS), NEW p \in Procs,
         Fifo!WriteText(p) \/ Fifo!WriteNul(p)
  PROVE  FifoGoes(a, h)
<1>1. /\ a \in 0 .. Iterations /\ h \in 0 .. Iterations /\ eC \in BOOLEAN /\ eS \in BOOLEAN
      /\ Shape /\ FifoEnds /\ Meeting /\ TalkAt(a, h, eC, eS)
  BY DEF FifoAt, TalkAt
<1>2. p = "client" \/ p = "server"
  BY FifoNames
<1>3. /\ pc[p] \in {"write", "write_nul"} /\ pc'[Other(p)] = pc[Other(p)] /\ Shape'
      /\ \/ /\ pc'[p] = "killed"
            /\ ends' = ends \ Lost(p)
         \/ /\ pc'[p] \in {"read", "write_nul", IF p = "client" THEN "close_out" ELSE "close_in"}
            /\ UNCHANGED ends
  <2>1. CASE Fifo!WriteText(p)
    BY <1>1, <1>2, <2>1, FifoNames
       DEF Shape, Fifo!WriteText, Fifo!Write, Fifo!Goto, Fifo!Lost, Lost
  <2>2. CASE Fifo!WriteNul(p)
    BY <1>1, <1>2, <2>2, FifoNames
       DEF Shape, Fifo!WriteNul, Fifo!Write, Fifo!Goto, Fifo!Round, Fifo!Lost, Lost
  <2> QED
    BY <2>1, <2>2
<1>4. FifoEnds' /\ Meeting'
  BY <1>1, <1>3, CarryOn, Dying
<1>p. (eC => ~Fifo!CanRead("c2s")) /\ (eS => ~Fifo!CanRead("s2c"))
  BY <1>1, FifoPartner DEF TalkAt, Alone
<1>5. CASE p = "client"
  BY <1>1, <1>3, <1>4, <1>5, <1>p, ClientWritesText, ClientWritesNul, FifoParts
<1>6. CASE p = "server"
  BY <1>1, <1>3, <1>4, <1>6, <1>p, ServerWritesText, ServerWritesNul, FifoParts
<1> QED
  BY <1>2, <1>5, <1>6

\* The open() and close() calls, wait() and the signals from outside
LEMMA FifoMoves ==
  ASSUME NEW a, NEW h, NEW eC, NEW eS, FifoAt(a, h, eC, eS), NEW p \in Procs,
         \/ Fifo!OpenC2S(p) \/ Fifo!OpenS2C(p)
         \/ p = "client" /\ (Fifo!ClientClose \/ (Fifo!Reap /\ UNCHANGED word))
         \/ p = "server" /\ Fifo!ServerClose
         \/ Kill(p) /\ UNCHANGED word
  PROVE  FifoGoes(a, h)
<1>1. /\ a \in 0 .. Iterations /\ h \in 0 .. Iterations /\ eC \in BOOLEAN /\ eS \in BOOLEAN
      /\ Shape /\ FifoEnds /\ Meeting /\ TalkAt(a, h, eC, eS)
  BY DEF FifoAt, TalkAt
<1>2. p = "client" \/ p = "server"
  BY FifoNames
<1>3. CASE Fifo!OpenC2S(p)
  <2>1. /\ FifoEnds' /\ Meeting' /\ Shape'
        /\ pc[p] \in AtStart /\ pc'[p] \in AtStart
        /\ pc'[Other(p)] = pc[Other(p)] \/ (pc[Other(p)] \in AtStart /\ pc'[Other(p)] \in AtStart)
        /\ UNCHANGED <<i, printed, stream, kills, word>>
    BY <1>1, <1>3, FirstOpen
  <2>2. Says(a, h, a, h, eC, eS)
    BY <1>2, <2>1, FifoNames, OnlyPlaces, <1>1
  <2> QED
    BY <1>1, <2>1, <2>2, FifoParts
<1>4. CASE Fifo!OpenS2C(p)
  <2>1. /\ FifoEnds' /\ Meeting' /\ Shape'
        /\ pc[p] \in AtStart /\ pc'[p] \in {"wait_s2c", Fifo!First(p)}
        /\ \/ pc'[Other(p)] = pc[Other(p)]
           \/ pc[Other(p)] \in AtStart /\ pc'[Other(p)] = Fifo!First(Other(p))
        /\ UNCHANGED <<i, printed, stream, kills, word>>
    BY <1>1, <1>4, SecondOpen
  <2>2. Fifo!First("client") = "write" /\ Fifo!First("server") = "read"
    BY DEF Fifo!First
  <2>3. "wait_s2c" \in AtStart
    BY DEF AtStart
  <2>4. Says(a, h, a, h, eC, eS)
    BY <1>2, <2>1, <2>2, <2>3, FifoNames, OnlyPlaces, <1>1
  <2> QED
    BY <1>1, <2>1, <2>4, FifoParts
<1>5. CASE p = "client" /\ (Fifo!ClientClose \/ (Fifo!Reap /\ UNCHANGED word))
  <2>1. /\ UNCHANGED <<i, printed, stream, word>> /\ pc'["server"] = pc["server"] /\ Shape'
        /\ pc["client"] \in {"close_out", "close_in", "reap", "done"}
        /\ pc'["client"] \in {"close_out", "close_in", "reap", "done"}
    BY <1>1, <1>5, FifoNames DEF Shape, Fifo!ClientClose, Fifo!Close, Fifo!Reap, Fifo!Goto
  <2>2. FifoEnds' /\ Meeting'
    BY <1>1, <1>5, FifoCloses
  <2>3. Says(a, h, a, h, eC, eS)
    BY <2>1, OnlyPlaces, <1>1
  <2> QED
    BY <1>1, <2>1, <2>2, <2>3, FifoParts
<1>6. CASE p = "server" /\ Fifo!ServerClose
  <2>1. /\ UNCHANGED <<i, printed, stream, word>> /\ pc'["client"] = pc["client"] /\ Shape'
        /\ pc["server"] \in {"close_out", "close_in", "done"}
        /\ pc'["server"] \in {"close_out", "close_in", "done"}
    BY <1>1, <1>6, FifoNames DEF Shape, Fifo!ServerClose, Fifo!Close, Fifo!Goto
  <2>2. FifoEnds' /\ Meeting'
    BY <1>1, <1>6, FifoCloses
  <2>3. Says(a, h, a, h, eC, eS)
    BY <2>1, OnlyPlaces, <1>1
  <2> QED
    BY <1>1, <2>1, <2>2, <2>3, FifoParts
<1>7. CASE Kill(p) /\ UNCHANGED word
  <2>1. /\ UNCHANGED <<i, printed, stream, word>> /\ pc'[Other(p)] = pc[Other(p)] /\ Shape'
        /\ pc'[p] = "killed" /\ ends' = ends \ Lost(p)
    BY <1>1, <1>2, <1>7, FifoNames DEF Shape, Kill
  <2>2. FifoEnds' /\ Meeting'
    BY <1>1, <2>1, Dying
  <2>3. Says(a, h, a, h, eC, eS)
    BY <1>2, <2>1, FifoNames, OnlyPlaces, <1>1
  <2> QED
    BY <1>1, <2>1, <2>2, <2>3, FifoParts
<1> QED
  BY <1>3, <1>4, <1>5, <1>6, <1>7

\* main() of mkfifo.c after fork
LEMMA FifoStart ==
  ASSUME Fifo!Init
  PROVE  FifoAt(0, 0, FALSE, FALSE)
<1>1. /\ i = [p \in Procs |-> 0] /\ printed = [p \in Procs |-> << >>]
      /\ stream = [s \in Streams |-> << >>] /\ ends = {}
      /\ pc = [p \in Procs |-> "open_c2s"] /\ word = [p \in Procs |-> Nul]
  BY FifoNames DEF Fifo!Init, Fifo!StreamInit, Fifo!Streams, Streams
<1>2. Shape /\ Meeting
  BY <1>1, FifoNames DEF Shape, Meeting, FifoPlaces
<1>3. FifoEnds
  BY <1>1, FifoNames DEF FifoEnds, Holders
<1>4. Lines(0, FALSE) = << >>
  BY LineFacts DEF Lines
<1>5. Empty(<< >>, Nul)
  BY DEF Empty
<1>6. Turn(0, 0, << >>, Nul, << >>, Nul)
  BY <1>5 DEF Turn, OnItsWay
<1>7. /\ ClientAt("open_c2s", 0, 0, 0, FALSE, << >>, Nul)
      /\ ServerAt("open_c2s", 0, 0, 0, FALSE, << >>, Nul)
  BY <1>5, StreamAssumption DEF ClientAt, ServerAt, AtStart
<1>8. Talk(0, 0, FALSE, FALSE)
  BY <1>1, <1>4, <1>6, <1>7, FifoNames DEF Talk
<1>9. Alone(FALSE, FALSE)
  BY DEF Alone
<1>10. 0 \in 0 .. Iterations /\ FALSE \in BOOLEAN
  BY StreamAssumption
<1> QED
  BY <1>2, <1>3, <1>8, <1>9, <1>10 DEF FifoAt, TalkAt

\* Every step of mkfifo.c
LEMMA FifoStepOK ==
  ASSUME NEW a, NEW h, NEW eC, NEW eS, FifoAt(a, h, eC, eS), NEW p \in Procs,
         Fifo!Step(p) \/ (Kill(p) /\ UNCHANGED word)
  PROVE  FifoGoes(a, h)
BY FifoReads, FifoWrites, FifoMoves DEF Fifo!Step

-------------------------------------------------------------------------------
(* pipes.c: the order of the pings, however the reads fall                 *)

Pieces == {Nul} \cup {Ping(n) : n \in Nat}

\* All pings in s have numbers below n; and those of t come after those of s.
Below(s, n) == \A k \in DOMAIN s : s[k] # Nul => s[k][2] < n
Before(s, t) == \A m \in DOMAIN t : t[m] # Nul => Below(s, t[m][2])
Rising(s) == \A m, n \in DOMAIN s : m < n /\ s[m] # Nul /\ s[n] # Nul => s[m][2] < s[n][2]

\* What the client has printed (sayC), what is on its way to it (s2c), what the server
\* has printed (sayS), what is on its way to it (c2s) and the client's next request
\* (n or n + 1) come in this order.  What is on its way to a server that has ended
\* will not be echoed.
Order(atC, atS, n, sayC, sayS, c2s, s2c) ==
  /\ n \in Nat
  /\ sayC \in Seq(Pieces) /\ sayS \in Seq(Pieces) /\ c2s \in Seq(Pieces) /\ s2c \in Seq(Pieces)
  /\ Rising(sayC) /\ Rising(sayS) /\ Rising(c2s) /\ Rising(s2c)
  /\ Before(sayS, c2s) /\ Before(sayC, s2c)
  /\ Below(c2s, n + 1) /\ Below(s2c, n + 1) /\ Below(sayS, n + 1) /\ Below(sayC, n)
  /\ atC \in {"close_unused", "write"} => Below(c2s, n) /\ Below(s2c, n) /\ Below(sayS, n)
  /\ atS \notin {"done", "killed"} => Before(sayC, c2s) /\ Before(s2c, c2s)
  /\ atS = "write" =>
       /\ sayS # << >>
       /\ sayS[Len(sayS)] # Nul =>
            Below(sayC, sayS[Len(sayS)][2]) /\ Below(s2c, sayS[Len(sayS)][2])

\* The number of a ping is a number.
LEMMA PieceNumber ==
  /\ Nul \in Pieces
  /\ \A x \in Pieces : x # Nul => x[2] \in Nat
BY PingFacts DEF Pieces

\* Nothing is below, before or after nothing.
LEMMA NothingOrdered ==
  ASSUME NEW s, NEW n
  PROVE  Below(<< >>, n) /\ Before(s, << >>) /\ Before(<< >>, s) /\ Rising(<< >>)
<1>1. DOMAIN << >> = {}
  OBVIOUS
<1> QED
  BY <1>1 DEF Below, Before, Rising

\* Where the elements of a longer sequence are
LEMMA AppendAt ==
  ASSUME NEW s \in Seq(Pieces), NEW x \in Pieces
  PROVE  /\ Append(s, x) \in Seq(Pieces) /\ Append(s, x) # << >>
         /\ Len(s) \in Nat /\ DOMAIN s = 1 .. Len(s)
         /\ Len(Append(s, x)) = Len(s) + 1
         /\ DOMAIN Append(s, x) = DOMAIN s \cup {Len(s) + 1}
         /\ \A k \in DOMAIN s : Append(s, x)[k] = s[k] /\ k < Len(s) + 1
         /\ Append(s, x)[Len(s) + 1] = x
         /\ Append(s, x)[Len(Append(s, x))] = x
<1>1. /\ Append(s, x) \in Seq(Pieces) /\ Len(s) \in Nat /\ DOMAIN s = 1 .. Len(s)
      /\ Len(Append(s, x)) = Len(s) + 1 /\ DOMAIN Append(s, x) = 1 .. Len(s) + 1
      /\ \A k \in 1 .. Len(s) : Append(s, x)[k] = s[k]
      /\ Append(s, x)[Len(s) + 1] = x
  OBVIOUS
<1>2. 1 .. Len(s) + 1 = (1 .. Len(s)) \cup {Len(s) + 1}
  BY <1>1
<1>3. Append(s, x) # << >>
  <2>1. Len(<< >>) = 0
    OBVIOUS
  <2> QED
    BY <1>1, <2>1
<1> QED
  BY <1>1, <1>2, <1>3

\* Appending below a bound
LEMMA BelowAppend ==
  ASSUME NEW s \in Seq(Pieces), NEW x \in Pieces, NEW n, Below(s, n), x # Nul => x[2] < n
  PROVE  Below(Append(s, x), n)
BY AppendAt DEF Below

\* A bound may be raised.
LEMMA BelowMore ==
  ASSUME NEW s \in Seq(Pieces), NEW m \in Nat, NEW n \in Nat, m <= n, Below(s, m)
  PROVE  Below(s, n)
<1> SUFFICES ASSUME NEW k \in DOMAIN s, s[k] # Nul
             PROVE  s[k][2] < n
  BY DEF Below
<1>1. s[k] \in Pieces
  OBVIOUS
<1>2. s[k][2] \in Nat /\ s[k][2] < m
  BY <1>1, PieceNumber DEF Below
<1> QED
  BY <1>2

\* Appending a ping above the others
LEMMA RisingAppend ==
  ASSUME NEW s \in Seq(Pieces), NEW x \in Pieces, Rising(s), x # Nul => Below(s, x[2])
  PROVE  Rising(Append(s, x))
<1> DEFINE long == Append(s, x)
           last == Len(s) + 1
<1>1. /\ DOMAIN long = DOMAIN s \cup {last} /\ long[last] = x
      /\ \A k \in DOMAIN s : long[k] = s[k] /\ k < last /\ k \in Nat
      /\ last \in Nat
  BY AppendAt
<1> HIDE DEF long, last
<1>2. ASSUME NEW m \in DOMAIN long, NEW n \in DOMAIN long, m < n, long[m] # Nul, long[n] # Nul
      PROVE  long[m][2] < long[n][2]
  <2>1. CASE n = last
    <3>1. m \in DOMAIN s
      BY <1>1, <1>2, <2>1
    <3> QED
      BY <1>1, <1>2, <2>1, <3>1 DEF Below
  <2>2. CASE n # last
    <3>1. m \in DOMAIN s /\ n \in DOMAIN s
      BY <1>1, <1>2, <2>2
    <3> QED
      BY <1>1, <1>2, <3>1 DEF Rising
  <2> QED
    BY <2>1, <2>2
<1> QED
  BY <1>2 DEF Rising, long

\* Appending to the later sequence, and to the earlier one
LEMMA BeforeAppend ==
  ASSUME NEW s \in Seq(Pieces), NEW t \in Seq(Pieces), NEW x \in Pieces, Before(s, t)
  PROVE  /\ (x # Nul => Below(s, x[2])) => Before(s, Append(t, x))
         /\ (\A m \in DOMAIN t : x # Nul /\ t[m] # Nul => x[2] < t[m][2]) => Before(Append(s, x), t)
<1>1. (x # Nul => Below(s, x[2])) => Before(s, Append(t, x))
  BY AppendAt DEF Before
<1>2. ASSUME \A m \in DOMAIN t : x # Nul /\ t[m] # Nul => x[2] < t[m][2]
      PROVE  Before(Append(s, x), t)
  BY <1>2, BelowAppend DEF Before
<1> QED
  BY <1>1, <1>2

\* What holds of the elements of a sequence
LEMMA OrderedElements ==
  ASSUME NEW s \in Seq(Pieces), NEW k \in DOMAIN s, s[k] # Nul
  PROVE  /\ s[k] \in Pieces /\ s[k][2] \in Nat
         /\ \A n : Below(s, n) => s[k][2] < n
         /\ \A t : Before(t, s) => Below(t, s[k][2])
         /\ \A t : Before(s, t) => \A m \in DOMAIN t : t[m] # Nul => s[k][2] < t[m][2]
BY PieceNumber DEF Below, Before

\* The head and the last of a sequence are elements of it.
LEMMA EndsOf ==
  ASSUME NEW s \in Seq(Pieces), s # << >>
  PROVE  /\ 1 \in DOMAIN s /\ Head(s) = s[1] /\ Len(s) \in DOMAIN s
         /\ Head(s) \in Pieces /\ s[Len(s)] \in Pieces
<1>1. Len(s) \in Nat /\ Len(s) # 0 /\ DOMAIN s = 1 .. Len(s)
  BY EmptySeq
<1> QED
  BY <1>1

\* The server reads: the first ping of its pipe, or an empty line.
LEMMA ServerPrints ==
  ASSUME NEW atC, NEW atS, NEW n, NEW sayC, NEW sayS, NEW c2s, NEW s2c, NEW x \in Pieces,
         Order(atC, atS, n, sayC, sayS, c2s, s2c), atS = "read",
         x = Nul \/ (c2s # << >> /\ x = Head(c2s))
  PROVE  Order(atC, "write", n, sayC, Append(sayS, x), << >>, s2c)
<1> DEFINE said == Append(sayS, x)
<1>1. /\ n \in Nat /\ sayC \in Seq(Pieces) /\ sayS \in Seq(Pieces)
      /\ c2s \in Seq(Pieces) /\ s2c \in Seq(Pieces)
  BY DEF Order
<1>2. said \in Seq(Pieces) /\ said # << >> /\ said[Len(said)] = x /\ << >> \in Seq(Pieces)
  BY <1>1, AppendAt
<1>3. x # Nul => /\ Below(sayS, x[2]) /\ Below(sayC, x[2]) /\ Below(s2c, x[2]) /\ x[2] < n + 1
                 /\ atC \in {"close_unused", "write"} => x[2] < n
  <2> SUFFICES ASSUME x # Nul
               PROVE  /\ Below(sayS, x[2]) /\ Below(sayC, x[2]) /\ Below(s2c, x[2]) /\ x[2] < n + 1
                      /\ atC \in {"close_unused", "write"} => x[2] < n
    OBVIOUS
  <2>1. 1 \in DOMAIN c2s /\ x = c2s[1]
    BY <1>1, EndsOf
  <2> QED
    BY <1>1, <2>1, OrderedElements DEF Order
<1>4. Rising(said)
  BY <1>1, <1>3, RisingAppend DEF Order
<1>5. Below(said, n + 1) /\ (atC \in {"close_unused", "write"} => Below(said, n))
  BY <1>1, <1>3, BelowAppend DEF Order
<1> HIDE DEF said
<1>6. Order(atC, "write", n, sayC, said, << >>, s2c)
  BY <1>1, <1>2, <1>3, <1>4, <1>5, NothingOrdered DEF Order
<1> QED
  BY <1>6 DEF said

\* The server echoes what it last printed.
LEMMA ServerEchoes ==
  ASSUME NEW atC, NEW atS, NEW n, NEW sayC, NEW sayS, NEW c2s, NEW s2c, NEW x,
         Order(atC, atS, n, sayC, sayS, c2s, s2c), atS = "write",
         x = sayS[Len(sayS)], x # Nul
  PROVE  Order(atC, "write_nul", n, sayC, sayS, c2s, Append(s2c, x))
<1> DEFINE sent == Append(s2c, x)
<1>1. /\ n \in Nat /\ sayC \in Seq(Pieces) /\ sayS \in Seq(Pieces) /\ sayS # << >>
      /\ c2s \in Seq(Pieces) /\ s2c \in Seq(Pieces)
  BY DEF Order
<1>2. Len(sayS) \in DOMAIN sayS /\ x \in Pieces
  BY <1>1, EndsOf
<1>3. /\ Below(sayC, x[2]) /\ Below(s2c, x[2]) /\ x[2] < n + 1
      /\ atC \in {"close_unused", "write"} => x[2] < n
      /\ \A m \in DOMAIN c2s : c2s[m] # Nul => x[2] < c2s[m][2]
  BY <1>1, <1>2, OrderedElements DEF Order
<1>4. sent \in Seq(Pieces)
  BY <1>1, <1>2, AppendAt
<1>5. Rising(sent) /\ Before(sayC, sent)
  BY <1>1, <1>2, <1>3, RisingAppend, BeforeAppend DEF Order
<1>6. Below(sent, n + 1) /\ (atC \in {"close_unused", "write"} => Below(sent, n))
  BY <1>1, <1>2, <1>3, BelowAppend DEF Order
<1>7. Before(sent, c2s)
  <2>1. Before(s2c, c2s)
    BY DEF Order
  <2> QED
    BY <1>1, <1>2, <1>3, <2>1, BeforeAppend
<1> HIDE DEF sent
<1>8. Order(atC, "write_nul", n, sayC, sayS, c2s, sent)
  BY <1>1, <1>4, <1>5, <1>6, <1>7 DEF Order
<1> QED
  BY <1>8 DEF sent

\* The client writes its next request.
LEMMA ClientAsks ==
  ASSUME NEW atC, NEW atS, NEW n, NEW sayC, NEW sayS, NEW c2s, NEW s2c,
         Order(atC, atS, n, sayC, sayS, c2s, s2c), atC = "write"
  PROVE  Order("write_nul", atS, n, sayC, sayS, Append(c2s, Ping(n)), s2c)
<1> DEFINE sent == Append(c2s, Ping(n))
<1>1. /\ n \in Nat /\ sayC \in Seq(Pieces) /\ sayS \in Seq(Pieces)
      /\ c2s \in Seq(Pieces) /\ s2c \in Seq(Pieces)
  BY DEF Order
<1>2. Ping(n) \in Pieces /\ Ping(n)[2] = n /\ n < n + 1
  BY <1>1, PingFacts DEF Pieces
<1>3. Below(c2s, n) /\ Below(s2c, n) /\ Below(sayS, n) /\ Below(sayC, n)
  BY DEF Order
<1>4. sent \in Seq(Pieces)
  BY <1>1, <1>2, AppendAt
<1>5. Rising(sent) /\ Before(sayS, sent)
  BY <1>1, <1>2, <1>3, RisingAppend, BeforeAppend DEF Order
<1>6. Below(sent, n + 1)
  BY <1>1, <1>2, BelowAppend DEF Order
<1>7. atS \notin {"done", "killed"} => Before(sayC, sent) /\ Before(s2c, sent)
  BY <1>1, <1>2, <1>3, BeforeAppend DEF Order
<1> HIDE DEF sent
<1>8. Order("write_nul", atS, n, sayC, sayS, sent, s2c)
  BY <1>1, <1>4, <1>5, <1>6, <1>7 DEF Order
<1> QED
  BY <1>8 DEF sent

\* A NUL more in one of the pipes changes nothing.
LEMMA NulsDoNotCount ==
  ASSUME NEW atC, NEW atS, NEW n, NEW sayC, NEW sayS, NEW c2s, NEW s2c,
         Order(atC, atS, n, sayC, sayS, c2s, s2c)
  PROVE  /\ Order(atC, atS, n, sayC, sayS, Append(c2s, Nul), s2c)
         /\ Order(atC, atS, n, sayC, sayS, c2s, Append(s2c, Nul))
<1>1. /\ n \in Nat /\ sayC \in Seq(Pieces) /\ sayS \in Seq(Pieces)
      /\ c2s \in Seq(Pieces) /\ s2c \in Seq(Pieces)
  BY DEF Order
<1>2. ASSUME NEW s \in Seq(Pieces)
      PROVE  /\ Append(s, Nul) \in Seq(Pieces)
             /\ Rising(s) => Rising(Append(s, Nul))
             /\ \A m : Below(s, m) => Below(Append(s, Nul), m)
             /\ \A t \in Seq(Pieces) : Before(t, s) => Before(t, Append(s, Nul))
             /\ \A t \in Seq(Pieces) : Before(s, t) => Before(Append(s, Nul), t)
  BY PieceNumber, AppendAt, RisingAppend, BelowAppend, BeforeAppend
<1>3. Order(atC, atS, n, sayC, sayS, Append(c2s, Nul), s2c)
  BY <1>1, <1>2 DEF Order
<1>4. Order(atC, atS, n, sayC, sayS, c2s, Append(s2c, Nul))
  BY <1>1, <1>2 DEF Order
<1> QED
  BY <1>3, <1>4

\* The client prints the first ping of its pipe, an empty line, or at the end of the
\* pipe its own request, and goes to its next round.
LEMMA ClientPrints ==
  ASSUME NEW atC, NEW atC2, NEW atS, NEW n, NEW sayC, NEW sayS, NEW c2s, NEW s2c,
         NEW x \in Pieces, Order(atC, atS, n, sayC, sayS, c2s, s2c),
         \/ x = Nul
         \/ s2c # << >> /\ x = Head(s2c)
         \/ x = Ping(n) /\ atS \in {"done", "killed"}
  PROVE  Order(atC2, atS, n + 1, Append(sayC, x), sayS, c2s, << >>)
<1> DEFINE said == Append(sayC, x)
<1>1. /\ n \in Nat /\ sayC \in Seq(Pieces) /\ sayS \in Seq(Pieces)
      /\ c2s \in Seq(Pieces) /\ s2c \in Seq(Pieces)
  BY DEF Order
<1>2. said \in Seq(Pieces) /\ << >> \in Seq(Pieces)
  BY <1>1, AppendAt
<1>3. x # Nul => Below(sayC, x[2]) /\ x[2] \in Nat /\ x[2] < n + 1
  <2>1. CASE x # Nul /\ s2c # << >> /\ x = Head(s2c)
    <3>1. 1 \in DOMAIN s2c /\ x = s2c[1]
      BY <1>1, <2>1, EndsOf
    <3> QED
      BY <1>1, <2>1, <3>1, OrderedElements DEF Order
  <2>2. CASE x = Ping(n)
    BY <1>1, <2>2, PingFacts DEF Order
  <2> QED
    BY <2>1, <2>2
<1>4. atS \notin {"done", "killed"} => Before(said, c2s)
  <2> SUFFICES ASSUME atS \notin {"done", "killed"}
               PROVE  Before(said, c2s)
    OBVIOUS
  <2>1. Before(sayC, c2s) /\ Before(s2c, c2s)
    BY DEF Order
  <2>2. \A m \in DOMAIN c2s : x # Nul /\ c2s[m] # Nul => x[2] < c2s[m][2]
    <3>1. CASE x = Nul
      BY <3>1
    <3>2. CASE x # Nul
      <4>1. 1 \in DOMAIN s2c /\ x = s2c[1]
        BY <1>1, <3>2, EndsOf
      <4> QED
        BY <1>1, <2>1, <3>2, <4>1, OrderedElements
    <3> QED
      BY <3>1, <3>2
  <2> QED
    BY <1>1, <2>1, <2>2, BeforeAppend
<1>5. atS = "write" => /\ sayS # << >>
                       /\ sayS[Len(sayS)] # Nul => Below(said, sayS[Len(sayS)][2])
  <2> SUFFICES ASSUME atS = "write", sayS # << >>, sayS[Len(sayS)] # Nul
               PROVE  Below(said, sayS[Len(sayS)][2])
    BY DEF Order
  <2> DEFINE last == sayS[Len(sayS)][2]
  <2>1. Below(sayC, last) /\ Below(s2c, last)
    BY DEF Order
  <2>2. x # Nul => x[2] < last
    <3>1. CASE x # Nul
      <4>1. 1 \in DOMAIN s2c /\ x = s2c[1]
        BY <1>1, <3>1, EndsOf
      <4> HIDE DEF last
      <4> QED
        BY <1>1, <2>1, <3>1, <4>1, OrderedElements
    <3> QED
      BY <3>1
  <2> HIDE DEF last
  <2>3. Below(said, last)
    BY <1>1, <2>1, <2>2, BelowAppend
  <2> QED
    BY <2>3 DEF last
<1>6. Rising(said)
  BY <1>1, <1>3, RisingAppend DEF Order
<1>7. Below(said, n + 1)
  <2>1. Below(sayC, n + 1)
    <3>1. Below(sayC, n) /\ n <= n + 1 /\ n + 1 \in Nat
      BY <1>1 DEF Order
    <3> QED
      BY <1>1, <3>1, BelowMore
  <2> QED
    BY <1>1, <1>3, <2>1, BelowAppend
<1>8. /\ Below(c2s, n + 1) /\ Below(sayS, n + 1)
      /\ Below(c2s, n + 1 + 1) /\ Below(sayS, n + 1 + 1)
  <2>1. Below(c2s, n + 1) /\ Below(sayS, n + 1) /\ n + 1 <= n + 1 + 1 /\ n + 1 \in Nat /\ n + 1 + 1 \in Nat
    BY <1>1 DEF Order
  <2> QED
    BY <1>1, <2>1, BelowMore
<1>9. n + 1 \in Nat /\ Rising(sayS) /\ Rising(c2s) /\ Before(sayS, c2s)
  BY <1>1 DEF Order
<1> HIDE DEF said
<1>10. Order(atC2, atS, n + 1, said, sayS, c2s, << >>)
  BY <1>1, <1>2, <1>4, <1>5, <1>6, <1>7, <1>8, <1>9, NothingOrdered DEF Order
<1> QED
  BY <1>10 DEF said

\* A process that goes elsewhere leaves the order as it is.
LEMMA OrderElsewhere ==
  ASSUME NEW atC, NEW atS, NEW n, NEW sayC, NEW sayS, NEW c2s, NEW s2c,
         Order(atC, atS, n, sayC, sayS, c2s, s2c), NEW atC2, NEW atS2,
         atC2 \in {"close_unused", "write"} => atC \in {"close_unused", "write"},
         atS2 \in {"done", "killed"} \/ (atS \notin {"done", "killed"} /\ (atS2 = "write" => atS = "write"))
           \/ atS2 = atS
  PROVE  Order(atC2, atS2, n, sayC, sayS, c2s, s2c)
BY DEF Order

-------------------------------------------------------------------------------
(* pipes.c: whole reads                                                    *)

\* Nothing of a message stays in a buffer.
NoWords == word = [p \in Procs |-> Nul]

\* A server that has not ended can still write.
KeepsEnd == pc["server"] \notin {"done", "killed"} => <<"server", "s2c", "w">> \in ends

InOrder ==
  Order(pc["client"], pc["server"], i["client"], printed["client"], printed["server"],
        stream["c2s"], stream["s2c"])

TurnsTaken == \E a, h \in 0 .. Iterations : TalkAt(a, h, FALSE, FALSE)

PipeAt == Shape /\ NoWords /\ (split \/ TurnsTaken) /\ InOrder /\ KeepsEnd

\* The names of the instance are those of this module.
LEMMA PipeNames ==
  /\ Pipe!Nul = Nul /\ Pipe!Procs = Procs
  /\ Pipe!Out("client") = "c2s" /\ Pipe!Out("server") = "s2c"
  /\ Pipe!In("client") = "s2c" /\ Pipe!In("server") = "c2s"
  /\ Pipe!Other("client") = "server" /\ Pipe!Other("server") = "client"
  /\ \A n : Pipe!Ping(n) = Ping(n)
BY DEF Pipe!Nul, Nul, Pipe!Procs, Procs, Pipe!Out, Pipe!In, Pipe!Other, Pipe!Ping, Ping

\* A read() that takes one whole message
LEMMA WholeRead ==
  ASSUME NEW n, NEW pieces, OnItsWay(pieces, Nul, n), Len(pieces) = 2, Head(pieces) # Nul
  PROVE  /\ Whole(pieces, Nul, n) /\ Head(pieces) = Ping(n)
         /\ ~Half(pieces, Nul, n) /\ ~Empty(pieces, Nul)
<1>1. Len(<< >>) = 0
  OBVIOUS
<1>2. pieces # << >> /\ pieces # <<Ping(n)>> /\ pieces # <<Nul>>
  BY <1>1, Short
<1> QED
  BY <1>2, PingFacts, Short DEF OnItsWay, Empty, Half, Whole

\* What a reader of pipes.c does with the text t
LEMMA PipeServerGot ==
  ASSUME NEW t, Shape, Pipe!Got("server", t)
  PROVE  /\ pc["server"] = "read" /\ pc'["server"] = "write" /\ pc'["client"] = pc["client"]
         /\ printed'["server"] = Append(printed["server"], t)
         /\ printed'["client"] = printed["client"]
         /\ UNCHANGED i
         /\ pc' = [p \in Procs |-> pc'[p]] /\ printed' = [p \in Procs |-> printed'[p]]
BY FifoNames DEF Shape, Pipe!Got, Pipe!Goto

\* The same for the client
LEMMA PipeClientGot ==
  ASSUME NEW t, Shape, Pipe!Got("client", t)
  PROVE  /\ pc["client"] = "read" /\ pc'["server"] = pc["server"]
         /\ pc'["client"] = IF i["client"] + 1 < Iterations THEN "write" ELSE "close_out"
         /\ printed'["client"] = Append(printed["client"], t)
         /\ printed'["server"] = printed["server"]
         /\ i'["client"] = i["client"] + 1 /\ i'["server"] = i["server"]
         /\ pc' = [p \in Procs |-> pc'[p]] /\ printed' = [p \in Procs |-> printed'[p]]
         /\ i' = [p \in Procs |-> i'[p]]
BY FifoNames DEF Shape, Pipe!Got, Pipe!Goto, Pipe!Round

\* One read() of the server
LEMMA PipeServerReads ==
  ASSUME PipeAt, Pipe!Read("server"), UNCHANGED word
  PROVE  PipeAt'
<1> DEFINE t == Pipe!TextOf(stream["c2s"])
<1>1. /\ stream["c2s"] # << >> /\ t = Head(stream["c2s"])
      /\ stream'["c2s"] = << >> /\ stream'["s2c"] = stream["s2c"]
      /\ stream' = [s \in Streams |-> stream'[s]]
      /\ split' = (split \/ Len(stream["c2s"]) # 2 \/ Head(stream["c2s"]) = Nul)
      /\ Pipe!Got("server", t) /\ UNCHANGED ends
  BY PipeNames, FifoNames DEF PipeAt, Shape, Pipe!Read, Pipe!TextOf
<1> HIDE DEF t
<1>2. /\ pc["server"] = "read" /\ pc'["server"] = "write" /\ pc'["client"] = pc["client"]
      /\ printed'["server"] = Append(printed["server"], t)
      /\ printed'["client"] = printed["client"]
      /\ UNCHANGED i
      /\ pc' = [p \in Procs |-> pc'[p]] /\ printed' = [p \in Procs |-> printed'[p]]
  BY <1>1, PipeServerGot DEF PipeAt
<1>3. Shape' /\ NoWords' /\ KeepsEnd'
  BY <1>1, <1>2 DEF PipeAt, Shape, NoWords, KeepsEnd
<1>4. InOrder'
  <2>1. t \in Pieces
    BY <1>1, EndsOf DEF PipeAt, InOrder, Order
  <2>2. Order(pc["client"], "write", i["client"], printed["client"],
              Append(printed["server"], t), << >>, stream["s2c"])
    BY <1>1, <1>2, <2>1, ServerPrints DEF PipeAt, InOrder
  <2> QED
    BY <1>1, <1>2, <2>2 DEF InOrder
<1>5. split' \/ TurnsTaken'
  <2> SUFFICES ASSUME ~split' PROVE TurnsTaken'
    OBVIOUS
  <2>1. PICK a \in 0 .. Iterations, h \in 0 .. Iterations : TalkAt(a, h, FALSE, FALSE)
    BY <1>1 DEF PipeAt, TurnsTaken
  <2>2. Len(stream["c2s"]) = 2 /\ Head(stream["c2s"]) # Nul
    BY <1>1
  <2>3. word["server"] = Nul /\ word["client"] = Nul /\ word'["server"] = Nul /\ word'["client"] = Nul
    BY FifoNames DEF PipeAt, NoWords
  <2>4. /\ h = a /\ OnItsWay(stream["c2s"], Nul, a) /\ Empty(stream["s2c"], Nul)
    BY <1>1, <2>1, <2>3 DEF TalkAt, Talk, Turn, Empty
  <2>5. /\ t = Ping(a) /\ ~Half(stream["c2s"], Nul, a) /\ ~Empty(stream["c2s"], Nul)
    BY <1>1, <2>2, <2>4, WholeRead
  <2>6. pc["client"] # "write_nul"
    BY <2>1, <2>3, <2>5 DEF TalkAt, Talk, ClientAt
  <2>7. Empty(stream'["c2s"], word'["server"]) /\ Empty(stream'["s2c"], word'["client"])
    BY <1>1, <2>3, <2>4 DEF Empty
  <2>8. h + 1 \in 0 .. Iterations /\ Says(a, h, a, h + 1, FALSE, FALSE)
    BY <1>2, <2>1, <2>3, <2>4, <2>5, <2>6, <2>7, ServerHeard
  <2>9. TalkAt(a, h + 1, FALSE, FALSE)'
    BY <1>3, <2>8 DEF TalkAt, Says
  <2> QED
    BY <2>8, <2>9 DEF TurnsTaken
<1> QED
  BY <1>3, <1>4, <1>5 DEF PipeAt

\* One read() of the client
LEMMA PipeClientReads ==
  ASSUME PipeAt, Pipe!Read("client"), UNCHANGED word
  PROVE  PipeAt'
<1> DEFINE t == Pipe!TextOf(stream["s2c"])
<1>1. /\ stream["s2c"] # << >> /\ t = Head(stream["s2c"])
      /\ stream'["s2c"] = << >> /\ stream'["c2s"] = stream["c2s"]
      /\ stream' = [s \in Streams |-> stream'[s]]
      /\ split' = (split \/ Len(stream["s2c"]) # 2 \/ Head(stream["s2c"]) = Nul)
      /\ Pipe!Got("client", t) /\ UNCHANGED ends
  BY PipeNames, FifoNames DEF PipeAt, Shape, Pipe!Read, Pipe!TextOf
<1> HIDE DEF t
<1>2. /\ pc["client"] = "read" /\ pc'["server"] = pc["server"]
      /\ pc'["client"] = IF i["client"] + 1 < Iterations THEN "write" ELSE "close_out"
      /\ printed'["client"] = Append(printed["client"], t)
      /\ printed'["server"] = printed["server"]
      /\ i'["client"] = i["client"] + 1 /\ i'["server"] = i["server"]
      /\ pc' = [p \in Procs |-> pc'[p]] /\ printed' = [p \in Procs |-> printed'[p]]
      /\ i' = [p \in Procs |-> i'[p]]
  BY <1>1, PipeClientGot DEF PipeAt
<1>3. Shape' /\ NoWords' /\ KeepsEnd'
  BY <1>1, <1>2 DEF PipeAt, Shape, NoWords, KeepsEnd
<1>4. InOrder'
  <2>1. t \in Pieces
    BY <1>1, EndsOf DEF PipeAt, InOrder, Order
  <2>2. Order(pc'["client"], pc["server"], i["client"] + 1, Append(printed["client"], t),
              printed["server"], stream["c2s"], << >>)
    BY <1>1, <2>1, ClientPrints DEF PipeAt, InOrder
  <2> QED
    BY <1>1, <1>2, <2>2 DEF InOrder
<1>5. split' \/ TurnsTaken'
  <2> SUFFICES ASSUME ~split' PROVE TurnsTaken'
    OBVIOUS
  <2>1. PICK a \in 0 .. Iterations, h \in 0 .. Iterations : TalkAt(a, h, FALSE, FALSE)
    BY <1>1 DEF PipeAt, TurnsTaken
  <2>2. Len(stream["s2c"]) = 2 /\ Head(stream["s2c"]) # Nul
    BY <1>1
  <2>3. word["server"] = Nul /\ word["client"] = Nul /\ word'["server"] = Nul /\ word'["client"] = Nul
    BY FifoNames DEF PipeAt, NoWords
  <2>4. /\ h = a + 1 /\ OnItsWay(stream["s2c"], Nul, a) /\ Empty(stream["c2s"], Nul)
    BY <1>1, <2>1, <2>3 DEF TalkAt, Talk, Turn, Empty
  <2>5. /\ t = Ping(a) /\ ~Half(stream["s2c"], Nul, a) /\ ~Empty(stream["s2c"], Nul)
    BY <1>1, <2>2, <2>4, WholeRead
  <2>6. pc["server"] # "write_nul"
    BY <2>1, <2>3, <2>5 DEF TalkAt, Talk, ServerAt
  <2>7. Empty(stream'["c2s"], word'["server"]) /\ Empty(stream'["s2c"], word'["client"])
    BY <1>1, <2>3, <2>4 DEF Empty
  <2>8. i["client"] = a /\ a < Iterations /\ a \in Nat /\ h \in Nat
    BY <1>2, <2>1, StreamAssumption DEF TalkAt, Talk, ClientAt
  <2>9. a + 1 \in 0 .. Iterations /\ Says(a, h, a + 1, h, FALSE, FALSE)
    BY <1>2, <2>1, <2>3, <2>4, <2>5, <2>6, <2>7, <2>8, ClientAnswered
  <2>10. TalkAt(a + 1, h, FALSE, FALSE)'
    BY <1>3, <2>1, <2>9 DEF TalkAt, Says
  <2> QED
    BY <2>9, <2>10 DEF TurnsTaken
<1> QED
  BY <1>3, <1>4, <1>5 DEF PipeAt

\* A read() at the end of the pipe
LEMMA PipeReadsEnd ==
  ASSUME PipeAt, NEW p \in Procs, Pipe!ReadEof(p), UNCHANGED word
  PROVE  PipeAt'
<1>1. split' /\ UNCHANGED <<stream, ends>> /\ stream[Pipe!In(p)] = << >> /\ ~Pipe!CanWrite(Pipe!In(p))
  BY DEF Pipe!ReadEof, Pipe!AtEof
<1>2. CASE p = "server"
  <2>1. Pipe!Got("server", Nul) /\ stream["c2s"] = << >>
    BY <1>1, <1>2, PipeNames DEF Pipe!ReadEof
  <2>2. /\ pc["server"] = "read" /\ pc'["server"] = "write" /\ pc'["client"] = pc["client"]
        /\ printed'["server"] = Append(printed["server"], Nul)
        /\ printed'["client"] = printed["client"]
        /\ UNCHANGED i
        /\ pc' = [q \in Procs |-> pc'[q]] /\ printed' = [q \in Procs |-> printed'[q]]
    BY <2>1, PipeServerGot DEF PipeAt
  <2>3. Shape' /\ NoWords' /\ KeepsEnd'
    BY <1>1, <2>2 DEF PipeAt, Shape, NoWords, KeepsEnd
  <2>4. Order(pc["client"], "write", i["client"], printed["client"],
              Append(printed["server"], Nul), << >>, stream["s2c"])
    BY <2>2, PieceNumber, ServerPrints DEF PipeAt, InOrder
  <2>5. InOrder'
    BY <1>1, <2>1, <2>2, <2>4 DEF InOrder
  <2> QED
    BY <1>1, <2>3, <2>5 DEF PipeAt
<1>3. CASE p = "client"
  <2>1. /\ Pipe!Got("client", Ping(i["client"])) /\ stream["s2c"] = << >>
        /\ <<"server", "s2c", "w">> \notin ends
    BY <1>1, <1>3, PipeNames, FifoNames DEF Pipe!ReadEof, Pipe!CanWrite
  <2>2. /\ pc["client"] = "read" /\ pc'["server"] = pc["server"]
        /\ printed'["client"] = Append(printed["client"], Ping(i["client"]))
        /\ printed'["server"] = printed["server"]
        /\ i'["client"] = i["client"] + 1 /\ i'["server"] = i["server"]
        /\ pc' = [q \in Procs |-> pc'[q]] /\ printed' = [q \in Procs |-> printed'[q]]
        /\ i' = [q \in Procs |-> i'[q]]
    BY <2>1, PipeClientGot DEF PipeAt
  <2>3. pc["server"] \in {"done", "killed"}
    BY <2>1 DEF PipeAt, KeepsEnd
  <2>4. Shape' /\ NoWords' /\ KeepsEnd'
    BY <1>1, <2>2 DEF PipeAt, Shape, NoWords, KeepsEnd
  <2>5. Ping(i["client"]) \in Pieces
    BY DEF PipeAt, InOrder, Order, Pieces
  <2>6. Order(pc'["client"], pc["server"], i["client"] + 1,
              Append(printed["client"], Ping(i["client"])), printed["server"], stream["c2s"], << >>)
    BY <2>3, <2>5, ClientPrints DEF PipeAt, InOrder
  <2>7. InOrder'
    BY <1>1, <2>1, <2>2, <2>6 DEF InOrder
  <2> QED
    BY <1>1, <2>4, <2>7 DEF PipeAt
<1> QED
  BY <1>2, <1>3, FifoNames

\* A write() of pipes.c is one of mkfifo.c.
LEMMA PipeWritesAsFifo ==
  ASSUME NEW p \in Procs, UNCHANGED word
  PROVE  /\ Pipe!WriteText(p) => Fifo!WriteText(p)
         /\ Pipe!WriteNul(p) => Fifo!WriteNul(p)
<1>1. Pipe!Message(p) = Fifo!Message(p)
  BY DEF Pipe!Message, Fifo!Message, Pipe!Ping, Fifo!Ping
<1>2. Pipe!Nul = Fifo!Nul
  BY DEF Pipe!Nul, Fifo!Nul
<1>3. \A from, piece, to : Pipe!Write(p, from, piece, to) => Fifo!Write(p, from, piece, to)
  BY DEF Pipe!Write, Fifo!Write, Pipe!CanRead, Fifo!CanRead, Pipe!Goto, Fifo!Goto, Pipe!Lost,
         Fifo!Lost, Pipe!Out, Fifo!Out, Pipe!Procs, Fifo!Procs
<1>4. \A from, to : Pipe!Goto(p, from, to) => Fifo!Goto(p, from, to)
  BY DEF Pipe!Goto, Fifo!Goto
<1>5. \A again, over : Pipe!Round(p, again, over) = Fifo!Round(p, again, over)
  BY DEF Pipe!Round, Fifo!Round
<1>6. Pipe!WriteText(p) => Fifo!WriteText(p)
  BY <1>1, <1>2, <1>3, <1>4 DEF Pipe!WriteText, Fifo!WriteText
<1>7. Pipe!WriteNul(p) => Fifo!WriteNul(p)
  BY <1>2, <1>3, <1>5 DEF Pipe!WriteNul, Fifo!WriteNul
<1> QED
  BY <1>6, <1>7

\* The turns are kept by a step that may change the numbers.
LEMMA TurnsKept ==
  ASSUME NEW a \in 0 .. Iterations, NEW h \in 0 .. Iterations, Shape',
         Says(a, h, a, h, FALSE, FALSE)
  PROVE  TurnsTaken'
<1>1. TalkAt(a, h, FALSE, FALSE)'
  BY DEF TalkAt, Says
<1> QED
  BY <1>1 DEF TurnsTaken

\* The writes of the client
LEMMA PipeClientWrites ==
  ASSUME PipeAt, Pipe!WriteText("client") \/ Pipe!WriteNul("client"), UNCHANGED word
  PROVE  PipeAt'
<1>1. Fifo!WriteText("client") \/ Fifo!WriteNul("client")
  BY PipeWritesAsFifo, FifoNames
<1>2. UNCHANGED split /\ Shape
  BY DEF Pipe!WriteText, Pipe!WriteNul, PipeAt
<1>3. /\ UNCHANGED <<i, printed>> /\ pc'["server"] = pc["server"] /\ Shape'
      /\ stream'["s2c"] = stream["s2c"]
      /\ \/ /\ pc'["client"] = "killed" /\ UNCHANGED stream
            /\ ends' = ends \ {e \in ends : e[1] = "client"}
         \/ /\ pc["client"] = "write" /\ pc'["client"] = "write_nul" /\ UNCHANGED ends
            /\ stream'["c2s"] = Append(stream["c2s"], Ping(i["client"]))
         \/ /\ pc["client"] = "write_nul" /\ pc'["client"] = "read" /\ UNCHANGED ends
            /\ stream'["c2s"] = Append(stream["c2s"], Nul)
  <2>1. CASE Fifo!WriteText("client")
    <3>1. Fifo!Message("client") = Ping(i["client"]) /\ Ping(i["client"]) # Nul
      BY PingFacts DEF Fifo!Message, Fifo!Ping, Ping
    <3> QED
      BY <1>2, <2>1, <3>1, FifoNames DEF Shape, Fifo!WriteText, Fifo!Write, Fifo!Goto, Fifo!Lost
  <2>2. CASE Fifo!WriteNul("client")
    BY <1>2, <2>2, FifoNames DEF Shape, Fifo!WriteNul, Fifo!Write, Fifo!Goto, Fifo!Lost
  <2> QED
    BY <1>1, <2>1, <2>2
<1>4. NoWords' /\ KeepsEnd'
  BY <1>3 DEF PipeAt, NoWords, KeepsEnd
<1>5. InOrder'
  <2>1. Order(pc["client"], pc["server"], i["client"], printed["client"], printed["server"],
              stream["c2s"], stream["s2c"])
    BY DEF PipeAt, InOrder
  <2>2. CASE pc'["client"] = "killed" /\ UNCHANGED stream
    BY <1>3, <2>1, <2>2, OrderElsewhere DEF InOrder
  <2>3. CASE /\ pc["client"] = "write" /\ pc'["client"] = "write_nul"
             /\ stream'["c2s"] = Append(stream["c2s"], Ping(i["client"]))
    BY <1>3, <2>1, <2>3, ClientAsks DEF InOrder
  <2>4. CASE /\ pc["client"] = "write_nul" /\ pc'["client"] = "read"
             /\ stream'["c2s"] = Append(stream["c2s"], Nul)
    <3>1. Order("read", pc["server"], i["client"], printed["client"], printed["server"],
                stream["c2s"], stream["s2c"])
      BY <2>1, OrderElsewhere
    <3>2. Order("read", pc["server"], i["client"], printed["client"], printed["server"],
                Append(stream["c2s"], Nul), stream["s2c"])
      BY <3>1, NulsDoNotCount
    <3> QED
      BY <1>3, <2>4, <3>2 DEF InOrder
  <2> QED
    BY <1>3, <2>2, <2>3, <2>4
<1>6. split' \/ TurnsTaken'
  <2> SUFFICES ASSUME ~split PROVE TurnsTaken'
    BY <1>2
  <2>1. PICK a \in 0 .. Iterations, h \in 0 .. Iterations : TalkAt(a, h, FALSE, FALSE)
    BY DEF PipeAt, TurnsTaken
  <2>2. Says(a, h, a, h, FALSE, FALSE)
    BY <1>1, <2>1, ClientWritesText, ClientWritesNul
  <2> QED
    BY <1>3, <2>2, TurnsKept
<1> QED
  BY <1>3, <1>4, <1>5, <1>6 DEF PipeAt

\* The writes of the server
LEMMA PipeServerWrites ==
  ASSUME PipeAt, Pipe!WriteText("server") \/ Pipe!WriteNul("server"), UNCHANGED word
  PROVE  PipeAt'
<1> DEFINE t == printed["server"][Len(printed["server"])]
<1>1. Fifo!WriteText("server") \/ Fifo!WriteNul("server")
  BY PipeWritesAsFifo, FifoNames
<1>2. UNCHANGED split /\ Shape
  BY DEF Pipe!WriteText, Pipe!WriteNul, PipeAt
<1>3. /\ UNCHANGED printed /\ i'["client"] = i["client"] /\ pc'["client"] = pc["client"] /\ Shape'
      /\ stream'["c2s"] = stream["c2s"]
      /\ \/ pc'["server"] = "killed" /\ UNCHANGED stream
         \/ /\ pc["server"] = "write" /\ pc'["server"] = "write_nul" /\ UNCHANGED <<stream, ends>>
         \/ /\ pc["server"] = "write" /\ pc'["server"] = "write_nul" /\ UNCHANGED ends
            /\ stream'["s2c"] = Append(stream["s2c"], t) /\ t # Nul
         \/ /\ pc["server"] = "write_nul" /\ pc'["server"] \in {"read", "close_in"}
            /\ UNCHANGED ends
            /\ stream'["s2c"] = Append(stream["s2c"], Nul)
  <2>1. CASE Fifo!WriteText("server")
    <3>1. Fifo!Message("server") = t
      BY DEF Fifo!Message
    <3> HIDE DEF t
    <3> QED
      BY <1>2, <2>1, <3>1, FifoNames DEF Shape, Fifo!WriteText, Fifo!Write, Fifo!Goto, Fifo!Lost
  <2>2. CASE Fifo!WriteNul("server")
    <3> HIDE DEF t
    <3> QED
      BY <1>2, <2>2, FifoNames DEF Shape, Fifo!WriteNul, Fifo!Write, Fifo!Goto, Fifo!Round, Fifo!Lost
  <2> QED
    BY <1>1, <2>1, <2>2
<1>4. NoWords' /\ KeepsEnd'
  <2> HIDE DEF t
  <2> QED
    BY <1>3 DEF PipeAt, NoWords, KeepsEnd
<1>5. InOrder'
  <2>1. Order(pc["client"], pc["server"], i["client"], printed["client"], printed["server"],
              stream["c2s"], stream["s2c"])
    BY DEF PipeAt, InOrder
  <2>2. CASE pc'["server"] = "killed" /\ UNCHANGED stream
    BY <1>3, <2>1, <2>2, OrderElsewhere DEF InOrder
  <2>3. CASE pc["server"] = "write" /\ pc'["server"] = "write_nul" /\ UNCHANGED stream
    BY <1>3, <2>1, <2>3, OrderElsewhere DEF InOrder
  <2>4. CASE /\ pc["server"] = "write" /\ pc'["server"] = "write_nul"
             /\ stream'["s2c"] = Append(stream["s2c"], t) /\ t # Nul
    <3>1. Order(pc["client"], "write_nul", i["client"], printed["client"], printed["server"],
                stream["c2s"], Append(stream["s2c"], t))
      BY <2>1, <2>4, ServerEchoes
    <3> QED
      BY <1>3, <2>4, <3>1 DEF InOrder
  <2>5. CASE /\ pc["server"] = "write_nul" /\ pc'["server"] \in {"read", "close_in"}
             /\ stream'["s2c"] = Append(stream["s2c"], Nul)
    <3>1. Order(pc["client"], pc'["server"], i["client"], printed["client"], printed["server"],
                stream["c2s"], stream["s2c"])
      BY <2>1, <2>5, OrderElsewhere
    <3>2. Order(pc["client"], pc'["server"], i["client"], printed["client"], printed["server"],
                stream["c2s"], Append(stream["s2c"], Nul))
      BY <3>1, NulsDoNotCount
    <3> QED
      BY <1>3, <2>5, <3>2 DEF InOrder
  <2> HIDE DEF t
  <2> QED
    BY <1>3, <2>2, <2>3, <2>4, <2>5
<1>6. split' \/ TurnsTaken'
  <2> SUFFICES ASSUME ~split PROVE TurnsTaken'
    BY <1>2
  <2>1. PICK a \in 0 .. Iterations, h \in 0 .. Iterations : TalkAt(a, h, FALSE, FALSE)
    BY DEF PipeAt, TurnsTaken
  <2>2. Says(a, h, a, h, FALSE, FALSE)
    BY <1>1, <2>1, ServerWritesText, ServerWritesNul
  <2> QED
    BY <1>3, <2>2, TurnsKept
<1> QED
  BY <1>3, <1>4, <1>5, <1>6 DEF PipeAt

\* The close() calls, wait() and the signals from outside
LEMMA PipeMoves ==
  ASSUME PipeAt, NEW p \in Procs, UNCHANGED word,
         \/ Pipe!CloseUnused(p)
         \/ p = "client" /\ (Pipe!ClientClose \/ (Pipe!Reap /\ UNCHANGED split))
         \/ p = "server" /\ Pipe!ServerClose
         \/ Kill(p) /\ UNCHANGED split
  PROVE  PipeAt'
<1>1. p = "client" \/ p = "server"
  BY FifoNames
<1>2. Shape
  BY DEF PipeAt
<1>3. /\ UNCHANGED <<i, printed, stream, split>> /\ Shape' /\ pc'[Other(p)] = pc[Other(p)]
      /\ \/ pc'[p] = "killed"
         \/ pc[p] = "close_unused" /\ pc'[p] = (IF p = "client" THEN "write" ELSE "read")
         \/ /\ p = "client" /\ pc[p] \in {"close_out", "close_in", "reap", "done"}
            /\ pc'[p] \in {"close_out", "close_in", "reap", "done"}
         \/ /\ p = "server" /\ pc[p] \in {"close_in", "close_out"}
            /\ pc'[p] \in {"close_in", "close_out", "done"}
  <2>1. CASE Pipe!CloseUnused(p)
    BY <1>1, <1>2, <2>1, FifoNames DEF Shape, Pipe!CloseUnused, Pipe!Close, Pipe!Goto, Pipe!First
  <2>2. CASE p = "client" /\ (Pipe!ClientClose \/ (Pipe!Reap /\ UNCHANGED split))
    BY <1>2, <2>2, FifoNames DEF Shape, Pipe!ClientClose, Pipe!Close, Pipe!Goto, Pipe!Reap
  <2>3. CASE p = "server" /\ Pipe!ServerClose
    BY <1>2, <2>3, FifoNames DEF Shape, Pipe!ServerClose, Pipe!Close, Pipe!Goto
  <2>4. CASE Kill(p) /\ UNCHANGED split
    BY <1>1, <1>2, <2>4, FifoNames DEF Shape, Kill
  <2> QED
    BY <2>1, <2>2, <2>3, <2>4
<1>4. KeepsEnd'
  <2>1. CASE Pipe!CloseUnused(p)
    <3>1. ends' = ends \ {<<p, Pipe!In(p), "w">>, <<p, Pipe!Out(p), "r">>} /\ pc[p] = "close_unused"
      BY <2>1 DEF Pipe!CloseUnused, Pipe!Close, Pipe!Goto
    <3> QED
      BY <1>1, <1>3, <3>1, PipeNames, FifoNames DEF PipeAt, KeepsEnd
  <2>2. CASE p = "client" /\ (Pipe!ClientClose \/ (Pipe!Reap /\ UNCHANGED split))
    <3>1. UNCHANGED ends \/ ends' = ends \ {<<"client", "c2s", "w">>}
            \/ ends' = ends \ {<<"client", "s2c", "r">>}
      BY <2>2 DEF Pipe!ClientClose, Pipe!Close, Pipe!Reap
    <3> QED
      BY <1>3, <2>2, <3>1, FifoNames DEF PipeAt, KeepsEnd
  <2>3. CASE p = "server" /\ Pipe!ServerClose
    <3>1. \/ ends' = ends \ {<<"server", "c2s", "r">>} /\ pc["server"] = "close_in"
          \/ pc'["server"] = "done"
      BY <1>2, <2>3, FifoNames DEF Shape, Pipe!ServerClose, Pipe!Close, Pipe!Goto
    <3> QED
      BY <3>1 DEF PipeAt, KeepsEnd
  <2>4. CASE Kill(p) /\ UNCHANGED split
    <3>1. ends' = ends \ {e \in ends : e[1] = p} /\ pc'[p] = "killed"
      BY <1>2, <2>4 DEF Shape, Kill, Lost
    <3> QED
      BY <1>1, <1>3, <3>1, FifoNames DEF PipeAt, KeepsEnd
  <2> QED
    BY <2>1, <2>2, <2>3, <2>4
<1>5. InOrder'
  <2>1. Order(pc["client"], pc["server"], i["client"], printed["client"], printed["server"],
              stream["c2s"], stream["s2c"])
    BY DEF PipeAt, InOrder
  <2>2. Order(pc'["client"], pc'["server"], i["client"], printed["client"], printed["server"],
              stream["c2s"], stream["s2c"])
    BY <1>1, <1>3, <2>1, FifoNames, OrderElsewhere
  <2> QED
    BY <1>3, <2>2 DEF InOrder
<1>6. split' \/ TurnsTaken'
  <2> SUFFICES ASSUME ~split PROVE TurnsTaken'
    BY <1>3
  <2>1. PICK a \in 0 .. Iterations, h \in 0 .. Iterations : TalkAt(a, h, FALSE, FALSE)
    BY DEF PipeAt, TurnsTaken
  <2>2. "close_unused" \in AtStart
    BY DEF AtStart
  <2>3. Says(a, h, a, h, FALSE, FALSE)
    BY <1>1, <1>3, <2>1, <2>2, FifoNames, OnlyPlaces
  <2> QED
    BY <1>3, <2>3, TurnsKept
<1> QED
  BY <1>3, <1>4, <1>5, <1>6 DEF PipeAt, NoWords

\* main() of pipes.c after fork
LEMMA PipeStart ==
  ASSUME Pipe!Init, NoWords
  PROVE  PipeAt
<1>1. /\ i = [p \in Procs |-> 0] /\ printed = [p \in Procs |-> << >>]
      /\ stream = [s \in Streams |-> << >>]
      /\ ends = Procs \X Streams \X {"r", "w"}
      /\ pc = [p \in Procs |-> "close_unused"]
  BY PipeNames DEF Pipe!Init, Pipe!StreamInit, Pipe!Streams, Streams
<1>2. Shape /\ KeepsEnd
  BY <1>1, FifoNames DEF Shape, NoWords, KeepsEnd
<1>3. InOrder
  <2>1. << >> \in Seq(Pieces)
    OBVIOUS
  <2>2. Order("close_unused", "close_unused", 0, << >>, << >>, << >>, << >>)
    BY <2>1, NothingOrdered DEF Order
  <2> QED
    BY <1>1, <2>2, FifoNames DEF InOrder
<1>4. Lines(0, FALSE) = << >>
  BY LineFacts DEF Lines
<1>5. Empty(<< >>, Nul)
  BY DEF Empty
<1>6. Turn(0, 0, << >>, Nul, << >>, Nul)
  BY <1>5 DEF Turn, OnItsWay
<1>7. /\ ClientAt("close_unused", 0, 0, 0, FALSE, << >>, Nul)
      /\ ServerAt("close_unused", 0, 0, 0, FALSE, << >>, Nul)
  BY <1>5, StreamAssumption DEF ClientAt, ServerAt, AtStart
<1>8. Talk(0, 0, FALSE, FALSE)
  BY <1>1, <1>4, <1>6, <1>7, FifoNames DEF Talk, NoWords
<1>9. Alone(FALSE, FALSE)
  BY DEF Alone
<1>10. 0 \in 0 .. Iterations /\ FALSE \in BOOLEAN
  BY StreamAssumption
<1>11. TalkAt(0, 0, FALSE, FALSE)
  BY <1>2, <1>8, <1>9, <1>10 DEF TalkAt
<1> QED
  BY <1>2, <1>3, <1>10, <1>11 DEF PipeAt, TurnsTaken

\* Every step of pipes.c
LEMMA PipeStepOK ==
  ASSUME PipeAt, NEW p \in Procs, UNCHANGED word,
         Pipe!Step(p) \/ (Kill(p) /\ UNCHANGED split)
  PROVE  PipeAt'
<1>1. p = "client" \/ p = "server"
  BY FifoNames
<1>2. CASE p = "client" /\ Pipe!Step(p)
  BY <1>2, PipeClientReads, PipeReadsEnd, PipeClientWrites, PipeMoves DEF Pipe!Step
<1>3. CASE p = "server" /\ Pipe!Step(p)
  BY <1>3, PipeServerReads, PipeReadsEnd, PipeServerWrites, PipeMoves DEF Pipe!Step
<1>4. CASE Kill(p) /\ UNCHANGED split
  BY <1>4, PipeMoves
<1> QED
  BY <1>1, <1>2, <1>3, <1>4

-------------------------------------------------------------------------------
(* sockets.c and unix_sockets.c                                            *)

SockClient(at, n, a, h, c2s, wS) ==
  /\ at \in {"connect", "write"} => n = a /\ a < Iterations /\ h = a /\ Empty(c2s, wS)
  /\ at = "read" => n = a /\ a < Iterations

SockServer(at, n, a, h, s2c, wC) ==
  /\ at \in {"listen", "accept", "read"} => n = h /\ h < Iterations
  /\ at = "write" => n + 1 = h /\ h = a + 1 /\ Empty(s2c, wC)

SockAt(a, h) ==
  /\ Shape /\ NoWords
  /\ a \in 0 .. Iterations /\ h \in 0 .. Iterations
  /\ printed["client"] = Lines(a, FALSE)
  /\ printed["server"] = Lines(h, FALSE)
  /\ Turn(a, h, stream["c2s"], word["server"], stream["s2c"], word["client"])
  /\ SockClient(pc["client"], i["client"], a, h, stream["c2s"], word["server"])
  /\ SockServer(pc["server"], i["server"], a, h, stream["s2c"], word["client"])

SockGoes(a, h) ==
  \E a2, h2 \in 0 .. Iterations : SockAt(a2, h2)' /\ Moved(a, h, Waiting, a2, h2, Waiting')

\* Places at which a process has nothing more to say
Silent == {"close", "reap", "done", "killed"}

\* What a step of the client may do
ClientDoes ==
  /\ pc'["server"] = pc["server"] /\ i'["server"] = i["server"]
  /\ printed'["server"] = printed["server"]
  /\ \/ /\ pc'["client"] \in Silent \/ (pc["client"] = "connect" /\ pc'["client"] = "write")
           \/ (pc["client"] = "write" /\ pc'["client"] = "read")
        /\ UNCHANGED <<i, printed, stream>>
     \/ /\ pc["client"] = "write" /\ pc'["client"] = "read" /\ UNCHANGED <<i, printed>>
        /\ stream'["c2s"] = Append(stream["c2s"], Ping(i["client"]))
        /\ stream'["s2c"] = stream["s2c"]
     \/ /\ pc["client"] = "read" /\ stream["s2c"] # << >>
        /\ pc'["client"] = IF i["client"] + 1 < Iterations THEN "write" ELSE "close"
        /\ i'["client"] = i["client"] + 1
        /\ printed'["client"] = Append(printed["client"], Head(stream["s2c"]))
        /\ stream'["s2c"] = << >> /\ stream'["c2s"] = stream["c2s"]

\* What a step of the server may do
ServerDoes ==
  /\ pc'["client"] = pc["client"] /\ i'["client"] = i["client"]
  /\ printed'["client"] = printed["client"]
  /\ \/ /\ pc'["server"] \in Silent /\ UNCHANGED <<printed, stream>>
     \/ /\ pc["server"] \in {"listen", "accept"} /\ pc'["server"] \in {"accept", "read"}
        /\ UNCHANGED <<i, printed, stream>>
     \/ /\ pc["server"] = "write"
        /\ pc'["server"] = IF i["server"] + 1 < Iterations THEN "read" ELSE "close"
        /\ i'["server"] = i["server"] + 1 /\ UNCHANGED printed
        /\ stream'["c2s"] = stream["c2s"]
        /\ \/ stream'["s2c"] = stream["s2c"]
           \/ stream'["s2c"] = Append(stream["s2c"], printed["server"][Len(printed["server"])])
     \/ /\ pc["server"] = "read" /\ pc'["server"] = "write" /\ UNCHANGED i
        /\ stream["c2s"] # << >>
        /\ printed'["server"] = Append(printed["server"], Head(stream["c2s"]))
        /\ stream'["c2s"] = << >> /\ stream'["s2c"] = stream["s2c"]

\* The names of the instance are those of this module.
LEMMA InetNames ==
  /\ Inet!In("client") = "s2c" /\ Inet!In("server") = "c2s"
  /\ Inet!Out("client") = "c2s" /\ Inet!Out("server") = "s2c"
  /\ \A n : Inet!Ping(n) = Ping(n)
BY DEF Inet!In, Inet!Out, Inet!Other, Inet!Ping, Ping

\* What the client of sockets.c does
LEMMA InetClientDoes ==
  ASSUME Shape, UNCHANGED word, Inet!Step("client")
  PROVE  Shape' /\ ClientDoes
<1>1. CASE Inet!Connect \/ Inet!Reap
  BY <1>1, FifoNames DEF Shape, ClientDoes, Silent, Inet!Connect, Inet!Reap, Inet!Goto
<1>2. CASE Inet!SendText("client")
  <2>1. Inet!Message("client") = Ping(i["client"]) /\ Inet!AfterWrite("client") = "read"
    BY InetNames DEF Inet!Message, Inet!AfterWrite
  <2>2. Shape' /\ (pc'["client"] = "killed" => UNCHANGED stream)
    BY <1>2, <2>1, FifoNames, InetNames DEF Shape, Inet!SendText, Inet!Write, Inet!Goto
  <2> QED
    BY <1>2, <2>1, <2>2, FifoNames, InetNames
       DEF Shape, ClientDoes, Silent, Inet!SendText, Inet!Write, Inet!Goto
<1>3. CASE Inet!SendNothing("client")
  <2>1. Inet!AfterWrite("client") = "read"
    BY DEF Inet!AfterWrite
  <2> QED
    BY <1>3, <2>1, FifoNames DEF Shape, ClientDoes, Inet!SendNothing, Inet!Goto
<1>4. CASE Inet!Receive("client")
  <2>1. Inet!Round("client", "write", "close") = IF i["client"] + 1 < Iterations THEN "write" ELSE "close"
    BY DEF Inet!Round
  <2> QED
    BY <1>4, <2>1, FifoNames, InetNames DEF Shape, ClientDoes, Inet!Receive, Inet!Goto
<1>5. CASE Inet!Break("client") \/ Inet!CloseSocket("client")
  BY <1>5, FifoNames DEF Shape, ClientDoes, Silent, Inet!Break, Inet!CloseSocket, Inet!Close, Inet!Goto
<1> QED
  BY <1>1, <1>2, <1>3, <1>4, <1>5 DEF Inet!Step

\* What the server of sockets.c does
LEMMA InetServerDoes ==
  ASSUME Shape, UNCHANGED word, Inet!Step("server")
  PROVE  Shape' /\ ServerDoes
<1>1. CASE Inet!Listen \/ Inet!Accept
  BY <1>1, FifoNames DEF Shape, ServerDoes, Inet!Listen, Inet!Accept, Inet!Goto
<1>2. CASE Inet!SendText("server")
  <2>1. /\ Inet!Message("server") = printed["server"][Len(printed["server"])]
        /\ Inet!AfterWrite("server") = IF i["server"] + 1 < Iterations THEN "read" ELSE "close"
    BY DEF Inet!Message, Inet!AfterWrite, Inet!Round
  <2> DEFINE text == Inet!Message("server")
             after == Inet!AfterWrite("server")
  <2> HIDE DEF text, after
  <2>2. /\ Shape' /\ pc["server"] = "write" /\ pc'["client"] = pc["client"]
        /\ i'["client"] = i["client"] /\ i'["server"] = i["server"] + 1 /\ UNCHANGED printed
        /\ stream'["c2s"] = stream["c2s"]
        /\ \/ pc'["server"] = "killed" /\ UNCHANGED stream
           \/ pc'["server"] = after /\ stream'["s2c"] = Append(stream["s2c"], text)
    BY <1>2, FifoNames, InetNames DEF Shape, Inet!SendText, Inet!Write, Inet!Goto, text, after
  <2> QED
    BY <2>1, <2>2 DEF ServerDoes, Silent, text, after
<1>3. CASE Inet!SendNothing("server")
  <2>1. Inet!AfterWrite("server") = IF i["server"] + 1 < Iterations THEN "read" ELSE "close"
    BY DEF Inet!AfterWrite, Inet!Round
  <2> QED
    BY <1>3, <2>1, FifoNames DEF Shape, ServerDoes, Inet!SendNothing, Inet!Goto
<1>4. CASE Inet!Receive("server")
  BY <1>4, FifoNames, InetNames DEF Shape, ServerDoes, Inet!Receive, Inet!Goto
<1>5. CASE Inet!Break("server") \/ Inet!CloseSocket("server")
  BY <1>5, FifoNames DEF Shape, ServerDoes, Silent, Inet!Break, Inet!CloseSocket, Inet!Close, Inet!Goto
<1> QED
  BY <1>1, <1>2, <1>3, <1>4, <1>5 DEF Inet!Step

\* The names of the instance are those of this module.
LEMMA UnixNames ==
  /\ Unix!In("client") = "s2c" /\ Unix!In("server") = "c2s"
  /\ Unix!Out("client") = "c2s" /\ Unix!Out("server") = "s2c"
  /\ \A n : Unix!Ping(n) = Ping(n)
BY DEF Unix!In, Unix!Out, Unix!Other, Unix!Ping, Ping

\* What the client of unix_sockets.c does
LEMMA UnixClientDoes ==
  ASSUME Shape, UNCHANGED word, Unix!Step("client")
  PROVE  Shape' /\ ClientDoes
<1>1. CASE Unix!Connect \/ Unix!Reap
  BY <1>1, FifoNames DEF Shape, ClientDoes, Silent, Unix!Connect, Unix!Reap, Unix!Goto
<1>2. CASE Unix!SendText("client")
  <2>1. Unix!Message("client") = Ping(i["client"]) /\ Unix!AfterWrite("client") = "read"
    BY UnixNames DEF Unix!Message, Unix!AfterWrite
  <2>2. Shape' /\ (pc'["client"] = "killed" => UNCHANGED stream)
    BY <1>2, <2>1, FifoNames, UnixNames DEF Shape, Unix!SendText, Unix!Write, Unix!Goto
  <2> QED
    BY <1>2, <2>1, <2>2, FifoNames, UnixNames
       DEF Shape, ClientDoes, Silent, Unix!SendText, Unix!Write, Unix!Goto
<1>3. CASE Unix!SendNothing("client")
  <2>1. Unix!AfterWrite("client") = "read"
    BY DEF Unix!AfterWrite
  <2> QED
    BY <1>3, <2>1, FifoNames DEF Shape, ClientDoes, Unix!SendNothing, Unix!Goto
<1>4. CASE Unix!Receive("client")
  <2>1. Unix!Round("client", "write", "close") = IF i["client"] + 1 < Iterations THEN "write" ELSE "close"
    BY DEF Unix!Round
  <2> QED
    BY <1>4, <2>1, FifoNames, UnixNames DEF Shape, ClientDoes, Unix!Receive, Unix!Goto
<1>5. CASE Unix!Break("client") \/ Unix!CloseSocket("client")
  BY <1>5, FifoNames DEF Shape, ClientDoes, Silent, Unix!Break, Unix!CloseSocket, Unix!Close, Unix!Goto
<1> QED
  BY <1>1, <1>2, <1>3, <1>4, <1>5 DEF Unix!Step

\* What the server of unix_sockets.c does
LEMMA UnixServerDoes ==
  ASSUME Shape, UNCHANGED word, Unix!Step("server")
  PROVE  Shape' /\ ServerDoes
<1>1. CASE Unix!Listen \/ Unix!Accept
  BY <1>1, FifoNames DEF Shape, ServerDoes, Unix!Listen, Unix!Accept, Unix!Goto
<1>2. CASE Unix!SendText("server")
  <2>1. /\ Unix!Message("server") = printed["server"][Len(printed["server"])]
        /\ Unix!AfterWrite("server") = IF i["server"] + 1 < Iterations THEN "read" ELSE "close"
    BY DEF Unix!Message, Unix!AfterWrite, Unix!Round
  <2> DEFINE text == Unix!Message("server")
             after == Unix!AfterWrite("server")
  <2> HIDE DEF text, after
  <2>2. /\ Shape' /\ pc["server"] = "write" /\ pc'["client"] = pc["client"]
        /\ i'["client"] = i["client"] /\ i'["server"] = i["server"] + 1 /\ UNCHANGED printed
        /\ stream'["c2s"] = stream["c2s"]
        /\ \/ pc'["server"] = "killed" /\ UNCHANGED stream
           \/ pc'["server"] = after /\ stream'["s2c"] = Append(stream["s2c"], text)
    BY <1>2, FifoNames, UnixNames DEF Shape, Unix!SendText, Unix!Write, Unix!Goto, text, after
  <2> QED
    BY <2>1, <2>2 DEF ServerDoes, Silent, text, after
<1>3. CASE Unix!SendNothing("server")
  <2>1. Unix!AfterWrite("server") = IF i["server"] + 1 < Iterations THEN "read" ELSE "close"
    BY DEF Unix!AfterWrite, Unix!Round
  <2> QED
    BY <1>3, <2>1, FifoNames DEF Shape, ServerDoes, Unix!SendNothing, Unix!Goto
<1>4. CASE Unix!Receive("server")
  BY <1>4, FifoNames, UnixNames DEF Shape, ServerDoes, Unix!Receive, Unix!Goto
<1>5. CASE Unix!Break("server") \/ Unix!CloseSocket("server")
  BY <1>5, FifoNames DEF Shape, ServerDoes, Silent, Unix!Break, Unix!CloseSocket, Unix!Close, Unix!Goto
<1> QED
  BY <1>1, <1>2, <1>3, <1>4, <1>5 DEF Unix!Step

\* A ping alone in a stream
LEMMA HeadOfWay ==
  ASSUME NEW n, NEW pieces, OnItsWay(pieces, Nul, n), pieces # << >>
  PROVE  Head(pieces) = Ping(n) /\ ~Empty(pieces, Nul)
BY Short, PingFacts DEF OnItsWay, Empty, Half, Whole

\* Every step of the client keeps the invariant.
LEMMA SockClientStep ==
  ASSUME NEW a, NEW h, SockAt(a, h), Shape', UNCHANGED word, ClientDoes
  PROVE  SockGoes(a, h)
<1>1. /\ a \in Nat /\ h \in Nat /\ Iterations \in Nat
      /\ a \in 0 .. Iterations /\ h \in 0 .. Iterations
  BY StreamAssumption DEF SockAt
<1>2. /\ word["server"] = Nul /\ word["client"] = Nul /\ word' = word /\ NoWords'
  BY FifoNames DEF SockAt, NoWords
<1>3. /\ pc'["server"] = pc["server"] /\ i'["server"] = i["server"]
      /\ printed'["server"] = printed["server"]
  BY DEF ClientDoes
<1>4. CASE /\ \/ pc'["client"] \in Silent
              \/ pc["client"] = "connect" /\ pc'["client"] = "write"
              \/ pc["client"] = "write" /\ pc'["client"] = "read"
           /\ UNCHANGED <<i, printed, stream>>
  <2>1. SockClient(pc'["client"], i'["client"], a, h, stream'["c2s"], word'["server"])
    BY <1>2, <1>4 DEF SockAt, SockClient, Silent
  <2>2. SockAt(a, h)'
    BY <1>2, <1>3, <1>4, <2>1 DEF SockAt
  <2>3. Moved(a, h, Waiting, a, h, Waiting')
    BY <1>2, <1>4 DEF Moved, Waiting
  <2> QED
    BY <1>1, <2>2, <2>3 DEF SockGoes
<1>5. CASE /\ pc["client"] = "write" /\ pc'["client"] = "read" /\ UNCHANGED <<i, printed>>
           /\ stream'["c2s"] = Append(stream["c2s"], Ping(i["client"]))
           /\ stream'["s2c"] = stream["s2c"]
  <2>1. i["client"] = a /\ a < Iterations /\ h = a /\ Empty(stream["c2s"], Nul)
    BY <1>2, <1>5 DEF SockAt, SockClient
  <2>2. Half(stream'["c2s"], Nul, a)
    BY <1>5, <2>1, PutText
  <2>3. ~Empty(stream'["c2s"], Nul)
    BY <2>2, Short, PingFacts DEF Half, Empty
  <2>4. Empty(stream'["s2c"], Nul)
    BY <1>1, <1>2, <1>5, <2>1 DEF SockAt, Turn
  <2>5. Turn(a, h, stream'["c2s"], word'["server"], stream'["s2c"], word'["client"])
    BY <1>2, <2>1, <2>2, <2>4 DEF Turn, OnItsWay
  <2>6. SockClient(pc'["client"], i'["client"], a, h, stream'["c2s"], word'["server"])
    BY <1>5, <2>1 DEF SockClient
  <2>7. SockServer(pc'["server"], i'["server"], a, h, stream'["s2c"], word'["client"])
    BY <1>2, <1>3, <1>5 DEF SockAt
  <2>8. SockAt(a, h)'
    BY <1>1, <1>2, <1>5, <2>5, <2>6, <2>7 DEF SockAt
  <2>9. Moved(a, h, Waiting, a, h, Waiting')
    BY <1>2, <2>1, <2>3 DEF Moved, Waiting
  <2> QED
    BY <1>1, <2>8, <2>9 DEF SockGoes
<1>6. CASE /\ pc["client"] = "read" /\ stream["s2c"] # << >>
           /\ pc'["client"] = IF i["client"] + 1 < Iterations THEN "write" ELSE "close"
           /\ i'["client"] = i["client"] + 1
           /\ printed'["client"] = Append(printed["client"], Head(stream["s2c"]))
           /\ stream'["s2c"] = << >> /\ stream'["c2s"] = stream["c2s"]
  <2>1. i["client"] = a /\ a < Iterations
    BY <1>6 DEF SockAt, SockClient
  <2>2. h = a + 1 /\ Empty(stream["c2s"], Nul) /\ OnItsWay(stream["s2c"], Nul, a)
    BY <1>2, <1>6 DEF SockAt, Turn, Empty
  <2>3. Head(stream["s2c"]) = Ping(a) /\ ~Empty(stream["s2c"], Nul)
    BY <1>6, <2>2, HeadOfWay
  <2>4. printed'["client"] = Lines(a + 1, FALSE)
    BY <1>1, <1>6, <2>3, LineFacts DEF SockAt
  <2>5. Empty(stream'["s2c"], Nul) /\ Empty(stream'["c2s"], Nul)
    BY <1>6, <2>2 DEF Empty
  <2>6. Turn(a + 1, h, stream'["c2s"], word'["server"], stream'["s2c"], word'["client"])
    BY <1>2, <2>2, <2>5 DEF Turn, OnItsWay
  <2>7. SockClient(pc'["client"], i'["client"], a + 1, h, stream'["c2s"], word'["server"])
    <3>1. i'["client"] = a + 1 /\ ((pc'["client"] = "write" /\ a + 1 < Iterations) \/ pc'["client"] = "close")
      BY <1>6, <2>1
    <3> QED
      BY <1>2, <2>2, <2>5, <3>1 DEF SockClient
  <2>8. SockServer(pc'["server"], i'["server"], a + 1, h, stream'["s2c"], word'["client"])
    <3>1. pc["server"] # "write"
      BY <1>2, <2>3 DEF SockAt, SockServer
    <3> QED
      BY <1>3, <3>1 DEF SockAt, SockServer
  <2>9. a + 1 \in 0 .. Iterations
    BY <1>1, <2>1
  <2>10. SockAt(a + 1, h)'
    BY <1>1, <1>2, <1>3, <2>4, <2>6, <2>7, <2>8, <2>9 DEF SockAt
  <2>11. Moved(a, h, Waiting, a + 1, h, Waiting')
    <3>1. a < h
      BY <1>1, <2>2
    <3> QED
      BY <1>2, <2>2, <2>5, <3>1 DEF Moved, Waiting
  <2> QED
    BY <1>1, <2>9, <2>10, <2>11 DEF SockGoes
<1> QED
  BY <1>4, <1>5, <1>6 DEF ClientDoes

\* Every step of the server keeps the invariant.
LEMMA SockServerStep ==
  ASSUME NEW a, NEW h, SockAt(a, h), Shape', UNCHANGED word, ServerDoes
  PROVE  SockGoes(a, h)
<1>1. /\ a \in Nat /\ h \in Nat /\ Iterations \in Nat
      /\ a \in 0 .. Iterations /\ h \in 0 .. Iterations
  BY StreamAssumption DEF SockAt
<1>2. /\ word["server"] = Nul /\ word["client"] = Nul /\ word' = word /\ NoWords'
  BY FifoNames DEF SockAt, NoWords
<1>3. /\ pc'["client"] = pc["client"] /\ i'["client"] = i["client"]
      /\ printed'["client"] = printed["client"]
  BY DEF ServerDoes
<1>4. CASE /\ UNCHANGED <<printed, stream>>
           /\ \/ pc'["server"] \in Silent
              \/ /\ pc["server"] \in {"listen", "accept"} /\ pc'["server"] \in {"accept", "read"}
                 /\ UNCHANGED i
  <2>1. SockServer(pc'["server"], i'["server"], a, h, stream'["s2c"], word'["client"])
    BY <1>2, <1>4 DEF SockAt, SockServer, Silent
  <2>2. SockAt(a, h)'
    BY <1>2, <1>3, <1>4, <2>1 DEF SockAt
  <2>3. Moved(a, h, Waiting, a, h, Waiting')
    BY <1>2, <1>4 DEF Moved, Waiting
  <2> QED
    BY <1>1, <2>2, <2>3 DEF SockGoes
<1>5. CASE /\ pc["server"] = "write"
           /\ pc'["server"] = IF i["server"] + 1 < Iterations THEN "read" ELSE "close"
           /\ i'["server"] = i["server"] + 1 /\ UNCHANGED printed
           /\ stream'["c2s"] = stream["c2s"]
           /\ \/ stream'["s2c"] = stream["s2c"]
              \/ stream'["s2c"] = Append(stream["s2c"], printed["server"][Len(printed["server"])])
  <2>1. i["server"] + 1 = h /\ h = a + 1 /\ Empty(stream["s2c"], Nul)
    BY <1>2, <1>5 DEF SockAt, SockServer
  <2>2. printed["server"][Len(printed["server"])] = Ping(a)
    BY <1>1, <2>1, LastLine DEF SockAt
  <2>3. OnItsWay(stream'["s2c"], Nul, a)
    BY <1>5, <2>1, <2>2, PutText DEF OnItsWay
  <2>4. Empty(stream["c2s"], Nul)
    BY <1>1, <1>2, <2>1 DEF SockAt, Turn
  <2>5. Turn(a, h, stream'["c2s"], word'["server"], stream'["s2c"], word'["client"])
    BY <1>2, <1>5, <2>1, <2>3, <2>4 DEF Turn
  <2>6. SockClient(pc'["client"], i'["client"], a, h, stream'["c2s"], word'["server"])
    BY <1>2, <1>3, <1>5 DEF SockAt
  <2>7. SockServer(pc'["server"], i'["server"], a, h, stream'["s2c"], word'["client"])
    <3>1. i'["server"] = h /\ ((pc'["server"] = "read" /\ h < Iterations) \/ pc'["server"] = "close")
      BY <1>5, <2>1
    <3> QED
      BY <3>1 DEF SockServer
  <2>8. SockAt(a, h)'
    BY <1>1, <1>2, <1>5, <2>5, <2>6, <2>7 DEF SockAt
  <2>9. Moved(a, h, Waiting, a, h, Waiting')
    BY <1>2, <1>5 DEF Moved, Waiting
  <2> QED
    BY <1>1, <2>8, <2>9 DEF SockGoes
<1>6. CASE /\ pc["server"] = "read" /\ pc'["server"] = "write" /\ UNCHANGED i
           /\ stream["c2s"] # << >>
           /\ printed'["server"] = Append(printed["server"], Head(stream["c2s"]))
           /\ stream'["c2s"] = << >> /\ stream'["s2c"] = stream["s2c"]
  <2>1. i["server"] = h /\ h < Iterations
    BY <1>6 DEF SockAt, SockServer
  <2>2. h = a /\ Empty(stream["s2c"], Nul) /\ OnItsWay(stream["c2s"], Nul, a)
    BY <1>2, <1>6 DEF SockAt, Turn, Empty
  <2>3. Head(stream["c2s"]) = Ping(a) /\ ~Empty(stream["c2s"], Nul)
    BY <1>6, <2>2, HeadOfWay
  <2>4. printed'["server"] = Lines(h + 1, FALSE)
    BY <1>1, <1>6, <2>2, <2>3, LineFacts DEF SockAt
  <2>5. Empty(stream'["s2c"], Nul) /\ Empty(stream'["c2s"], Nul)
    BY <1>6, <2>2 DEF Empty
  <2>6. Turn(a, h + 1, stream'["c2s"], word'["server"], stream'["s2c"], word'["client"])
    BY <1>2, <2>2, <2>5 DEF Turn, OnItsWay
  <2>7. SockServer(pc'["server"], i'["server"], a, h + 1, stream'["s2c"], word'["client"])
    BY <1>2, <1>6, <2>1, <2>2, <2>5 DEF SockServer
  <2>8. SockClient(pc'["client"], i'["client"], a, h + 1, stream'["c2s"], word'["server"])
    <3>1. pc["client"] \notin {"connect", "write"}
      BY <1>2, <2>3 DEF SockAt, SockClient
    <3> QED
      BY <1>3, <1>6, <3>1 DEF SockAt, SockClient
  <2>9. h + 1 \in 0 .. Iterations
    BY <1>1, <2>1
  <2>10. SockAt(a, h + 1)'
    BY <1>1, <1>2, <1>3, <2>4, <2>6, <2>7, <2>8, <2>9 DEF SockAt
  <2>11. Moved(a, h, Waiting, a, h + 1, Waiting')
    BY <1>2, <2>3, <2>5 DEF Moved, Waiting
  <2> QED
    BY <1>1, <2>9, <2>10, <2>11 DEF SockGoes
<1> QED
  BY <1>4, <1>5, <1>6 DEF ServerDoes

\* Every step of the two programs
LEMMA SockStepOK ==
  ASSUME NEW a, NEW h, SockAt(a, h), NEW p \in Procs, UNCHANGED word,
         Inet!Step(p) \/ Unix!Step(p) \/ Kill(p)
  PROVE  SockGoes(a, h)
<1>1. p = "client" \/ p = "server"
  BY FifoNames
<1>2. Shape
  BY DEF SockAt
<1>3. CASE Kill(p)
  <2>1. Shape' /\ (p = "client" => ClientDoes) /\ (p = "server" => ServerDoes)
    BY <1>1, <1>2, <1>3, FifoNames DEF Shape, Kill, ClientDoes, ServerDoes, Silent
  <2> QED
    BY <1>1, <2>1, SockClientStep, SockServerStep
<1>4. CASE p = "client" /\ (Inet!Step(p) \/ Unix!Step(p))
  BY <1>2, <1>4, InetClientDoes, UnixClientDoes, SockClientStep
<1>5. CASE p = "server" /\ (Inet!Step(p) \/ Unix!Step(p))
  BY <1>2, <1>5, InetServerDoes, UnixServerDoes, SockServerStep
<1> QED
  BY <1>1, <1>3, <1>4, <1>5

\* main() of the two programs after fork
LEMMA SockStart ==
  ASSUME Inet!Init \/ Unix!Init, NoWords
  PROVE  SockAt(0, 0)
<1>1. /\ i = [p \in Procs |-> 0] /\ printed = [p \in Procs |-> << >>]
      /\ stream = [s \in Streams |-> << >>]
      /\ pc = [p \in Procs |-> IF p = "client" THEN "connect" ELSE "listen"]
  BY DEF Inet!Init, Inet!StreamInit, Inet!Streams, Inet!Procs, Unix!Init, Unix!StreamInit,
         Unix!Streams, Unix!Procs, Streams, Procs
<1>2. Shape
  BY <1>1 DEF Shape, NoWords
<1>3. Lines(0, FALSE) = << >>
  BY LineFacts DEF Lines
<1>4. Empty(<< >>, Nul)
  BY DEF Empty
<1>5. Turn(0, 0, << >>, Nul, << >>, Nul)
  BY <1>4 DEF Turn, OnItsWay
<1>6. /\ SockClient("connect", 0, 0, 0, << >>, Nul)
      /\ SockServer("listen", 0, 0, 0, << >>, Nul)
  BY <1>4, StreamAssumption DEF SockClient, SockServer
<1>7. /\ printed["client"] = << >> /\ printed["server"] = << >>
      /\ stream["c2s"] = << >> /\ stream["s2c"] = << >>
      /\ i["client"] = 0 /\ i["server"] = 0 /\ word["client"] = Nul /\ word["server"] = Nul
      /\ pc["client"] = "connect" /\ pc["server"] = "listen"
  BY <1>1, FifoNames DEF NoWords
<1>8. 0 \in 0 .. Iterations
  BY StreamAssumption
<1> QED
  BY <1>2, <1>3, <1>5, <1>6, <1>7, <1>8 DEF SockAt

-------------------------------------------------------------------------------
(* The four programs together                                              *)

FifoRuns == \E a, h \in 0 .. Iterations, eC, eS \in BOOLEAN : FifoAt(a, h, eC, eS)
SockRuns == \E a, h \in 0 .. Iterations : SockAt(a, h)

Inv ==
  /\ program \in {"pipes", "mkfifo", "sockets", "unix_sockets"}
  /\ program = "pipes" => PipeAt
  /\ program = "mkfifo" => FifoRuns
  /\ program \in {"sockets", "unix_sockets"} => SockRuns

\* What has been said, in the numbers of the invariant
LEMMA Numbers ==
  ASSUME NEW a \in Nat, NEW h \in Nat, NEW eC \in BOOLEAN, NEW eS \in BOOLEAN,
         printed["client"] = Lines(a, eC), printed["server"] = Lines(h, eS),
         Turn(a, h, stream["c2s"], word["server"], stream["s2c"], word["client"])
  PROVE  /\ Said("client") = PingsTo(a) /\ Said("server") = PingsTo(h)
         /\ Len(Said("client")) = a /\ Len(Said("server")) = h
         /\ Asked = h + (IF Waiting THEN 1 ELSE 0)
<1>1. Said("client") = PingsTo(a) /\ Said("server") = PingsTo(h)
  BY LineFacts DEF Said
<1>2. Len(PingsTo(a)) = a /\ Len(PingsTo(h)) = h
  BY LineFacts
<1>3. OnTheWay(stream["c2s"], word["server"]) = IF Waiting THEN 1 ELSE 0
  <2>1. OnItsWay(stream["c2s"], word["server"], a)
    BY DEF Turn, OnItsWay
  <2> QED
    BY <2>1, Counted DEF OnItsWay, Waiting
<1> QED
  BY <1>1, <1>2, <1>3 DEF Asked

\* A move of the numbers is a step of the abstract conversation.
LEMMA ChannelMoves ==
  ASSUME program \notin {"pipes"}, UNCHANGED program,
         NEW a \in Nat, NEW h \in Nat, NEW eC \in BOOLEAN, NEW eS \in BOOLEAN,
         printed["client"] = Lines(a, eC), printed["server"] = Lines(h, eS),
         Turn(a, h, stream["c2s"], word["server"], stream["s2c"], word["client"]),
         NEW a2 \in Nat, NEW h2 \in Nat, NEW eC2 \in BOOLEAN, NEW eS2 \in BOOLEAN,
         printed'["client"] = Lines(a2, eC2), printed'["server"] = Lines(h2, eS2),
         Turn(a2, h2, stream'["c2s"], word'["server"], stream'["s2c"], word'["client"]),
         Moved(a, h, Waiting, a2, h2, Waiting')
  PROVE  [Channel!Next]_(Channel!vars)
<1> DEFINE asked == IF program = "pipes" THEN 0 ELSE Asked
           heard == IF program = "pipes" THEN << >> ELSE Said("server")
           answers == IF program = "pipes" THEN << >> ELSE Said("client")
<1>1. /\ answers = PingsTo(a) /\ heard = PingsTo(h)
      /\ Len(answers) = a /\ Len(heard) = h
      /\ asked = h + (IF Waiting THEN 1 ELSE 0)
  BY Numbers
<1>2. /\ answers' = PingsTo(a2) /\ heard' = PingsTo(h2)
      /\ asked' = h2 + (IF Waiting' THEN 1 ELSE 0)
  <2>1. /\ Said("client")' = PingsTo(a2) /\ Said("server")' = PingsTo(h2)
        /\ Asked' = h2 + (IF Waiting' THEN 1 ELSE 0)
    <3>1. Said("client")' = PingsTo(a2) /\ Said("server")' = PingsTo(h2)
      BY LineFacts DEF Said
    <3>2. OnTheWay(stream'["c2s"], word'["server"]) = IF Waiting' THEN 1 ELSE 0
      <4>1. OnItsWay(stream'["c2s"], word'["server"], a2)
        BY DEF Turn, OnItsWay
      <4> QED
        BY <4>1, Counted DEF OnItsWay, Waiting
    <3>3. Len(PingsTo(h2)) = h2
      BY LineFacts
    <3> QED
      BY <3>1, <3>2, <3>3 DEF Asked
  <2> QED
    BY <2>1
<1>3. /\ Append(PingsTo(a), Ping(a)) = PingsTo(a + 1)
      /\ Append(PingsTo(h), Ping(h)) = PingsTo(h + 1)
  BY LineFacts DEF Lines
<1>4. Channel!vars = <<asked, heard, answers>> /\ Channel!vars' = <<asked', heard', answers'>>
  BY DEF Channel!vars
<1>5. /\ Channel!Ask <=> /\ asked < Iterations /\ asked = Len(answers) /\ asked' = asked + 1
                         /\ heard' = heard /\ answers' = answers
      /\ Channel!Hear <=> /\ Len(heard) < asked /\ heard' = Append(heard, Ping(Len(heard)))
                          /\ asked' = asked /\ answers' = answers
      /\ Channel!Answer <=> /\ Len(answers) < Len(heard)
                            /\ answers' = Append(answers, Ping(Len(answers)))
                            /\ asked' = asked /\ heard' = heard
  BY DEF Channel!Ask, Channel!Hear, Channel!Answer
<1> HIDE DEF asked, heard, answers
<1> DEFINE w == Waiting
           w2 == Waiting'
<1>6. Moved(a, h, w, a2, h2, w2)
  OBVIOUS
<1>7. asked = h + (IF w THEN 1 ELSE 0) /\ asked' = h2 + (IF w2 THEN 1 ELSE 0)
  BY <1>1, <1>2
<1> HIDE DEF w, w2
<1>8. CASE a2 = a /\ h2 = h /\ w2 = w
  <2>1. asked' = asked /\ heard' = heard /\ answers' = answers
    BY <1>1, <1>2, <1>7, <1>8
  <2> QED
    BY <1>4, <2>1
<1>9. CASE a2 = a /\ h2 = h /\ ~w /\ w2 /\ h = a /\ a < Iterations
  <2>1. asked = a /\ asked' = a + 1
    BY <1>7, <1>9
  <2>2. Channel!Ask
    BY <1>1, <1>2, <1>5, <1>9, <2>1
  <2> QED
    BY <2>2 DEF Channel!Next
<1>10. CASE a2 = a /\ h2 = h + 1 /\ w /\ ~w2
  <2>1. asked = h + 1 /\ asked' = h + 1
    BY <1>7, <1>10
  <2>2. Channel!Hear
    BY <1>1, <1>2, <1>3, <1>5, <1>10, <2>1
  <2> QED
    BY <2>2 DEF Channel!Next
<1>11. CASE a2 = a + 1 /\ h2 = h /\ a < h /\ ~w /\ ~w2
  <2>1. asked = h /\ asked' = h
    BY <1>7, <1>11
  <2>2. Channel!Answer
    BY <1>1, <1>2, <1>3, <1>5, <1>11, <2>1
  <2> QED
    BY <2>2 DEF Channel!Next
<1> QED
  BY <1>6, <1>8, <1>9, <1>10, <1>11 DEF Moved

\* Nothing happens to the conversation of pipes.c, which promises none.
LEMMA PipesPromiseNothing ==
  ASSUME program = "pipes", UNCHANGED program
  PROVE  UNCHANGED Channel!vars
BY DEF Channel!vars

\* The invariant holds at the start.
LEMMA InitOK ==
  ASSUME Init
  PROVE  Inv /\ Channel!Init
<1>1. 0 \in 0 .. Iterations /\ FALSE \in BOOLEAN
  BY StreamAssumption
<1>2. CASE program = "pipes"
  <2>1. Pipe!Init /\ NoWords
    BY <1>2 DEF Init, NoWords
  <2> QED
    BY <1>2, <2>1, PipeStart DEF Inv, Channel!Init
<1>3. CASE program = "mkfifo"
  <2>1. FifoAt(0, 0, FALSE, FALSE)
    BY <1>3, FifoStart DEF Init
  <2>2. FifoRuns
    BY <1>1, <2>1 DEF FifoRuns
  <2>3. Waiting = FALSE
    BY <1>3, FifoNames DEF Init, Fifo!Init, Fifo!StreamInit, Fifo!Streams, Waiting, Empty
  <2>4. /\ Said("client") = PingsTo(0) /\ Said("server") = PingsTo(0)
        /\ Asked = 0 + (IF Waiting THEN 1 ELSE 0)
    BY <1>1, <2>1, Numbers DEF FifoAt, TalkAt, Talk
  <2>5. PingsTo(0) = << >>
    BY LineFacts
  <2> QED
    BY <1>3, <2>2, <2>3, <2>4, <2>5 DEF Inv, Channel!Init
<1>4. CASE program \in {"sockets", "unix_sockets"}
  <2>1. SockAt(0, 0)
    BY <1>4, SockStart DEF Init, NoWords
  <2>2. SockRuns
    BY <1>1, <2>1 DEF SockRuns
  <2>3. Waiting = FALSE
    <3>1. (Inet!Init \/ Unix!Init) /\ NoWords
      BY <1>4 DEF Init, NoWords
    <3>2. stream["c2s"] = << >> /\ word["server"] = Nul
      BY <3>1 DEF NoWords, Inet!Init, Inet!StreamInit, Inet!Streams, Unix!Init, Unix!StreamInit,
                  Unix!Streams, Procs
    <3> QED
      BY <3>2 DEF Waiting, Empty
  <2>4. /\ Said("client") = PingsTo(0) /\ Said("server") = PingsTo(0)
        /\ Asked = 0 + (IF Waiting THEN 1 ELSE 0)
    BY <1>1, <2>1, Numbers DEF SockAt
  <2>5. PingsTo(0) = << >>
    BY LineFacts
  <2> QED
    BY <1>4, <2>2, <2>3, <2>4, <2>5 DEF Inv, Channel!Init
<1> QED
  BY <1>2, <1>3, <1>4 DEF Init

\* Standing still
LEMMA StutterOK ==
  ASSUME Inv, UNCHANGED allVars
  PROVE  Inv' /\ UNCHANGED Channel!vars
<1>1. UNCHANGED <<pc, i, printed, stream, ends, kills, program, word, split>>
  BY DEF allVars, vars
<1>2. Shape' = Shape /\ NoWords' = NoWords /\ KeepsEnd' = KeepsEnd /\ InOrder' = InOrder
      /\ FifoEnds' = FifoEnds /\ Meeting' = Meeting
  BY <1>1 DEF Shape, NoWords, KeepsEnd, InOrder, FifoEnds, Meeting
<1>3. ASSUME NEW a, NEW h, NEW eC, NEW eS
      PROVE  (TalkAt(a, h, eC, eS))' = TalkAt(a, h, eC, eS)
  BY <1>1, <1>2 DEF TalkAt, Talk, Alone
<1>4. ASSUME NEW a, NEW h
      PROVE  (SockAt(a, h))' = SockAt(a, h)
  BY <1>1, <1>2 DEF SockAt
<1>5. PipeAt => PipeAt'
  BY <1>1, <1>2, <1>3 DEF PipeAt, TurnsTaken
<1>6. FifoRuns => FifoRuns'
  BY <1>2, <1>3 DEF FifoRuns, FifoAt
<1>7. SockRuns => SockRuns'
  BY <1>4 DEF SockRuns
<1>8. Inv'
  BY <1>1, <1>5, <1>6, <1>7 DEF Inv
<1>9. UNCHANGED Channel!vars
  BY <1>1 DEF Channel!vars, Asked, Said, OnTheWay
<1> QED
  BY <1>8, <1>9

\* Every step keeps the invariant, and is a step of the conversation or none.
LEMMA StepOK ==
  ASSUME Inv, [Next]_allVars
  PROVE  Inv' /\ [Channel!Next]_(Channel!vars)
<1>1. CASE UNCHANGED allVars
  BY <1>1, StutterOK
<1>2. ASSUME NEW p \in Procs, Step(p) \/ Killed(p)
      PROVE  Inv' /\ [Channel!Next]_(Channel!vars)
  <2>1. UNCHANGED program
    BY <1>2 DEF Step, Killed, PipeStep, FifoStep, InetStep, UnixStep
  <2>2. CASE program = "pipes"
    <3>1. UNCHANGED word /\ (Pipe!Step(p) \/ (Kill(p) /\ UNCHANGED split))
      BY <1>2, <2>2 DEF Step, Killed, PipeStep, FifoStep, InetStep, UnixStep
    <3>2. PipeAt'
      BY <2>2, <3>1, PipeStepOK DEF Inv
    <3> QED
      BY <2>1, <2>2, <3>2, PipesPromiseNothing DEF Inv
  <2>3. CASE program = "mkfifo"
    <3>1. Fifo!Step(p) \/ (Kill(p) /\ UNCHANGED word)
      BY <1>2, <2>3 DEF Step, Killed, PipeStep, FifoStep, InetStep, UnixStep
    <3>2. PICK a \in 0 .. Iterations, h \in 0 .. Iterations, eC \in BOOLEAN, eS \in BOOLEAN :
            FifoAt(a, h, eC, eS)
      BY <2>3 DEF Inv, FifoRuns
    <3>3. FifoGoes(a, h)
      BY <3>1, <3>2, FifoStepOK
    <3>4. PICK a2 \in 0 .. Iterations, h2 \in 0 .. Iterations, eC2 \in BOOLEAN, eS2 \in BOOLEAN :
            FifoAt(a2, h2, eC2, eS2)' /\ Moved(a, h, Waiting, a2, h2, Waiting')
      BY <3>3 DEF FifoGoes
    <3>5. Inv'
      BY <2>1, <2>3, <3>4 DEF Inv, FifoRuns
    <3>6. /\ printed["client"] = Lines(a, eC) /\ printed["server"] = Lines(h, eS)
          /\ Turn(a, h, stream["c2s"], word["server"], stream["s2c"], word["client"])
      BY <3>2 DEF FifoAt, TalkAt, Talk
    <3>7. /\ printed'["client"] = Lines(a2, eC2) /\ printed'["server"] = Lines(h2, eS2)
          /\ Turn(a2, h2, stream'["c2s"], word'["server"], stream'["s2c"], word'["client"])
      BY <3>4 DEF FifoAt, TalkAt, Talk
    <3>8. a \in Nat /\ h \in Nat /\ a2 \in Nat /\ h2 \in Nat /\ program \notin {"pipes"}
      BY <2>3, StreamAssumption
    <3>9. [Channel!Next]_(Channel!vars)
      BY <2>1, <3>4, <3>6, <3>7, <3>8, ChannelMoves
    <3> QED
      BY <3>5, <3>9
  <2>4. CASE program \in {"sockets", "unix_sockets"}
    <3>1. UNCHANGED word /\ (Inet!Step(p) \/ Unix!Step(p) \/ Kill(p))
      BY <1>2, <2>4 DEF Step, Killed, PipeStep, FifoStep, InetStep, UnixStep
    <3>2. PICK a \in 0 .. Iterations, h \in 0 .. Iterations : SockAt(a, h)
      BY <2>4 DEF Inv, SockRuns
    <3>3. SockGoes(a, h)
      BY <3>1, <3>2, SockStepOK
    <3>4. PICK a2 \in 0 .. Iterations, h2 \in 0 .. Iterations :
            SockAt(a2, h2)' /\ Moved(a, h, Waiting, a2, h2, Waiting')
      BY <3>3 DEF SockGoes
    <3>5. Inv'
      BY <2>1, <2>4, <3>4 DEF Inv, SockRuns
    <3>6. /\ printed["client"] = Lines(a, FALSE) /\ printed["server"] = Lines(h, FALSE)
          /\ Turn(a, h, stream["c2s"], word["server"], stream["s2c"], word["client"])
      BY <3>2 DEF SockAt
    <3>7. /\ printed'["client"] = Lines(a2, FALSE) /\ printed'["server"] = Lines(h2, FALSE)
          /\ Turn(a2, h2, stream'["c2s"], word'["server"], stream'["s2c"], word'["client"])
      BY <3>4 DEF SockAt
    <3>8. /\ a \in Nat /\ h \in Nat /\ a2 \in Nat /\ h2 \in Nat /\ program \notin {"pipes"}
          /\ FALSE \in BOOLEAN
      BY <2>4, StreamAssumption
    <3>9. [Channel!Next]_(Channel!vars)
      BY <2>1, <3>4, <3>6, <3>7, <3>8, ChannelMoves
    <3> QED
      BY <3>5, <3>9
  <2> QED
    BY <2>2, <2>3, <2>4 DEF Inv
<1> QED
  BY <1>1, <1>2 DEF Next, Terminated

\* The invariant holds of every run of the four programs.
THEOREM StreamsInvariant == Spec => []Inv
<1>1. Inv /\ [Next]_allVars => Inv'
  BY StepOK
<1> QED
  BY <1>1, InitOK, PTL DEF Spec

\* Over FIFOs and sockets the server gets every ping once and in order, and the client
\* the echo of the ping it has just sent.
THEOREM PingsAreAnswered == Spec => ImplementsRequestReply
<1>1. Inv /\ [Next]_allVars => [Channel!Next]_(Channel!vars)
  BY StepOK
<1> QED
  BY <1>1, InitOK, StreamsInvariant, PTL DEF Spec, ImplementsRequestReply, Channel!Spec

\* An empty line is the mark of a partner that died.
LEMMA EmptyLine ==
  ASSUME NEW n \in Nat, NEW e \in BOOLEAN, NEW k \in DOMAIN Lines(n, e), Lines(n, e)[k] = Nul
  PROVE  e = TRUE
<1> SUFFICES ASSUME e = FALSE PROVE FALSE
  OBVIOUS
<1>1. k \in 1 .. n /\ PingsTo(n)[k] = Nul
  BY DEF Lines, PingsTo
<1>2. PingsTo(n)[k] = Ping(k - 1)
  BY <1>1 DEF PingsTo
<1> QED
  BY <1>1, <1>2, PingFacts

\* Only split reads of pipes.c break a message, none is doubled or overtaken, and
\* elsewhere only a partner that died leaves an empty line.
THEOREM OnlySplitReadsBreak == Spec => []MessagesStayWhole
<1>1. Inv => MessagesStayWhole
  <2> SUFFICES ASSUME Inv PROVE MessagesStayWhole
    OBVIOUS
  <2>1. CASE program = "pipes"
    <3>1. PipeAt
      BY <2>1 DEF Inv
    <3>2. Pipe!WholeReadsInOrder
      <4> SUFFICES ASSUME ~split, NEW p \in Procs
                   PROVE  printed[p] = [n \in 1 .. Len(printed[p]) |-> Pipe!Ping(n - 1)]
        BY PipeNames DEF Pipe!WholeReadsInOrder
      <4>1. PICK a \in 0 .. Iterations, h \in 0 .. Iterations : TalkAt(a, h, FALSE, FALSE)
        BY <3>1 DEF PipeAt, TurnsTaken
      <4>2. printed[p] = PingsTo(a) \/ printed[p] = PingsTo(h)
        BY <4>1, FifoNames DEF TalkAt, Talk, Lines
      <4>3. a \in Nat /\ h \in Nat
        BY StreamAssumption
      <4>4. Len(PingsTo(a)) = a /\ Len(PingsTo(h)) = h
        BY <4>3, LineFacts
      <4> QED
        BY <4>2, <4>3, <4>4, PipeNames DEF PingsTo
    <3>3. Pipe!NeverBackwards
      <4>1. Rising(printed["client"]) /\ Rising(printed["server"])
        BY <3>1 DEF PipeAt, InOrder, Order
      <4> QED
        BY <4>1, PipeNames, FifoNames DEF Pipe!NeverBackwards, Rising
    <3> QED
      BY <2>1, <3>2, <3>3 DEF MessagesStayWhole
  <2>2. CASE program = "mkfifo"
    <3>1. PICK a \in 0 .. Iterations, h \in 0 .. Iterations, eC \in BOOLEAN, eS \in BOOLEAN :
            FifoAt(a, h, eC, eS)
      BY <2>2 DEF Inv, FifoRuns
    <3>2. a \in Nat /\ h \in Nat
      BY StreamAssumption
    <3>3. /\ printed["client"] = Lines(a, eC) /\ printed["server"] = Lines(h, eS)
          /\ (eC => pc["server"] = "killed") /\ (eS => pc["client"] = "killed")
      BY <3>1 DEF FifoAt, TalkAt, Talk, Alone
    <3> QED
      BY <2>2, <3>2, <3>3, EmptyLine, FifoNames DEF MessagesStayWhole
  <2>3. CASE program \in {"sockets", "unix_sockets"}
    <3>1. PICK a \in 0 .. Iterations, h \in 0 .. Iterations : SockAt(a, h)
      BY <2>3 DEF Inv, SockRuns
    <3>2. a \in Nat /\ h \in Nat /\ FALSE \in BOOLEAN
      BY StreamAssumption
    <3>3. printed["client"] = Lines(a, FALSE) /\ printed["server"] = Lines(h, FALSE)
      BY <3>1 DEF SockAt
    <3> QED
      BY <2>3, <3>2, <3>3, EmptyLine, FifoNames DEF MessagesStayWhole
  <2> QED
    BY <2>1, <2>2, <2>3 DEF Inv
<1> QED
  BY <1>1, StreamsInvariant, PTL
=============================================================================
