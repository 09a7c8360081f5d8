------------------------------- MODULE Ping_proofs -------------------------------
(***************************************************************************)
(* The lines ping.c and ping.go print are true, their times honest and     *)
(* their deadlines kept, for every pid, every width of the fields, every   *)
(* number of requests, of strangers' packets and of ticks the program may  *)
(* be late.                                                                *)
(***************************************************************************)
EXTENDS Ping, SequenceTheorems, FiniteSetTheorems, TLAPS

-------------------------------------------------------------------------------
(* The invariant                                                           *)

Lines == [kind : {"reply", "timeout", "error"}, of : 0 .. MaxSeq]

\* The line about a reply to request n
ReplyLine(n) == [kind |-> "reply", of |-> n]

\* An answer of the host to a request of this process
Own(packet) ==
  /\ packet.kind = "reply" /\ packet.id = Id
  /\ packet.req \in 1 .. seq /\ packet.seq = packet.req % Field
  /\ packet.sent <= start

\* Nothing is in the air or in the socket but answers to requests of this
\* process, none from the future, and packets for others.
PacketsAreKnown ==
  /\ \A packet \in transit : Own(packet)
  /\ \A k \in DOMAIN sock : Own(sock[k]) \/ sock[k] \in Foreign

AnswersTo(n) == {packet \in Packets : packet.req = n}

\* The positions of a sequence that hold an element of S
Places(s, S) == {k \in DOMAIN s : s[k] \in S}

\* The answers to a request that are still on their way, wait in the socket or
\* have been reported are never more than the two the network made of it.
TwoAnswersAtMost ==
  \A n \in 1 .. MaxSeq :
    Cardinality(Places(lines, {ReplyLine(n)})) + Cardinality(Places(sock, AnswersTo(n)))
      + Cardinality(transit \cap AnswersTo(n)) <= 2

\* While the program takes each packet as it comes, the answer that came in time
\* for the request it waits for is still in the socket, and the deadline ahead.
AnswerStillWaits ==
  pc = "wait" /\ seq \in inTime /\ ~late /\ ~Outgrown(seq) =>
    clock < deadline /\ \E k \in DOMAIN sock : Own(sock[k]) /\ sock[k].req = seq

\* What LinesAreTrue says of a line, without the count of answers
LineIsTrue(k) ==
  /\ program = "go" \/ lines[k].kind # "reply" => lines[k].of = k
  /\ lines[k].kind = "reply" => lines[k].of \in 1 .. k /\ ~Outgrown(lines[k].of)
  /\ lines[k].kind = "timeout" /\ lines[k].of \in inTime => late \/ Outgrown(lines[k].of)

PingTypeOK ==
  /\ TypeOK /\ lines \in Seq(Lines) /\ IsFiniteSet(transit)
  /\ program \in {"c", "go"} /\ late \in BOOLEAN

\* The inductive invariant.
Inv ==
  /\ PingTypeOK /\ DeadlineKept /\ PacketsAreKnown /\ TwoAnswersAtMost /\ AnswerStillWaits
  /\ \A k \in DOMAIN lines : LineIsTrue(k)

-------------------------------------------------------------------------------
(* Fields of 16 bits                                                       *)

\* A remainder fits into a field, and a number that fits is its own remainder.
LEMMA FieldValues ==
  ASSUME NEW n \in Nat
  PROVE  n % Field \in 0 .. Field - 1 /\ (n < Field => n % Field = n)
PROOF
<1> USE PingAssumption
<1>1. n % Field \in 0 .. Field - 1
  OBVIOUS
<1>2. ASSUME n < Field  PROVE n % Field = n
  BY <1>2
<1> QED
  BY <1>1, <1>2

-------------------------------------------------------------------------------
(* Counting the places of a sequence                                       *)

\* They are finitely many.
LEMMA PlacesFinite ==
  ASSUME NEW T, NEW s \in Seq(T), NEW S
  PROVE  IsFiniteSet(Places(s, S)) /\ Cardinality(Places(s, S)) \in Nat
PROOF
<1>1. DOMAIN s = 1 .. Len(s) /\ Len(s) \in Nat
  BY LenProperties
<1>2. IsFiniteSet(DOMAIN s)
  BY <1>1, FS_Interval
<1>3. Places(s, S) \in SUBSET DOMAIN s
  BY DEF Places
<1>4. IsFiniteSet(Places(s, S))
  BY <1>2, <1>3, FS_Subset
<1> QED
  BY <1>4, FS_CardinalityType

\* An element at the end adds its own place.
LEMMA PlacesAppend ==
  ASSUME NEW T, NEW s \in Seq(T), NEW e \in T, NEW S
  PROVE  Cardinality(Places(Append(s, e), S)) =
           Cardinality(Places(s, S)) + (IF e \in S THEN 1 ELSE 0)
PROOF
<1> DEFINE P == Places(s, S)
<1>1. DOMAIN s = 1 .. Len(s) /\ Len(s) \in Nat
  BY LenProperties
<1>2. /\ DOMAIN Append(s, e) = 1 .. Len(s) + 1
      /\ \A k \in 1 .. Len(s) : Append(s, e)[k] = s[k]
      /\ Append(s, e)[Len(s) + 1] = e
  BY <1>1
<1>3. Places(Append(s, e), S) = IF e \in S THEN P \cup {Len(s) + 1} ELSE P
  BY <1>1, <1>2 DEF Places
<1>4. IsFiniteSet(P) /\ Cardinality(P) \in Nat
  BY PlacesFinite
<1>5. Len(s) + 1 \notin P
  BY <1>1 DEF Places
<1>6. Cardinality(P \cup {Len(s) + 1}) = Cardinality(P) + 1
  BY <1>4, <1>5, FS_AddElement
<1> QED
  BY <1>3, <1>4, <1>6

\* Without its head a sequence has one place less, or as many.
LEMMA PlacesTail ==
  ASSUME NEW T, NEW s \in Seq(T), s # << >>, NEW S
  PROVE  Cardinality(Places(s, S)) =
           Cardinality(Places(Tail(s), S)) + (IF Head(s) \in S THEN 1 ELSE 0)
PROOF
<1> DEFINE P == Places(Tail(s), S)
           Q == Places(s, S) \ {1}
           f == [k \in P |-> k + 1]
<1>1. DOMAIN s = 1 .. Len(s) /\ Len(s) \in Nat \ {0}
  BY LenProperties, EmptySeq
<1>2. /\ Tail(s) \in Seq(T)
      /\ DOMAIN Tail(s) = 1 .. Len(s) - 1
      /\ \A k \in 1 .. Len(s) - 1 : Tail(s)[k] = s[k + 1]
      /\ Head(s) = s[1]
  BY <1>1, HeadTailProperties, LenProperties
<1>3. IsFiniteSet(P) /\ Cardinality(P) \in Nat
  BY <1>2, PlacesFinite
<1>4. IsFiniteSet(Places(s, S)) /\ Cardinality(Places(s, S)) \in Nat
  BY PlacesFinite
<1>5. P \subseteq 1 .. Len(s) - 1
  BY <1>2 DEF Places
<1>6. \A k \in P : k + 1 \in Q
  BY <1>1, <1>2, <1>5 DEF Places
<1>7. \A k \in Q : k - 1 \in P /\ f[k - 1] = k
  BY <1>1, <1>2 DEF Places
<1>8. f \in Bijection(P, Q)
  <2>1. f \in [P -> Q]
    BY <1>6
  <2>2. \A j, k \in P : f[j] = f[k] => j = k
    BY <1>5
  <2>3. \A k \in Q : \E j \in P : f[j] = k
    BY <1>7
  <2> HIDE DEF P, Q, f
  <2>4. f \in Injection(P, Q)
    BY <2>1, <2>2 DEF Injection, IsInjective
  <2>5. f \in Surjection(P, Q)
    BY <2>1, <2>3 DEF Surjection
  <2> QED
    BY <2>4, <2>5 DEF Bijection
<1>9. Cardinality(Q) = Cardinality(P)
  BY <1>3, <1>8, FS_Bijection DEF ExistsBijection
<1>10. Cardinality(Q) = IF 1 \in Places(s, S) THEN Cardinality(Places(s, S)) - 1
                                              ELSE Cardinality(Places(s, S))
  BY <1>4, FS_RemoveElement
<1>11. 1 \in Places(s, S) <=> Head(s) \in S
  BY <1>1, <1>2 DEF Places
<1> QED
  BY <1>3, <1>4, <1>9, <1>10, <1>11

-------------------------------------------------------------------------------
(* What the steps have in common                                           *)

\* The socket's first packet and the others
LEMMA SocketTail ==
  ASSUME TypeOK, sock # << >>
  PROVE  /\ Tail(sock) \in Seq(Packets) /\ Head(sock) = sock[1] /\ 1 \in DOMAIN sock
         /\ Head(sock) \in Packets
         /\ \A k \in DOMAIN Tail(sock) : k + 1 \in DOMAIN sock /\ Tail(sock)[k] = sock[k + 1]
         /\ \A k \in DOMAIN sock \ {1} : k - 1 \in DOMAIN Tail(sock) /\ Tail(sock)[k - 1] = sock[k]
PROOF
<1>1. sock \in Seq(Packets)
  BY DEF TypeOK
<1>2. DOMAIN sock = 1 .. Len(sock) /\ Len(sock) \in Nat \ {0}
  BY <1>1, LenProperties, EmptySeq
<1>3. /\ Tail(sock) \in Seq(Packets) /\ Head(sock) \in Packets
      /\ DOMAIN Tail(sock) = 1 .. Len(sock) - 1
      /\ \A k \in 1 .. Len(sock) - 1 : Tail(sock)[k] = sock[k + 1]
  BY <1>1, <1>2, HeadTailProperties, LenProperties
<1>4. Head(sock) = sock[1]
  BY <1>1, <1>2
<1> QED
  BY <1>2, <1>3, <1>4

\* A packet that leaves the socket adds no answer.
LEMMA SocketCount ==
  ASSUME TypeOK, sock # << >>, NEW n \in 1 .. MaxSeq
  PROVE  /\ Cardinality(Places(sock, AnswersTo(n))) \in Nat
         /\ Cardinality(Places(Tail(sock), AnswersTo(n))) \in Nat
         /\ Cardinality(Places(sock, AnswersTo(n))) =
              Cardinality(Places(Tail(sock), AnswersTo(n)))
                + (IF Head(sock).req = n THEN 1 ELSE 0)
PROOF
<1>1. sock \in Seq(Packets) /\ Tail(sock) \in Seq(Packets) /\ Head(sock) \in Packets
  BY SocketTail DEF TypeOK
<1>2. Head(sock) \in AnswersTo(n) <=> Head(sock).req = n
  BY <1>1 DEF AnswersTo
<1> QED
  BY <1>1, <1>2, PlacesTail, PlacesFinite

\* The numbers TwoAnswersAtMost adds
LEMMA Counts ==
  ASSUME PingTypeOK, NEW n \in 1 .. MaxSeq
  PROVE  /\ Cardinality(Places(lines, {ReplyLine(n)})) \in Nat
         /\ Cardinality(Places(sock, AnswersTo(n))) \in Nat
         /\ Cardinality(transit \cap AnswersTo(n)) \in Nat
         /\ IsFiniteSet(transit \cap AnswersTo(n))
PROOF
<1>1. IsFiniteSet(transit \cap AnswersTo(n))
  BY FS_Intersection DEF PingTypeOK
<1> QED
  BY <1>1, FS_CardinalityType, PlacesFinite DEF PingTypeOK, TypeOK

\* A packet that the program passes over, unless it is the answer it waits for
\* and may believe
LEMMA SkipKeepsInv ==
  ASSUME Inv, pc = "wait", sock # << >>, sock' = Tail(sock), deadline' = deadline,
         UNCHANGED <<program, late, pid, clock, seq, transit, foreign, pc, start, lines, time, inTime>>,
         Own(Head(sock)) /\ Head(sock).req = seq => Outgrown(seq)
  PROVE  Inv'
PROOF
<1> USE DEF Inv
<1>1. PingTypeOK'
  BY SocketTail DEF PingTypeOK, TypeOK, Packets
<1>2. DeadlineKept'
  BY DEF DeadlineKept
<1>3. PacketsAreKnown'
  BY SocketTail DEF PingTypeOK, PacketsAreKnown, Own, Foreign, Id
<1>4. TwoAnswersAtMost'
  BY SocketCount, Counts, SMTT(30) DEF PingTypeOK, TwoAnswersAtMost
<1>5. AnswerStillWaits'
  <2> SUFFICES ASSUME seq \in inTime, ~late, ~Outgrown(seq)
               PROVE  clock < deadline /\ \E k \in DOMAIN sock' : Own(sock'[k]) /\ sock'[k].req = seq
    BY DEF AnswerStillWaits, Outgrown, Own, Id
  <2>1. PICK k \in DOMAIN sock : Own(sock[k]) /\ sock[k].req = seq
    BY DEF AnswerStillWaits
  <2>2. k # 1
    BY <2>1, SocketTail DEF PingTypeOK
  <2>3. k - 1 \in DOMAIN sock' /\ sock'[k - 1] = sock[k]
    BY <2>2, SocketTail DEF PingTypeOK
  <2> QED
    BY <2>1, <2>3 DEF AnswerStillWaits
<1>6. (\A k \in DOMAIN lines : LineIsTrue(k))'
  BY DEF LineIsTrue, Outgrown
<1> QED
  BY <1>1, <1>2, <1>3, <1>4, <1>5, <1>6

\* A packet of others over which ping.go panics: it does not wait any more.
LEMMA PanicKeepsInv ==
  ASSUME Inv, GoPanic, UNCHANGED <<program, late>>
  PROVE  Inv'
PROOF
<1> USE DEF Inv
<1>1. /\ pc = "wait" /\ sock # << >> /\ sock' = Tail(sock) /\ pc' = "panicked"
      /\ UNCHANGED <<pid, clock, seq, transit, foreign, start, deadline, lines, time, inTime>>
  BY DEF GoPanic, GoReceived
<1>2. Packets' = Packets /\ Lines' = Lines /\ Foreign' = Foreign /\ Id' = Id
  BY <1>1 DEF Packets, Lines, Foreign, Id
<1>3. PingTypeOK'
  <2>1. TypeOK'
    BY <1>1, <1>2, SocketTail DEF PingTypeOK, TypeOK
  <2> QED
    BY <1>1, <1>2, <2>1 DEF PingTypeOK
<1>4. DeadlineKept' /\ AnswerStillWaits'
  BY <1>1 DEF DeadlineKept, AnswerStillWaits
<1>5. PacketsAreKnown'
  <2>1. \A p : Own(p)' <=> Own(p)
    BY <1>1, <1>2 DEF Own
  <2> QED
    BY <1>1, <1>2, <2>1, SocketTail DEF PingTypeOK, PacketsAreKnown
<1>6. TwoAnswersAtMost'
  <2> SUFFICES ASSUME NEW n \in 1 .. MaxSeq
               PROVE  Cardinality(Places(lines, {ReplyLine(n)}))
                        + Cardinality(Places(Tail(sock), AnswersTo(n)))
                        + Cardinality(transit \cap AnswersTo(n)) <= 2
    BY <1>1, <1>2 DEF TwoAnswersAtMost, AnswersTo, ReplyLine
  <2> QED
    BY <1>1, SocketCount, Counts, SMTT(30) DEF PingTypeOK, TwoAnswersAtMost
<1>7. (\A k \in DOMAIN lines : LineIsTrue(k))'
  BY <1>1 DEF LineIsTrue, Outgrown
<1> QED
  BY <1>3, <1>4, <1>5, <1>6, <1>7

\* A line that ends a wait: about this request, or the report of the answer that
\* was the socket's first packet
LEMMA PrintKeepsInv ==
  ASSUME Inv, pc = "wait", UNCHANGED <<program, late>>,
         NEW line \in Lines, NEW took \in 0 .. clock, PrintAndSleep(line, took),
         \/ line.kind = "timeout" /\ line.of = seq
         \/ /\ line.kind = "reply" /\ sock # << >> /\ Own(Head(sock)) /\ line.of = Head(sock).req
            /\ ~Outgrown(line.of) /\ (program = "go" => line.of = seq),
         line.kind = "timeout" /\ seq \in inTime => late \/ Outgrown(seq),
         \/ sock' = sock /\ line.kind = "timeout"
         \/ sock # << >> /\ sock' = Tail(sock)
  PROVE  Inv'
PROOF
<1> USE DEF Inv
<1>1. /\ lines' = Append(lines, line) /\ time' = took /\ pc' = "sleep"
      /\ deadline' = clock + Second
      /\ UNCHANGED <<pid, clock, seq, transit, foreign, start, inTime>>
  BY DEF PrintAndSleep
<1>2. /\ lines \in Seq(Lines) /\ DOMAIN lines = 1 .. seq - 1 /\ Len(lines) = seq - 1
      /\ seq \in 1 .. MaxSeq
  <2>1. lines \in Seq(Lines) /\ Len(lines) = seq - 1
    BY DEF PingTypeOK, TypeOK
  <2> QED
    BY <2>1, LenProperties, PingAssumption, SMTT(30) DEF PingTypeOK, TypeOK
<1>3. /\ lines' \in Seq(Lines) /\ DOMAIN lines' = 1 .. seq /\ Len(lines') = seq
      /\ \A k \in 1 .. seq - 1 : lines'[k] = lines[k]
      /\ lines'[seq] = line
  BY <1>1, <1>2, AppendProperties, LenProperties
<1>4. sock' \in Seq(Packets)
  BY SocketTail DEF PingTypeOK, TypeOK
<1>5. PingTypeOK'
  <2>1. deadline' \in 0 .. clock' + Second
    <3>1. clock \in Nat
      BY DEF PingTypeOK, TypeOK
    <3>2. Second \in Nat
      BY PingAssumption
    <3>3. clock + Second \in 0 .. clock + Second
      BY <3>1, <3>2
    <3> QED
      BY <1>1, <3>3
  <2>2. Packets' = Packets /\ Lines' = Lines
    BY DEF Packets, Lines
  <2>3. TypeOK'
    BY <1>1, <1>2, <1>3, <1>4, <2>1, <2>2 DEF PingTypeOK, TypeOK
  <2> QED
    BY <1>1, <1>3, <2>2, <2>3 DEF PingTypeOK
<1>6. DeadlineKept'
  BY <1>1 DEF DeadlineKept
<1>7. PacketsAreKnown'
  <2>1. \A packet : Own(packet)' <=> Own(packet)
    BY <1>1 DEF Own, Id
  <2>2. Foreign' = Foreign
    BY <1>1 DEF Foreign, Id
  <2>3. \A k \in DOMAIN sock' : \E j \in DOMAIN sock : sock'[k] = sock[j]
    BY SocketTail DEF PingTypeOK
  <2> QED
    BY <1>1, <2>1, <2>2, <2>3 DEF PacketsAreKnown
<1>8. TwoAnswersAtMost'
  <2> SUFFICES ASSUME NEW n \in 1 .. MaxSeq
               PROVE  Cardinality(Places(lines', {ReplyLine(n)}))
                        + Cardinality(Places(sock', AnswersTo(n)))
                        + Cardinality(transit \cap AnswersTo(n)) <= 2
    BY <1>1 DEF TwoAnswersAtMost, AnswersTo, Packets, ReplyLine
  <2>1. Cardinality(Places(lines', {ReplyLine(n)})) =
          Cardinality(Places(lines, {ReplyLine(n)})) + (IF line = ReplyLine(n) THEN 1 ELSE 0)
    BY <1>1, <1>2, PlacesAppend
  <2>2. /\ Cardinality(Places(lines, {ReplyLine(n)})) \in Nat
        /\ Cardinality(transit \cap AnswersTo(n)) \in Nat
        /\ Cardinality(Places(sock, AnswersTo(n))) \in Nat
        /\ Cardinality(Places(sock', AnswersTo(n))) \in Nat
        /\ Cardinality(Places(lines, {ReplyLine(n)})) + Cardinality(Places(sock, AnswersTo(n)))
             + Cardinality(transit \cap AnswersTo(n)) <= 2
    BY <1>4, Counts, PlacesFinite DEF TwoAnswersAtMost
  <2>3. CASE sock' = sock /\ line.kind = "timeout"
    <3>1. line # ReplyLine(n)
      BY <2>3 DEF ReplyLine
    <3> QED
      BY <2>1, <2>2, <2>3, <3>1
  <2>4. CASE sock # << >> /\ sock' = Tail(sock)
    <3>1. line = ReplyLine(n) => Head(sock).req = n
      BY DEF ReplyLine
    <3>2. Cardinality(Places(sock, AnswersTo(n))) =
            Cardinality(Places(sock', AnswersTo(n))) + (IF Head(sock).req = n THEN 1 ELSE 0)
      BY <2>4, SocketCount DEF PingTypeOK
    <3> QED
      BY <2>1, <2>2, <3>1, <3>2
  <2> QED
    BY <2>3, <2>4
<1>9. AnswerStillWaits'
  BY <1>1 DEF AnswerStillWaits
<1>10. (\A k \in DOMAIN lines : LineIsTrue(k))'
  <2> SUFFICES ASSUME NEW k \in 1 .. seq  PROVE LineIsTrue(k)'
    BY <1>3
  <2>1. CASE k < seq
    BY <1>1, <1>2, <1>3, <2>1 DEF LineIsTrue, Outgrown
  <2>2. CASE k = seq
    BY <1>1, <1>2, <1>3, <2>2 DEF LineIsTrue, Outgrown, Own, PingTypeOK
  <2> QED
    BY <1>2, <2>1, <2>2
<1> QED
  BY <1>5, <1>6, <1>7, <1>8, <1>9, <1>10

-------------------------------------------------------------------------------
(* Sending, the network and the clock                                      *)

\* The copies of an answer
Copies(n, copies) == {Answer(Id, n, copy) : copy \in 1 .. copies}

\* They are two at most.
LEMMA CopiesCount ==
  ASSUME NEW n \in Nat, NEW copies \in 1 .. 2
  PROVE  IsFiniteSet(Copies(n, copies)) /\ Cardinality(Copies(n, copies)) \in 0 .. 2
PROOF
<1> DEFINE D == {Answer(Id, n, 1)} \cup {Answer(Id, n, 2)}
<1>1. IsFiniteSet({Answer(Id, n, 1)}) /\ Cardinality({Answer(Id, n, 1)}) = 1
  BY FS_Singleton
<1>2. IsFiniteSet(D) /\ Cardinality(D) \in 0 .. 2
  BY <1>1, FS_AddElement
<1>3. Copies(n, copies) \in SUBSET D
  <2>1. \A copy \in 1 .. copies : copy = 1 \/ copy = 2
    OBVIOUS
  <2> QED
    BY <2>1 DEF Copies
<1>4. /\ IsFiniteSet(Copies(n, copies))
      /\ Cardinality(Copies(n, copies)) <= Cardinality(D)
  BY <1>2, <1>3, FS_Subset
<1>5. Cardinality(Copies(n, copies)) \in Nat
  BY <1>4, FS_CardinalityType
<1> QED
  BY <1>2, <1>4, <1>5

\* A request is sent, and its answer is on its way.
LEMMA SendKeepsInv ==
  ASSUME Inv, Send, UNCHANGED <<program, late>>
  PROVE  Inv'
PROOF
<1> USE DEF Inv
<1>1. /\ pc = "send" /\ seq < MaxSeq /\ seq' = seq + 1 /\ start' = clock
      /\ deadline' = clock + Second /\ pc' = "wait"
      /\ UNCHANGED <<pid, clock, sock, foreign, lines, time, inTime>>
  BY DEF Send
<1>2. PICK copies \in 1 .. 2 :
        transit' = transit \cup Copies(seq + 1, copies)
  BY <1>1 DEF Send, SendRequest, Copies
<1> DEFINE C == Copies(seq + 1, copies)
<1>3. /\ seq \in Nat /\ seq + 1 \in 1 .. MaxSeq /\ clock \in Nat /\ start \in 0 .. clock
      /\ pid \in Nat /\ Second \in Nat /\ MaxSeq \in Nat
  BY <1>1, PingAssumption, SMTT(30) DEF PingTypeOK, TypeOK
<1>4. Id \in 0 .. Field - 1 /\ (seq + 1) % Field \in 0 .. Field - 1
  BY <1>3, FieldValues DEF Id
<1>5. \A packet \in C :
        /\ packet \in Packets /\ packet.kind = "reply" /\ packet.id = Id /\ packet.req = seq + 1
        /\ packet.seq = packet.req % Field /\ packet.sent = clock
  <2> SUFFICES ASSUME NEW copy \in 1 .. copies
               PROVE  LET packet == Answer(Id, seq + 1, copy)
                      IN  /\ packet \in Packets /\ packet.kind = "reply" /\ packet.id = Id
                          /\ packet.req = seq + 1
                          /\ packet.seq = packet.req % Field /\ packet.sent = clock
    BY DEF Copies
  <2>1. copy \in 1 .. 2
    BY <1>2
  <2> QED
    BY <1>3, <1>4, <2>1 DEF Answer, Packets, Kinds
<1>6. PingTypeOK'
  <2>1. Packets' = Packets /\ Lines' = Lines
    BY DEF Packets, Lines
  <2>2. transit' \in SUBSET Packets /\ IsFiniteSet(transit')
    <3>1. IsFiniteSet(C)
      BY <1>2, <1>3, CopiesCount
    <3>2. IsFiniteSet(transit \cup C)
      BY <3>1, FS_Union DEF PingTypeOK
    <3> QED
      BY <1>2, <1>5, <3>2 DEF PingTypeOK, TypeOK
  <2>3. TypeOK'
    BY <1>1, <1>3, <2>1, <2>2 DEF PingTypeOK, TypeOK
  <2> QED
    BY <1>1, <2>1, <2>2, <2>3 DEF PingTypeOK
<1>7. DeadlineKept'
  BY <1>1 DEF DeadlineKept
<1>8. PacketsAreKnown'
  <2>1. Foreign' = Foreign /\ Id' = Id
    BY <1>1 DEF Foreign, Id
  <2>2. ASSUME NEW packet \in Packets, Own(packet)  PROVE Own(packet)'
    BY <1>1, <1>3, <2>1, <2>2 DEF Own, Packets
  <2>3. ASSUME NEW packet \in C  PROVE Own(packet)'
    BY <1>1, <1>3, <1>5, <2>1 DEF Own
  <2>4. transit \subseteq Packets /\ \A k \in DOMAIN sock : sock[k] \in Packets
    BY LenProperties DEF PingTypeOK, TypeOK
  <2> QED
    BY <1>1, <1>2, <2>1, <2>2, <2>3, <2>4 DEF PacketsAreKnown
<1>9. TwoAnswersAtMost'
  <2> SUFFICES ASSUME NEW n \in 1 .. MaxSeq
               PROVE  Cardinality(Places(lines, {ReplyLine(n)}))
                        + Cardinality(Places(sock, AnswersTo(n)))
                        + Cardinality(transit' \cap AnswersTo(n)) <= 2
    BY <1>1 DEF TwoAnswersAtMost, AnswersTo, Packets, ReplyLine
  <2>1. CASE n # seq + 1
    <3>1. transit' \cap AnswersTo(n) = transit \cap AnswersTo(n)
      BY <1>2, <1>5, <2>1 DEF AnswersTo
    <3> QED
      BY <3>1 DEF TwoAnswersAtMost
  <2>2. CASE n = seq + 1
    <3>1. Places(lines, {ReplyLine(n)}) = {}
      <4>1. \A k \in DOMAIN lines : lines[k] # ReplyLine(n)
        <5> SUFFICES ASSUME NEW k \in DOMAIN lines, lines[k] = ReplyLine(n)  PROVE FALSE
          OBVIOUS
        <5>1. k \in 1 .. seq
          BY <1>1, LenProperties DEF PingTypeOK, TypeOK
        <5>2. lines[k].kind = "reply" /\ lines[k].of = n
          BY DEF ReplyLine
        <5> QED
          BY <1>3, <2>2, <5>1, <5>2 DEF LineIsTrue
      <4> QED
        BY <4>1 DEF Places
    <3>2. Places(sock, AnswersTo(n)) = {}
      BY <1>3, <2>2 DEF Places, AnswersTo, PacketsAreKnown, Own, Foreign
    <3>3. transit' \cap AnswersTo(n) = C
      BY <1>2, <1>3, <1>5, <2>2 DEF AnswersTo, PacketsAreKnown, Own
    <3>4. Cardinality({}) = 0 /\ Cardinality(C) \in 0 .. 2
      BY <1>2, <1>3, CopiesCount, FS_EmptySet
    <3> HIDE DEF C
    <3> QED
      BY <3>1, <3>2, <3>3, <3>4
  <2> QED
    BY <2>1, <2>2
<1>10. AnswerStillWaits'
  <2>1. seq + 1 \notin inTime
    BY <1>3 DEF PingTypeOK, TypeOK
  <2> QED
    BY <1>1, <2>1 DEF AnswerStillWaits
<1>11. (\A k \in DOMAIN lines : LineIsTrue(k))'
  BY <1>1 DEF LineIsTrue, Outgrown
<1> QED
  BY <1>6, <1>7, <1>8, <1>9, <1>10, <1>11

\* The network delivers an answer.
LEMMA DeliverKeepsInv ==
  ASSUME Inv, Deliver, UNCHANGED <<program, late>>
  PROVE  Inv'
PROOF
<1> USE DEF Inv
<1>1. PICK packet \in transit :
        /\ transit' = transit \ {packet}
        /\ sock' = Append(sock, packet)
        /\ inTime' = IF pc = "wait" /\ packet.req = seq /\ clock < deadline
                       THEN inTime \cup {seq} ELSE inTime
        /\ UNCHANGED <<pid, clock, seq, foreign, pc, start, deadline, lines, time>>
  BY DEF Deliver
<1>2. packet \in Packets /\ Own(packet) /\ sock \in Seq(Packets)
  BY DEF PingTypeOK, TypeOK, PacketsAreKnown
<1>3. /\ DOMAIN sock = 1 .. Len(sock) /\ Len(sock) \in Nat
      /\ sock' \in Seq(Packets) /\ DOMAIN sock' = 1 .. Len(sock) + 1
      /\ \A k \in 1 .. Len(sock) : sock'[k] = sock[k]
      /\ sock'[Len(sock) + 1] = packet
  BY <1>1, <1>2, LenProperties, AppendProperties
<1>4. Packets' = Packets /\ Lines' = Lines /\ Foreign' = Foreign /\ Id' = Id
  BY <1>1 DEF Packets, Lines, Foreign, Id
<1>5. inTime' \in SUBSET (1 .. seq)
  BY <1>1, <1>2 DEF Own, PingTypeOK, TypeOK
<1>6. PingTypeOK'
  <2>1. IsFiniteSet(transit')
    BY <1>1, FS_RemoveElement DEF PingTypeOK
  <2>2. TypeOK'
    BY <1>1, <1>3, <1>4, <1>5 DEF PingTypeOK, TypeOK
  <2> QED
    BY <1>1, <1>4, <2>1, <2>2 DEF PingTypeOK
<1>7. DeadlineKept'
  BY <1>1 DEF DeadlineKept
<1>8. PacketsAreKnown'
  <2>1. \A p : Own(p)' <=> Own(p)
    BY <1>1, <1>4 DEF Own
  <2> QED
    BY <1>1, <1>2, <1>3, <1>4, <2>1 DEF PacketsAreKnown
<1>9. TwoAnswersAtMost'
  <2> SUFFICES ASSUME NEW n \in 1 .. MaxSeq
               PROVE  Cardinality(Places(lines, {ReplyLine(n)}))
                        + Cardinality(Places(sock', AnswersTo(n)))
                        + Cardinality(transit' \cap AnswersTo(n)) <= 2
    BY <1>1, <1>4 DEF TwoAnswersAtMost, AnswersTo, ReplyLine
  <2>1. Cardinality(Places(sock', AnswersTo(n))) =
          Cardinality(Places(sock, AnswersTo(n))) + (IF packet \in AnswersTo(n) THEN 1 ELSE 0)
    BY <1>1, <1>2, PlacesAppend
  <2>2. transit' \cap AnswersTo(n) = (transit \cap AnswersTo(n)) \ {packet}
    BY <1>1
  <2>3. Cardinality(transit' \cap AnswersTo(n)) =
          Cardinality(transit \cap AnswersTo(n)) - (IF packet \in AnswersTo(n) THEN 1 ELSE 0)
    <3> DEFINE A == transit \cap AnswersTo(n)
    <3>1. IsFiniteSet(A) /\ Cardinality(A) \in Nat
      BY Counts
    <3>2. packet \in A <=> packet \in AnswersTo(n)
      OBVIOUS
    <3> HIDE DEF A
    <3>3. Cardinality(A \ {packet}) = IF packet \in A THEN Cardinality(A) - 1 ELSE Cardinality(A)
      BY <3>1, FS_RemoveElement
    <3> QED
      BY <2>2, <3>1, <3>2, <3>3 DEF A
  <2> QED
    BY <2>1, <2>3, Counts DEF TwoAnswersAtMost
<1>10. AnswerStillWaits'
  <2> SUFFICES ASSUME pc = "wait", seq \in inTime', ~late, ~Outgrown(seq)
               PROVE  clock < deadline /\ \E k \in DOMAIN sock' : Own(sock'[k]) /\ sock'[k].req = seq
    BY <1>1, <1>4 DEF AnswerStillWaits, Outgrown, Own
  <2>1. CASE packet.req = seq /\ clock < deadline
    BY <1>2, <1>3, <2>1
  <2>2. CASE ~(packet.req = seq /\ clock < deadline)
    BY <1>1, <1>3, <2>2 DEF AnswerStillWaits
  <2> QED
    BY <2>1, <2>2
<1>11. (\A k \in DOMAIN lines : LineIsTrue(k))'
  <2>1. ASSUME NEW k \in DOMAIN lines, lines[k].kind = "timeout"
        PROVE  lines[k].of \in inTime' => lines[k].of \in inTime
    <3>1. lines[k].of = k
      BY <2>1 DEF LineIsTrue
    <3>2. pc = "wait" => k # seq
      BY LenProperties DEF PingTypeOK, TypeOK
    <3> QED
      BY <1>1, <3>1, <3>2
  <2> QED
    BY <1>1, <2>1 DEF LineIsTrue, Outgrown
<1> QED
  BY <1>6, <1>7, <1>8, <1>9, <1>10, <1>11

\* A packet for others arrives.
LEMMA DeliverForeignKeepsInv ==
  ASSUME Inv, DeliverForeign, UNCHANGED <<program, late>>
  PROVE  Inv'
PROOF
<1> USE DEF Inv
<1>1. PICK packet \in Foreign :
        /\ foreign < MaxForeign /\ foreign' = foreign + 1
        /\ sock' = Append(sock, packet)
        /\ UNCHANGED <<pid, clock, seq, transit, pc, start, deadline, lines, time, inTime>>
  BY DEF DeliverForeign
<1>2. packet \in Packets /\ sock \in Seq(Packets)
  <2>1. pid \in Nat /\ 0 \in 0 .. MaxSeq
    BY PingAssumption DEF PingTypeOK, TypeOK
  <2>2. Id \in 0 .. Field - 1
    BY <2>1, FieldValues DEF Id
  <2>3. packet.id \in 0 .. Field - 1 /\ 1 \in 0 .. Field - 1
    BY <1>1, <2>2, PingAssumption DEF Foreign
  <2> QED
    BY <1>1, <2>1, <2>3 DEF Foreign, Packets, PingTypeOK, TypeOK
<1>3. /\ DOMAIN sock = 1 .. Len(sock) /\ Len(sock) \in Nat
      /\ sock' \in Seq(Packets) /\ DOMAIN sock' = 1 .. Len(sock) + 1
      /\ \A k \in 1 .. Len(sock) : sock'[k] = sock[k]
      /\ sock'[Len(sock) + 1] = packet
  BY <1>1, <1>2, LenProperties, AppendProperties
<1>4. Packets' = Packets /\ Lines' = Lines /\ Foreign' = Foreign /\ Id' = Id
  BY <1>1 DEF Packets, Lines, Foreign, Id
<1>5. PingTypeOK'
  <2>1. TypeOK'
    BY <1>1, <1>3, <1>4, PingAssumption, SMTT(30) DEF PingTypeOK, TypeOK
  <2> QED
    BY <1>1, <1>4, <2>1 DEF PingTypeOK
<1>6. DeadlineKept'
  BY <1>1 DEF DeadlineKept
<1>7. PacketsAreKnown'
  <2>1. \A p : Own(p)' <=> Own(p)
    BY <1>1, <1>4 DEF Own
  <2> QED
    BY <1>1, <1>3, <1>4, <2>1 DEF PacketsAreKnown
<1>8. TwoAnswersAtMost'
  <2> SUFFICES ASSUME NEW n \in 1 .. MaxSeq
               PROVE  Cardinality(Places(lines, {ReplyLine(n)}))
                        + Cardinality(Places(sock', AnswersTo(n)))
                        + Cardinality(transit \cap AnswersTo(n)) <= 2
    BY <1>1, <1>4 DEF TwoAnswersAtMost, AnswersTo, ReplyLine
  <2>1. packet \notin AnswersTo(n)
    BY <1>1 DEF Foreign, AnswersTo
  <2> QED
    BY <1>1, <1>2, <2>1, PlacesAppend, Counts DEF TwoAnswersAtMost
<1>9. AnswerStillWaits'
  BY <1>1, <1>3, <1>4 DEF AnswerStillWaits, Outgrown, Own
<1>10. (\A k \in DOMAIN lines : LineIsTrue(k))'
  BY <1>1 DEF LineIsTrue, Outgrown
<1> QED
  BY <1>5, <1>6, <1>7, <1>8, <1>9, <1>10

\* The clock ticks, and a program that has something to do is late.
LEMMA ClockKeepsInv ==
  ASSUME Inv, Clock
  PROVE  Inv'
PROOF
<1> USE DEF Inv
<1>1. /\ pc # "send" /\ clock' = clock + 1
      /\ late' = (late \/ (pc = "wait" /\ (sock # << >> \/ clock >= deadline)))
      /\ UNCHANGED <<program, pid, seq, transit, sock, foreign, pc, start, deadline, lines, time,
                     inTime>>
  BY DEF Clock, Tick
<1>2. Packets' = Packets /\ Lines' = Lines /\ Foreign' = Foreign /\ Id' = Id
  BY <1>1 DEF Packets, Lines, Foreign, Id
<1>3. PingTypeOK'
  <2>1. TypeOK'
    BY <1>1, <1>2, PingAssumption, SMTT(30) DEF PingTypeOK, TypeOK
  <2> QED
    BY <1>1, <1>2, <2>1 DEF PingTypeOK
<1>4. DeadlineKept'
  BY <1>1 DEF DeadlineKept
<1>5. PacketsAreKnown'
  BY <1>1, <1>2 DEF PacketsAreKnown, Own
<1>6. TwoAnswersAtMost'
  BY <1>1, <1>2 DEF TwoAnswersAtMost, AnswersTo, ReplyLine
<1>7. AnswerStillWaits'
  <2> SUFFICES ASSUME pc = "wait", seq \in inTime, ~late', ~Outgrown(seq)  PROVE FALSE
    BY <1>1, <1>2 DEF AnswerStillWaits, Outgrown, Own
  <2>1. ~late /\ sock = << >>
    BY <1>1
  <2>2. PICK k \in DOMAIN sock : TRUE
    BY <2>1 DEF AnswerStillWaits
  <2> QED
    BY <2>1, <2>2
<1>8. (\A k \in DOMAIN lines : LineIsTrue(k))'
  BY <1>1 DEF LineIsTrue, Outgrown, PingTypeOK
<1> QED
  BY <1>3, <1>4, <1>5, <1>6, <1>7, <1>8

\* The sleep ends, or ping.go could not send a request: no wait is on.
LEMMA NoWaitKeepsInv ==
  ASSUME Inv, WakeUp \/ GoSendFails, UNCHANGED <<program, late>>
  PROVE  Inv'
PROOF
<1> USE DEF Inv
<1>1. CASE WakeUp
  BY <1>1 DEF WakeUp, PingTypeOK, TypeOK, Packets, DeadlineKept, PacketsAreKnown, Own, Foreign, Id,
       TwoAnswersAtMost, AnswersTo, ReplyLine, AnswerStillWaits, LineIsTrue, Outgrown
<1>2. CASE GoSendFails
  <2> DEFINE line == [kind |-> "error", of |-> seq + 1]
  <2>1. /\ pc = "send" /\ seq < MaxSeq /\ seq' = seq + 1 /\ lines' = Append(lines, line)
        /\ UNCHANGED <<pid, clock, transit, sock, foreign, pc, start, deadline, time, inTime>>
    BY <1>2 DEF GoSendFails
  <2>2. seq \in Nat /\ seq + 1 \in 1 .. MaxSeq /\ line \in Lines /\ lines \in Seq(Lines)
        /\ Len(lines) = seq /\ DOMAIN lines = 1 .. seq
    BY <2>1, LenProperties, PingAssumption DEF PingTypeOK, TypeOK, Lines
  <2>3. /\ lines' \in Seq(Lines) /\ DOMAIN lines' = 1 .. seq + 1 /\ Len(lines') = seq + 1
        /\ \A k \in 1 .. seq : lines'[k] = lines[k]
        /\ lines'[seq + 1] = line
    BY <2>1, <2>2, AppendProperties, LenProperties
  <2>4. Packets' = Packets /\ Lines' = Lines /\ Foreign' = Foreign /\ Id' = Id
    BY <2>1 DEF Packets, Lines, Foreign, Id
  <2>5. PingTypeOK'
    <3>1. TypeOK'
      BY <2>1, <2>2, <2>3, <2>4 DEF PingTypeOK, TypeOK
    <3> QED
      BY <2>1, <2>3, <2>4, <3>1 DEF PingTypeOK
  <2>6. DeadlineKept' /\ AnswerStillWaits'
    BY <2>1 DEF DeadlineKept, AnswerStillWaits
  <2>7. PacketsAreKnown'
    BY <2>1, <2>2, <2>4 DEF PacketsAreKnown, Own
  <2>8. TwoAnswersAtMost'
    <3>1. \A n \in 1 .. MaxSeq : line \notin {ReplyLine(n)}
      BY DEF ReplyLine
    <3>2. ASSUME NEW n \in 1 .. MaxSeq
          PROVE  Cardinality(Places(lines', {ReplyLine(n)})) =
                   Cardinality(Places(lines, {ReplyLine(n)}))
      <4>1. Cardinality(Places(lines, {ReplyLine(n)})) \in Nat
        BY Counts
      <4> QED
        BY <2>1, <2>2, <3>1, <4>1, PlacesAppend
    <3> QED
      BY <2>1, <2>4, <3>2 DEF TwoAnswersAtMost, AnswersTo, ReplyLine
  <2>9. (\A k \in DOMAIN lines : LineIsTrue(k))'
    <3> SUFFICES ASSUME NEW k \in 1 .. seq + 1  PROVE LineIsTrue(k)'
      BY <2>3
    <3>1. CASE k \in 1 .. seq
      BY <2>1, <2>2, <2>3, <3>1 DEF LineIsTrue, Outgrown
    <3>2. CASE k = seq + 1
      BY <2>1, <2>3, <3>2 DEF LineIsTrue
    <3> QED
      BY <2>2, <3>1, <3>2
  <2> QED
    BY <2>5, <2>6, <2>7, <2>8, <2>9
<1> QED
  BY <1>1, <1>2

-------------------------------------------------------------------------------
(* What the programs make of the socket                                    *)

\* A packet the programs take is the socket's first.
LEMMA Received ==
  ASSUME Inv, NEW packet \in {sock[k] : k \in DOMAIN sock},
         CReceived(packet) \/ GoReceived(packet)
  PROVE  /\ pc = "wait" /\ sock # << >> /\ packet = Head(sock) /\ sock' = Tail(sock)
         /\ packet \in Packets /\ (Own(packet) \/ packet \in Foreign)
PROOF
<1>1. pc = "wait" /\ sock # << >> /\ packet = Head(sock) /\ sock' = Tail(sock)
  BY DEF CReceived, GoReceived
<1>2. packet \in Packets /\ packet = sock[1] /\ 1 \in DOMAIN sock
  BY <1>1, SocketTail DEF Inv, PingTypeOK
<1> QED
  BY <1>1, <1>2 DEF Inv, PacketsAreKnown

\* The answers of ping.c: one with the whole pid as its identifier is its own, and
\* then the pid fits; and it knows every answer of its own unless it does not.
LEMMA CKnowsItsOwn ==
  ASSUME Inv, program = "c", NEW packet \in Packets, Own(packet) \/ packet \in Foreign
  PROVE  /\ CIsMine(packet) => Own(packet) /\ ~Outgrown(packet.req)
         /\ Own(packet) /\ ~Outgrown(seq) => CIsMine(packet)
PROOF
<1>1. pid \in Nat
  BY PingAssumption DEF Inv, PingTypeOK, TypeOK
<1>2. pid < Field => Id = pid
  BY <1>1, FieldValues DEF Id
<1>3. packet.id \in 0 .. Field - 1
  BY DEF Packets
<1> QED
  BY <1>1, <1>2, <1>3, PingAssumption DEF CIsMine, Own, Foreign, Outgrown

\* The answers of ping.go: one with the whole seq of the request it waits for is
\* its own answer to that request, and then seq fits.
LEMMA GoKnowsItsOwn ==
  ASSUME Inv, program = "go", NEW packet \in Packets, Own(packet) \/ packet \in Foreign
  PROVE  /\ GoIsMine(packet) => Own(packet) /\ packet.req = seq /\ ~Outgrown(seq)
         /\ Own(packet) /\ packet.req = seq /\ ~Outgrown(seq) => GoIsMine(packet)
PROOF
<1>1. seq \in Nat /\ packet.req \in Nat /\ packet.seq \in 0 .. Field - 1
  BY PingAssumption DEF Inv, PingTypeOK, TypeOK, Packets
<1>2. \A n \in {seq, packet.req} : n < Field => n % Field = n
  BY <1>1, FieldValues
<1>3. ASSUME GoIsMine(packet)  PROVE Own(packet) /\ packet.req = seq /\ ~Outgrown(seq)
  <2>1. Own(packet)
    BY <1>3 DEF GoIsMine, Foreign
  <2>2. seq < Field
    BY <1>1, <1>3, PingAssumption DEF GoIsMine
  <2>3. packet.req <= seq /\ packet.req % Field = seq
    BY <1>1, <1>3, <2>1 DEF GoIsMine, Own
  <2>4. packet.req = seq
    BY <1>1, <1>2, <2>2, <2>3, PingAssumption
  <2> QED
    BY <1>1, <2>1, <2>2, <2>4, PingAssumption DEF Outgrown
<1>4. ASSUME Own(packet), packet.req = seq, ~Outgrown(seq)  PROVE GoIsMine(packet)
  BY <1>1, <1>2, <1>4, PingAssumption DEF Own, GoIsMine, Outgrown
<1> QED
  BY <1>3, <1>4

\* ping.c after select() and recvfrom()
LEMMA CKeepsInv ==
  ASSUME Inv, program = "c", UNCHANGED <<program, late>>,
         CSelectTimeout \/ CTakeReply \/ CSkipRunt \/ CSkipForeign
  PROVE  Inv'
PROOF
<1>0. /\ clock \in Nat /\ start \in 0 .. clock /\ deadline \in Nat /\ time \in 0 .. clock
      /\ Second \in Nat /\ seq \in 0 .. MaxSeq /\ MaxSeq \in Nat
      /\ (pc = "wait" => deadline = start + Second)
  BY PingAssumption DEF Inv, PingTypeOK, TypeOK, DeadlineKept
<1> DEFINE timeout == [kind |-> "timeout", of |-> seq]
<1>1. timeout \in Lines /\ timeout.kind = "timeout" /\ timeout.of = seq
  BY <1>0 DEF Lines
<1>2. CASE CSelectTimeout
  <2>1. pc = "wait" /\ clock >= deadline /\ PrintAndSleep(timeout, time) /\ sock' = sock
    BY <1>2 DEF CSelectTimeout, PrintTimeout
  <2>2. seq \in inTime => late \/ Outgrown(seq)
    BY <1>0, <2>1 DEF Inv, AnswerStillWaits
  <2> HIDE DEF timeout
  <2> QED
    BY <1>0, <1>1, <2>1, <2>2, PrintKeepsInv
<1>3. CASE CTakeReply
  <2>1. PICK packet \in {sock[k] : k \in DOMAIN sock} :
          /\ CReceived(packet) /\ CIsMine(packet)
          /\ PrintReply(packet, clock - start)
    BY <1>3 DEF CTakeReply
  <2> DEFINE line == [kind |-> "reply", of |-> packet.req]
  <2>2. /\ pc = "wait" /\ sock # << >> /\ packet = Head(sock) /\ sock' = Tail(sock)
        /\ packet \in Packets /\ (Own(packet) \/ packet \in Foreign)
    BY <2>1, Received
  <2>3. Own(packet) /\ ~Outgrown(packet.req)
    BY <2>1, <2>2, CKnowsItsOwn
  <2>4. line \in Lines /\ line.kind = "reply" /\ line.of = packet.req
    BY <2>2 DEF Lines, Packets
  <2>5. clock - start \in 0 .. clock
    BY <1>0
  <2>6. PrintAndSleep(line, clock - start)
    BY <2>1 DEF PrintReply
  <2> HIDE DEF line
  <2> QED
    BY <2>2, <2>3, <2>4, <2>5, <2>6, PrintKeepsInv
<1>4. CASE CSkipRunt
  <2>1. PICK packet \in {sock[k] : k \in DOMAIN sock} :
          /\ CReceived(packet) /\ packet.kind = "runt"
          /\ UNCHANGED <<pid, clock, seq, transit, foreign, pc, start, deadline, lines, time, inTime>>
    BY <1>4 DEF CSkipRunt
  <2>2. /\ pc = "wait" /\ sock # << >> /\ packet = Head(sock) /\ sock' = Tail(sock)
    BY <2>1, Received
  <2>3. ~Own(packet)
    BY <2>1 DEF Own
  <2> QED
    BY <2>1, <2>2, <2>3, SkipKeepsInv
<1>5. CASE CSkipForeign
  <2>1. PICK packet \in {sock[k] : k \in DOMAIN sock} :
          /\ CReceived(packet) /\ ~CIsMine(packet)
          /\ IF clock - start > Second
               THEN PrintTimeout
               ELSE /\ deadline' = clock + (Second - (clock - start))
                    /\ UNCHANGED <<pid, clock, seq, transit, foreign, pc, start, lines, time, inTime>>
    BY <1>5 DEF CSkipForeign
  <2>2. /\ pc = "wait" /\ sock # << >> /\ packet = Head(sock) /\ sock' = Tail(sock)
        /\ packet \in Packets /\ (Own(packet) \/ packet \in Foreign)
    BY <2>1, Received
  <2>3. CASE clock - start > Second
    <3>1. PrintAndSleep(timeout, time)
      BY <2>1, <2>3 DEF PrintTimeout
    <3>2. clock >= deadline
      BY <1>0, <2>2, <2>3
    <3>3. seq \in inTime => late \/ Outgrown(seq)
      BY <1>0, <2>2, <3>2 DEF Inv, AnswerStillWaits
    <3> HIDE DEF timeout
    <3> QED
      BY <1>0, <1>1, <2>2, <3>1, <3>3, PrintKeepsInv
  <2>4. CASE ~(clock - start > Second)
    <3>1. deadline' = deadline
      BY <1>0, <2>1, <2>2, <2>4
    <3>2. Own(packet) => Outgrown(seq)
      BY <2>1, <2>2, CKnowsItsOwn
    <3> QED
      BY <2>1, <2>2, <2>4, <3>1, <3>2, SkipKeepsInv
  <2> QED
    BY <2>3, <2>4
<1> QED
  BY <1>2, <1>3, <1>4, <1>5

\* ping.go after ReadFrom
LEMMA GoKeepsInv ==
  ASSUME Inv, program = "go", UNCHANGED <<program, late>>,
         GoReadTimeout \/ GoTakeReply \/ GoSkip \/ GoPanic
  PROVE  Inv'
PROOF
<1>0. /\ clock \in Nat /\ deadline \in Nat /\ time \in 0 .. clock /\ start \in 0 .. clock
      /\ seq \in 0 .. MaxSeq /\ MaxSeq \in Nat
  BY PingAssumption DEF Inv, PingTypeOK, TypeOK
<1>1. CASE GoReadTimeout
  <2> DEFINE timeout == [kind |-> "timeout", of |-> seq]
  <2>1. pc = "wait" /\ clock >= deadline /\ PrintAndSleep(timeout, time) /\ sock' = sock
    BY <1>1 DEF GoReadTimeout, PrintTimeout
  <2>2. timeout \in Lines /\ timeout.kind = "timeout" /\ timeout.of = seq
    BY <1>0 DEF Lines
  <2>3. seq \in inTime => late \/ Outgrown(seq)
    BY <1>0, <2>1 DEF Inv, AnswerStillWaits
  <2> HIDE DEF timeout
  <2> QED
    BY <1>0, <2>1, <2>2, <2>3, PrintKeepsInv
<1>2. CASE GoTakeReply
  <2>1. PICK packet \in {sock[k] : k \in DOMAIN sock} :
          /\ GoReceived(packet) /\ GoIsMine(packet)
          /\ PrintReply(packet, clock - packet.sent)
    BY <1>2 DEF GoTakeReply
  <2> DEFINE line == [kind |-> "reply", of |-> packet.req]
  <2>2. /\ pc = "wait" /\ sock # << >> /\ packet = Head(sock) /\ sock' = Tail(sock)
        /\ packet \in Packets /\ (Own(packet) \/ packet \in Foreign)
    BY <2>1, Received
  <2>3. Own(packet) /\ packet.req = seq /\ ~Outgrown(seq)
    BY <2>1, <2>2, GoKnowsItsOwn
  <2>4. line \in Lines /\ line.kind = "reply" /\ line.of = packet.req
    BY <2>2 DEF Lines, Packets
  <2>5. clock - packet.sent \in 0 .. clock
    BY <1>0, <2>2, <2>3 DEF Own, Packets
  <2>6. PrintAndSleep(line, clock - packet.sent)
    BY <2>1 DEF PrintReply
  <2> HIDE DEF line
  <2> QED
    BY <2>2, <2>3, <2>4, <2>5, <2>6, PrintKeepsInv
<1>3. CASE GoSkip
  <2>1. PICK packet \in {sock[k] : k \in DOMAIN sock} :
          /\ GoReceived(packet) /\ ~GoIsMine(packet)
          /\ UNCHANGED <<pid, clock, seq, transit, foreign, pc, start, deadline, lines, time, inTime>>
    BY <1>3 DEF GoSkip
  <2>2. /\ pc = "wait" /\ sock # << >> /\ packet = Head(sock) /\ sock' = Tail(sock)
        /\ packet \in Packets /\ (Own(packet) \/ packet \in Foreign)
    BY <2>1, Received
  <2>3. Own(packet) /\ packet.req = seq => Outgrown(seq)
    BY <2>1, <2>2, GoKnowsItsOwn
  <2> QED
    BY <2>1, <2>2, <2>3, SkipKeepsInv
<1>4. CASE GoPanic
  BY <1>4, PanicKeepsInv
<1> QED
  BY <1>1, <1>2, <1>3, <1>4

-------------------------------------------------------------------------------
(* The theorems                                                            *)

\* The invariant holds at the start.
LEMMA InitInv == PingInit => Inv
PROOF
<1> SUFFICES ASSUME PingInit  PROVE Inv
  OBVIOUS
<1> USE DEF PingInit, Init
<1>1. PingTypeOK
  <2>1. IsFiniteSet({}) /\ << >> \in Seq(Packets) /\ << >> \in Seq(Lines)
    BY FS_EmptySet, EmptySeq
  <2>2. TypeOK
    BY <2>1, PingAssumption DEF TypeOK
  <2> QED
    BY <2>1, <2>2 DEF PingTypeOK
<1>2. DeadlineKept /\ PacketsAreKnown /\ AnswerStillWaits
  BY DEF DeadlineKept, PacketsAreKnown, AnswerStillWaits
<1>3. TwoAnswersAtMost
  <2> SUFFICES ASSUME NEW n \in 1 .. MaxSeq
               PROVE  Cardinality(Places(lines, {ReplyLine(n)})) + Cardinality(Places(sock, AnswersTo(n)))
                        + Cardinality(transit \cap AnswersTo(n)) <= 2
    BY DEF TwoAnswersAtMost
  <2>1. /\ Places(lines, {ReplyLine(n)}) = {} /\ Places(sock, AnswersTo(n)) = {}
        /\ transit \cap AnswersTo(n) = {}
    BY DEF Places
  <2>2. Cardinality({}) = 0
    BY FS_EmptySet
  <2>3. /\ Cardinality(Places(lines, {ReplyLine(n)})) = 0
        /\ Cardinality(Places(sock, AnswersTo(n))) = 0
        /\ Cardinality(transit \cap AnswersTo(n)) = 0
    BY <2>1, <2>2, Zenon
  <2> QED
    BY <2>3
<1>4. \A k \in DOMAIN lines : LineIsTrue(k)
  OBVIOUS
<1> QED
  BY <1>1, <1>2, <1>3, <1>4 DEF Inv

\* Every step of either program, of the network and of the clock keeps it.
LEMMA NextKeepsInv == Inv /\ [Next]_all => Inv'
PROOF
<1> SUFFICES ASSUME Inv, [Next]_all  PROVE Inv'
  OBVIOUS
<1>1. CASE Program
  <2>1. UNCHANGED <<program, late>>
    BY <1>1 DEF Program
  <2> QED
    BY <1>1, <2>1, SendKeepsInv, NoWaitKeepsInv, CKeepsInv, GoKeepsInv DEF Program
<1>2. CASE Network
  BY <1>2, DeliverKeepsInv, DeliverForeignKeepsInv DEF Network
<1>3. CASE Clock
  BY <1>3, ClockKeepsInv
<1>4. CASE UNCHANGED all
  BY <1>4, ZenonT(60) DEF all, vars, Inv, PingTypeOK, TypeOK, Packets, DeadlineKept, PacketsAreKnown, Own, Foreign,
       Id, TwoAnswersAtMost, AnswersTo, ReplyLine, AnswerStillWaits, LineIsTrue, Outgrown
<1> QED
  BY <1>1, <1>2, <1>3, <1>4 DEF Next, Terminated

\* The invariant holds of every run.
THEOREM PingInvariant == Spec => []Inv
PROOF
<1> QED
  BY InitInv, NextKeepsInv, PTL DEF Spec

\* Packets for others, however many, never move the deadline of a wait: it is a
\* second after the request, however ping.c reckons its remaining time.
THEOREM DeadlineIsKept == Spec => []DeadlineKept
PROOF
<1>1. Inv => DeadlineKept
  BY DEF Inv
<1> QED
  BY <1>1, PingInvariant, PTL

\* Every line either program prints is true: no answer is taken for another's,
\* none is reported more often than it came, and a request is reported as timed
\* out only if that is so, the program was late, or a field too narrow.
THEOREM LinesAreAlwaysTrue == Spec => []LinesAreTrue
PROOF
<1>1. Inv => LinesAreTrue
  <2> SUFFICES ASSUME Inv, NEW k \in DOMAIN lines
               PROVE  lines[k].kind = "reply" =>
                        Cardinality({j \in DOMAIN lines : lines[j] = lines[k]}) <= 2
    BY DEF Inv, LineIsTrue, LinesAreTrue
  <2> SUFFICES ASSUME lines[k].kind = "reply"
               PROVE  Cardinality({j \in DOMAIN lines : lines[j] = lines[k]}) <= 2
    OBVIOUS
  <2> DEFINE n == lines[k].of
  <2>1. lines \in Seq(Lines) /\ DOMAIN lines = 1 .. Len(lines) /\ Len(lines) \in 0 .. MaxSeq
    BY LenProperties, PingAssumption, SMTT(30) DEF Inv, PingTypeOK, TypeOK
  <2>2. n \in 1 .. MaxSeq
    BY <2>1, PingAssumption DEF Inv, LineIsTrue
  <2>3. lines[k] = ReplyLine(n)
    <3>1. lines[k] \in Lines
      BY <2>1
    <3> QED
      BY <3>1 DEF Lines, ReplyLine
  <2>4. {j \in DOMAIN lines : lines[j] = lines[k]} = Places(lines, {ReplyLine(n)})
    BY <2>3 DEF Places
  <2> HIDE DEF n
  <2>5. /\ Cardinality(Places(lines, {ReplyLine(n)})) \in Nat
        /\ Cardinality(Places(sock, AnswersTo(n))) \in Nat
        /\ Cardinality(transit \cap AnswersTo(n)) \in Nat
    BY <2>2, Counts DEF Inv
  <2>6. Cardinality(Places(lines, {ReplyLine(n)})) + Cardinality(Places(sock, AnswersTo(n)))
          + Cardinality(transit \cap AnswersTo(n)) <= 2
    BY <2>2 DEF Inv, TwoAnswersAtMost
  <2>7. Cardinality({j \in DOMAIN lines : lines[j] = lines[k]})
          = Cardinality(Places(lines, {ReplyLine(n)}))
    BY <2>4, Zenon
  <2> QED
    BY <2>5, <2>6, <2>7
<1> QED
  BY <1>1, PingInvariant, PTL

\* The time of a line is what the answer took, or in ping.c, where it may be the
\* answer to an older request, less than that: no answer is from the future.
THEOREM TimesAreAlwaysHonest == Spec => TimesAreHonest
PROOF
<1> DEFINE Honest ==
      Len(lines') > Len(lines) /\ lines'[Len(lines')].kind = "reply" =>
        LET took == clock - Head(sock).sent
        IN  IF program = "go" THEN time' = took ELSE time' <= took
<1>1. Inv /\ [Next]_all => [Honest]_all
  <2> SUFFICES ASSUME Inv, Next, Len(lines') > Len(lines), lines'[Len(lines')].kind = "reply"
               PROVE  LET took == clock - Head(sock).sent
                      IN  IF program = "go" THEN time' = took ELSE time' <= took
    OBVIOUS
  <2>0. lines \in Seq(Lines) /\ Len(lines) \in Nat /\ clock \in Nat /\ start \in 0 .. clock
    BY LenProperties DEF Inv, PingTypeOK, TypeOK
  <2>1. ASSUME NEW line, lines' = Append(lines, line)  PROVE line.kind = "reply"
    <3>1. lines'[Len(lines')] = line
      BY <2>0, <2>1
    <3> QED
      BY <3>1
  <2>2. lines' # lines
    BY <2>0
  <2>3. (CTakeReply /\ program = "c") \/ (GoTakeReply /\ program = "go")
    <3>1. ~PrintTimeout
      BY <2>1 DEF PrintTimeout, PrintAndSleep
    <3>2. ~GoSendFails
      BY <2>1 DEF GoSendFails
    <3>3. ~Network /\ ~Clock /\ ~Terminated
      BY <2>2 DEF Network, Deliver, DeliverForeign, Clock, Tick, Terminated, all, vars
    <3>4. ~Send /\ ~WakeUp /\ ~CSkipRunt /\ ~GoSkip /\ ~GoPanic
      BY <2>2 DEF Send, WakeUp, CSkipRunt, GoSkip, GoPanic
    <3>5. ~CSelectTimeout /\ ~GoReadTimeout /\ ~CSkipForeign
      BY <2>2, <3>1 DEF CSelectTimeout, GoReadTimeout, CSkipForeign
    <3> QED
      BY <3>2, <3>3, <3>4, <3>5 DEF Next, Program
  <2>4. CASE CTakeReply /\ program = "c"
    <3>1. PICK packet \in {sock[k] : k \in DOMAIN sock} :
            CReceived(packet) /\ CIsMine(packet) /\ time' = clock - start
      BY <2>4 DEF CTakeReply, PrintReply, PrintAndSleep
    <3>2. packet = Head(sock) /\ packet \in Packets /\ (Own(packet) \/ packet \in Foreign)
      BY <3>1, Received
    <3>3. Own(packet)
      BY <2>4, <3>1, <3>2, CKnowsItsOwn
    <3>4. packet.sent \in Nat /\ packet.sent <= start
      BY <3>2, <3>3 DEF Own, Packets
    <3> QED
      BY <2>0, <2>4, <3>1, <3>2, <3>4
  <2>5. CASE GoTakeReply /\ program = "go"
    <3>1. PICK packet \in {sock[k] : k \in DOMAIN sock} :
            GoReceived(packet) /\ time' = clock - packet.sent
      BY <2>5 DEF GoTakeReply, PrintReply, PrintAndSleep
    <3>2. packet = Head(sock)
      BY <3>1, Received
    <3> QED
      BY <2>5, <3>1, <3>2
  <2> QED
    BY <2>3, <2>4, <2>5
<1> QED
  BY <1>1, PingInvariant, PTL DEF Spec, TimesAreHonest

===============================================================================
