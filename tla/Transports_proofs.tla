---------------------------- MODULE Transports_proofs ----------------------------
(***************************************************************************)
(* The transports of lecture-07 keep their promises for every number of    *)
(* messages, every window and every buffer, and the HTTP server answers as *)
(* it should for all requests within the bounds on headers and body.       *)
(***************************************************************************)
EXTENDS Transports, SequenceTheorems, FiniteSetTheorems, TLAPS

-------------------------------------------------------------------------------
(* The invariant                                                           *)

\* The k-th piece on its way, in the reader's buffer b or in the connection w
Coming(b, w, k) == IF k <= Len(b) THEN b[k] ELSE w[k - Len(b)]

\* What is on its way are the messages from .. to - 1, each with its '\n'.
Spaced(b, w, from, to) ==
  /\ b \in Seq(Pieces) /\ w \in Seq(Pieces)
  /\ from \in 0 .. to /\ to \in 0 .. Total
  /\ Len(b) + Len(w) = 2 * (to - from)
  /\ \A m \in from .. to - 1 :
       Coming(b, w, 2 * (m - from) + 1) = m /\ Coming(b, w, 2 * (m - from) + 2) = Newline

\* The messages 0, 1, ... in this order
Counted(s) == s \in Seq(Nat) /\ \A k \in 1 .. Len(s) : s[k] = k - 1

Typed ==
  /\ wire = [d \in Directions |-> wire[d]] /\ buf = [d \in Directions |-> buf[d]]
  /\ i \in 0 .. Total

\* tcp.go: what is not received is on its way.
TcpInv == Counted(received) /\ Spaced(buf["c2s"], wire["c2s"], Len(received), i)

\* echo.go: the same for both directions, and one message at a time.
EchoInv ==
  /\ Counted(received) /\ Counted(echoed)
  /\ Spaced(buf["c2s"], wire["c2s"], Len(received), i)
  /\ Spaced(buf["s2c"], wire["s2c"], Len(echoed), Len(received) - (IF hpc = "echo" THEN 1 ELSE 0))
  /\ i = Len(echoed) + (IF cpc = "read" THEN 1 ELSE 0)

Increasing(s) == \A j, k \in 1 .. Len(s) : j < k => s[j] < s[k]

\* udp.go: the numbers received and those in the socket increase, and an error
\* follows the loss of a datagram that nobody listened for.
UdpInv ==
  /\ i \in 0 .. Total
  /\ received \in Seq(Nat) /\ sock \in Seq(Nat) /\ Increasing(sock)
  /\ \A k \in 1 .. Len(sock) : sock[k] < i
  /\ \A j \in 1 .. Len(received) : received[j] < i
  /\ \A j \in 1 .. Len(received), k \in 1 .. Len(sock) : received[j] < sock[k]
  /\ missed \in SUBSET (0 .. i - 1) /\ errors \in SUBSET (0 .. i - 1)
  /\ refused => early /\ i > 0 /\ i - 1 \in missed
  /\ \A n \in errors : early /\ n > 0 /\ n - 1 \in missed /\ n \notin missed

\* Where the empty line of request r is, which ends its headers
EmptyAt(r) == CHOOSE e \in DOMAIN r : r[e].kind = "empty"

Kinds == {"good", "bad", "header", "content-length", "empty", "byte"}
AnyPiece == [kind : Kinds, length : Nat]

WellFormed(r) ==
  /\ r \in Seq(AnyPiece)
  /\ EmptyAt(r) \in 2 .. Len(r)
  /\ r[1].kind \in {"good", "bad"}
  /\ \A k \in 2 .. EmptyAt(r) - 1 : r[k].kind \in {"header", "content-length"}
  /\ r[EmptyAt(r)].kind = "empty"
  /\ \A k \in EmptyAt(r) + 1 .. Len(r) : r[k].kind = "byte"

\* The length that the last Content-Length of the first p pieces gives
Lengths(r, p) == {k \in 1 .. p : r[k].kind = "content-length"}
LastLength(r, lengths) ==
  IF lengths = {} THEN 0
  ELSE r[CHOOSE k \in lengths : \A j \in lengths : j <= k].length
LengthUpTo(r, p) == LastLength(r, Lengths(r, p))
LengthOf(r) == LengthUpTo(r, EmptyAt(r))

HttpTypeOK ==
  /\ WellFormed(request)
  /\ sent \in 0 .. Len(request) /\ client \in {"there", "gone"}
  /\ outcome \in {"none", "answered", "reset"} /\ reset \in BOOLEAN
  /\ at \in {"line", "headers", "body", "close", "closed"}
  /\ contentLength \in Nat /\ got \in 0 .. contentLength
  /\ at # "closed" => outcome = "none" /\ ~reset

\* How much of the request the server has read, as long as it has not closed
Position == sent - Len(inbox)

\* What it has not read is the rest of what is sent.
Unread ==
  /\ inbox \in Seq(AnyPiece) /\ Len(inbox) <= sent
  /\ \A k \in 1 .. Len(inbox) : inbox[k] = request[Position + k]

\* Where it stands, for a request whose line is good
Reading ==
  CASE at = "line" -> Position = 0 /\ answer = 0 /\ got = 0 /\ contentLength = 0
    [] at = "headers" -> /\ Position \in 1 .. EmptyAt(request) - 1
                         /\ contentLength = LengthUpTo(request, Position)
                         /\ got = 0 /\ answer = 0 /\ request[1].kind = "good"
    [] at = "body" -> /\ Position = EmptyAt(request) + got
                      /\ contentLength = LengthOf(request)
                      /\ answer = 0 /\ request[1].kind = "good"
    [] OTHER -> at = "close" /\ answer = 200 => Position = EmptyAt(request) + contentLength

\* The answer is what the pieces read deserve, and it is lost only if there was
\* or came more to read.
Answered ==
  \/ answer = 400 /\ request[1].kind = "bad"
  \/ /\ answer = 200 /\ request[1].kind = "good" /\ contentLength = LengthOf(request)
     /\ EmptyAt(request) + contentLength <= sent
     /\ reset => EmptyAt(request) + contentLength < sent
  \/ answer = 0 /\ client = "gone" /\ outcome = "none"

\* The HTTP server
HttpInv ==
  /\ HttpTypeOK
  /\ at # "closed" => Unread
  /\ Reading
  /\ at \in {"close", "closed"} => Answered
  /\ outcome = "reset" => reset

Inv ==
  /\ program \in {"tcp", "echo", "udp", "http"}
  /\ program = "tcp" => Typed /\ TcpInv
  /\ program = "echo" => Typed /\ EchoInv
  /\ program = "udp" => UdpInv
  /\ program = "http" => HttpInv
  /\ program # "udp" => errors = {}
  /\ program # "http" => outcome = "none"

-------------------------------------------------------------------------------
(* Lines on their way                                                      *)

\* The least element of a set of numbers
LEMMA MinIs ==
  ASSUME NEW S, S \subseteq Int, NEW m \in S, \A k \in S : m <= k
  PROVE  Min(S) = m
PROOF
<1> DEFINE Least(x) == \A y \in S : x <= y
<1>1. Least(m)
  OBVIOUS
<1>2. Min(S) = CHOOSE x \in S : Least(x)
  BY DEF Min
<1>3. \A x \in S : Least(x) => x = m
  BY SMT
<1> HIDE DEF Least
<1> QED
  BY <1>1, <1>2, <1>3

\* A line that is written comes last.
LEMMA SpacedWrite ==
  ASSUME NEW b, NEW w, NEW from, NEW to, Spaced(b, w, from, to), to < Total
  PROVE  Spaced(b, w \o <<to, Newline>>, from, to + 1)
PROOF
<1> USE LineStreamAssumption
<1> DEFINE v == w \o <<to, Newline>>
           lb == Len(b)
           lw == Len(w)
<1>1. b \in Seq(Pieces) /\ w \in Seq(Pieces) /\ from \in 0 .. to /\ to \in 0 .. Total - 1
  BY DEF Spaced
<1>2. lb \in Nat /\ lw \in Nat /\ lb + lw = 2 * (to - from)
  BY <1>1, LenProperties DEF Spaced
<1>3. <<to, Newline>> \in Seq(Pieces) /\ Len(<<to, Newline>>) = 2
  BY <1>1 DEF Pieces, Newline
<1>4. v \in Seq(Pieces) /\ Len(v) = lw + 2
  BY <1>1, <1>3, ConcatProperties
<1>5. \A k \in 1 .. lw : v[k] = w[k]
  BY <1>1, <1>2, <1>3, ConcatProperties
<1>6. v[lw + 1] = to /\ v[lw + 2] = Newline
  <2>1. \A k \in {1, 2} : v[lw + k] = <<to, Newline>>[lw + k - lw]
    BY <1>1, <1>2, <1>3, ConcatProperties
  <2>2. lw + 1 - lw = 1 /\ lw + 2 - lw = 2
    BY <1>2
  <2> QED
    BY <2>1, <2>2
<1> HIDE DEF v
<1>7. \A k \in 1 .. lb + lw : Coming(b, v, k) = Coming(b, w, k)
  BY <1>2, <1>5 DEF Coming
<1>8. \A k \in {1, 2} : Coming(b, v, lb + lw + k) = v[lw + k]
  <2> SUFFICES ASSUME NEW k \in {1, 2}  PROVE Coming(b, v, lb + lw + k) = v[lw + k]
    OBVIOUS
  <2>1. ~(lb + lw + k <= lb) /\ lb + lw + k - lb = lw + k
    BY <1>2
  <2> QED
    BY <2>1 DEF Coming
<1>9. ASSUME NEW m \in from .. to
      PROVE  Coming(b, v, 2 * (m - from) + 1) = m /\ Coming(b, v, 2 * (m - from) + 2) = Newline
  <2>1. CASE m < to
    <3>1. Coming(b, w, 2 * (m - from) + 1) = m /\ Coming(b, w, 2 * (m - from) + 2) = Newline
      BY <1>1, <2>1 DEF Spaced
    <3>2. 2 * (m - from) + 1 \in 1 .. lb + lw /\ 2 * (m - from) + 2 \in 1 .. lb + lw
      BY <1>1, <1>2, <2>1
    <3> QED
      BY <1>7, <3>1, <3>2
  <2>2. CASE m = to
    <3>1. 2 * (m - from) + 1 = lb + lw + 1 /\ 2 * (m - from) + 2 = lb + lw + 2
      BY <1>1, <1>2, <2>2
    <3> QED
      BY <1>6, <1>8, <2>2, <3>1
  <2> QED
    BY <1>1, <2>1, <2>2
<1>10. from \in 0 .. to + 1 /\ to + 1 \in 0 .. Total /\ lb + (lw + 2) = 2 * (to + 1 - from)
       /\ from .. to + 1 - 1 = from .. to
  BY <1>1, <1>2
<1> QED
  BY <1>1, <1>4, <1>9, <1>10 DEF Spaced, v

\* What is on its way is the same before and after the reader has taken some of it.
LEMMA SpacedFill ==
  ASSUME NEW b, NEW w, NEW from, NEW to, Spaced(b, w, from, to), NEW n \in 1 .. Len(w)
  PROVE  Spaced(b \o SubSeq(w, 1, n), SubSeq(w, n + 1, Len(w)), from, to)
PROOF
<1> DEFINE lb == Len(b)
           lw == Len(w)
           s == SubSeq(w, 1, n)
           v == SubSeq(w, n + 1, lw)
           a == b \o s
<1>1. b \in Seq(Pieces) /\ w \in Seq(Pieces) /\ from \in 0 .. to /\ to \in 0 .. Total
  BY DEF Spaced
<1>2. lb \in Nat /\ lw \in Nat /\ lb + lw = 2 * (to - from) /\ n \in 1 .. lw
  BY <1>1, LenProperties DEF Spaced
<1>3. \A k \in 1 .. lw : w[k] \in Pieces
  BY <1>1, ElementOfSeq
<1>4. s \in Seq(Pieces) /\ Len(s) = n /\ \A k \in 1 .. n : s[k] = w[k]
  <2>1. /\ s \in Seq(Pieces) /\ Len(s) = IF 1 <= n THEN n - 1 + 1 ELSE 0
        /\ \A k \in 1 .. n - 1 + 1 : s[k] = w[1 + k - 1]
    BY <1>2, <1>3, SubSeqProperties
  <2>2. n - 1 + 1 = n /\ 1 <= n /\ \A k \in 1 .. n : 1 + k - 1 = k
    BY <1>2
  <2> QED
    BY <2>1, <2>2
<1>5. v \in Seq(Pieces) /\ Len(v) = lw - n /\ \A k \in 1 .. lw - n : v[k] = w[n + k]
  <2>1. /\ v \in Seq(Pieces) /\ Len(v) = IF n + 1 <= lw THEN lw - (n + 1) + 1 ELSE 0
        /\ \A k \in 1 .. lw - (n + 1) + 1 : v[k] = w[n + 1 + k - 1]
    BY <1>2, <1>3, SubSeqProperties
  <2>2. /\ lw - (n + 1) + 1 = lw - n /\ (n + 1 <= lw \/ lw - n = 0)
        /\ \A k \in 1 .. lw - n : n + 1 + k - 1 = n + k
    BY <1>2
  <2> QED
    BY <2>1, <2>2
<1> HIDE DEF s, v
<1>6. /\ a \in Seq(Pieces) /\ Len(a) = lb + n
      /\ \A k \in 1 .. lb + n : a[k] = IF k <= lb THEN b[k] ELSE s[k - lb]
  BY <1>1, <1>4, ConcatProperties
<1> HIDE DEF a
<1>7. ASSUME NEW k \in 1 .. lb + lw
      PROVE  Coming(a, v, k) = Coming(b, w, k)
  <2>1. CASE k <= lb
    BY <1>2, <1>6, <2>1 DEF Coming
  <2>2. CASE k > lb /\ k <= lb + n
    <3>1. k - lb \in 1 .. n /\ k \in 1 .. lb + n /\ ~(k <= lb)
      BY <1>2, <2>2
    <3> QED
      BY <1>4, <1>6, <2>2, <3>1 DEF Coming
  <2>3. CASE k > lb + n
    <3>1. ~(k <= lb) /\ ~(k <= lb + n) /\ k - (lb + n) \in 1 .. lw - n /\ n + (k - (lb + n)) = k - lb
      BY <1>2, <2>3
    <3>2. Coming(a, v, k) = v[k - (lb + n)]
      BY <1>6, <3>1 DEF Coming
    <3>3. Coming(b, w, k) = w[k - lb]
      BY <3>1 DEF Coming
    <3> QED
      BY <1>5, <3>1, <3>2, <3>3
  <2> QED
    BY <1>2, <2>1, <2>2, <2>3
<1>8. (lb + n) + (lw - n) = 2 * (to - from)
  BY <1>2
<1>9. \A m \in from .. to - 1 :
        2 * (m - from) + 1 \in 1 .. lb + lw /\ 2 * (m - from) + 2 \in 1 .. lb + lw
  BY <1>1, <1>2
<1>10. \A m \in from .. to - 1 :
         Coming(a, v, 2 * (m - from) + 1) = m /\ Coming(a, v, 2 * (m - from) + 2) = Newline
  BY <1>7, <1>9 DEF Spaced
<1> QED
  BY <1>1, <1>5, <1>6, <1>8, <1>10 DEF Spaced, a, s, v

\* A whole line in the buffer is the next message and its '\n', and the rest stays.
LEMMA SpacedRead ==
  ASSUME NEW b, NEW w, NEW from, NEW to, Spaced(b, w, from, to), Contains(b, Newline)
  PROVE  /\ from < to /\ Head(b) = from
         /\ Spaced(SubSeq(b, SelectInSeq(b, LAMBDA x : x = Newline) + 1, Len(b)), w, from + 1, to)
PROOF
<1> USE LineStreamAssumption
<1> DEFINE lb == Len(b)
           lw == Len(w)
<1>1. b \in Seq(Pieces) /\ w \in Seq(Pieces) /\ from \in 0 .. to /\ to \in 0 .. Total
  BY DEF Spaced
<1>2. lb \in Nat /\ lw \in Nat /\ lb + lw = 2 * (to - from)
  BY <1>1, LenProperties DEF Spaced
<1>3. PICK k \in 1 .. lb : b[k] = Newline
  BY DEF Contains
<1>4. from < to
  BY <1>1, <1>2, <1>3
<1>5. Coming(b, w, 1) = from /\ Coming(b, w, 2) = Newline
  <2>1. from \in from .. to - 1 /\ 2 * (from - from) + 1 = 1 /\ 2 * (from - from) + 2 = 2
    BY <1>1, <1>4
  <2> QED
    BY <2>1 DEF Spaced
<1>6. b[1] = from /\ from # Newline
  BY <1>1, <1>2, <1>3, <1>4, <1>5 DEF Coming, Newline
<1>7. lb >= 2 /\ b[2] = Newline
  <2>1. lb >= 2
    BY <1>2, <1>3, <1>6
  <2> QED
    BY <1>2, <1>5, <2>1 DEF Coming
<1>8. SelectInSeq(b, LAMBDA x : x = Newline) = 2
  <2> DEFINE I == {j \in 1 .. Len(b) : b[j] = Newline}
  <2>1. SelectInSeq(b, LAMBDA x : x = Newline) = IF I # {} THEN Min(I) ELSE 0
    BY DEF SelectInSeq
  <2>2. 2 \in I /\ \A j \in I : 2 <= j
    BY <1>2, <1>6, <1>7
  <2>3. I \subseteq Int
    OBVIOUS
  <2> HIDE DEF I
  <2>4. Min(I) = 2
    BY <2>2, <2>3, MinIs
  <2> QED
    BY <2>1, <2>2, <2>4
<1> DEFINE a == SubSeq(b, 3, lb)
<1>9. a \in Seq(Pieces) /\ Len(a) = lb - 2 /\ \A j \in 1 .. lb - 2 : a[j] = b[j + 2]
  <2>1. \A j \in 1 .. lb : b[j] \in Pieces
    BY <1>1, ElementOfSeq
  <2>2. /\ a \in Seq(Pieces) /\ Len(a) = IF 3 <= lb THEN lb - 3 + 1 ELSE 0
        /\ \A j \in 1 .. lb - 3 + 1 : a[j] = b[3 + j - 1]
    BY <1>2, <2>1, SubSeqProperties
  <2>3. lb - 3 + 1 = lb - 2 /\ \A j \in 1 .. lb - 2 : 3 + j - 1 = j + 2
    BY <1>2
  <2>4. lb = 2 \/ 3 <= lb
    <3>1. lb \in Nat /\ lb >= 2
      BY <1>2, <1>7
    <3> HIDE DEF lb
    <3> QED
      BY <3>1
  <2> QED
    BY <2>2, <2>3, <2>4
<1> HIDE DEF a
<1>10. ASSUME NEW j \in 1 .. lb + lw - 2
       PROVE  Coming(a, w, j) = Coming(b, w, j + 2)
  <2>1. CASE j <= lb - 2
    BY <1>2, <1>9, <2>1 DEF Coming
  <2>2. CASE j > lb - 2
    <3>1. ~(j <= lb - 2) /\ ~(j + 2 <= lb) /\ j - (lb - 2) = j + 2 - lb
      BY <1>2, <2>2
    <3> QED
      BY <1>9, <3>1 DEF Coming
  <2> QED
    BY <1>2, <2>1, <2>2
<1>11. ASSUME NEW m \in from + 1 .. to - 1
       PROVE  /\ Coming(a, w, 2 * (m - (from + 1)) + 1) = m
              /\ Coming(a, w, 2 * (m - (from + 1)) + 2) = Newline
  <2>1. /\ 2 * (m - (from + 1)) + 1 \in 1 .. lb + lw - 2
        /\ 2 * (m - (from + 1)) + 2 \in 1 .. lb + lw - 2
        /\ 2 * (m - (from + 1)) + 1 + 2 = 2 * (m - from) + 1
        /\ 2 * (m - (from + 1)) + 2 + 2 = 2 * (m - from) + 2
        /\ m \in from .. to - 1
    BY <1>1, <1>2
  <2>2. Coming(b, w, 2 * (m - from) + 1) = m /\ Coming(b, w, 2 * (m - from) + 2) = Newline
    BY <2>1 DEF Spaced
  <2> QED
    BY <1>10, <2>1, <2>2
<1>12. from + 1 \in 0 .. to /\ (lb - 2) + lw = 2 * (to - (from + 1))
  BY <1>1, <1>2, <1>4
<1>13. Spaced(a, w, from + 1, to)
  BY <1>1, <1>9, <1>11, <1>12 DEF Spaced
<1>14. Head(b) = from
  BY <1>1, <1>6, <1>7
<1> QED
  BY <1>4, <1>8, <1>13, <1>14 DEF a

-------------------------------------------------------------------------------
(* tcp.go and echo.go                                                      *)

\* The next message extends a sequence of messages.
LEMMA CountedAppend ==
  ASSUME NEW s, Counted(s), NEW n, n = Len(s)
  PROVE  /\ n \in Nat /\ Counted(Append(s, n)) /\ Len(Append(s, n)) = n + 1
         /\ \A k \in DOMAIN s : s[k] < n
         /\ Append(s, n)[n + 1] = n
PROOF
<1>1. s \in Seq(Nat) /\ n \in Nat /\ DOMAIN s = 1 .. n /\ \A k \in 1 .. n : s[k] = k - 1
  BY LenProperties DEF Counted
<1>2. /\ Append(s, n) \in Seq(Nat) /\ Len(Append(s, n)) = n + 1
      /\ \A k \in 1 .. n : Append(s, n)[k] = s[k]
      /\ Append(s, n)[n + 1] = n
  BY <1>1, AppendProperties
<1>3. \A k \in 1 .. n + 1 : Append(s, n)[k] = k - 1
  <2> DEFINE t == Append(s, n)
  <2>1. (\A k \in 1 .. n : t[k] = k - 1) /\ t[n + 1] = n
    BY <1>1, <1>2
  <2> HIDE DEF t
  <2>2. \A k \in 1 .. n + 1 : k \in 1 .. n \/ (k = n + 1 /\ k - 1 = n)
    BY <1>1
  <2>3. \A k \in 1 .. n + 1 : t[k] = k - 1
    BY <2>1, <2>2
  <2> QED
    BY <2>3 DEF t
<1>4. \A k \in DOMAIN s : s[k] < n
  BY <1>1
<1> QED
  BY <1>1, <1>2, <1>3, <1>4 DEF Counted

\* Nothing is on its way at first.
LEMMA StreamInit ==
  ASSUME Init
  PROVE  Typed /\ TcpInv /\ EchoInv
PROOF
<1> USE LineStreamAssumption
<1>1. /\ wire = [d \in Directions |-> << >>] /\ buf = [d \in Directions |-> << >>] /\ i = 0
      /\ received = << >> /\ echoed = << >> /\ hpc = "none" /\ cpc = "dial"
  BY DEF Init
<1>2. Typed
  BY <1>1 DEF Typed
<1>3. Counted(<< >>)
  BY DEF Counted
<1>4. \A d \in Directions : wire[d] = << >> /\ buf[d] = << >>
  BY <1>1
<1>5. Spaced(<< >>, << >>, 0, 0)
  <2>1. << >> \in Seq(Pieces) /\ Len(<< >>) = 0
    OBVIOUS
  <2>2. 0 \in 0 .. Total /\ 0 .. 0 - 1 = {} /\ 0 \in 0 .. 0
    OBVIOUS
  <2>3. 0 + 0 = 2 * (0 - 0)
    OBVIOUS
  <2> QED
    BY <2>1, <2>2, <2>3 DEF Spaced
<1>6. Len(<< >>) = 0 /\ 0 - 0 = 0 /\ 0 + 0 = 0
  OBVIOUS
<1>7. TcpInv
  BY <1>1, <1>3, <1>4, <1>5, <1>6 DEF TcpInv, Directions
<1>8. EchoInv
  BY <1>1, <1>3, <1>4, <1>5, <1>6 DEF EchoInv, Directions
<1> QED
  BY <1>2, <1>7, <1>8

\* A write and its count
LEMMA SendOK ==
  ASSUME Typed, NEW d \in Directions, NEW from, NEW m, Spaced(buf[d], wire[d], from, m),
         Write(d, m), m < Total
  PROVE  /\ Spaced(buf'[d], wire'[d], from, m + 1)
         /\ \A e \in Directions \ {d} : buf'[e] = buf[e] /\ wire'[e] = wire[e]
         /\ wire' = [e \in Directions |-> wire'[e]] /\ buf' = [e \in Directions |-> buf'[e]]
PROOF
<1>1. wire' = [wire EXCEPT ![d] = @ \o <<m, Newline>>] /\ buf' = buf
  BY DEF Write
<1>2. wire'[d] = wire[d] \o <<m, Newline>> /\ \A e \in Directions \ {d} : wire'[e] = wire[e]
  BY <1>1 DEF Typed
<1>3. Spaced(buf[d], wire[d] \o <<m, Newline>>, from, m + 1)
  BY SpacedWrite
<1>4. wire' = [e \in Directions |-> wire'[e]] /\ buf' = [e \in Directions |-> buf'[e]]
  BY <1>1 DEF Typed
<1> QED
  BY <1>1, <1>2, <1>3, <1>4

\* The reader takes a portion.
LEMMA FillOK ==
  ASSUME Typed, NEW d \in Directions, NEW from, NEW to, Spaced(buf[d], wire[d], from, to), Fill(d)
  PROVE  /\ Spaced(buf'[d], wire'[d], from, to)
         /\ \A e \in Directions \ {d} : buf'[e] = buf[e] /\ wire'[e] = wire[e]
         /\ wire' = [e \in Directions |-> wire'[e]] /\ buf' = [e \in Directions |-> buf'[e]]
PROOF
<1>1. PICK n \in 1 .. Len(wire[d]) :
        /\ buf' = [buf EXCEPT ![d] = @ \o SubSeq(wire[d], 1, n)]
        /\ wire' = [wire EXCEPT ![d] = SubSeq(@, n + 1, Len(@))]
  BY DEF Fill
<1>2. /\ buf'[d] = buf[d] \o SubSeq(wire[d], 1, n)
      /\ wire'[d] = SubSeq(wire[d], n + 1, Len(wire[d]))
      /\ \A e \in Directions \ {d} : buf'[e] = buf[e] /\ wire'[e] = wire[e]
  BY <1>1 DEF Typed
<1>3. Spaced(buf'[d], wire'[d], from, to)
  BY <1>2, SpacedFill
<1>4. wire' = [e \in Directions |-> wire'[e]] /\ buf' = [e \in Directions |-> buf'[e]]
  BY <1>1 DEF Typed
<1> QED
  BY <1>2, <1>3, <1>4

\* ReadString gives the next message.
LEMMA ReadOK ==
  ASSUME Typed, NEW d \in Directions, NEW from, NEW to, Spaced(buf[d], wire[d], from, to),
         ReadString(d)
  PROVE  /\ from < to /\ Line(d) = from
         /\ Spaced(buf'[d], wire'[d], from + 1, to)
         /\ \A e \in Directions \ {d} : buf'[e] = buf[e] /\ wire'[e] = wire[e]
         /\ wire' = [e \in Directions |-> wire'[e]] /\ buf' = [e \in Directions |-> buf'[e]]
PROOF
<1> DEFINE rest == SubSeq(buf[d], SelectInSeq(buf[d], LAMBDA x : x = Newline) + 1, Len(buf[d]))
<1>1. Contains(buf[d], Newline)
  BY DEF ReadString, HasLine
<1>2. buf' = [buf EXCEPT ![d] = rest] /\ wire' = wire
  BY DEF ReadString
<1>3. from < to /\ Head(buf[d]) = from /\ Spaced(rest, wire[d], from + 1, to)
  BY <1>1, SpacedRead
<1> HIDE DEF rest
<1>4. buf'[d] = rest /\ \A e \in Directions \ {d} : buf'[e] = buf[e]
  BY <1>2 DEF Typed
<1>5. wire' = [e \in Directions |-> wire'[e]] /\ buf' = [e \in Directions |-> buf'[e]]
  BY <1>2 DEF Typed
<1> QED
  BY <1>2, <1>3, <1>4, <1>5 DEF Line

\* Each step of tcp.go keeps the invariant and the promise.
LEMMA TcpStepOK ==
  ASSUME Typed, TcpInv, TcpServer \/ TcpClient
  PROVE  Typed' /\ TcpInv' /\ [TcpPromise!Next]_(TcpPromise!vars)
PROOF
<1> USE LineStreamAssumption
<1> DEFINE from == Len(received)
<1>0. /\ "c2s" \in Directions /\ from \in Nat /\ from \in 0 .. i /\ i \in 0 .. Total
      /\ Counted(received) /\ Spaced(buf["c2s"], wire["c2s"], from, i)
  BY LenProperties DEF TcpInv, Typed, Directions, Counted, Spaced
<1>1. ASSUME UNCHANGED <<i, wire, buf, received>>
      PROVE  Typed' /\ TcpInv' /\ [TcpPromise!Next]_(TcpPromise!vars)
  BY <1>1 DEF Typed, TcpInv, TcpPromise!vars
<1>2. CASE Listen \/ Accept \/ TcpHandleEof \/ Dial \/ TcpClose
  BY <1>1, <1>2 DEF Listen, Accept, TcpHandleEof, Dial, TcpClose, connection
<1>3. CASE TcpSend
  <2>1. Write("c2s", i) /\ i < Total /\ i' = i + 1 /\ received' = received
    BY <1>3 DEF TcpSend
  <2>2. /\ Spaced(buf'["c2s"], wire'["c2s"], from, i + 1)
        /\ wire' = [e \in Directions |-> wire'[e]] /\ buf' = [e \in Directions |-> buf'[e]]
    BY <1>0, <2>1, SendOK
  <2>3. i' \in 0 .. Total
    BY <1>0, <2>1
  <2>4. Typed' /\ TcpInv'
    BY <1>0, <2>1, <2>2, <2>3 DEF Typed, TcpInv
  <2>5. TcpPromise!Send
    BY <2>1 DEF TcpPromise!Send
  <2> QED
    BY <2>4, <2>5 DEF TcpPromise!Next
<1>4. CASE TcpHandle
  <2>1. ReadString("c2s") /\ received' = Append(received, Line("c2s")) /\ i' = i
    BY <1>4 DEF TcpHandle
  <2>2. /\ from < i /\ Line("c2s") = from /\ Spaced(buf'["c2s"], wire'["c2s"], from + 1, i)
        /\ wire' = [e \in Directions |-> wire'[e]] /\ buf' = [e \in Directions |-> buf'[e]]
    BY <1>0, <2>1, ReadOK
  <2>3. received' = Append(received, from)
    BY <2>1, <2>2
  <2>4. /\ Counted(received') /\ Len(received') = from + 1
        /\ \A k \in DOMAIN received : received[k] < from
    BY <1>0, <2>3, CountedAppend
  <2>5. Typed' /\ TcpInv'
    BY <1>0, <2>1, <2>2, <2>4 DEF Typed, TcpInv
  <2>6. from \in 0 .. i - 1
    BY <1>0, <2>2
  <2>7. TcpPromise!Receive
    BY <2>1, <2>3, <2>4, <2>6 DEF TcpPromise!Receive
  <2> QED
    BY <2>5, <2>7 DEF TcpPromise!Next
<1>5. CASE Fill("c2s")
  <2>1. /\ Spaced(buf'["c2s"], wire'["c2s"], from, i)
        /\ wire' = [e \in Directions |-> wire'[e]] /\ buf' = [e \in Directions |-> buf'[e]]
    BY <1>0, <1>5, FillOK
  <2>2. i' = i /\ received' = received
    BY <1>5 DEF Fill
  <2> QED
    BY <1>0, <2>1, <2>2 DEF Typed, TcpInv, TcpPromise!vars
<1> QED
  BY <1>2, <1>3, <1>4, <1>5 DEF TcpServer, TcpClient

\* Each step of echo.go keeps the invariant and the promise.
LEMMA EchoStepOK ==
  ASSUME Typed, EchoInv, EchoServer \/ EchoClient
  PROVE  Typed' /\ EchoInv' /\ [EchoPromise!Next]_(EchoPromise!vars)
PROOF
<1> USE LineStreamAssumption
<1> DEFINE from == Len(received)
           heard == from - (IF hpc = "echo" THEN 1 ELSE 0)
           back == Len(echoed)
<1>0. /\ "c2s" \in Directions /\ "s2c" \in Directions \ {"c2s"} /\ "c2s" \in Directions \ {"s2c"}
      /\ "s2c" \in Directions
      /\ from \in Nat /\ back \in Nat /\ i \in 0 .. Total
      /\ Counted(received) /\ Counted(echoed)
      /\ Spaced(buf["c2s"], wire["c2s"], from, i)
      /\ Spaced(buf["s2c"], wire["s2c"], back, heard)
      /\ i = back + (IF cpc = "read" THEN 1 ELSE 0)
  BY LenProperties DEF EchoInv, Typed, Directions, Counted
<1>00. from \in 0 .. i /\ back \in 0 .. heard /\ heard \in 0 .. Total
  BY <1>0 DEF Spaced
<1>1. ASSUME UNCHANGED <<i, wire, buf, received, echoed>>,
             (cpc' = "read") <=> (cpc = "read"), (hpc' = "echo") <=> (hpc = "echo")
      PROVE  Typed' /\ EchoInv' /\ [EchoPromise!Next]_(EchoPromise!vars)
  BY <1>1 DEF Typed, EchoInv, EchoPromise!vars
<1>2. CASE Listen \/ Accept \/ Dial
  BY <1>1, <1>2 DEF Listen, Accept, Dial, connection
<1>3. CASE EchoSend
  <2>1. /\ Write("c2s", i) /\ i < Total /\ i' = i + 1 /\ cpc = "send" /\ cpc' = "read"
        /\ UNCHANGED <<hpc, received, echoed>>
    BY <1>3 DEF EchoSend
  <2>2. /\ Spaced(buf'["c2s"], wire'["c2s"], from, i + 1)
        /\ buf'["s2c"] = buf["s2c"] /\ wire'["s2c"] = wire["s2c"]
        /\ wire' = [e \in Directions |-> wire'[e]] /\ buf' = [e \in Directions |-> buf'[e]]
    BY <1>0, <2>1, SendOK
  <2>3. i' \in 0 .. Total /\ i = back /\ i' = back + 1
    BY <1>0, <2>1
  <2>4. Typed' /\ EchoInv'
    BY <1>0, <2>1, <2>2, <2>3 DEF Typed, EchoInv
  <2>5. EchoPromise!Ask
    BY <2>1, <2>3 DEF EchoPromise!Ask
  <2> QED
    BY <2>4, <2>5 DEF EchoPromise!Next
<1>4. CASE EchoHandle
  <2>1. /\ ReadString("c2s") /\ received' = Append(received, Line("c2s")) /\ hpc = "read" /\ hpc' = "echo"
        /\ UNCHANGED <<i, cpc, echoed>>
    BY <1>4 DEF EchoHandle
  <2>2. /\ from < i /\ Line("c2s") = from /\ Spaced(buf'["c2s"], wire'["c2s"], from + 1, i)
        /\ buf'["s2c"] = buf["s2c"] /\ wire'["s2c"] = wire["s2c"]
        /\ wire' = [e \in Directions |-> wire'[e]] /\ buf' = [e \in Directions |-> buf'[e]]
    BY <1>0, <2>1, ReadOK
  <2>3. received' = Append(received, from)
    BY <2>1, <2>2
  <2>4. Counted(received') /\ Len(received') = from + 1
    BY <1>0, <2>3, CountedAppend
  <2>5. heard = from /\ from + 1 - 1 = from
    BY <1>0, <2>1
  <2>6. Typed' /\ EchoInv'
    BY <1>0, <2>1, <2>2, <2>4, <2>5 DEF Typed, EchoInv
  <2>7. EchoPromise!Hear
    BY <2>1, <2>2, <2>3 DEF EchoPromise!Hear, Message
  <2> QED
    BY <2>6, <2>7 DEF EchoPromise!Next
<1>5. CASE Echo
  <2>1. /\ Write("s2c", Last(received)) /\ hpc = "echo" /\ hpc' = "read"
        /\ UNCHANGED <<i, cpc, received, echoed>>
    BY <1>5 DEF Echo
  <2>2. heard = from - 1 /\ from \in 1 .. i /\ heard < Total
    BY <1>0, <1>00, <2>1
  <2>3. Last(received) = heard
    BY <1>0, <2>2 DEF Counted, Last
  <2>4. /\ Spaced(buf'["s2c"], wire'["s2c"], back, heard + 1)
        /\ buf'["c2s"] = buf["c2s"] /\ wire'["c2s"] = wire["c2s"]
        /\ wire' = [e \in Directions |-> wire'[e]] /\ buf' = [e \in Directions |-> buf'[e]]
    BY <1>0, <2>1, <2>2, <2>3, SendOK
  <2>5. heard + 1 = from /\ from - 0 = from
    BY <1>0, <2>2
  <2>6. Typed' /\ EchoInv'
    BY <1>0, <2>1, <2>4, <2>5 DEF Typed, EchoInv
  <2> QED
    BY <2>1, <2>6 DEF EchoPromise!vars
<1>6. CASE EchoRead
  <2>1. /\ ReadString("s2c") /\ echoed' = Append(echoed, Line("s2c")) /\ cpc = "read" /\ cpc' = "send"
        /\ UNCHANGED <<i, hpc, received>>
    BY <1>6 DEF EchoRead
  <2>2. /\ back < heard /\ Line("s2c") = back /\ Spaced(buf'["s2c"], wire'["s2c"], back + 1, heard)
        /\ buf'["c2s"] = buf["c2s"] /\ wire'["c2s"] = wire["c2s"]
        /\ wire' = [e \in Directions |-> wire'[e]] /\ buf' = [e \in Directions |-> buf'[e]]
    BY <1>0, <2>1, ReadOK
  <2>3. echoed' = Append(echoed, back)
    BY <2>1, <2>2
  <2>4. Counted(echoed') /\ Len(echoed') = back + 1
    BY <1>0, <2>3, CountedAppend
  <2>5. i = back + 1 /\ back + 1 + 0 = back + 1 /\ back < from
    BY <1>0, <1>00, <2>1, <2>2
  <2>6. Typed' /\ EchoInv'
    BY <1>0, <2>1, <2>2, <2>4, <2>5 DEF Typed, EchoInv
  <2>7. EchoPromise!Answer
    BY <2>1, <2>3, <2>5 DEF EchoPromise!Answer, Message
  <2> QED
    BY <2>6, <2>7 DEF EchoPromise!Next
<1>7. CASE Fill("c2s")
  <2>1. /\ Spaced(buf'["c2s"], wire'["c2s"], from, i)
        /\ buf'["s2c"] = buf["s2c"] /\ wire'["s2c"] = wire["s2c"]
        /\ wire' = [e \in Directions |-> wire'[e]] /\ buf' = [e \in Directions |-> buf'[e]]
    BY <1>0, <1>7, FillOK
  <2>2. UNCHANGED <<i, received, echoed, hpc, cpc>>
    BY <1>7 DEF Fill
  <2> QED
    BY <1>0, <2>1, <2>2 DEF Typed, EchoInv, EchoPromise!vars
<1>8. CASE Fill("s2c")
  <2>1. /\ Spaced(buf'["s2c"], wire'["s2c"], back, heard)
        /\ buf'["c2s"] = buf["c2s"] /\ wire'["c2s"] = wire["c2s"]
        /\ wire' = [e \in Directions |-> wire'[e]] /\ buf' = [e \in Directions |-> buf'[e]]
    BY <1>0, <1>8, FillOK
  <2>2. UNCHANGED <<i, received, echoed, hpc, cpc>>
    BY <1>8 DEF Fill
  <2> QED
    BY <1>0, <2>1, <2>2 DEF Typed, EchoInv, EchoPromise!vars
<1> QED
  BY <1>2, <1>3, <1>4, <1>5, <1>6, <1>7, <1>8 DEF EchoServer, EchoClient

-------------------------------------------------------------------------------
(* udp.go                                                                  *)

\* Nothing is sent at first.
LEMMA UdpInitOK ==
  ASSUME UdpInit, i = 0, received = << >>
  PROVE  UdpInv
PROOF
<1> USE LineStreamAssumption DEF UdpInit
<1>1. 0 \in 0 .. Total /\ << >> \in Seq(Nat) /\ Len(<< >>) = 0 /\ 1 .. 0 = {}
  OBVIOUS
<1> QED
  BY <1>1 DEF UdpInv, Increasing

\* Each step of udp.go keeps the invariant and the promise.
LEMMA UdpStepOK ==
  ASSUME UdpInv, UdpServer \/ UdpClient
  PROVE  UdpInv' /\ [UdpPromise!Next]_(UdpPromise!vars)
PROOF
<1> USE LineStreamAssumption
<1>0. /\ i \in 0 .. Total /\ received \in Seq(Nat) /\ sock \in Seq(Nat)
      /\ Len(sock) \in Nat /\ Len(received) \in Nat
  BY LenProperties DEF UdpInv
<1>1. CASE UdpListen
  BY <1>1 DEF UdpListen, UdpInv, Increasing, UdpPromise!vars
<1>2. CASE UdpError
  <2>1. /\ i < Total /\ refused /\ errors' = errors \cup {i} /\ refused' = FALSE /\ i' = i + 1
        /\ UNCHANGED <<sock, received, missed, early>>
    BY <1>2 DEF UdpError
  <2>2. i' \in 0 .. Total /\ i' - 1 = i
    BY <1>0, <2>1
  <2>3. \A k \in 1 .. Len(sock) : sock[k] < i'
    BY <1>0, <2>1, ElementOfSeq DEF UdpInv
  <2>4. missed' \in SUBSET (0 .. i' - 1) /\ errors' \in SUBSET (0 .. i' - 1)
    BY <1>0, <2>1, <2>2 DEF UdpInv
  <2>5. early /\ i > 0 /\ i - 1 \in missed /\ i \notin missed
    BY <1>0, <2>1 DEF UdpInv
  <2>6. UdpInv'
    BY <1>0, <2>1, <2>2, <2>3, <2>4, <2>5 DEF UdpInv, Increasing
  <2>7. UdpPromise!Send
    BY <2>1 DEF UdpPromise!Send
  <2> QED
    BY <2>6, <2>7 DEF UdpPromise!Next
<1>3. CASE UdpWrite
  <2>1. /\ i < Total /\ ~refused /\ i' = i + 1
        /\ UNCHANGED <<refused, received, errors, early>>
    BY <1>3 DEF UdpWrite
  <2>2. i' \in 0 .. Total /\ i' - 1 = i /\ i \in Nat
    BY <1>0, <2>1
  <2>3. \A k \in 1 .. Len(sock) : sock[k] < i'
    BY <1>0, <2>1, ElementOfSeq DEF UdpInv
  <2>4. \A n \in errors : n \in 0 .. i - 1 /\ n # i
    BY <1>0 DEF UdpInv
  <2>5. UdpPromise!Send
    BY <2>1 DEF UdpPromise!Send
  <2>6. CASE sock' = Append(sock, i) /\ missed' = missed
    <3>1. /\ sock' \in Seq(Nat) /\ Len(sock') = Len(sock) + 1
          /\ \A k \in 1 .. Len(sock) : sock'[k] = sock[k]
          /\ sock'[Len(sock) + 1] = i
      BY <1>0, <2>2, <2>6, AppendProperties
    <3>2. \A k \in 1 .. Len(sock') : k \in 1 .. Len(sock) \/ k = Len(sock) + 1
      BY <1>0, <3>1
    <3>3. \A k \in 1 .. Len(sock') : sock'[k] < i'
      BY <2>1, <2>2, <2>3, <3>1, <3>2
    <3>4. Increasing(sock')
      <4> SUFFICES ASSUME NEW j \in 1 .. Len(sock'), NEW k \in 1 .. Len(sock'), j < k
                   PROVE  sock'[j] < sock'[k]
        BY DEF Increasing
      <4>1. j \in 1 .. Len(sock)
        BY <1>0, <3>1
      <4>2. CASE k \in 1 .. Len(sock)
        BY <3>1, <4>1, <4>2 DEF UdpInv, Increasing
      <4>3. CASE k = Len(sock) + 1
        BY <3>1, <4>1, <4>3 DEF UdpInv
      <4> QED
        BY <3>2, <4>2, <4>3
    <3>5. \A j \in 1 .. Len(received) : received[j] < i
      BY DEF UdpInv
    <3>6. \A j \in 1 .. Len(received'), k \in 1 .. Len(sock') : received'[j] < sock'[k]
      BY <2>1, <3>1, <3>2, <3>5 DEF UdpInv
    <3>7. missed' \in SUBSET (0 .. i' - 1) /\ errors' \in SUBSET (0 .. i' - 1)
      BY <1>0, <2>1, <2>2, <2>6 DEF UdpInv
    <3>8. UdpInv'
      BY <2>1, <2>2, <2>6, <3>1, <3>3, <3>4, <3>6, <3>7 DEF UdpInv
    <3> QED
      BY <2>5, <3>8 DEF UdpPromise!Next
  <2>7. CASE sock' = sock /\ missed' = missed \cup {i}
    <3>1. missed' \in SUBSET (0 .. i' - 1) /\ errors' \in SUBSET (0 .. i' - 1)
      BY <1>0, <2>1, <2>2, <2>7 DEF UdpInv
    <3>2. UdpInv'
      BY <1>0, <2>1, <2>2, <2>3, <2>4, <2>7, <3>1 DEF UdpInv, Increasing
    <3> QED
      BY <2>5, <3>2 DEF UdpPromise!Next
  <2> QED
    BY <1>3, <2>6, <2>7 DEF UdpWrite
<1>4. CASE UdpUnreachable
  <2>1. /\ i < Total /\ missed' = missed \cup {i} /\ early' = TRUE /\ refused' = TRUE /\ i' = i + 1
        /\ UNCHANGED <<sock, received, errors>>
    BY <1>4 DEF UdpUnreachable
  <2>2. i' \in 0 .. Total /\ i' - 1 = i /\ i' > 0
    BY <1>0, <2>1
  <2>3. \A k \in 1 .. Len(sock) : sock[k] < i'
    BY <1>0, <2>1, ElementOfSeq DEF UdpInv
  <2>4. \A n \in errors : n \in 0 .. i - 1 /\ n # i
    BY <1>0 DEF UdpInv
  <2>5. missed' \in SUBSET (0 .. i' - 1) /\ errors' \in SUBSET (0 .. i' - 1)
    BY <1>0, <2>1, <2>2 DEF UdpInv
  <2>6. UdpInv'
    BY <1>0, <2>1, <2>2, <2>3, <2>4, <2>5 DEF UdpInv, Increasing
  <2>7. UdpPromise!Send
    BY <2>1 DEF UdpPromise!Send
  <2> QED
    BY <2>6, <2>7 DEF UdpPromise!Next
<1>5. CASE UdpReceive
  <2> DEFINE h == Head(sock)
  <2>1. /\ sock # << >> /\ received' = Append(received, h) /\ sock' = Tail(sock)
        /\ UNCHANGED <<i, refused, errors, missed, early>>
    BY <1>5 DEF UdpReceive
  <2>2. /\ sock' \in Seq(Nat) /\ Len(sock') = Len(sock) - 1 /\ Len(sock) > 0
        /\ \A k \in 1 .. Len(sock') : sock'[k] = sock[k + 1]
        /\ h \in Nat /\ h = sock[1]
    BY <1>0, <2>1, HeadTailProperties, EmptySeq
  <2> HIDE DEF h
  <2>3. /\ received' \in Seq(Nat) /\ Len(received') = Len(received) + 1
        /\ \A j \in 1 .. Len(received) : received'[j] = received[j]
        /\ received'[Len(received) + 1] = h
    BY <1>0, <2>1, <2>2, AppendProperties
  <2>4. \A j \in 1 .. Len(received') : j \in 1 .. Len(received) \/ j = Len(received) + 1
    BY <1>0, <2>3
  <2>5. \A k \in 1 .. Len(sock') : k + 1 \in 1 .. Len(sock) /\ 1 < k + 1 /\ 1 \in 1 .. Len(sock)
    BY <1>0, <2>2
  <2>6. 1 \in 1 .. Len(sock) /\ h < i /\ \A j \in 1 .. Len(received) : received[j] < h
    BY <1>0, <2>2 DEF UdpInv
  <2>7. Increasing(sock')
    <3> SUFFICES ASSUME NEW j \in 1 .. Len(sock'), NEW k \in 1 .. Len(sock'), j < k
                 PROVE  sock'[j] < sock'[k]
      BY DEF Increasing
    <3>1. j + 1 < k + 1
      OBVIOUS
    <3> QED
      BY <2>2, <2>5, <3>1 DEF UdpInv, Increasing
  <2>8. \A j \in 1 .. Len(received'), k \in 1 .. Len(sock') : received'[j] < sock'[k]
    <3> SUFFICES ASSUME NEW j \in 1 .. Len(received'), NEW k \in 1 .. Len(sock')
                 PROVE  received'[j] < sock'[k]
      OBVIOUS
    <3>1. CASE j \in 1 .. Len(received)
      BY <2>2, <2>3, <2>5, <3>1 DEF UdpInv
    <3>2. CASE j = Len(received) + 1
      BY <2>2, <2>3, <2>5, <3>2 DEF UdpInv, Increasing
    <3> QED
      BY <2>4, <3>1, <3>2
  <2>9. \A k \in 1 .. Len(sock') : sock'[k] < i
    BY <2>2, <2>5 DEF UdpInv
  <2>10. UdpInv'
    BY <2>1, <2>2, <2>3, <2>7, <2>8, <2>9 DEF UdpInv
  <2>11. h \in 0 .. i - 1
    BY <1>0, <2>2, <2>6
  <2>12. DOMAIN received = 1 .. Len(received)
    BY <1>0, LenProperties
  <2>13. UdpPromise!Receive
    BY <2>1, <2>6, <2>11, <2>12 DEF UdpPromise!Receive
  <2> QED
    BY <2>10, <2>13 DEF UdpPromise!Next
<1> QED
  BY <1>1, <1>2, <1>3, <1>4, <1>5 DEF UdpServer, UdpClient

-------------------------------------------------------------------------------
(* The HTTP server                                                         *)

\* Every request of a client has the form that the invariant speaks of.
LEMMA RequestsAreWellFormed ==
  ASSUME request \in Http!Requests
  PROVE  WellFormed(request)
PROOF
<1> USE TransportsAssumption
<1> DEFINE Form(line, hs, n) ==
             <<Http!Piece(line)>> \o hs \o <<Http!Piece("empty")>>
               \o [k \in 1 .. n |-> Http!Piece("byte")]
<1>0. Http!Requests =
        {Form(line, hs, n) : line \in {"good", "bad"}, hs \in Http!BoundedSeq(Http!Headers, MaxHeaders),
                             n \in 0 .. MaxBody}
  BY DEF Http!Requests
<1> HIDE DEF Form
<1>1. PICK line \in {"good", "bad"}, hs \in Http!BoundedSeq(Http!Headers, MaxHeaders), n \in 0 .. MaxBody :
        request = Form(line, hs, n)
  BY <1>0
<1> DEFINE body == [k \in 1 .. n |-> Http!Piece("byte")]
           a == <<Http!Piece(line)>> \o hs
           b == a \o <<Http!Piece("empty")>>
           h == Len(hs)
<1>2. MaxBody \in Nat /\ MaxHeaders \in Nat /\ n \in Nat
  OBVIOUS
<1>3. \A kind \in Kinds : Http!Piece(kind) \in AnyPiece /\ Http!Piece(kind).kind = kind
  BY DEF Http!Piece, Kinds, AnyPiece
<1>4. \A piece \in Http!Headers : piece \in AnyPiece /\ piece.kind \in {"header", "content-length"}
  BY <1>2, <1>3 DEF Http!Headers, Http!Length, Http!Piece, Kinds, AnyPiece
<1>5. hs \in Seq(AnyPiece) /\ h \in Nat /\ \A k \in 1 .. h : hs[k].kind \in {"header", "content-length"}
  <2>1. PICK m \in 0 .. MaxHeaders : hs \in [1 .. m -> Http!Headers]
    BY DEF Http!BoundedSeq, Http!SeqOf
  <2>2. m \in Nat
    BY <1>2
  <2>3. hs \in Seq(Http!Headers)
    BY <2>1, <2>2, SeqDef
  <2>4. h \in Nat /\ hs \in [1 .. h -> Http!Headers]
    BY <2>3, LenProperties
  <2>5. Http!Headers \subseteq AnyPiece
    BY <1>4
  <2>6. hs \in Seq(AnyPiece)
    BY <2>3, <2>5, SeqMonotonic
  <2> QED
    BY <1>4, <2>4, <2>6
<1>6. /\ body \in Seq(AnyPiece) /\ Len(body) = n
      /\ \A k \in 1 .. n : body[k].kind = "byte"
  <2>1. body \in [1 .. n -> AnyPiece]
    BY <1>3 DEF Kinds
  <2>2. body \in Seq(AnyPiece)
    BY <1>2, <2>1, SeqDef
  <2>3. DOMAIN body = 1 .. Len(body) /\ DOMAIN body = 1 .. n /\ Len(body) \in Nat
    BY <2>2, LenProperties
  <2>4. Len(body) = n
    <3> DEFINE l == Len(body)
    <3> HIDE DEF l
    <3>1. l \in Nat /\ 1 .. l = 1 .. n
      BY <2>3 DEF l
    <3>2. l = n
      BY <1>2, <3>1
    <3> QED
      BY <3>2 DEF l
  <2>5. \A k \in 1 .. n : body[k].kind = "byte"
    BY <1>3 DEF Kinds
  <2> QED
    BY <2>2, <2>4, <2>5
<1> HIDE DEF body
<1>7. \A kind \in Kinds : /\ <<Http!Piece(kind)>> \in Seq(AnyPiece) /\ Len(<<Http!Piece(kind)>>) = 1
                          /\ <<Http!Piece(kind)>>[1].kind = kind
  BY <1>3
<1>8. line \in Kinds /\ "empty" \in Kinds
  BY DEF Kinds
<1>9. /\ a \in Seq(AnyPiece) /\ Len(a) = 1 + h
      /\ \A k \in 1 .. 1 + h : a[k] = IF k <= 1 THEN <<Http!Piece(line)>>[k] ELSE hs[k - 1]
  BY <1>5, <1>7, <1>8, ConcatProperties
<1>10. a[1].kind = line /\ \A k \in 2 .. 1 + h : a[k].kind \in {"header", "content-length"}
  <2>1. a[1] = <<Http!Piece(line)>>[1] /\ 1 \in 1 .. 1 + h
    BY <1>5, <1>9
  <2>2. \A k \in 2 .. 1 + h : k - 1 \in 1 .. h /\ k \in 1 .. 1 + h /\ ~(k <= 1)
    BY <1>5
  <2>3. \A k \in 2 .. 1 + h : a[k] = hs[k - 1]
    BY <1>9, <2>2
  <2> QED
    BY <1>5, <1>7, <1>8, <2>1, <2>2, <2>3
<1> HIDE DEF a
<1>11. /\ b \in Seq(AnyPiece) /\ Len(b) = 2 + h
       /\ \A k \in 1 .. 1 + h : b[k] = a[k]
       /\ b[2 + h].kind = "empty"
  <2>1. /\ b \in Seq(AnyPiece) /\ Len(b) = 1 + h + 1
        /\ \A k \in 1 .. 1 + h + 1 : b[k] = IF k <= 1 + h THEN a[k] ELSE <<Http!Piece("empty")>>[k - (1 + h)]
    BY <1>7, <1>8, <1>9, ConcatProperties
  <2>2. /\ 1 + h + 1 = 2 + h /\ 2 + h \in 1 .. 1 + h + 1 /\ ~(2 + h <= 1 + h) /\ 2 + h - (1 + h) = 1
        /\ \A k \in 1 .. 1 + h : k <= 1 + h /\ k \in 1 .. 1 + h + 1
    BY <1>5
  <2>3. b[2 + h] = <<Http!Piece("empty")>>[1] /\ \A k \in 1 .. 1 + h : b[k] = a[k]
    BY <2>1, <2>2
  <2> QED
    BY <1>7, <1>8, <2>1, <2>2, <2>3
<1> HIDE DEF b
<1>12. /\ request \in Seq(AnyPiece) /\ Len(request) = 2 + h + n
       /\ \A k \in 1 .. 2 + h : request[k] = b[k]
       /\ \A k \in 3 + h .. 2 + h + n : request[k].kind = "byte"
  <2>1. request = b \o body
    BY <1>1 DEF a, b, body, Form
  <2>2. /\ b \o body \in Seq(AnyPiece) /\ Len(b \o body) = 2 + h + n
        /\ \A k \in 1 .. 2 + h + n : (b \o body)[k] = IF k <= 2 + h THEN b[k] ELSE body[k - (2 + h)]
    <3>1. b \in Seq(AnyPiece) /\ body \in Seq(AnyPiece) /\ Len(b) = 2 + h /\ Len(body) = n
      BY <1>6, <1>11
    <3>2. /\ b \o body \in Seq(AnyPiece) /\ Len(b \o body) = Len(b) + Len(body)
          /\ \A k \in 1 .. Len(b) + Len(body) :
               (b \o body)[k] = IF k <= Len(b) THEN b[k] ELSE body[k - Len(b)]
      BY <3>1, ConcatProperties
    <3> QED
      BY <3>1, <3>2
  <2>3. \A k \in 1 .. 2 + h : k \in 1 .. 2 + h + n /\ k <= 2 + h
    BY <1>2, <1>5
  <2>4. \A k \in 3 + h .. 2 + h + n : k \in 1 .. 2 + h + n /\ ~(k <= 2 + h) /\ k - (2 + h) \in 1 .. n
    BY <1>2, <1>5
  <2> QED
    BY <1>6, <2>1, <2>2, <2>3, <2>4
<1>13. DOMAIN request = 1 .. 2 + h + n
  BY <1>12, LenProperties
<1>14. /\ request[1].kind = line /\ request[2 + h].kind = "empty"
       /\ \A k \in 2 .. 1 + h : request[k].kind \in {"header", "content-length"}
  <2>1. 1 \in 1 .. 2 + h /\ 1 \in 1 .. 1 + h /\ 2 + h \in 1 .. 2 + h
    BY <1>5
  <2>2. \A k \in 2 .. 1 + h : k \in 1 .. 2 + h /\ k \in 1 .. 1 + h
    BY <1>5
  <2> QED
    BY <1>10, <1>11, <1>12, <2>1, <2>2
<1>15. EmptyAt(request) = 2 + h
  <2> DEFINE E(e) == request[e].kind = "empty"
  <2>1. 2 + h \in DOMAIN request /\ E(2 + h)
    BY <1>2, <1>5, <1>13, <1>14
  <2>2. \A e \in DOMAIN request : E(e) => e = 2 + h
    <3> SUFFICES ASSUME NEW e \in DOMAIN request, E(e)  PROVE e = 2 + h
      OBVIOUS
    <3>1. e = 1 \/ e \in 2 .. 1 + h \/ e = 2 + h \/ e \in 3 + h .. 2 + h + n
      BY <1>2, <1>5, <1>13
    <3> QED
      BY <1>12, <1>14, <3>1
  <2>3. EmptyAt(request) = CHOOSE e \in DOMAIN request : E(e)
    BY DEF EmptyAt
  <2> HIDE DEF E
  <2> QED
    BY <2>1, <2>2, <2>3
<1>16. 2 + h \in 2 .. Len(request) /\ 2 + h - 1 = 1 + h /\ 2 + h + 1 = 3 + h
  BY <1>2, <1>5, <1>12
<1> QED
  BY <1>12, <1>14, <1>15, <1>16 DEF WellFormed, AnyPiece, Kinds

\* The place of the largest element of a set of numbers
LEMMA LargestIs ==
  ASSUME NEW S, S \subseteq Int, NEW m \in S, \A k \in S : k <= m
  PROVE  (CHOOSE k \in S : \A j \in S : j <= k) = m
PROOF
<1> DEFINE Largest(x) == \A y \in S : y <= x
<1>1. Largest(m)
  OBVIOUS
<1>2. \A x \in S : Largest(x) => x = m
  BY SMT
<1>3. (CHOOSE k \in S : \A j \in S : j <= k) = CHOOSE k \in S : Largest(k)
  OBVIOUS
<1> HIDE DEF Largest
<1> QED
  BY <1>1, <1>2, <1>3

\* What counts after one more piece of the headers
LEMMA LengthStep ==
  ASSUME NEW p \in Nat
  PROVE  LengthUpTo(request, p + 1) = IF request[p + 1].kind = "content-length"
                               THEN request[p + 1].length ELSE LengthUpTo(request, p)
PROOF
<1>1. CASE request[p + 1].kind = "content-length"
  <2>1. p + 1 \in Lengths(request, p + 1) /\ Lengths(request, p + 1) \subseteq Int /\ \A k \in Lengths(request, p + 1) : k <= p + 1
    BY <1>1 DEF Lengths
  <2>2. (CHOOSE k \in Lengths(request, p + 1) : \A j \in Lengths(request, p + 1) : j <= k) = p + 1
    BY <2>1, LargestIs
  <2> QED
    BY <1>1, <2>1, <2>2 DEF LengthUpTo, LastLength
<1>2. CASE request[p + 1].kind # "content-length"
  <2>1. \A k \in 1 .. p + 1 : k \in 1 .. p \/ k = p + 1
    OBVIOUS
  <2>2. 1 .. p \subseteq 1 .. p + 1
    OBVIOUS
  <2>3. Lengths(request, p + 1) = Lengths(request, p)
    BY <1>2, <2>1, <2>2 DEF Lengths
  <2> QED
    BY <1>2, <2>3 DEF LengthUpTo
<1> QED
  BY <1>1, <1>2

\* The length announced is the one that counts at the end of the headers.
LEMMA AnnouncedIs ==
  ASSUME WellFormed(request)
  PROVE  /\ Http!Announced = LengthOf(request)
         /\ Cardinality(Http!Kind("byte")) = Len(request) - EmptyAt(request)
PROOF
<1> DEFINE e == EmptyAt(request)
           l == Len(request)
<1>1. /\ e \in 2 .. l /\ l \in Nat /\ DOMAIN request = 1 .. l
      /\ request[1].kind \in {"good", "bad"}
      /\ \A k \in 2 .. e - 1 : request[k].kind \in {"header", "content-length"}
      /\ request[e].kind = "empty"
      /\ \A k \in e + 1 .. l : request[k].kind = "byte"
  BY LenProperties DEF WellFormed
<1> HIDE DEF e, l
<1>2. \A k \in 1 .. l : k \in 1 .. e \/ k \in e + 1 .. l
  BY <1>1
<1>3. \A k \in 1 .. e : k = 1 \/ k = e \/ k \in 2 .. e - 1
  BY <1>1
<1>4. Http!Kind("content-length") = Lengths(request, e)
  <2>1. 1 .. e \subseteq 1 .. l
    BY <1>1
  <2> QED
    BY <1>1, <1>2, <2>1 DEF Http!Kind, Lengths
<1>5. Http!Announced = LengthUpTo(request, e)
  <2>1. Http!Announced = LastLength(request, Http!Kind("content-length"))
    BY DEF Http!Announced, LastLength
  <2> QED
    BY <1>4, <2>1 DEF LengthUpTo
<1>6. Http!Kind("byte") = e + 1 .. l
  <2>1. \A k \in 1 .. e : request[k].kind # "byte"
    BY <1>1, <1>3
  <2>2. e + 1 .. l \subseteq 1 .. l
    BY <1>1
  <2> QED
    BY <1>1, <1>2, <2>1, <2>2 DEF Http!Kind
<1>7. Cardinality(e + 1 .. l) = l - e
  <2>1. e + 1 \in Int /\ l \in Int
    BY <1>1
  <2>2. Cardinality(e + 1 .. l) = IF e + 1 > l THEN 0 ELSE l - (e + 1) + 1
    BY <2>1, FS_Interval
  <2>3. (IF e + 1 > l THEN 0 ELSE l - (e + 1) + 1) = l - e
    BY <1>1
  <2> QED
    BY <2>2, <2>3
<1> QED
  BY <1>5, <1>6, <1>7 DEF e, l, LengthOf

\* The server has accepted the connection and read nothing.
LEMMA HttpInitOK ==
  ASSUME Http!Init
  PROVE  HttpInv
PROOF
<1>1. /\ request \in Http!Requests /\ sent = 0 /\ client = "there" /\ inbox = << >> /\ at = "line"
      /\ contentLength = 0 /\ got = 0 /\ answer = 0 /\ reset = FALSE /\ outcome = "none"
  BY DEF Http!Init
<1>2. WellFormed(request)
  BY <1>1, RequestsAreWellFormed
<1>3. Len(request) \in Nat
  BY <1>2, LenProperties DEF WellFormed
<1>4. inbox \in Seq(AnyPiece) /\ Len(inbox) = 0
  BY <1>1
<1>5. HttpTypeOK
  <2>1. sent \in 0 .. Len(request) /\ contentLength \in Nat /\ got \in 0 .. contentLength
    BY <1>1, <1>3
  <2>2. reset \in BOOLEAN /\ ~reset
    BY <1>1
  <2> QED
    BY <1>1, <1>2, <2>1, <2>2 DEF HttpTypeOK
<1>6. Unread /\ Position = 0
  <2>1. sent = 0 /\ Len(inbox) = 0
    BY <1>1, <1>4
  <2>2. Position = 0 /\ Len(inbox) <= sent /\ 1 .. Len(inbox) = {}
    BY <2>1 DEF Position
  <2> QED
    BY <1>4, <2>2 DEF Unread
<1>7. Reading
  BY <1>1, <1>6 DEF Reading
<1> QED
  BY <1>1, <1>5, <1>6, <1>7 DEF HttpInv

\* Taking the next piece moves the server's position by one.
LEMMA TakeOK ==
  ASSUME HttpInv, NEW from \in {"line", "headers", "body"}, NEW kinds, Http!Take(from, kinds)
  PROVE  /\ at = from /\ Position \in 0 .. sent - 1 /\ Position' = Position + 1
         /\ Position + 1 \in 1 .. Len(request)
         /\ Unread' /\ Head(inbox) = request[Position + 1] /\ request[Position + 1].kind \in kinds
         /\ UNCHANGED <<request, sent, client, outcome, reset>>
PROOF
<1>1. /\ at = from /\ inbox # << >> /\ Head(inbox).kind \in kinds /\ inbox' = Tail(inbox)
      /\ UNCHANGED <<request, sent, client, outcome, reset>>
  BY DEF Http!Take, Http!ofClient
<1>2. /\ inbox \in Seq(AnyPiece) /\ Len(inbox) <= sent /\ sent \in 0 .. Len(request)
      /\ \A k \in 1 .. Len(inbox) : inbox[k] = request[Position + k]
  BY <1>1 DEF HttpInv, Unread, HttpTypeOK
<1> DEFINE l == Len(inbox)
           t == Tail(inbox)
<1>3. l \in Nat \ {0} /\ Len(request) \in Nat
  BY <1>1, <1>2, EmptySeq, LenProperties DEF HttpInv, HttpTypeOK, WellFormed
<1>4. /\ t \in Seq(AnyPiece) /\ Len(t) = l - 1
      /\ \A k \in 1 .. l - 1 : t[k] = inbox[k + 1]
  <2>1. t \in Seq(AnyPiece) /\ Len(t) = l - 1 /\ \A k \in 1 .. Len(t) : t[k] = inbox[k + 1]
    BY <1>1, <1>2, HeadTailProperties
  <2> QED
    BY <2>1
<1>5. Head(inbox) = inbox[1]
  BY <1>1, <1>2
<1> HIDE DEF t
<1>6. inbox' = t
  BY <1>1 DEF t
<1> DEFINE p == Position
<1>7. p = sent - l /\ p \in 0 .. sent - 1 /\ p + 1 \in 1 .. Len(request)
  BY <1>2, <1>3 DEF Position
<1>8. Position' = p + 1
  <2>1. Position' = sent - (l - 1)
    BY <1>1, <1>4, <1>6 DEF Position
  <2>2. sent - (l - 1) = sent - l + 1
    BY <1>2, <1>3
  <2> QED
    BY <1>7, <2>1, <2>2
<1>9. inbox[1] = request[p + 1] /\ \A k \in 1 .. l - 1 : inbox[k + 1] = request[p + (k + 1)]
  <2>1. 1 \in 1 .. l /\ \A k \in 1 .. l - 1 : k + 1 \in 1 .. l
    BY <1>3
  <2> QED
    BY <1>2, <2>1
<1>10. Unread'
  <2>1. \A k \in 1 .. l - 1 : t[k] = request[p + 1 + k]
    <3>1. \A k \in 1 .. l - 1 : p + (k + 1) = p + 1 + k
      BY <1>3, <1>7
    <3> QED
      BY <1>4, <1>9, <3>1
  <2>2. l - 1 <= sent
    BY <1>2, <1>3
  <2> HIDE DEF p
  <2> QED
    BY <1>1, <1>4, <1>6, <1>8, <2>1, <2>2 DEF Unread
<1> QED
  BY <1>1, <1>5, <1>7, <1>8, <1>9, <1>10

\* Each step of the server keeps the invariant.
LEMMA HttpServerOK ==
  ASSUME HttpInv, Http!Server
  PROVE  HttpInv'
PROOF
<1> DEFINE e == EmptyAt(request)
<1>0. /\ WellFormed(request) /\ e \in 2 .. Len(request) /\ Len(request) \in Nat
      /\ request \in Seq(AnyPiece)
      /\ sent \in 0 .. Len(request)
      /\ request[1].kind \in {"good", "bad"}
      /\ \A k \in 2 .. e - 1 : request[k].kind \in {"header", "content-length"}
      /\ request[e].kind = "empty"
      /\ \A k \in e + 1 .. Len(request) : request[k].kind = "byte"
  BY LenProperties DEF HttpInv, HttpTypeOK, WellFormed
<1> HIDE DEF e
<1>1. \A k \in 1 .. Len(request) : k = 1 \/ k \in 2 .. e - 1 \/ k = e \/ k \in e + 1 .. Len(request)
  BY <1>0
<1>2. CASE Http!RequestLine
  <2>1. /\ at = "line" /\ Position' = Position + 1 /\ Unread' /\ Head(inbox) = request[Position + 1]
        /\ request[Position + 1].kind \in {"good", "bad"}
        /\ UNCHANGED <<request, sent, client, outcome, reset, contentLength, got>>
    BY <1>2, TakeOK DEF Http!RequestLine
  <2>2. Position = 0 /\ answer = 0 /\ got = 0 /\ contentLength = 0
    BY <2>1 DEF HttpInv, Reading
  <2>3. Position' = 1 /\ Head(inbox) = request[1]
    BY <2>1, <2>2
  <2>4. CASE request[1].kind = "good" /\ at' = "headers" /\ answer' = answer
    <3>1. LengthUpTo(request, 1) = 0
      <4>1. Lengths(request, 1) = {}
        BY <2>4 DEF Lengths
      <4> QED
        BY <4>1 DEF LengthUpTo, LastLength
    <3>2. 1 \in 1 .. e - 1
      BY <1>0
    <3>3. Reading'
      BY <2>1, <2>2, <2>3, <2>4, <3>1, <3>2 DEF Reading, e
    <3>4. HttpTypeOK'
      BY <2>1, <2>4 DEF HttpInv, HttpTypeOK
    <3> QED
      BY <2>1, <2>4, <3>3, <3>4 DEF HttpInv
  <2>5. CASE request[1].kind = "bad" /\ at' = "close" /\ answer' = 400
    <3>1. Reading'
      BY <2>5 DEF Reading
    <3>2. HttpTypeOK'
      BY <2>1, <2>5 DEF HttpInv, HttpTypeOK
    <3>3. Answered'
      BY <2>1, <2>5 DEF Answered
    <3> QED
      BY <2>1, <2>5, <3>1, <3>2, <3>3 DEF HttpInv
  <2> QED
    BY <1>2, <2>1, <2>3, <2>4, <2>5 DEF Http!RequestLine
<1>3. CASE Http!Header \/ Http!ContentLength
  <2> DEFINE n == IF request[Position + 1].kind = "content-length"
                    THEN request[Position + 1].length ELSE contentLength
  <2>1. /\ at = "headers" /\ at' = at /\ Position' = Position + 1 /\ Unread'
        /\ Position \in 0 .. sent - 1 /\ Position + 1 \in 1 .. Len(request)
        /\ request[Position + 1].kind \in {"header", "content-length"}
        /\ contentLength' = n
        /\ UNCHANGED <<request, sent, client, outcome, reset, got, answer>>
    <3>1. CASE Http!Header
      BY <3>1, TakeOK DEF Http!Header, Http!ofServer
    <3>2. CASE Http!ContentLength
      BY <3>2, TakeOK DEF Http!ContentLength
    <3> QED
      BY <1>3, <3>1, <3>2
  <2>2. /\ Position \in 1 .. e - 1 /\ contentLength = LengthUpTo(request, Position)
        /\ got = 0 /\ answer = 0 /\ request[1].kind = "good"
    BY <2>1 DEF HttpInv, Reading, e
  <2>3. n = LengthUpTo(request, Position + 1)
    BY <2>2, LengthStep
  <2>4. Position + 1 \in 1 .. e - 1
    BY <1>0, <2>1, <2>2
  <2>5. n \in Nat
    <3>1. request[Position + 1] \in AnyPiece
      BY <1>0, <2>1, ElementOfSeq
    <3>2. request[Position + 1].length \in Nat
      BY <3>1 DEF AnyPiece
    <3>3. contentLength \in Nat
      BY DEF HttpInv, HttpTypeOK
    <3> QED
      BY <3>2, <3>3
  <2> HIDE DEF n
  <2>6. Reading'
    BY <2>1, <2>2, <2>3, <2>4 DEF Reading, e
  <2>7. HttpTypeOK'
    BY <2>1, <2>2, <2>5 DEF HttpInv, HttpTypeOK
  <2> QED
    BY <2>1, <2>6, <2>7 DEF HttpInv
<1>4. CASE Http!EndOfHeaders
  <2>1. /\ at = "headers" /\ at' = "body" /\ Position' = Position + 1 /\ Unread'
        /\ Position \in 0 .. sent - 1 /\ Position + 1 \in 1 .. Len(request)
        /\ request[Position + 1].kind = "empty"
        /\ UNCHANGED <<request, sent, client, outcome, reset, contentLength, got, answer>>
    BY <1>4, TakeOK DEF Http!EndOfHeaders
  <2>2. /\ Position \in 1 .. e - 1 /\ contentLength = LengthUpTo(request, Position)
        /\ got = 0 /\ answer = 0 /\ request[1].kind = "good"
    BY <2>1 DEF HttpInv, Reading, e
  <2>3. Position + 1 = e
    BY <1>0, <1>1, <2>1, <2>2
  <2>4. contentLength = LengthUpTo(request, e)
    <3>1. Position \in Nat /\ request[Position + 1].kind # "content-length"
      BY <1>0, <2>1, <2>2
    <3> QED
      BY <2>2, <2>3, <3>1, LengthStep
  <2>5. e + 0 = e
    BY <1>0
  <2>6. Reading'
    BY <2>1, <2>2, <2>3, <2>4, <2>5 DEF Reading, LengthOf, e
  <2>7. HttpTypeOK'
    BY <2>1 DEF HttpInv, HttpTypeOK
  <2> QED
    BY <2>1, <2>6, <2>7 DEF HttpInv
<1>5. CASE Http!ReadBody
  <2>1. /\ at = "body" /\ at' = at /\ Position' = Position + 1 /\ Unread' /\ got' = got + 1
        /\ got < contentLength
        /\ UNCHANGED <<request, sent, client, outcome, reset, contentLength, answer>>
    BY <1>5, TakeOK DEF Http!ReadBody
  <2>2. /\ Position = e + got /\ contentLength = LengthOf(request) /\ answer = 0
        /\ request[1].kind = "good"
    BY <2>1 DEF HttpInv, Reading, e
  <2>3. contentLength \in Nat /\ got \in 0 .. contentLength
    BY DEF HttpInv, HttpTypeOK
  <2>4. Position + 1 = e + (got + 1) /\ got + 1 \in 0 .. contentLength
    BY <1>0, <2>1, <2>2, <2>3
  <2>5. Reading'
    BY <2>1, <2>2, <2>4 DEF Reading, e
  <2>6. HttpTypeOK'
    BY <2>1, <2>4 DEF HttpInv, HttpTypeOK
  <2> QED
    BY <2>1, <2>5, <2>6 DEF HttpInv
<1>6. CASE Http!ReadFails
  <2>1. /\ at \in {"line", "headers", "body"} /\ at' = "close" /\ client = "gone"
        /\ UNCHANGED <<request, sent, client, outcome, reset, contentLength, got, answer, inbox>>
    BY <1>6 DEF Http!ReadFails, Http!ofClient
  <2>2. answer = 0 /\ outcome = "none"
    BY <2>1 DEF HttpInv, Reading, HttpTypeOK
  <2>3. Reading'
    BY <2>1, <2>2 DEF Reading
  <2>4. HttpTypeOK' /\ Unread'
    BY <2>1 DEF HttpInv, HttpTypeOK, Unread, Position
  <2>5. Answered'
    BY <2>1, <2>2 DEF Answered
  <2> QED
    BY <2>1, <2>3, <2>4, <2>5 DEF HttpInv
<1>7. CASE Http!Answer
  <2>1. /\ at = "body" /\ at' = "close" /\ answer' = 200 /\ got = contentLength
        /\ UNCHANGED <<request, sent, client, outcome, reset, contentLength, got, inbox>>
    BY <1>7 DEF Http!Answer, Http!ofClient
  <2>2. /\ Position = e + contentLength /\ contentLength = LengthOf(request)
        /\ request[1].kind = "good"
    BY <2>1 DEF HttpInv, Reading, e
  <2>3. Position' = Position
    BY <2>1 DEF Position
  <2>4. Reading'
    BY <2>1, <2>2, <2>3 DEF Reading, e
  <2>5. HttpTypeOK' /\ Unread'
    BY <2>1 DEF HttpInv, HttpTypeOK, Unread, Position
  <2>6. ~reset /\ inbox \in Seq(AnyPiece) /\ Len(inbox) \in Nat /\ contentLength \in Nat
    BY <2>1, LenProperties DEF HttpInv, HttpTypeOK, Unread
  <2>7. e + contentLength <= sent
    BY <1>0, <2>2, <2>6 DEF Position
  <2>8. Answered'
    BY <2>1, <2>2, <2>6, <2>7 DEF Answered, e
  <2> QED
    BY <2>1, <2>4, <2>5, <2>8 DEF HttpInv
<1>8. CASE Http!Close
  <2>1. /\ at = "close" /\ at' = "closed" /\ reset' \in {FALSE, inbox # << >>}
        /\ UNCHANGED <<request, sent, client, outcome, contentLength, got, answer, inbox>>
    BY <1>8 DEF Http!Close, Http!ofClient
  <2>2. ~reset /\ outcome = "none" /\ Answered /\ contentLength \in Nat
    BY <2>1 DEF HttpInv, HttpTypeOK
  <2>3. answer = 200 => Position = e + contentLength
    BY <2>1 DEF HttpInv, Reading, e
  <2>4. inbox \in Seq(AnyPiece) /\ Len(inbox) \in Nat /\ (inbox # << >> => Len(inbox) > 0)
    BY <2>1, LenProperties, EmptySeq DEF HttpInv, Unread
  <2>5. answer = 200 /\ reset' => e + contentLength < sent
    <3>1. reset' => Len(inbox) > 0
      BY <2>1, <2>4
    <3>2. answer = 200 => sent - Len(inbox) = e + contentLength
      BY <2>3 DEF Position
    <3>3. e \in Int /\ sent \in Int /\ contentLength \in Int /\ Len(inbox) \in Int
      BY <1>0, <2>2, <2>4
    <3> QED
      BY <3>1, <3>2, <3>3
  <2>6. Answered'
    BY <2>1, <2>2, <2>5 DEF Answered, e
  <2>7. Reading'
    BY <2>1 DEF Reading
  <2>8. HttpTypeOK'
    BY <2>1, <2>2 DEF HttpInv, HttpTypeOK
  <2> QED
    BY <2>1, <2>2, <2>6, <2>7, <2>8 DEF HttpInv
<1> QED
  BY <1>2, <1>3, <1>4, <1>5, <1>6, <1>7, <1>8 DEF Http!Server

\* Each step of the client keeps the invariant.
LEMMA HttpClientOK ==
  ASSUME HttpInv, Http!Client \/ Http!GoAway
  PROVE  HttpInv'
PROOF
<1> DEFINE e == EmptyAt(request)
<1>0. /\ request \in Seq(AnyPiece) /\ e \in Nat /\ Len(request) \in Nat /\ sent \in 0 .. Len(request)
      /\ contentLength \in Nat
  BY LenProperties DEF HttpInv, HttpTypeOK, WellFormed
<1> HIDE DEF e
<1>1. CASE Http!Send
  <2>1. /\ client = "there" /\ outcome = "none" /\ sent < Len(request) /\ sent' = sent + 1
        /\ inbox' = IF at = "closed" THEN inbox ELSE Append(inbox, request[sent'])
        /\ reset' = (reset \/ at = "closed")
        /\ UNCHANGED <<at, contentLength, got, answer, request, client, outcome>>
    BY <1>1 DEF Http!Send, Http!ofServer
  <2>2. sent' \in 1 .. Len(request) /\ sent' > sent
    BY <1>0, <2>1
  <2>3. HttpTypeOK'
    <3>1. sent' \in 0 .. Len(request)
      BY <2>2
    <3>2. reset' \in BOOLEAN /\ (at # "closed" => ~reset')
      BY <2>1 DEF HttpInv, HttpTypeOK
    <3> QED
      BY <2>1, <3>1, <3>2 DEF HttpInv, HttpTypeOK
  <2>4. at # "closed" => Unread' /\ Position' = Position
    <3> SUFFICES ASSUME at # "closed"  PROVE Unread' /\ Position' = Position
      OBVIOUS
    <3> DEFINE l == Len(inbox)
               r == request[sent']
               b == Append(inbox, r)
    <3>1. /\ inbox \in Seq(AnyPiece) /\ l \in Nat /\ l <= sent
          /\ \A k \in 1 .. l : inbox[k] = request[Position + k]
      BY LenProperties DEF HttpInv, Unread
    <3>2. r \in AnyPiece
      BY <1>0, <2>2, ElementOfSeq
    <3>3. b \in Seq(AnyPiece) /\ Len(b) = l + 1 /\ (\A k \in 1 .. l : b[k] = inbox[k]) /\ b[l + 1] = r
      BY <3>1, <3>2, AppendProperties
    <3>4. inbox' = b
      BY <2>1
    <3> HIDE DEF b
    <3>5. Position = sent - l
      BY DEF Position
    <3>6. Position' = Position
      <4> DEFINE m == Len(inbox')
                 now == Position'
      <4>1. sent' = sent + 1 /\ m = l + 1
        BY <2>1, <3>3, <3>4
      <4>2. now = sent' - m
        BY DEF Position
      <4> HIDE DEF l, m, now
      <4>3. now = sent - l
        BY <1>0, <3>1, <4>1, <4>2
      <4> QED
        BY <3>5, <4>3 DEF now
    <3>7. Position + (l + 1) = sent'
      BY <1>0, <2>1, <3>1, <3>5
    <3>8. \A k \in 1 .. l + 1 : k \in 1 .. l \/ k = l + 1
      BY <3>1
    <3>9. \A k \in 1 .. l + 1 : b[k] = request[Position + k]
      BY <3>1, <3>3, <3>7, <3>8
    <3>10. l + 1 <= sent'
      BY <1>0, <2>1, <3>1
    <3> QED
      BY <2>1, <3>3, <3>4, <3>6, <3>9, <3>10 DEF Unread
  <2>5. Reading'
    <3>1. CASE at = "closed"
      BY <2>1, <3>1 DEF Reading
    <3>2. CASE at # "closed"
      BY <2>1, <2>4, <3>2 DEF HttpInv, Reading
    <3> QED
      BY <3>1, <3>2
  <2>6. at \in {"close", "closed"} => Answered'
    <3> SUFFICES ASSUME Answered  PROVE Answered'
      BY DEF HttpInv
    <3>1. e + contentLength <= sent => e + contentLength < sent' /\ e + contentLength <= sent'
      BY <1>0, <2>1
    <3> QED
      BY <2>1, <3>1 DEF Answered, e
  <2>7. outcome' = "none"
    BY <2>1
  <2> QED
    BY <2>1, <2>3, <2>4, <2>5, <2>6, <2>7 DEF HttpInv
<1>2. CASE Http!Receive
  <2>1. /\ client = "there" /\ outcome = "none" /\ at = "closed"
        /\ outcome' = "answered" \/ (reset /\ outcome' = "reset")
        /\ UNCHANGED <<at, contentLength, got, answer, request, sent, client, inbox, reset>>
    BY <1>2 DEF Http!Receive, Http!ofServer
  <2>2. HttpTypeOK'
    BY <2>1 DEF HttpInv, HttpTypeOK
  <2>3. Reading'
    BY <2>1 DEF Reading
  <2>4. Answered'
    BY <2>1 DEF HttpInv, Answered
  <2> QED
    BY <2>1, <2>2, <2>3, <2>4 DEF HttpInv
<1>3. CASE Http!GoAway
  <2>1. /\ client = "there" /\ outcome = "none" /\ client' = "gone"
        /\ UNCHANGED <<at, contentLength, got, answer, request, sent, outcome, inbox, reset>>
    BY <1>3 DEF Http!GoAway, Http!ofServer
  <2>2. HttpTypeOK'
    BY <2>1 DEF HttpInv, HttpTypeOK
  <2>3. Position' = Position
    BY <2>1 DEF Position
  <2>4. Reading' /\ (at # "closed" => Unread')
    BY <2>1, <2>3 DEF HttpInv, Reading, Unread
  <2>5. at \in {"close", "closed"} => Answered'
    BY <2>1 DEF HttpInv, Answered
  <2> QED
    BY <2>1, <2>2, <2>4, <2>5 DEF HttpInv
<1> QED
  BY <1>1, <1>2, <1>3 DEF Http!Client

\* What the client of the HTTP server has got is what it deserves.
LEMMA HttpIsRight ==
  ASSUME HttpInv
  PROVE  Http!AnswersAreRight
PROOF
<1>1. /\ WellFormed(request) /\ sent \in 0 .. Len(request) /\ contentLength \in Nat
      /\ Len(request) \in Nat /\ EmptyAt(request) \in Nat
  BY LenProperties DEF HttpInv, HttpTypeOK, WellFormed
<1>2. /\ Http!Announced = LengthOf(request)
      /\ Http!Cardinality(Http!Kind("byte")) = Len(request) - EmptyAt(request)
  <2>1. Http!Cardinality(Http!Kind("byte")) = Cardinality(Http!Kind("byte"))
    BY DEF Http!Cardinality, Cardinality
  <2> QED
    BY <1>1, <2>1, AnnouncedIs
<1>3. Http!Bad <=> request[1].kind = "bad"
  BY DEF Http!Bad
<1>4. outcome # "none" => Answered
  BY DEF HttpInv, HttpTypeOK
<1>5. CASE outcome = "answered"
  <2>1. (answer = 400 /\ Http!Bad) \/ (answer = 200 /\ ~Http!Bad /\ ~Http!Short)
    <3>1. CASE answer = 400 /\ Http!Bad
      BY <3>1
    <3>2. CASE answer = 200 /\ request[1].kind = "good"
      <4>1. contentLength = LengthOf(request) /\ EmptyAt(request) + contentLength <= sent
        BY <1>4, <1>5, <3>2 DEF Answered
      <4>2. ~(Len(request) - EmptyAt(request) < contentLength)
        BY <1>1, <4>1
      <4> QED
        BY <1>2, <1>3, <3>2, <4>1, <4>2 DEF Http!Short
    <3> QED
      BY <1>3, <1>4, <1>5, <3>1, <3>2 DEF Answered
  <2> QED
    BY <1>5, <2>1 DEF Http!AnswersAreRight
<1>6. CASE outcome = "reset"
  <2>1. reset
    BY <1>6 DEF HttpInv
  <2>2. Http!Bad \/ Http!Cardinality(Http!Kind("byte")) > Http!Announced
    <3>1. CASE request[1].kind = "bad"
      BY <1>3, <3>1
    <3>2. CASE request[1].kind # "bad"
      <4>1. contentLength = LengthOf(request) /\ EmptyAt(request) + contentLength < sent
        BY <1>4, <1>6, <2>1, <3>2 DEF Answered
      <4>2. Len(request) - EmptyAt(request) > contentLength
        BY <1>1, <4>1
      <4> QED
        BY <1>2, <4>1, <4>2
    <3> QED
      BY <3>1, <3>2
  <2> QED
    BY <1>6, <2>2 DEF Http!AnswersAreRight
<1>7. CASE outcome = "none"
  BY <1>7 DEF Http!AnswersAreRight
<1> QED
  BY <1>5, <1>6, <1>7 DEF HttpInv, HttpTypeOK

-------------------------------------------------------------------------------
(* All of them                                                             *)

\* The invariant holds at first, and what the programs promise begins there.
LEMMA InitOK ==
  TransportsInit => Inv /\ TcpPromise!Init /\ UdpPromise!Init /\ EchoPromise!Init
PROOF
<1> SUFFICES ASSUME TransportsInit
             PROVE  Inv /\ TcpPromise!Init /\ UdpPromise!Init /\ EchoPromise!Init
  OBVIOUS
<1>1. program \in {"tcp", "echo", "udp", "http"} /\ Init /\ UdpInit /\ Http!Init
  BY DEF TransportsInit
<1>2. i = 0 /\ received = << >> /\ echoed = << >> /\ errors = {} /\ outcome = "none"
  BY <1>1 DEF Init, UdpInit, Http!Init
<1>3. Typed /\ TcpInv /\ EchoInv /\ UdpInv /\ HttpInv
  BY <1>1, <1>2, StreamInit, UdpInitOK, HttpInitOK
<1>4. Inv
  BY <1>1, <1>2, <1>3 DEF Inv
<1>5. TcpPromise!Init /\ UdpPromise!Init /\ EchoPromise!Init
  BY <1>2 DEF TcpPromise!Init, UdpPromise!Init, EchoPromise!Init
<1> QED
  BY <1>4, <1>5

\* Each step keeps the invariant and is a step of what the program promises.
LEMMA StepOK ==
  ASSUME Inv, [Next]_all
  PROVE  /\ Inv'
         /\ program = "tcp" => [TcpPromise!Next]_(TcpPromise!vars)
         /\ program = "udp" => [UdpPromise!Next]_(UdpPromise!vars)
         /\ program = "echo" => [EchoPromise!Next]_(EchoPromise!vars)
PROOF
<1>1. CASE OnlyTcp /\ (TcpServer \/ TcpClient)
  <2>1. program = "tcp" /\ program' = program /\ UNCHANGED <<errors, outcome>>
    BY <1>1 DEF OnlyTcp, datagrams, serving
  <2>2. Typed' /\ TcpInv' /\ [TcpPromise!Next]_(TcpPromise!vars)
    BY <1>1, <2>1, TcpStepOK DEF Inv
  <2> QED
    BY <2>1, <2>2 DEF Inv
<1>2. CASE OnlyEcho /\ (EchoServer \/ EchoClient)
  <2>1. program = "echo" /\ program' = program /\ UNCHANGED <<errors, outcome>>
    BY <1>2 DEF OnlyEcho, datagrams, serving
  <2>2. Typed' /\ EchoInv' /\ [EchoPromise!Next]_(EchoPromise!vars)
    BY <1>2, <2>1, EchoStepOK DEF Inv
  <2> QED
    BY <2>1, <2>2 DEF Inv
<1>3. CASE OnlyUdp /\ (UdpServer \/ UdpClient)
  <2>1. program = "udp" /\ program' = program /\ UNCHANGED outcome
    BY <1>3 DEF OnlyUdp, serving
  <2>2. UdpInv' /\ [UdpPromise!Next]_(UdpPromise!vars)
    BY <1>3, <2>1, UdpStepOK DEF Inv
  <2> QED
    BY <2>1, <2>2 DEF Inv
<1>4. CASE OnlyHttp /\ (Http!Server \/ Http!Client \/ Http!GoAway)
  <2>1. program = "http" /\ program' = program /\ UNCHANGED errors
    BY <1>4 DEF OnlyHttp, datagrams
  <2>2. HttpInv'
    BY <1>4, <2>1, HttpServerOK, HttpClientOK DEF Inv
  <2> QED
    BY <2>1, <2>2 DEF Inv
<1>5. CASE UNCHANGED all
  <2>1. UNCHANGED <<program, up, i, received, hpc, cpc, wire, buf, echoed>>
    BY <1>5 DEF all, counters, stream, connection
  <2>2. UNCHANGED <<refused, sock, errors, missed, early>>
    BY <1>5 DEF all, datagrams
  <2>3. UNCHANGED <<request, sent, client, inbox, at, contentLength, got, answer, reset, outcome>>
    BY <1>5 DEF all, serving
  <2>4. Typed => Typed'
    BY <2>1 DEF Typed
  <2>5. (TcpInv => TcpInv') /\ (EchoInv => EchoInv')
    BY <2>1 DEF TcpInv, EchoInv
  <2>6. UdpInv => UdpInv'
    BY <2>1, <2>2 DEF UdpInv, Increasing
  <2>7. HttpInv => HttpInv'
    <3>1. HttpTypeOK => HttpTypeOK'
      BY <2>3 DEF HttpTypeOK
    <3>2. Position' = Position
      BY <2>3 DEF Position
    <3>3. (Unread => Unread') /\ (Reading => Reading') /\ (Answered => Answered')
      BY <2>3, <3>2 DEF Unread, Reading, Answered
    <3> QED
      BY <2>3, <3>1, <3>3 DEF HttpInv
  <2>8. UNCHANGED TcpPromise!vars /\ UNCHANGED UdpPromise!vars /\ UNCHANGED EchoPromise!vars
    BY <2>1 DEF TcpPromise!vars, UdpPromise!vars, EchoPromise!vars
  <2> QED
    BY <2>1, <2>2, <2>3, <2>4, <2>5, <2>6, <2>7, <2>8 DEF Inv
<1> QED
  BY <1>1, <1>2, <1>3, <1>4, <1>5 DEF Next, Server, Client, GoAway, Blocked

\* The invariant holds of every run.
THEOREM TransportsInvariant == Spec => []Inv
PROOF
<1>1. Inv /\ [Next]_all => Inv'
  BY StepOK
<1> QED
  BY <1>1, InitOK, PTL DEF Spec

\* Whatever the client of udp.go or of the HTTP server is told is true.
THEOREM AllAreToldTheTruth == Spec => []ToldTheTruth
PROOF
<1>1. Inv => ToldTheTruth
  <2> SUFFICES ASSUME Inv  PROVE ToldTheTruth
    OBVIOUS
  <2>1. \A n \in errors : early /\ n > 0 /\ n - 1 \in missed /\ n \notin missed
    BY DEF Inv, UdpInv
  <2>2. Http!AnswersAreRight
    <3>1. CASE program = "http"
      BY <3>1, HttpIsRight DEF Inv
    <3>2. CASE program # "http"
      BY <3>2 DEF Inv, Http!AnswersAreRight
    <3> QED
      BY <3>1, <3>2
  <2> QED
    BY <2>1, <2>2 DEF ToldTheTruth
<1> QED
  BY <1>1, TransportsInvariant, PTL

\* tcp.go delivers every message once and in order, udp.go what it delivers, and
\* echo.go answers every line in its turn.
THEOREM PromisesAreKept == Spec => ImplementsPromise
PROOF
<1> DEFINE Promised ==
             /\ program = "tcp" => [TcpPromise!Next]_(TcpPromise!vars)
             /\ program = "udp" => [UdpPromise!Next]_(UdpPromise!vars)
             /\ program = "echo" => [EchoPromise!Next]_(EchoPromise!vars)
<1>1. Inv /\ [Next]_all => [Promised]_all
  BY StepOK
<1> HIDE DEF Promised
<1>2. Spec => [][Promised]_all
  BY <1>1, TransportsInvariant, PTL DEF Spec
<1>3. Spec => TcpPromise!Init /\ UdpPromise!Init /\ EchoPromise!Init
  BY InitOK, PTL DEF Spec
<1> USE DEF Promised
<1>4. Spec => ImplementsPromise
  BY <1>2, <1>3, PTL DEF ImplementsPromise
<1> QED
  BY <1>4
===============================================================================
