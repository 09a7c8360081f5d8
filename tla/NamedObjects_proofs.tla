--------------------------- MODULE NamedObjects_proofs ---------------------------
(***************************************************************************)
(* What holds of the programs that meet through named objects for every    *)
(* number of iterations, runs and interruptions, and, for                  *)
(* priority_queue.c, every machine that is prompt enough.                  *)
(***************************************************************************)
EXTENDS NamedObjects, SequenceTheorems, TLAPS

-------------------------------------------------------------------------------
(* queue.c                                                                 *)

Texts == Nat \X Nat

\* s holds the pings of run r from number k on.
PingsFrom(r, k, s) == \A n \in 1 .. Len(s) : s[n] = <<r, k + n - 1>>

QueueTypeOK ==
  /\ run \in Nat /\ ci \in Nat /\ si \in Nat
  /\ queue \in [Mq!Queues -> Seq(Texts)]
  /\ heard \in Seq(Texts) /\ answers \in Seq(Texts)

\* How the processes of one run stand to each other, whatever is in the queues.
QueueProcesses ==
  /\ cpc = "off" => spc = "off" /\ ci = 0 /\ si = 0 /\ heard = << >> /\ answers = << >>
  /\ cpc \in {"open_c2s", "open_s2c"} => ci = 0
  /\ spc = "unlink_s2c" => "c2s" \notin names
  /\ cpc # "off" /\ spc = "off" => names = {}
  /\ names \subseteq Mq!Queues

\* A process that may send owes no more than the one message its run brought in.
QueueTokens ==
  Len(queue["c2s"]) + Len(queue["s2c"]) + (IF spc = "send" THEN 1 ELSE 0)
    + (IF cpc \in {"open_c2s", "open_s2c", "send"} THEN 1 ELSE 0) <= run

\* After a clean end everything that is about is of this run and in order.
QueueInOrder ==
  clean =>
    /\ Len(heard) = si + (IF spc = "send" THEN 1 ELSE 0)
    /\ Len(answers) = ci /\ ci + Len(queue["s2c"]) = si
    /\ IF cpc \in {"off", "open_c2s", "open_s2c", "send"}
         THEN Len(heard) + Len(queue["c2s"]) = ci
         ELSE Len(heard) + Len(queue["c2s"]) <= ci + 1
    /\ PingsFrom(run, 0, heard) /\ PingsFrom(run, 0, answers)
    /\ PingsFrom(run, Len(heard), queue["c2s"])
    /\ PingsFrom(run, ci, queue["s2c"])

\* Before the server answers it has heard a question.
HeardSomething == spc = "send" => heard # << >>

QueueInv == QueueTypeOK /\ QueueProcesses /\ HeardSomething /\ QueueTokens /\ QueueInOrder

\* A sequence of pings grows by the next one.
LEMMA PingsAppend ==
  ASSUME NEW r \in Nat, NEW k \in Nat, NEW s \in Seq(Texts), PingsFrom(r, k, s)
  PROVE  /\ PingsFrom(r, k, Append(s, <<r, k + Len(s)>>))
         /\ Append(s, <<r, k + Len(s)>>) \in Seq(Texts)
         /\ Len(Append(s, <<r, k + Len(s)>>)) = Len(s) + 1
PROOF
<1> DEFINE x == <<r, k + Len(s)>>
<1>1. x \in Texts /\ Len(s) \in Nat
  BY DEF Texts
<1>2. Append(s, x) \in Seq(Texts) /\ Len(Append(s, x)) = Len(s) + 1
  BY <1>1
<1>3. ASSUME NEW n \in 1 .. Len(Append(s, x))
      PROVE  Append(s, x)[n] = <<r, k + n - 1>>
  <2>1. CASE n = Len(s) + 1
    BY <1>1, <2>1
  <2>2. CASE n # Len(s) + 1
    <3>1. n \in 1 .. Len(s)
      BY <1>2, <2>2
    <3> QED
      BY <1>1, <3>1 DEF PingsFrom
  <2> QED
    BY <2>1, <2>2
<1> QED
  BY <1>2, <1>3 DEF PingsFrom

\* ... and its head is its first one, after which the rest goes on.
LEMMA PingsTail ==
  ASSUME NEW r \in Nat, NEW k \in Nat, NEW s \in Seq(Texts), PingsFrom(r, k, s), s # << >>
  PROVE  Head(s) = <<r, k>> /\ PingsFrom(r, k + 1, Tail(s))
PROOF
<1>1. Len(s) \in Nat \ {0} /\ Tail(s) \in Seq(Texts) /\ Len(Tail(s)) = Len(s) - 1
  BY EmptySeq, HeadTailProperties
<1>2. Head(s) = <<r, k>>
  <2>1. Head(s) = s[1] /\ 1 \in 1 .. Len(s) /\ k + 1 - 1 = k
    BY <1>1
  <2> QED
    BY <2>1 DEF PingsFrom
<1>3. ASSUME NEW n \in 1 .. Len(Tail(s))
      PROVE  Tail(s)[n] = <<r, (k + 1) + n - 1>>
  <2>1. n + 1 \in 1 .. Len(s) /\ Tail(s)[n] = s[n + 1] /\ k + (n + 1) - 1 = (k + 1) + n - 1
    BY <1>1, HeadTailProperties
  <2> QED
    BY <2>1 DEF PingsFrom
<1> QED
  BY <1>2, <1>3 DEF PingsFrom

\* No text at all is any sequence of pings.
LEMMA NoPings == \A r, k : PingsFrom(r, k, << >>)
  BY DEF PingsFrom

\* fork() brings one message into the program: the client's turn to send.
LEMMA QueueStartOK == QueueInv /\ Mq!Start => QueueInv'
PROOF
<1> SUFFICES ASSUME QueueInv, Mq!Start PROVE QueueInv'
  OBVIOUS
<1> USE DEF QueueInv, Mq!Start, Mq!mqueues
<1>1. QueueTypeOK'
  BY DEF QueueTypeOK
<1>2. QueueProcesses' /\ heard = << >> /\ answers = << >> /\ ci = 0 /\ si = 0
  BY DEF QueueProcesses
<1>3. QueueTokens'
  BY <1>2 DEF QueueTokens, QueueTypeOK, QueueProcesses, Mq!Queues
<1>4. ASSUME clean PROVE Len(queue["c2s"]) = 0 /\ Len(queue["s2c"]) = 0
  BY <1>2, <1>4 DEF QueueInOrder, QueueTypeOK, Mq!Queues
<1>5. ASSUME clean PROVE queue["c2s"] = << >> /\ queue["s2c"] = << >>
  BY <1>4, <1>5, EmptySeq DEF QueueTypeOK, Mq!Queues
<1>6. QueueInOrder'
  BY <1>2, <1>5, NoPings DEF QueueInOrder
<1>7. HeardSomething'
  BY <1>2 DEF HeardSomething, QueueProcesses
<1> QED
  BY <1>1, <1>2, <1>3, <1>6, <1>7

\* However a run ends, what is left in the queues was about before.
LEMMA GoneOK ==
  ASSUME QueueInv, Mq!Gone, cpc # "off"
  PROVE  QueueTypeOK' /\ QueueProcesses' /\ HeardSomething' /\ QueueTokens'
PROOF
<1> USE DEF QueueInv, Mq!Gone
<1>1. QueueTypeOK'
  BY DEF QueueTypeOK
<1>2. QueueProcesses'
  BY DEF QueueProcesses
<1>3. \A q \in Mq!Queues :
        Len(queue'[q]) \in Int /\ Len(queue[q]) \in Int /\ Len(queue'[q]) <= Len(queue[q])
  <2>1. \A q \in Mq!Queues : queue'[q] \in {queue[q], << >>} /\ queue[q] \in Seq(Texts)
    BY DEF QueueTypeOK
  <2> QED
    BY <2>1, LenProperties, EmptySeq
<1>4. QueueTokens'
  <2>1. /\ Len(queue["c2s"]) \in Int /\ Len(queue["s2c"]) \in Int /\ run \in Int
        /\ Len(queue'["c2s"]) \in Int /\ Len(queue'["s2c"]) \in Int
        /\ Len(queue'["c2s"]) <= Len(queue["c2s"]) /\ Len(queue'["s2c"]) <= Len(queue["s2c"])
    BY <1>3 DEF Mq!Queues, QueueTypeOK
  <2>3. (IF spc = "send" THEN 1 ELSE 0) \in 0 .. 1
        /\ (IF cpc \in {"open_c2s", "open_s2c", "send"} THEN 1 ELSE 0) \in 0 .. 1
    OBVIOUS
  <2>4. Len(queue'["c2s"]) + Len(queue'["s2c"]) + 0 + 0 <= run
    <3> DEFINE k == Len(queue["c2s"])
               l == Len(queue["s2c"])
               m == Len(queue'["c2s"])
               n == Len(queue'["s2c"])
               a == IF spc = "send" THEN 1 ELSE 0
               b == IF cpc \in {"open_c2s", "open_s2c", "send"} THEN 1 ELSE 0
    <3>1. k + l + a + b <= run
      BY DEF QueueTokens
    <3>2. k \in Int /\ l \in Int /\ m \in Int /\ n \in Int /\ run \in Int /\ m <= k /\ n <= l
      BY <2>1
    <3>3. a \in 0 .. 1 /\ b \in 0 .. 1
      BY <2>3
    <3> HIDE DEF k, l, m, n, a, b
    <3>4. m + n + 0 + 0 <= run
      BY <3>1, <3>2, <3>3
    <3> QED
      BY <3>4 DEF m, n
  <2> QED
    BY <2>4 DEF QueueTokens
<1> QED
  BY <1>1, <1>2, <1>4 DEF HeardSomething

\* Ctrl-C
LEMMA QueueInterruptOK == QueueInv /\ Mq!Interrupt => QueueInv'
  BY GoneOK DEF Mq!Interrupt, QueueInv, QueueInOrder

\* A run that ends by itself leaves no names, and nothing in the queues.
LEMMA QueueReapOK == QueueInv /\ Mq!Reap => QueueInv'
PROOF
<1> SUFFICES ASSUME QueueInv, Mq!Reap PROVE QueueInv'
  OBVIOUS
<1>1. QueueTypeOK' /\ QueueProcesses' /\ HeardSomething' /\ QueueTokens'
  BY GoneOK DEF Mq!Reap
<1>2. names = {}
  BY DEF Mq!Reap, QueueInv, QueueProcesses
<1>3. queue'["c2s"] = << >> /\ queue'["s2c"] = << >>
  BY <1>2 DEF Mq!Reap, Mq!Gone, Mq!Queues
<1>4. QueueInOrder'
  BY <1>3, NoPings DEF Mq!Reap, Mq!Gone, QueueInOrder
<1> QED
  BY <1>1, <1>4 DEF QueueInv

\* mq_open and mq_unlink of the server, mq_open of the client
LEMMA QueueNamesOK ==
  QueueInv /\ (Mq!ServerOpen \/ Mq!ServerUnlink \/ Mq!ClientOpen) => QueueInv'
PROOF
<1> SUFFICES ASSUME QueueInv, Mq!ServerOpen \/ Mq!ServerUnlink \/ Mq!ClientOpen
             PROVE  QueueInv'
  OBVIOUS
<1> USE DEF QueueInv, Mq!ServerOpen, Mq!ServerUnlink, Mq!ClientOpen, Mq!Server, Mq!Client,
            Mq!client, Mq!server, Mq!mqueues
<1>1. QueueTypeOK'
  BY DEF QueueTypeOK
<1>2. QueueProcesses'
  BY DEF QueueProcesses, Mq!Queues
<1>3. QueueTokens'
  BY DEF QueueTokens
<1>4. QueueInOrder'
  BY DEF QueueInOrder
<1>5. HeardSomething'
  BY DEF HeardSomething
<1> QED
  BY <1>1, <1>2, <1>3, <1>4, <1>5

\* mq_receive and printf of the server
LEMMA QueueServerReceiveOK == QueueInv /\ Mq!ServerReceive => QueueInv'
PROOF
<1> SUFFICES ASSUME QueueInv, Mq!ServerReceive PROVE QueueInv'
  OBVIOUS
<1> DEFINE c == queue["c2s"]
           s == queue["s2c"]
<1>1. /\ c \in Seq(Texts) /\ s \in Seq(Texts) /\ c # << >>
      /\ spc = "receive" /\ spc' = "send" /\ heard' = Append(heard, Head(c))
      /\ queue' = [queue EXCEPT !["c2s"] = Tail(c)]
      /\ UNCHANGED <<run, names, cpc, ci, cfd, answers, si, clean>>
  BY DEF QueueInv, QueueTypeOK, Mq!ServerReceive, Mq!Server, Mq!client, Mq!Queues
<1>2. Len(c) \in Nat /\ Len(s) \in Nat /\ Tail(c) \in Seq(Texts) /\ Len(Tail(c)) = Len(c) - 1
      /\ Head(c) \in Texts
  BY <1>1, EmptySeq, HeadTailProperties
<1>3. queue'["c2s"] = Tail(c) /\ queue'["s2c"] = s
  BY <1>1 DEF QueueInv, QueueTypeOK, Mq!Queues
<1>4. QueueTypeOK'
  <2>1. heard' \in Seq(Texts) /\ queue' \in [Mq!Queues -> Seq(Texts)]
    <3>1. heard \in Seq(Texts) /\ queue \in [Mq!Queues -> Seq(Texts)]
      BY DEF QueueInv, QueueTypeOK
    <3>2. heard' \in Seq(Texts)
      BY <1>1, <1>2, <3>1, AppendProperties
    <3> HIDE DEF c
    <3> QED
      BY <1>1, <1>2, <3>1, <3>2
  <2> QED
    BY <1>1, <2>1 DEF QueueInv, QueueTypeOK
<1>5. QueueProcesses'
  BY <1>1 DEF QueueInv, QueueProcesses
<1>6. QueueTokens'
  <2> HIDE DEF c, s
  <2>1. Len(c) + Len(s) + 0 = Len(Tail(c)) + Len(s) + 1
    <3>1. \A m, n \in Int : m + n + 0 = (m - 1) + n + 1
      OBVIOUS
    <3> QED
      BY <1>2, <3>1
  <2>2. Len(queue'["c2s"]) + Len(queue'["s2c"]) + (IF spc' = "send" THEN 1 ELSE 0)
          = Len(queue["c2s"]) + Len(queue["s2c"]) + (IF spc = "send" THEN 1 ELSE 0)
    BY <1>1, <1>3, <2>1 DEF c, s
  <2> QED
    BY <1>1, <2>2 DEF QueueInv, QueueTokens
<1>7. ASSUME clean PROVE QueueInOrder'
  <2>1. /\ PingsFrom(run, 0, heard) /\ PingsFrom(run, Len(heard), c)
        /\ Len(heard) = si /\ Len(answers) = ci /\ ci + Len(s) = si
        /\ IF cpc \in {"off", "open_c2s", "open_s2c", "send"}
             THEN Len(heard) + Len(c) = ci
             ELSE Len(heard) + Len(c) <= ci + 1
        /\ PingsFrom(run, 0, answers) /\ PingsFrom(run, ci, s)
    BY <1>1, <1>7 DEF QueueInv, QueueInOrder, QueueTypeOK
  <2>2. run \in Nat /\ heard \in Seq(Texts) /\ Len(heard) \in Nat /\ ci \in Nat /\ si \in Nat
    BY DEF QueueInv, QueueTypeOK
  <2>3. Head(c) = <<run, 0 + Len(heard)>> /\ PingsFrom(run, Len(heard) + 1, Tail(c))
    BY <1>1, <2>1, <2>2, PingsTail, SMTT(30)
  <2>4. PingsFrom(run, 0, heard') /\ Len(heard') = Len(heard) + 1
    <3>1. heard' = Append(heard, <<run, 0 + Len(heard)>>)
      BY <1>1, <2>3
    <3> QED
      BY <2>1, <2>2, <3>1, PingsAppend
  <2>5. PingsFrom(run, Len(heard'), Tail(c))
    BY <2>3, <2>4
  <2>6. IF cpc \in {"off", "open_c2s", "open_s2c", "send"}
          THEN Len(heard') + Len(Tail(c)) = ci
          ELSE Len(heard') + Len(Tail(c)) <= ci + 1
    <3>0. \A m, n \in Int : (m + 1) + (n - 1) = m + n
      OBVIOUS
    <3> HIDE DEF c
    <3>1. Len(heard') + Len(Tail(c)) = Len(heard) + Len(c)
      BY <1>2, <2>2, <2>4, <3>0
    <3> QED
      BY <2>1, <3>1
  <2> HIDE DEF c, s
  <2> QED
    BY <1>1, <1>3, <2>1, <2>4, <2>5, <2>6 DEF QueueInOrder
<1>8. HeardSomething'
  <2>1. heard \in Seq(Texts) /\ Append(heard, Head(c)) # << >>
    <3>1. heard \in Seq(Texts)
      BY DEF QueueInv, QueueTypeOK
    <3> HIDE DEF c
    <3> QED
      BY <1>2, <3>1, AppendProperties
  <2> QED
    BY <1>1, <2>1 DEF HeardSomething
<1> QED
  BY <1>1, <1>4, <1>5, <1>6, <1>7, <1>8 DEF QueueInv, QueueInOrder

\* mq_send of the server: the message it has just received
LEMMA QueueServerSendOK == QueueInv /\ Mq!ServerSend => QueueInv'
PROOF
<1> SUFFICES ASSUME QueueInv, Mq!ServerSend PROVE QueueInv'
  OBVIOUS
<1> DEFINE c == queue["c2s"]
           s == queue["s2c"]
           x == heard[Len(heard)]
           to == IF si + 1 < QueueIterations THEN "receive" ELSE "unlink_c2s"
<1>1. /\ c \in Seq(Texts) /\ s \in Seq(Texts)
      /\ spc = "send" /\ spc' = to /\ si' = si + 1
      /\ queue' = [queue EXCEPT !["s2c"] = Append(s, x)]
      /\ UNCHANGED <<run, names, cpc, ci, cfd, answers, heard, clean>>
  BY DEF QueueInv, QueueTypeOK, Mq!ServerSend, Mq!Server, Mq!client, Mq!Queues
<1>2. queue'["c2s"] = c /\ queue'["s2c"] = Append(s, x)
      /\ queue \in [Mq!Queues -> Seq(Texts)]
  BY <1>1 DEF QueueInv, QueueTypeOK, Mq!Queues
<1>3. QueueProcesses'
  BY <1>1 DEF QueueInv, QueueProcesses
<1>4. run \in Nat /\ ci \in Nat /\ si \in Nat /\ heard \in Seq(Texts) /\ Len(heard) \in Nat
  BY DEF QueueInv, QueueTypeOK
<1>5. Len(c) \in Nat /\ Len(s) \in Nat
  BY <1>1
<1>6. ASSUME clean
      PROVE  /\ x = <<run, ci + Len(s)>> /\ PingsFrom(run, ci, s)
             /\ Len(heard) = si + 1 /\ ci + Len(s) = si
             /\ PingsFrom(run, 0, heard) /\ PingsFrom(run, 0, answers)
             /\ PingsFrom(run, Len(heard), c) /\ Len(answers) = ci
             /\ IF cpc \in {"off", "open_c2s", "open_s2c", "send"}
                  THEN Len(heard) + Len(c) = ci
                  ELSE Len(heard) + Len(c) <= ci + 1
  <2>1. /\ Len(heard) = si + 1 /\ ci + Len(s) = si /\ PingsFrom(run, 0, heard)
        /\ PingsFrom(run, ci, s) /\ PingsFrom(run, 0, answers)
        /\ PingsFrom(run, Len(heard), c) /\ Len(answers) = ci
        /\ IF cpc \in {"off", "open_c2s", "open_s2c", "send"}
             THEN Len(heard) + Len(c) = ci
             ELSE Len(heard) + Len(c) <= ci + 1
    BY <1>1, <1>6 DEF QueueInv, QueueInOrder
  <2>2. Len(heard) \in 1 .. Len(heard) /\ 0 + Len(heard) - 1 = ci + Len(s)
    <3> HIDE DEF s
    <3> QED
      BY <1>4, <1>5, <2>1
  <2>3. x = <<run, ci + Len(s)>>
    BY <2>1, <2>2 DEF PingsFrom
  <2> QED
    BY <2>1, <2>3
<1>7. x \in Texts
  <2>1. heard # << >>
    BY <1>1 DEF QueueInv, HeardSomething
  <2> QED
    BY <1>4, <2>1, EmptySeq, LenProperties
<1>8. Append(s, x) \in Seq(Texts) /\ Len(Append(s, x)) = Len(s) + 1
  BY <1>1, <1>7, AppendProperties
<1> HIDE DEF c, s, x
<1>9. QueueTypeOK'
  <2>1. queue' \in [Mq!Queues -> Seq(Texts)]
    BY <1>1, <1>2, <1>8
  <2> QED
    BY <1>1, <1>4, <2>1 DEF QueueInv, QueueTypeOK
<1>10. QueueTokens'
  <2>1. Len(c) + Len(s) + 1 = Len(c) + (Len(s) + 1) + 0
    BY <1>5
  <2>2. Len(queue'["c2s"]) + Len(queue'["s2c"]) + (IF spc' = "send" THEN 1 ELSE 0)
          = Len(queue["c2s"]) + Len(queue["s2c"]) + (IF spc = "send" THEN 1 ELSE 0)
    BY <1>1, <1>2, <1>8, <2>1 DEF c, s
  <2> QED
    BY <1>1, <2>2 DEF QueueInv, QueueTokens
<1>11. ASSUME clean PROVE QueueInOrder'
  <2>1. PingsFrom(run, ci, Append(s, x))
    BY <1>1, <1>4, <1>6, <1>11, PingsAppend
  <2>2. ci + Len(Append(s, x)) = si + 1
    BY <1>4, <1>5, <1>6, <1>8, <1>11
  <2>3. Len(heard) = (si + 1) + 0
    BY <1>4, <1>6, <1>11
  <2> QED
    BY <1>1, <1>2, <1>6, <1>11, <2>1, <2>2, <2>3 DEF QueueInOrder
<1>12. HeardSomething'
  BY <1>1 DEF HeardSomething
<1> QED
  BY <1>1, <1>3, <1>9, <1>10, <1>11, <1>12 DEF QueueInv, QueueInOrder

\* mq_send of the client, which sends nothing if there was no queue to open
LEMMA QueueClientSendOK == QueueInv /\ Mq!ClientSend => QueueInv'
PROOF
<1> SUFFICES ASSUME QueueInv, Mq!ClientSend PROVE QueueInv'
  OBVIOUS
<1> DEFINE c == queue["c2s"]
           s == queue["s2c"]
           x == <<run, ci>>
<1>1. /\ c \in Seq(Texts) /\ s \in Seq(Texts)
      /\ cpc = "send" /\ cpc' = "receive"
      /\ UNCHANGED <<run, names, spc, si, heard, ci, cfd, answers, clean>>
  BY DEF QueueInv, QueueTypeOK, Mq!ClientSend, Mq!Client, Mq!server, Mq!Queues
<1>2. run \in Nat /\ ci \in Nat /\ si \in Nat /\ heard \in Seq(Texts) /\ Len(heard) \in Nat
      /\ queue \in [Mq!Queues -> Seq(Texts)] /\ x \in Texts
  BY DEF QueueInv, QueueTypeOK, Texts
<1>3. Len(c) \in Nat /\ Len(s) \in Nat
  BY <1>1
<1>4. QueueProcesses' /\ HeardSomething'
  BY <1>1 DEF QueueInv, QueueProcesses, HeardSomething
<1>5. Append(c, x) \in Seq(Texts) /\ Len(Append(c, x)) = Len(c) + 1
  BY <1>1, <1>2, AppendProperties
<1> HIDE DEF x
<1>6. /\ queue' \in [Mq!Queues -> Seq(Texts)]
      /\ queue'["s2c"] = s
      /\ queue'["c2s"] = c \/ queue'["c2s"] = Append(c, x)
  BY <1>2, <1>5 DEF Mq!ClientSend, Mq!Queues, Mq!Ping, x
<1>7. QueueTypeOK'
  BY <1>1, <1>6 DEF QueueInv, QueueTypeOK
<1> HIDE DEF c, s
<1>8. QueueTokens'
  <2> DEFINE a == IF spc = "send" THEN 1 ELSE 0
             d == queue'["c2s"]
  <2>1. Len(c) + Len(s) + a + 1 <= run
    BY <1>1 DEF QueueInv, QueueTokens, c, s
  <2>2. a \in 0 .. 1 /\ Len(d) \in Nat /\ Len(d) <= Len(c) + 1
    BY <1>3, <1>5, <1>6
  <2> HIDE DEF a, d
  <2>3. Len(d) + Len(s) + a + 0 <= run
    BY <1>2, <1>3, <2>1, <2>2
  <2> QED
    BY <1>1, <1>6, <2>3 DEF QueueTokens, a, d
<1>9. ASSUME clean PROVE QueueInOrder'
  <2>1. /\ PingsFrom(run, Len(heard), c) /\ Len(heard) + Len(c) = ci
        /\ Len(heard) = si + (IF spc = "send" THEN 1 ELSE 0)
        /\ Len(answers) = ci /\ ci + Len(s) = si
        /\ PingsFrom(run, 0, heard) /\ PingsFrom(run, 0, answers) /\ PingsFrom(run, ci, s)
    BY <1>1, <1>9 DEF QueueInv, QueueInOrder, c, s
  <2>2. PingsFrom(run, Len(heard), queue'["c2s"])
    <3>1. x = <<run, Len(heard) + Len(c)>>
      BY <2>1 DEF x
    <3>2. PingsFrom(run, Len(heard), Append(c, <<run, Len(heard) + Len(c)>>))
      BY <1>1, <1>2, <2>1, PingsAppend DEF c
    <3> QED
      BY <1>6, <2>1, <3>1, <3>2
  <2>3. Len(heard) + Len(queue'["c2s"]) <= ci + 1
    <3>1. CASE queue'["c2s"] = c
      BY <1>2, <1>3, <2>1, <3>1
    <3>2. CASE queue'["c2s"] = Append(c, x)
      BY <1>2, <1>3, <1>5, <2>1, <3>2, SMTT(30)
    <3> QED
      BY <1>6, <3>1, <3>2
  <2> QED
    BY <1>1, <1>6, <1>9, <2>1, <2>2, <2>3 DEF QueueInOrder
<1> QED
  BY <1>1, <1>4, <1>7, <1>8, <1>9 DEF QueueInv, QueueInOrder

\* mq_receive and printf of the client
LEMMA QueueClientReceiveOK == QueueInv /\ Mq!ClientReceive => QueueInv'
PROOF
<1> SUFFICES ASSUME QueueInv, Mq!ClientReceive PROVE QueueInv'
  OBVIOUS
<1> DEFINE c == queue["c2s"]
           s == queue["s2c"]
           to == IF ci + 1 < QueueIterations THEN "send" ELSE "close"
<1>1. /\ c \in Seq(Texts) /\ s \in Seq(Texts) /\ s # << >>
      /\ cpc = "receive" /\ cpc' = to /\ answers' = Append(answers, Head(s)) /\ ci' = ci + 1
      /\ queue' = [queue EXCEPT !["s2c"] = Tail(s)]
      /\ UNCHANGED <<run, names, spc, si, heard, cfd, clean>>
  BY DEF QueueInv, QueueTypeOK, Mq!ClientReceive, Mq!Client, Mq!server, Mq!Queues
<1>2. Len(c) \in Nat /\ Len(s) \in Nat \ {0} /\ Tail(s) \in Seq(Texts)
      /\ Len(Tail(s)) = Len(s) - 1 /\ Head(s) \in Texts
  BY <1>1, EmptySeq, HeadTailProperties
<1>3. queue'["c2s"] = c /\ queue'["s2c"] = Tail(s) /\ queue' \in [Mq!Queues -> Seq(Texts)]
  BY <1>1, <1>2 DEF QueueInv, QueueTypeOK, Mq!Queues
<1>4. run \in Nat /\ ci \in Nat /\ si \in Nat /\ heard \in Seq(Texts) /\ Len(heard) \in Nat
      /\ answers \in Seq(Texts) /\ Len(answers) \in Nat
  BY DEF QueueInv, QueueTypeOK
<1>5. QueueProcesses' /\ HeardSomething'
  BY <1>1 DEF QueueInv, QueueProcesses, HeardSomething
<1>6. answers' \in Seq(Texts) /\ Len(answers') = Len(answers) + 1
  <2>1. Head(s) \in Texts
    BY <1>2
  <2> HIDE DEF s
  <2> QED
    BY <1>1, <1>4, <2>1, AppendProperties
<1>7. QueueTypeOK'
  BY <1>1, <1>3, <1>4, <1>6 DEF QueueInv, QueueTypeOK
<1> HIDE DEF c, s
<1>8. QueueTokens'
  <2> DEFINE a == IF spc = "send" THEN 1 ELSE 0
             b == IF cpc' \in {"open_c2s", "open_s2c", "send"} THEN 1 ELSE 0
  <2>1. Len(c) + Len(s) + a + 0 <= run
    BY <1>1 DEF QueueInv, QueueTokens, c, s
  <2>2. a \in 0 .. 1 /\ b \in 0 .. 1
    OBVIOUS
  <2> HIDE DEF a, b
  <2>3. Len(c) + Len(Tail(s)) + a + b <= run
    BY <1>2, <1>4, <2>1, <2>2
  <2> QED
    BY <1>1, <1>3, <2>3 DEF QueueTokens, a, b
<1>9. ASSUME clean PROVE QueueInOrder'
  <2>1. /\ PingsFrom(run, Len(heard), c) /\ Len(heard) + Len(c) <= ci + 1
        /\ Len(heard) = si + (IF spc = "send" THEN 1 ELSE 0)
        /\ Len(answers) = ci /\ ci + Len(s) = si
        /\ PingsFrom(run, 0, heard) /\ PingsFrom(run, 0, answers) /\ PingsFrom(run, ci, s)
    BY <1>1, <1>9 DEF QueueInv, QueueInOrder, c, s
  <2>2. Head(s) = <<run, 0 + Len(answers)>> /\ PingsFrom(run, ci + 1, Tail(s))
    <3>1. 0 + Len(answers) = ci
      BY <1>4, <2>1
    <3> QED
      BY <1>1, <1>4, <2>1, <3>1, PingsTail
  <2>3. PingsFrom(run, 0, answers')
    <3>1. answers' = Append(answers, <<run, 0 + Len(answers)>>)
      BY <1>1, <2>2
    <3> QED
      BY <1>4, <2>1, <3>1, PingsAppend
  <2>4. /\ Len(answers') = ci + 1 /\ (ci + 1) + Len(Tail(s)) = si
        /\ Len(heard) + Len(c) = ci + 1 /\ Len(heard) + Len(c) <= (ci + 1) + 1
    <3>1. si <= Len(heard)
      BY <1>4, <2>1
    <3> QED
      BY <1>2, <1>4, <1>6, <2>1, <3>1
  <2> QED
    BY <1>1, <1>3, <1>9, <2>1, <2>2, <2>3, <2>4 DEF QueueInOrder
<1> QED
  BY <1>1, <1>5, <1>7, <1>8, <1>9 DEF QueueInv, QueueInOrder

\* The client that found no queue of answers stops, and so does the one that has
\* heard them all.
LEMMA QueueCloseOK == QueueInv /\ (Mq!ClientBreak \/ Mq!ClientClose) => QueueInv'
PROOF
<1> SUFFICES ASSUME QueueInv, Mq!ClientBreak \/ Mq!ClientClose PROVE QueueInv'
  OBVIOUS
<1>1. /\ cpc \in {"receive", "close"} /\ cpc' \in {"close", "reap"}
      /\ UNCHANGED <<run, names, queue, ci, answers, spc, si, heard, clean>>
  BY DEF Mq!ClientBreak, Mq!ClientClose, Mq!Client, Mq!server, Mq!mqueues
<1>2. QueueTypeOK' /\ QueueProcesses' /\ HeardSomething'
  BY <1>1 DEF QueueInv, QueueTypeOK, QueueProcesses, HeardSomething
<1>3. QueueTokens'
  BY <1>1 DEF QueueInv, QueueTokens
<1>4. QueueInOrder'
  BY <1>1 DEF QueueInv, QueueInOrder
<1> QED
  BY <1>2, <1>3, <1>4 DEF QueueInv

\* Every step of queue.c, its user and its processes keeps the invariant.
LEMMA QueueStepOK ==
  QueueInv /\ (Mq!Start \/ Mq!Interrupt \/ Mq!ServerStep \/ Mq!ClientStep) => QueueInv'
  BY QueueStartOK, QueueInterruptOK, QueueReapOK, QueueNamesOK, QueueServerReceiveOK,
     QueueServerSendOK, QueueClientSendOK, QueueClientReceiveOK, QueueCloseOK
  DEF Mq!ServerStep, Mq!ClientStep

\* The invariant says what the run checks.
LEMMA QueueInvImplies == QueueInv => Mq!RightAfterCleanEnd /\ Mq!OneLeftPerRun
PROOF
<1> SUFFICES ASSUME QueueInv PROVE Mq!RightAfterCleanEnd /\ Mq!OneLeftPerRun
  OBVIOUS
<1>1. ASSUME NEW s \in Seq(Texts), PingsFrom(run, 0, s)
      PROVE  s = [n \in 1 .. Len(s) |-> Mq!Ping(n - 1)]
  <2>1. \A n \in 1 .. Len(s) : s[n] = <<run, n - 1>>
    <3>1. \A n \in 1 .. Len(s) : 0 + n - 1 = n - 1
      OBVIOUS
    <3> QED
      BY <1>1, <3>1 DEF PingsFrom
  <2>2. s = [n \in 1 .. Len(s) |-> s[n]]
    OBVIOUS
  <2> QED
    BY <2>1, <2>2 DEF Mq!Ping
<1>2. Mq!RightAfterCleanEnd
  BY <1>1 DEF QueueInv, QueueTypeOK, QueueInOrder, Mq!RightAfterCleanEnd
<1>3. Mq!OneLeftPerRun
  <2> DEFINE k == Len(queue["c2s"])
             l == Len(queue["s2c"])
             a == IF spc = "send" THEN 1 ELSE 0
             b == IF cpc \in {"open_c2s", "open_s2c", "send"} THEN 1 ELSE 0
  <2>1. k + l + a + b <= run
    BY DEF QueueInv, QueueTokens
  <2>2. k \in Nat /\ l \in Nat /\ a \in 0 .. 1 /\ b \in 0 .. 1 /\ run \in Nat
    BY DEF QueueInv, QueueTypeOK, Mq!Queues
  <2> HIDE DEF k, l, a, b
  <2>3. k + l <= run
    BY <2>1, <2>2
  <2> QED
    BY <2>3 DEF Mq!OneLeftPerRun, k, l
<1> QED
  BY <1>2, <1>3

-------------------------------------------------------------------------------
(* semaphore.c                                                             *)

Opening == {"shm_open", "open_client", "open_server", "fork"}
Sending == {"send", "send_tail", "post"}
Receiving == {"receive", "receive_tail"}
Ending == {"reap", "unlink_shm", "unlink_client", "unlink_server"}
Copying == {"copy", "copy_tail"}
Echoing == {"echo", "echo_tail", "post"}

Halves == {"none", "ping", "echo"} \X Nat \X Nat
Wholes == Halves \X Halves

SemTypeOK ==
  /\ run \in Nat /\ ci \in Nat /\ si \in Nat
  /\ sem \in [Sm!Sems -> Nat]
  /\ buffer \in Wholes /\ temp \in Wholes /\ reply \in Halves
  /\ heard \in Seq(Wholes) /\ answers \in Seq(Wholes)
  /\ cpc \in {"off", "wait"} \cup Opening \cup Sending \cup Receiving \cup Ending
  /\ spc \in {"off", "wait"} \cup Copying \cup Echoing

\* How main, its child and the names stand to each other.
SemProcesses ==
  /\ cpc \in {"off"} \cup Opening =>
       spc = "off" /\ ci = 0 /\ si = 0 /\ heard = << >> /\ answers = << >>
  /\ cpc = "unlink_client" => "shm" \notin names
  /\ cpc = "unlink_server" => names \cap {"shm", "sem_client_ready"} = {}
  /\ names \subseteq Sm!Names

\* Posts that are about, and the processes that will post.
SemTokens ==
  sem["sem_client_ready"] + sem["sem_server_ready"]
    + (IF spc \in Copying \cup Echoing THEN 1 ELSE 0)
    + (IF cpc \in Opening \cup Sending \cup Receiving THEN 1 ELSE 0) <= run

\* The client writes a ping.
Asks ==
  /\ cpc \in Sending /\ spc = "wait" /\ si = ci /\ ci < SemIterations
  /\ sem["sem_client_ready"] = 0 /\ sem["sem_server_ready"] = 0
  /\ cpc \in {"send_tail", "post"} => buffer[1] = Sm!Ping(ci)
  /\ cpc = "post" => buffer[2] = Sm!Ping(ci)

\* The ping is on its way to the server.
Asked ==
  /\ cpc = "wait" /\ spc = "wait" /\ si = ci /\ ci < SemIterations
  /\ sem["sem_client_ready"] = 1 /\ sem["sem_server_ready"] = 0
  /\ buffer[1] = Sm!Ping(ci) /\ buffer[2] = Sm!Ping(ci)

\* The server copies the ping and writes the echo.
Answers ==
  /\ cpc = "wait" /\ spc \in Copying \cup Echoing /\ si = ci /\ ci < SemIterations
  /\ sem["sem_client_ready"] = 0 /\ sem["sem_server_ready"] = 0
  /\ spc \in Copying => buffer[1] = Sm!Ping(ci) /\ buffer[2] = Sm!Ping(ci)
  /\ spc \in {"copy_tail"} \cup Echoing => temp[1] = Sm!Ping(ci)
  /\ spc \in Echoing => temp[2] = Sm!Ping(ci)
  /\ spc \in {"echo_tail", "post"} => buffer[1] = Sm!Echo(Sm!Ping(ci))
  /\ spc = "post" => buffer[2] = Sm!Echo(Sm!Ping(ci))

\* The echo is on its way to the client, or the client reads it.
Answered ==
  /\ \/ cpc = "wait" /\ sem["sem_server_ready"] = 1
     \/ cpc \in Receiving /\ sem["sem_server_ready"] = 0
  /\ sem["sem_client_ready"] = 0
  /\ spc = (IF si < SemIterations THEN "wait" ELSE "off") /\ si = ci + 1 /\ ci < SemIterations
  /\ buffer[1] = Sm!Echo(Sm!Ping(ci)) /\ buffer[2] = Sm!Echo(Sm!Ping(ci))
  /\ cpc = "receive_tail" => reply = Sm!Echo(Sm!Ping(ci))

\* No message is on its way.
AtRest ==
  /\ cpc \in {"off"} \cup Opening \cup Ending /\ spc = "off"
  /\ sem["sem_client_ready"] = 0 /\ sem["sem_server_ready"] = 0

\* s holds the pings of run r, or their echoes, whole and in order.
WholeOf(word, r, s) == \A n \in 1 .. Len(s) : s[n] = <<<<word, r, n - 1>>, <<word, r, n - 1>>>>

SemInOrder ==
  clean =>
    /\ AtRest \/ Asks \/ Asked \/ Answers \/ Answered
    /\ Len(heard) = si + (IF spc \in Echoing THEN 1 ELSE 0) /\ Len(answers) = ci
    /\ WholeOf("ping", run, heard) /\ WholeOf("echo", run, answers)

SemInv == SemTypeOK /\ SemProcesses /\ SemTokens /\ SemInOrder

\* One half of the buffer is replaced.
LEMMA HalfSet ==
  \A b \in Wholes, h \in Halves :
    /\ [b EXCEPT ![1] = h] = <<h, b[2]>> /\ [b EXCEPT ![2] = h] = <<b[1], h>>
    /\ b[1] \in Halves /\ b[2] \in Halves /\ b = <<b[1], b[2]>>
  BY DEF Wholes

\* A ping and the echo of a text are texts.
LEMMA HalvesOK ==
  ASSUME run \in Nat
  PROVE  /\ \A n \in Nat : Sm!Ping(n) \in Halves /\ Sm!Echo(Sm!Ping(n)) = <<"echo", run, n>>
         /\ \A h \in Halves : Sm!Echo(h) \in Halves
         /\ Sm!Zeros \in Halves
  BY DEF Sm!Ping, Sm!Echo, Halves, Sm!Zeros

\* A sequence of whole texts grows by the next one.
LEMMA WholeAppend ==
  ASSUME NEW word, NEW r, NEW s \in Seq(Wholes), WholeOf(word, r, s), NEW x \in Wholes,
         x = <<<<word, r, Len(s)>>, <<word, r, Len(s)>>>>
  PROVE  WholeOf(word, r, Append(s, x))
PROOF
<1>1. Len(s) \in Nat /\ Append(s, x) \in Seq(Wholes) /\ Len(Append(s, x)) = Len(s) + 1
  BY AppendProperties
<1>2. ASSUME NEW n \in 1 .. Len(Append(s, x))
      PROVE  Append(s, x)[n] = <<<<word, r, n - 1>>, <<word, r, n - 1>>>>
  <2>1. CASE n = Len(s) + 1
    <3>1. Append(s, x)[n] = x /\ n - 1 = Len(s)
      BY <1>1, <2>1, AppendProperties
    <3> QED
      BY <3>1
  <2>2. CASE n # Len(s) + 1
    <3>1. n \in 1 .. Len(s) /\ Append(s, x)[n] = s[n]
      BY <1>1, <2>2, AppendProperties
    <3> QED
      BY <3>1 DEF WholeOf
  <2> QED
    BY <2>1, <2>2
<1> QED
  BY <1>1, <1>2 DEF WholeOf

\* Nothing printed is any sequence of texts.
LEMMA NothingPrinted == \A word, r : WholeOf(word, r, << >>) /\ Len(<< >>) = 0
  BY DEF WholeOf

\* The two semaphores are two, and hold numbers.
LEMMA SemValues ==
  ASSUME SemTypeOK
  PROVE  /\ sem["sem_client_ready"] \in Nat /\ sem["sem_server_ready"] \in Nat
         /\ \A n : [sem EXCEPT !["sem_client_ready"] = n]["sem_client_ready"] = n
                   /\ [sem EXCEPT !["sem_client_ready"] = n]["sem_server_ready"]
                        = sem["sem_server_ready"]
                   /\ [sem EXCEPT !["sem_server_ready"] = n]["sem_server_ready"] = n
                   /\ [sem EXCEPT !["sem_server_ready"] = n]["sem_client_ready"]
                        = sem["sem_client_ready"]
         /\ \A n \in Nat : [sem EXCEPT !["sem_client_ready"] = n] \in [Sm!Sems -> Nat]
                           /\ [sem EXCEPT !["sem_server_ready"] = n] \in [Sm!Sems -> Nat]
  BY DEF SemTypeOK, Sm!Sems

\* Who will post: a process between its wait and its post.
ServerOwes == IF spc \in Copying \cup Echoing THEN 1 ELSE 0
ClientOwes == IF cpc \in Opening \cup Sending \cup Receiving THEN 1 ELSE 0

\* A step that leaves the semaphores alone, and owes no more than before, keeps the
\* tokens.
LEMMA TokensKept ==
  ASSUME SemTypeOK, SemTokens, run' = run, sem' = sem,
         ServerOwes' + ClientOwes' <= ServerOwes + ClientOwes
  PROVE  SemTokens'
PROOF
<1> DEFINE k == sem["sem_client_ready"]
           l == sem["sem_server_ready"]
<1>1. k + l + ServerOwes + ClientOwes <= run
  BY DEF SemTokens, ServerOwes, ClientOwes
<1>2. k \in Nat /\ l \in Nat /\ run \in Nat
  BY SemValues DEF SemTypeOK
<1>3. ServerOwes \in 0 .. 1 /\ ClientOwes \in 0 .. 1 /\ ServerOwes' \in 0 .. 1 /\ ClientOwes' \in 0 .. 1
  BY DEF ServerOwes, ClientOwes
<1>4. k + l + ServerOwes' + ClientOwes' <= run
  <2> DEFINE a == ServerOwes
             b == ClientOwes
             u == ServerOwes'
             w == ClientOwes'
  <2>1. a \in 0 .. 1 /\ b \in 0 .. 1 /\ u \in 0 .. 1 /\ w \in 0 .. 1
    BY <1>3
  <2>2. k + l + a + b <= run
    BY <1>1
  <2>3. u + w <= a + b
    OBVIOUS
  <2> HIDE DEF a, b, u, w, k, l
  <2>4. k + l + u + w <= run
    BY <1>2, <2>1, <2>2, <2>3
  <2> QED
    BY <2>4 DEF u, w
<1> HIDE DEF k, l
<1> QED
  BY <1>4 DEF SemTokens, ServerOwes, ClientOwes, k, l

\* sem_post and sem_wait move a token between a process and a semaphore.
LEMMA TokensMoved ==
  ASSUME SemTypeOK, SemTokens, run' = run, NEW x \in Sm!Sems, NEW d \in {1, 0 - 1},
         sem' = [sem EXCEPT ![x] = @ + d],
         ServerOwes' + ClientOwes' + d = ServerOwes + ClientOwes
  PROVE  SemTokens'
PROOF
<1> DEFINE k == sem["sem_client_ready"]
           l == sem["sem_server_ready"]
           m == sem'["sem_client_ready"]
           n == sem'["sem_server_ready"]
<1>1. k + l + ServerOwes + ClientOwes <= run
  BY DEF SemTokens, ServerOwes, ClientOwes
<1>2. k \in Nat /\ l \in Nat /\ run \in Nat
  BY SemValues DEF SemTypeOK
<1>3. ServerOwes \in 0 .. 1 /\ ClientOwes \in 0 .. 1 /\ ServerOwes' \in 0 .. 1 /\ ClientOwes' \in 0 .. 1
  BY DEF ServerOwes, ClientOwes
<1>4. (m = k + d /\ n = l) \/ (m = k /\ n = l + d)
  BY DEF SemTypeOK, Sm!Sems
<1>5. m + n + ServerOwes' + ClientOwes' <= run
  <2> DEFINE a == ServerOwes
             b == ClientOwes
             u == ServerOwes'
             w == ClientOwes'
  <2>1. a \in 0 .. 1 /\ b \in 0 .. 1 /\ u \in 0 .. 1 /\ w \in 0 .. 1
    BY <1>3
  <2>2. k + l + a + b <= run
    BY <1>1
  <2>3. u + w + d = a + b
    OBVIOUS
  <2> HIDE DEF a, b, u, w, k, l, m, n
  <2>4. m + n + u + w <= run
    BY <1>2, <1>4, <2>1, <2>2, <2>3
  <2> QED
    BY <2>4 DEF u, w
<1> HIDE DEF k, l, m, n
<1> QED
  BY <1>5 DEF SemTokens, ServerOwes, ClientOwes, m, n

\* fork() brings one post into the program.
LEMMA SemStartOK == SemInv /\ Sm!Start => SemInv'
PROOF
<1> SUFFICES ASSUME SemInv, Sm!Start PROVE SemInv'
  OBVIOUS
<1>1. /\ cpc = "off" /\ cpc' = "shm_open" /\ run' = run + 1
      /\ UNCHANGED <<names, sem, buffer, ci, reply, answers, spc, si, temp, heard, clean>>
      /\ spc = "off" /\ ci = 0 /\ si = 0 /\ heard = << >> /\ answers = << >>
  BY DEF Sm!Start, Sm!shared, Sm!server, SemInv, SemProcesses
<1>2. SemTypeOK'
  BY <1>1 DEF SemInv, SemTypeOK, Opening
<1>3. SemProcesses'
  BY <1>1 DEF SemInv, SemProcesses
<1>4. SemTokens'
  <2> DEFINE k == sem["sem_client_ready"]
             l == sem["sem_server_ready"]
  <2>1. k + l + 0 + 0 <= run
    BY <1>1 DEF SemInv, SemTokens, Opening, Sending, Receiving, Copying, Echoing
  <2>2. k \in Nat /\ l \in Nat /\ run \in Nat
    BY SemValues DEF SemInv, SemTypeOK
  <2> HIDE DEF k, l
  <2>3. k + l + 0 + 1 <= run + 1
    BY <2>1, <2>2
  <2> QED
    BY <1>1, <2>3 DEF SemTokens, Opening, Sending, Receiving, Copying, Echoing, k, l
<1>5. SemInOrder'
  <2>1. clean => AtRest
    BY <1>1 DEF SemInv, SemInOrder, Asks, Asked, Answers, Answered, Sending, Receiving
  <2>2. AtRest => AtRest'
    BY <1>1 DEF AtRest, Opening
  <2>3. Len(heard') = si' + (IF spc' \in Echoing THEN 1 ELSE 0) /\ Len(answers') = ci'
    BY <1>1, NothingPrinted DEF Echoing
  <2> QED
    BY <1>1, <2>1, <2>2, <2>3, NothingPrinted DEF SemInOrder
<1> QED
  BY <1>2, <1>3, <1>4, <1>5 DEF SemInv

\* However a run ends, no post is left that was not there before.
LEMMA SemGoneOK ==
  ASSUME SemInv, Sm!Gone, run' = run, names' \subseteq names
  PROVE  SemTypeOK' /\ SemProcesses' /\ SemTokens'
PROOF
<1> USE DEF SemInv
<1>1. /\ cpc' = "off" /\ ci' = 0 /\ reply' = Sm!Zeros /\ answers' = << >>
      /\ spc' = "off" /\ si' = 0 /\ temp' = <<Sm!Zeros, Sm!Zeros>> /\ heard' = << >>
      /\ sem' = [x \in Sm!Sems |-> IF x \in names' THEN sem[x] ELSE 0]
      /\ buffer' \in {buffer, <<Sm!Zeros, Sm!Zeros>>}
  BY DEF Sm!Gone
<1>2. SemTypeOK'
  <2>1. Sm!Zeros \in Halves /\ <<Sm!Zeros, Sm!Zeros>> \in Wholes
    BY HalvesOK DEF Wholes, SemTypeOK
  <2>2. sem' \in [Sm!Sems -> Nat]
    BY <1>1 DEF SemTypeOK
  <2>3. buffer' \in Wholes /\ temp' \in Wholes /\ reply' \in Halves
    BY <1>1, <2>1 DEF SemTypeOK
  <2>4. heard' \in Seq(Wholes) /\ answers' \in Seq(Wholes)
    BY <1>1, EmptySeq
  <2> QED
    BY <1>1, <2>2, <2>3, <2>4 DEF SemTypeOK
<1>3. SemProcesses'
  BY <1>1 DEF SemProcesses
<1>4. SemTokens'
  <2> DEFINE k == sem["sem_client_ready"]
             l == sem["sem_server_ready"]
             m == sem'["sem_client_ready"]
             n == sem'["sem_server_ready"]
             a == ServerOwes
             b == ClientOwes
  <2>1. k + l + a + b <= run
    BY DEF SemTokens, ServerOwes, ClientOwes
  <2>2. k \in Nat /\ l \in Nat /\ run \in Nat
    BY SemValues DEF SemTypeOK
  <2>3. a \in 0 .. 1 /\ b \in 0 .. 1
    BY DEF ServerOwes, ClientOwes
  <2>4. m \in {0, k} /\ n \in {0, l}
    BY <1>1 DEF Sm!Sems
  <2> HIDE DEF k, l, m, n, a, b
  <2>5. m + n + 0 + 0 <= run
    BY <2>1, <2>2, <2>3, <2>4
  <2> QED
    BY <1>1, <2>5 DEF SemTokens, Copying, Echoing, Opening, Sending, Receiving, m, n
<1> QED
  BY <1>2, <1>3, <1>4

\* Ctrl-C
LEMMA SemInterruptOK == SemInv /\ Sm!Interrupt => SemInv'
  BY SemGoneOK DEF Sm!Interrupt, SemInv, SemInOrder

\* The end of main() leaves no names and no posts.
LEMMA SemEndOK == SemInv /\ Sm!UnlinkServerReady => SemInv'
PROOF
<1> SUFFICES ASSUME SemInv, Sm!UnlinkServerReady PROVE SemInv'
  OBVIOUS
<1>1. SemTypeOK' /\ SemProcesses' /\ SemTokens'
  BY SemGoneOK DEF Sm!UnlinkServerReady
<1>2. names' = {}
  BY DEF Sm!UnlinkServerReady, SemInv, SemProcesses, Sm!Names, Sm!Sems
<1>3. AtRest'
  BY <1>2 DEF AtRest, Sm!UnlinkServerReady, Sm!Gone, Sm!Sems
<1>4. heard' = << >> /\ answers' = << >> /\ ci' = 0 /\ si' = 0 /\ spc' = "off"
  BY DEF Sm!UnlinkServerReady, Sm!Gone
<1>5. Len(heard') = si' + (IF spc' \in Echoing THEN 1 ELSE 0) /\ Len(answers') = ci'
  BY <1>4, NothingPrinted DEF Echoing
<1> QED
  BY <1>1, <1>3, <1>4, <1>5, NothingPrinted DEF SemInv, SemInOrder

\* main() before the fork, and after the last answer
LEMMA SemMainOK ==
  SemInv /\ (Sm!OpenAll \/ Sm!Reap \/ Sm!UnlinkShm \/ Sm!UnlinkClientReady) => SemInv'
PROOF
<1> SUFFICES ASSUME SemInv,
                    Sm!OpenAll \/ Sm!Reap \/ Sm!UnlinkShm \/ Sm!UnlinkClientReady
             PROVE  SemInv'
  OBVIOUS
<1>1. /\ UNCHANGED <<run, sem, buffer, ci, reply, answers, spc, si, temp, heard, clean>>
      /\ \/ cpc \in Opening /\ cpc' \in Opening
         \/ cpc \in Ending /\ cpc' \in Ending
  BY DEF Sm!OpenAll, Sm!OpenOrCreate, Sm!Reap, Sm!UnlinkShm, Sm!UnlinkClientReady, Sm!Client,
         Sm!server, Sm!shared, Opening, Ending
<1>2. SemTypeOK'
  BY <1>1 DEF SemInv, SemTypeOK
<1>3. SemProcesses'
  BY DEF SemInv, SemProcesses, Sm!OpenAll, Sm!OpenOrCreate, Sm!Reap, Sm!UnlinkShm,
         Sm!UnlinkClientReady, Sm!Client, Sm!server, Sm!shared, Opening, Sm!Names, Sm!Sems
<1>4. ServerOwes' + ClientOwes' <= ServerOwes + ClientOwes
  <2>1. ServerOwes' = ServerOwes /\ ClientOwes' = ClientOwes
    BY <1>1 DEF ServerOwes, ClientOwes, Opening, Ending, Sending, Receiving
  <2>2. ServerOwes \in Int /\ ClientOwes \in Int
    BY DEF ServerOwes, ClientOwes
  <2> QED
    BY <2>1, <2>2
<1>5. SemTokens'
  BY <1>1, <1>4, TokensKept DEF SemInv
<1>6. AtRest \/ Asks \/ Asked \/ Answers \/ Answered => AtRest'
  BY <1>1 DEF AtRest, Asks, Asked, Answers, Answered, Opening, Sending, Receiving, Ending
<1>7. SemInOrder'
  BY <1>1, <1>6 DEF SemInv, SemInOrder
<1> QED
  BY <1>2, <1>3, <1>5, <1>7 DEF SemInv

\* fork()
LEMMA SemForkOK == SemInv /\ Sm!Fork => SemInv'
PROOF
<1> SUFFICES ASSUME SemInv, Sm!Fork PROVE SemInv'
  OBVIOUS
<1>1. /\ cpc = "fork" /\ cpc' = "send" /\ spc' = "wait" /\ spc = "off"
      /\ UNCHANGED <<run, names, sem, buffer, ci, reply, answers, si, temp, heard, clean>>
      /\ ci = 0 /\ si = 0 /\ heard = << >> /\ answers = << >>
  BY DEF Sm!Fork, Sm!shared, SemInv, SemProcesses, Opening
<1>2. SemTypeOK'
  BY <1>1 DEF SemInv, SemTypeOK, Sending
<1>3. SemProcesses'
  BY <1>1 DEF SemInv, SemProcesses, Opening
<1>4. ServerOwes' + ClientOwes' <= ServerOwes + ClientOwes
  BY <1>1 DEF ServerOwes, ClientOwes, Opening, Sending, Receiving, Copying, Echoing
<1>5. SemTokens'
  BY <1>1, <1>4, TokensKept DEF SemInv
<1>6. AtRest \/ Asks \/ Asked \/ Answers \/ Answered => Asks'
  BY <1>1, NamedObjectsAssumption
  DEF AtRest, Asks, Asked, Answers, Answered, Opening, Sending, Receiving
<1>7. SemInOrder'
  BY <1>1, <1>6 DEF SemInv, SemInOrder, Echoing
<1> QED
  BY <1>2, <1>3, <1>5, <1>7 DEF SemInv

\* sem_wait of the server
LEMMA SemServerWaitOK == SemInv /\ Sm!ServerWait => SemInv'
PROOF
<1> SUFFICES ASSUME SemInv, Sm!ServerWait PROVE SemInv'
  OBVIOUS
<1>1. /\ spc = "wait" /\ spc' = "copy" /\ sem["sem_client_ready"] > 0
      /\ sem' = [sem EXCEPT !["sem_client_ready"] = sem["sem_client_ready"] - 1]
      /\ UNCHANGED <<run, names, buffer, cpc, ci, reply, answers, si, temp, heard, clean>>
  BY DEF Sm!ServerWait, Sm!Server, Sm!Wait, Sm!client
<1>2. SemTypeOK /\ SemProcesses /\ SemTokens /\ SemInOrder
  BY DEF SemInv
<1>3. /\ sem["sem_client_ready"] - 1 \in Nat
      /\ sem'["sem_client_ready"] = sem["sem_client_ready"] - 1
      /\ sem'["sem_server_ready"] = sem["sem_server_ready"]
      /\ sem' \in [Sm!Sems -> Nat]
  BY <1>1, <1>2, SemValues
<1>4. SemTypeOK'
  BY <1>1, <1>2, <1>3 DEF SemTypeOK, Copying
<1>5. SemProcesses'
  BY <1>1, <1>2 DEF SemProcesses
<1>6. SemTokens'
  <2>1. sem' = [sem EXCEPT !["sem_client_ready"] = @ + (0 - 1)]
    <3>1. sem["sem_client_ready"] - 1 = sem["sem_client_ready"] + (0 - 1)
      BY <1>2, SemValues
    <3> QED
      BY <1>1, <3>1
  <2>2. ServerOwes' + ClientOwes' + (0 - 1) = ServerOwes + ClientOwes
    <3>1. ServerOwes' = 1 /\ ServerOwes = 0 /\ ClientOwes' = ClientOwes /\ ClientOwes \in Int
      BY <1>1 DEF ServerOwes, ClientOwes, Copying, Echoing
    <3> QED
      BY <3>1
  <2>3. "sem_client_ready" \in Sm!Sems
    BY DEF Sm!Sems
  <2> QED
    BY <1>1, <1>2, <2>1, <2>2, <2>3, TokensMoved
<1>7. ASSUME clean PROVE SemInOrder'
  <2>1. Asked
    BY <1>1, <1>2, <1>7 DEF SemInOrder, AtRest, Asks, Answers, Answered
  <2>2. Answers'
    BY <1>1, <1>3, <2>1 DEF Asked, Answers, Copying, Echoing, Sm!Ping
  <2> QED
    BY <1>1, <1>2, <1>7, <2>2 DEF SemInOrder, Echoing
<1> QED
  BY <1>1, <1>4, <1>5, <1>6, <1>7 DEF SemInv, SemInOrder

\* The server copies the first half ...
LEMMA SemServerCopyOK ==
  ASSUME SemInv, Sm!Server("copy", "copy_tail"), temp' = <<buffer[1], temp[2]>>,
         UNCHANGED <<names, sem, buffer, si, heard>>
  PROVE  SemInv'
PROOF
<1>1. /\ spc = "copy" /\ spc' = "copy_tail" /\ temp' = <<buffer[1], temp[2]>>
      /\ UNCHANGED <<run, names, sem, buffer, cpc, ci, reply, answers, si, heard, clean>>
  BY DEF Sm!Server, Sm!client
<1>2. SemTypeOK /\ SemProcesses /\ SemTokens /\ SemInOrder
  BY DEF SemInv
<1>3. SemTypeOK'
  <2>1. temp' \in Wholes
    BY <1>1, <1>2, HalfSet DEF SemTypeOK, Wholes
  <2> QED
    BY <1>1, <1>2, <2>1 DEF SemTypeOK, Copying
<1>4. SemProcesses'
  BY <1>1, <1>2 DEF SemProcesses
<1>5. SemTokens'
  BY <1>1, <1>2 DEF SemTokens, Copying, Echoing
<1>6. ASSUME clean PROVE SemInOrder'
  <2>1. Answers
    BY <1>1, <1>2, <1>6 DEF SemInOrder, AtRest, Asks, Asked, Answered
  <2>2. Answers'
    BY <1>1, <2>1 DEF Answers, Copying, Echoing, Sm!Ping
  <2> QED
    BY <1>1, <1>2, <1>6, <2>2 DEF SemInOrder, Echoing
<1> QED
  BY <1>1, <1>3, <1>4, <1>5, <1>6 DEF SemInv, SemInOrder

\* ... and the second, and prints what it has.
LEMMA SemServerCopyTailOK ==
  ASSUME SemInv, Sm!Server("copy_tail", "echo"), temp' = <<temp[1], buffer[2]>>,
         heard' = Append(heard, temp'), UNCHANGED <<names, sem, buffer, si>>
  PROVE  SemInv'
PROOF
<1>1. /\ spc = "copy_tail" /\ spc' = "echo" /\ temp' = <<temp[1], buffer[2]>>
      /\ heard' = Append(heard, temp')
      /\ UNCHANGED <<run, names, sem, buffer, cpc, ci, reply, answers, si, clean>>
  BY DEF Sm!Server, Sm!client
<1>2. SemTypeOK /\ SemProcesses /\ SemTokens /\ SemInOrder
  BY DEF SemInv
<1>3. temp' \in Wholes
  BY <1>1, <1>2, HalfSet DEF SemTypeOK, Wholes
<1>4. heard \in Seq(Wholes) /\ heard' \in Seq(Wholes) /\ Len(heard') = Len(heard) + 1
  BY <1>1, <1>2, <1>3, AppendProperties DEF SemTypeOK
<1>5. SemTypeOK'
  BY <1>1, <1>2, <1>3, <1>4 DEF SemTypeOK, Echoing
<1>6. SemProcesses'
  BY <1>1, <1>2 DEF SemProcesses
<1>7. SemTokens'
  BY <1>1, <1>2 DEF SemTokens, Copying, Echoing
<1>8. ASSUME clean PROVE SemInOrder'
  <2>1. Answers
    BY <1>1, <1>2, <1>8 DEF SemInOrder, AtRest, Asks, Asked, Answered
  <2>2. temp' = <<Sm!Ping(ci), Sm!Ping(ci)>>
    BY <1>1, <2>1 DEF Answers, Copying
  <2>3. Answers'
    BY <1>1, <2>1, <2>2 DEF Answers, Copying, Echoing, Sm!Ping
  <2>4. Len(heard) = ci /\ ci \in Nat /\ si = ci /\ WholeOf("ping", run, heard)
    BY <1>1, <1>2, <1>8, <2>1 DEF SemInOrder, SemTypeOK, Answers, Echoing
  <2>5. WholeOf("ping", run, heard')
    BY <1>1, <1>3, <1>4, <2>2, <2>4, WholeAppend DEF Sm!Ping
  <2>6. Len(heard') = si' + (IF spc' \in Echoing THEN 1 ELSE 0)
    BY <1>1, <1>4, <2>4 DEF Echoing
  <2> QED
    BY <1>1, <1>2, <1>8, <2>3, <2>5, <2>6 DEF SemInOrder
<1> QED
  BY <1>1, <1>5, <1>6, <1>7, <1>8 DEF SemInv, SemInOrder

\* The server writes the echo, one half after the other.
LEMMA SemServerEchoOK == SemInv /\ Sm!ServerEcho => SemInv'
PROOF
<1> SUFFICES ASSUME SemInv, Sm!ServerEcho PROVE SemInv'
  OBVIOUS
<1>1. /\ spc \in {"echo", "echo_tail"} /\ spc' \in {"echo_tail", "post"}
      /\ \/ spc = "echo" /\ spc' = "echo_tail" /\ buffer' = [buffer EXCEPT ![1] = Sm!Echo(temp[1])]
         \/ spc = "echo_tail" /\ spc' = "post" /\ buffer' = [buffer EXCEPT ![2] = Sm!Echo(temp[2])]
      /\ UNCHANGED <<run, names, sem, cpc, ci, reply, answers, si, temp, heard, clean>>
  BY DEF Sm!ServerEcho, Sm!Server, Sm!SetHalf, Sm!client
<1>2. SemTypeOK /\ SemProcesses /\ SemTokens /\ SemInOrder
  BY DEF SemInv
<1>3. Sm!Echo(temp[1]) \in Halves /\ Sm!Echo(temp[2]) \in Halves
  BY <1>2, HalfSet, HalvesOK DEF SemTypeOK
<1>4. \/ spc = "echo" /\ spc' = "echo_tail" /\ buffer' = <<Sm!Echo(temp[1]), buffer[2]>>
      \/ spc = "echo_tail" /\ spc' = "post" /\ buffer' = <<buffer[1], Sm!Echo(temp[2])>>
  BY <1>1, <1>2, <1>3, HalfSet DEF SemTypeOK
<1>5. SemTypeOK'
  <2>1. buffer' \in Wholes
    BY <1>2, <1>3, <1>4, HalfSet DEF SemTypeOK, Wholes
  <2> QED
    BY <1>1, <1>2, <2>1 DEF SemTypeOK, Echoing
<1>6. SemProcesses'
  BY <1>1, <1>2 DEF SemProcesses
<1>7. SemTokens'
  BY <1>1, <1>2 DEF SemTokens, Copying, Echoing
<1>8. ASSUME clean PROVE SemInOrder'
  <2>1. Answers
    BY <1>1, <1>2, <1>8 DEF SemInOrder, AtRest, Asks, Asked, Answered, Copying, Echoing
  <2>2. temp[1] = Sm!Ping(ci) /\ temp[2] = Sm!Ping(ci)
    BY <1>1, <2>1 DEF Answers, Echoing
  <2>3. Sm!Ping(ci)' = Sm!Ping(ci) /\ Sm!Echo(Sm!Ping(ci))' = Sm!Echo(Sm!Ping(ci))
    BY <1>1 DEF Sm!Ping, Sm!Echo
  <2>4. Answers'
    BY <1>1, <1>4, <2>1, <2>2, <2>3 DEF Answers, Copying, Echoing
  <2> QED
    BY <1>1, <1>2, <1>8, <2>4 DEF SemInOrder, Echoing
<1> QED
  BY <1>1, <1>5, <1>6, <1>7, <1>8 DEF SemInv, SemInOrder

\* sem_post of the server
LEMMA SemServerPostOK == SemInv /\ Sm!ServerPost => SemInv'
PROOF
<1> SUFFICES ASSUME SemInv, Sm!ServerPost PROVE SemInv'
  OBVIOUS
<1>1. /\ spc = "post" /\ spc' = (IF si + 1 < SemIterations THEN "wait" ELSE "off")
      /\ sem' = [sem EXCEPT !["sem_server_ready"] = sem["sem_server_ready"] + 1]
      /\ si' = si + 1
      /\ UNCHANGED <<run, names, buffer, cpc, ci, reply, answers, temp, heard, clean>>
  BY DEF Sm!ServerPost, Sm!Server, Sm!Post, Sm!client
<1>2. SemTypeOK /\ SemProcesses /\ SemTokens /\ SemInOrder
  BY DEF SemInv
<1>3. /\ sem["sem_server_ready"] + 1 \in Nat
      /\ sem'["sem_server_ready"] = sem["sem_server_ready"] + 1
      /\ sem'["sem_client_ready"] = sem["sem_client_ready"]
      /\ sem' \in [Sm!Sems -> Nat]
  BY <1>1, <1>2, SemValues
<1>4. SemTypeOK'
  BY <1>1, <1>2, <1>3 DEF SemTypeOK
<1>5. SemProcesses'
  BY <1>1, <1>2 DEF SemProcesses
<1>6. SemTokens'
  <2>1. ServerOwes' + ClientOwes' + 1 = ServerOwes + ClientOwes
    <3>1. ServerOwes' = 0 /\ ServerOwes = 1 /\ ClientOwes' = ClientOwes /\ ClientOwes \in Int
      BY <1>1 DEF ServerOwes, ClientOwes, Copying, Echoing
    <3> QED
      BY <3>1
  <2>2. "sem_server_ready" \in Sm!Sems
    BY DEF Sm!Sems
  <2> QED
    BY <1>1, <1>2, <2>1, <2>2, TokensMoved
<1>7. ASSUME clean PROVE SemInOrder'
  <2>1. Answers
    BY <1>1, <1>2, <1>7 DEF SemInOrder, AtRest, Asks, Asked, Answered
  <2>2. buffer[1] = Sm!Echo(Sm!Ping(ci)) /\ buffer[2] = Sm!Echo(Sm!Ping(ci))
    BY <1>1, <2>1 DEF Answers
  <2>3. ci \in Nat /\ si = ci /\ ci < SemIterations /\ SemIterations \in Nat
    BY <1>2, <2>1, NamedObjectsAssumption DEF SemTypeOK, Answers
  <2>4. sem'["sem_server_ready"] = 1 /\ sem'["sem_client_ready"] = 0 /\ cpc' = "wait"
    BY <1>1, <1>3, <2>1 DEF Answers
  <2>5. Sm!Echo(Sm!Ping(ci))' = Sm!Echo(Sm!Ping(ci))
    BY <1>1 DEF Sm!Ping, Sm!Echo
  <2>6. Answered'
    BY <1>1, <2>2, <2>3, <2>4, <2>5 DEF Answered, Receiving
  <2>7. Len(heard) = si + 1 /\ ~(spc' \in Echoing) /\ si + 1 + 0 = si + 1
    BY <1>1, <1>2, <1>7, <2>3 DEF SemInOrder, Echoing
  <2> QED
    BY <1>1, <1>2, <1>7, <2>6, <2>7 DEF SemInOrder
<1> QED
  BY <1>1, <1>4, <1>5, <1>6, <1>7 DEF SemInv, SemInOrder

\* The client writes its ping, one half after the other.
LEMMA SemClientSendOK == SemInv /\ Sm!ClientSend => SemInv'
PROOF
<1> SUFFICES ASSUME SemInv, Sm!ClientSend PROVE SemInv'
  OBVIOUS
<1>1. /\ cpc \in {"send", "send_tail"} /\ cpc' \in {"send_tail", "post"}
      /\ \/ cpc = "send" /\ cpc' = "send_tail" /\ buffer' = [buffer EXCEPT ![1] = Sm!Ping(ci)]
         \/ cpc = "send_tail" /\ cpc' = "post" /\ buffer' = [buffer EXCEPT ![2] = Sm!Ping(ci)]
      /\ UNCHANGED <<run, names, sem, spc, ci, reply, answers, si, temp, heard, clean>>
  BY DEF Sm!ClientSend, Sm!Client, Sm!SetHalf, Sm!server
<1>2. SemTypeOK /\ SemProcesses /\ SemTokens /\ SemInOrder
  BY DEF SemInv
<1>3. Sm!Ping(ci) \in Halves
  BY <1>2, HalvesOK DEF SemTypeOK
<1>4. \/ cpc = "send" /\ cpc' = "send_tail" /\ buffer' = <<Sm!Ping(ci), buffer[2]>>
      \/ cpc = "send_tail" /\ cpc' = "post" /\ buffer' = <<buffer[1], Sm!Ping(ci)>>
  BY <1>1, <1>2, <1>3, HalfSet DEF SemTypeOK
<1>5. SemTypeOK'
  <2>1. buffer' \in Wholes
    BY <1>2, <1>3, <1>4, HalfSet DEF SemTypeOK, Wholes
  <2> QED
    BY <1>1, <1>2, <2>1 DEF SemTypeOK, Sending
<1>6. SemProcesses'
  BY <1>1, <1>2 DEF SemProcesses, Opening
<1>7. SemTokens'
  BY <1>1, <1>2 DEF SemTokens, Opening, Sending, Receiving
<1>8. ASSUME clean PROVE SemInOrder'
  <2>1. Asks
    BY <1>1, <1>2, <1>8 DEF SemInOrder, AtRest, Asked, Answers, Answered, Opening, Ending, Receiving
  <2>2. Sm!Ping(ci)' = Sm!Ping(ci)
    BY <1>1 DEF Sm!Ping
  <2>3. Asks'
    BY <1>1, <1>4, <2>1, <2>2 DEF Asks, Sending
  <2> QED
    BY <1>1, <1>2, <1>8, <2>3 DEF SemInOrder
<1> QED
  BY <1>1, <1>5, <1>6, <1>7, <1>8 DEF SemInv, SemInOrder

\* sem_post of the client
LEMMA SemClientPostOK == SemInv /\ Sm!ClientPost => SemInv'
PROOF
<1> SUFFICES ASSUME SemInv, Sm!ClientPost PROVE SemInv'
  OBVIOUS
<1>1. /\ cpc = "post" /\ cpc' = "wait"
      /\ sem' = [sem EXCEPT !["sem_client_ready"] = sem["sem_client_ready"] + 1]
      /\ UNCHANGED <<run, names, buffer, spc, ci, reply, answers, si, temp, heard, clean>>
  BY DEF Sm!ClientPost, Sm!Client, Sm!Post, Sm!server
<1>2. SemTypeOK /\ SemProcesses /\ SemTokens /\ SemInOrder
  BY DEF SemInv
<1>3. /\ sem["sem_client_ready"] + 1 \in Nat
      /\ sem'["sem_client_ready"] = sem["sem_client_ready"] + 1
      /\ sem'["sem_server_ready"] = sem["sem_server_ready"]
      /\ sem' \in [Sm!Sems -> Nat]
  BY <1>1, <1>2, SemValues
<1>4. SemTypeOK'
  BY <1>1, <1>2, <1>3 DEF SemTypeOK
<1>5. SemProcesses'
  BY <1>1, <1>2 DEF SemProcesses, Opening
<1>6. SemTokens'
  <2>1. ServerOwes' + ClientOwes' + 1 = ServerOwes + ClientOwes
    <3>1. ServerOwes' = ServerOwes /\ ClientOwes' = 0 /\ ClientOwes = 1 /\ ServerOwes \in Int
      BY <1>1 DEF ServerOwes, ClientOwes, Opening, Sending, Receiving
    <3> QED
      BY <3>1
  <2>2. "sem_client_ready" \in Sm!Sems
    BY DEF Sm!Sems
  <2> QED
    BY <1>1, <1>2, <2>1, <2>2, TokensMoved
<1>7. ASSUME clean PROVE SemInOrder'
  <2>1. Asks
    BY <1>1, <1>2, <1>7 DEF SemInOrder, AtRest, Asked, Answers, Answered, Opening, Ending, Receiving
  <2>2. Sm!Ping(ci)' = Sm!Ping(ci)
    BY <1>1 DEF Sm!Ping
  <2>3. sem'["sem_client_ready"] = 1 /\ sem'["sem_server_ready"] = 0
    BY <1>3, <2>1 DEF Asks
  <2>4. Asked'
    BY <1>1, <2>1, <2>2, <2>3 DEF Asks, Asked
  <2> QED
    BY <1>1, <1>2, <1>7, <2>4 DEF SemInOrder
<1> QED
  BY <1>1, <1>4, <1>5, <1>6, <1>7 DEF SemInv, SemInOrder

\* sem_wait of the client
LEMMA SemClientWaitOK == SemInv /\ Sm!ClientWait => SemInv'
PROOF
<1> SUFFICES ASSUME SemInv, Sm!ClientWait PROVE SemInv'
  OBVIOUS
<1>1. /\ cpc = "wait" /\ cpc' = "receive" /\ sem["sem_server_ready"] > 0
      /\ sem' = [sem EXCEPT !["sem_server_ready"] = sem["sem_server_ready"] - 1]
      /\ UNCHANGED <<run, names, buffer, spc, ci, reply, answers, si, temp, heard, clean>>
  BY DEF Sm!ClientWait, Sm!Client, Sm!Wait, Sm!server
<1>2. SemTypeOK /\ SemProcesses /\ SemTokens /\ SemInOrder
  BY DEF SemInv
<1>3. /\ sem["sem_server_ready"] - 1 \in Nat
      /\ sem'["sem_server_ready"] = sem["sem_server_ready"] - 1
      /\ sem'["sem_client_ready"] = sem["sem_client_ready"]
      /\ sem' \in [Sm!Sems -> Nat]
  BY <1>1, <1>2, SemValues
<1>4. SemTypeOK'
  BY <1>1, <1>2, <1>3 DEF SemTypeOK, Receiving
<1>5. SemProcesses'
  BY <1>1, <1>2 DEF SemProcesses, Opening
<1>6. SemTokens'
  <2>1. sem' = [sem EXCEPT !["sem_server_ready"] = @ + (0 - 1)]
    <3>1. sem["sem_server_ready"] - 1 = sem["sem_server_ready"] + (0 - 1)
      BY <1>2, SemValues
    <3> QED
      BY <1>1, <3>1
  <2>2. ServerOwes' + ClientOwes' + (0 - 1) = ServerOwes + ClientOwes
    <3>1. ServerOwes' = ServerOwes /\ ClientOwes' = 1 /\ ClientOwes = 0 /\ ServerOwes \in Int
      BY <1>1 DEF ServerOwes, ClientOwes, Opening, Sending, Receiving
    <3> QED
      BY <3>1
  <2>3. "sem_server_ready" \in Sm!Sems
    BY DEF Sm!Sems
  <2> QED
    BY <1>1, <1>2, <2>1, <2>2, <2>3, TokensMoved
<1>7. ASSUME clean PROVE SemInOrder'
  <2>1. Answered
    BY <1>1, <1>2, <1>7
    DEF SemInOrder, AtRest, Asks, Asked, Answers, Opening, Ending, Sending
  <2>2. Sm!Echo(Sm!Ping(ci))' = Sm!Echo(Sm!Ping(ci))
    BY <1>1 DEF Sm!Ping, Sm!Echo
  <2>3. sem'["sem_client_ready"] = 0 /\ sem'["sem_server_ready"] = 0
    BY <1>1, <1>3, <2>1 DEF Answered, Receiving
  <2>4. Answered'
    BY <1>1, <2>1, <2>2, <2>3 DEF Answered, Receiving
  <2> QED
    BY <1>1, <1>2, <1>7, <2>4 DEF SemInOrder
<1> QED
  BY <1>1, <1>4, <1>5, <1>6, <1>7 DEF SemInv, SemInOrder

\* The client's printf reads one half of the answer ...
LEMMA SemClientReceiveOK ==
  ASSUME SemInv, Sm!Client("receive", "receive_tail"), reply' = buffer[1],
         UNCHANGED <<names, sem, buffer, ci, answers>>
  PROVE  SemInv'
PROOF
<1>1. /\ cpc = "receive" /\ cpc' = "receive_tail" /\ reply' = buffer[1]
      /\ UNCHANGED <<run, names, sem, buffer, spc, ci, answers, si, temp, heard, clean>>
  BY DEF Sm!Client, Sm!server
<1>2. SemTypeOK /\ SemProcesses /\ SemTokens /\ SemInOrder
  BY DEF SemInv
<1>3. SemTypeOK'
  BY <1>1, <1>2, HalfSet DEF SemTypeOK, Receiving
<1>4. SemProcesses'
  BY <1>1, <1>2 DEF SemProcesses, Opening
<1>5. SemTokens'
  BY <1>1, <1>2 DEF SemTokens, Opening, Sending, Receiving
<1>6. ASSUME clean PROVE SemInOrder'
  <2>1. Answered
    BY <1>1, <1>2, <1>6
    DEF SemInOrder, AtRest, Asks, Asked, Answers, Opening, Ending, Sending
  <2>2. Sm!Echo(Sm!Ping(ci))' = Sm!Echo(Sm!Ping(ci))
    BY <1>1 DEF Sm!Ping, Sm!Echo
  <2>3. Answered'
    BY <1>1, <2>1, <2>2 DEF Answered, Receiving
  <2> QED
    BY <1>1, <1>2, <1>6, <2>3 DEF SemInOrder
<1> QED
  BY <1>1, <1>3, <1>4, <1>5, <1>6 DEF SemInv, SemInOrder

\* ... and the other, and prints what it has.
LEMMA SemClientReceiveTailOK ==
  ASSUME SemInv, Sm!Client("receive_tail", IF ci + 1 < SemIterations THEN "send" ELSE "reap"),
         answers' = Append(answers, <<reply, buffer[2]>>), ci' = ci + 1,
         UNCHANGED <<names, sem, buffer, reply>>
  PROVE  SemInv'
PROOF
<1> DEFINE x == <<reply, buffer[2]>>
<1>1. /\ cpc = "receive_tail" /\ cpc' = (IF ci + 1 < SemIterations THEN "send" ELSE "reap")
      /\ answers' = Append(answers, x) /\ ci' = ci + 1
      /\ UNCHANGED <<run, names, sem, buffer, reply, spc, si, temp, heard, clean>>
  BY DEF Sm!Client, Sm!server
<1>2. SemTypeOK /\ SemProcesses /\ SemTokens /\ SemInOrder
  BY DEF SemInv
<1>3. x \in Wholes
  BY <1>2, HalfSet DEF SemTypeOK, Wholes
<1>4. answers \in Seq(Wholes) /\ answers' \in Seq(Wholes) /\ Len(answers') = Len(answers) + 1
  BY <1>1, <1>2, <1>3, AppendProperties DEF SemTypeOK
<1>5. SemTypeOK'
  BY <1>1, <1>2, <1>4 DEF SemTypeOK, Sending, Ending
<1>6. SemProcesses'
  BY <1>1, <1>2 DEF SemProcesses, Opening
<1>7. ServerOwes' + ClientOwes' <= ServerOwes + ClientOwes
  <2> DEFINE a == ServerOwes
             b == ClientOwes
             u == ServerOwes'
             w == ClientOwes'
  <2>1. u = a /\ a \in 0 .. 1 /\ b = 1
    BY <1>1 DEF ServerOwes, ClientOwes, Receiving
  <2>2. w \in 0 .. 1
    BY DEF ClientOwes
  <2> HIDE DEF a, b, u, w
  <2>3. u + w <= a + b
    BY <2>1, <2>2
  <2> QED
    BY <2>3 DEF a, b, u, w
<1>8. SemTokens'
  BY <1>1, <1>2, <1>7, TokensKept
<1>9. ASSUME clean PROVE SemInOrder'
  <2>1. Answered
    BY <1>1, <1>2, <1>9
    DEF SemInOrder, AtRest, Asks, Asked, Answers, Opening, Ending, Sending
  <2>2. x = <<Sm!Echo(Sm!Ping(ci)), Sm!Echo(Sm!Ping(ci))>>
    BY <1>1, <2>1 DEF Answered
  <2>3. Len(answers) = ci /\ ci \in Nat /\ WholeOf("echo", run, answers)
    BY <1>2, <1>9 DEF SemInOrder, SemTypeOK
  <2>4. x = <<<<"echo", run, Len(answers)>>, <<"echo", run, Len(answers)>>>>
    BY <1>2, <2>2, <2>3, HalvesOK DEF SemTypeOK
  <2>5. WholeOf("echo", run, answers')
    <3> HIDE DEF x
    <3> QED
      BY <1>1, <1>3, <1>4, <2>3, <2>4, WholeAppend
  <2>6. CASE ci + 1 < SemIterations
    <3>1. Asks'
      BY <1>1, <2>1, <2>6 DEF Answered, Asks, Sending, Receiving
    <3> QED
      BY <1>1, <1>2, <1>4, <1>9, <2>3, <2>5, <3>1 DEF SemInOrder
  <2>7. CASE ~(ci + 1 < SemIterations)
    <3>1. AtRest'
      BY <1>1, <2>1, <2>7 DEF Answered, AtRest, Ending, Receiving
    <3> QED
      BY <1>1, <1>2, <1>4, <1>9, <2>3, <2>5, <3>1 DEF SemInOrder
  <2> QED
    BY <2>6, <2>7
<1> QED
  BY <1>1, <1>5, <1>6, <1>8, <1>9 DEF SemInv, SemInOrder

\* Every step of semaphore.c, its user and its processes keeps the invariant.
LEMMA SemStepOK ==
  SemInv /\ (Sm!Start \/ Sm!Interrupt \/ Sm!ServerStep \/ Sm!ClientStep) => SemInv'
PROOF
<1>1. SemInv /\ Sm!ServerStep => SemInv'
  <2>1. SemInv /\ Sm!ServerCopy => SemInv'
    BY SemServerCopyOK, SemServerCopyTailOK DEF Sm!ServerCopy, Sm!shared
  <2> QED
    BY <2>1, SemServerWaitOK, SemServerEchoOK, SemServerPostOK DEF Sm!ServerStep
<1>2. SemInv /\ Sm!ClientStep => SemInv'
  <2>1. SemInv /\ Sm!ClientReceive => SemInv'
    BY SemClientReceiveOK, SemClientReceiveTailOK DEF Sm!ClientReceive, Sm!shared
  <2> QED
    BY <2>1, SemMainOK, SemForkOK, SemClientSendOK, SemClientPostOK, SemClientWaitOK, SemEndOK
    DEF Sm!ClientStep
<1> QED
  BY <1>1, <1>2, SemStartOK, SemInterruptOK

\* The invariant says what the run checks.
LEMMA SemInvImplies == SemInv => Sm!RightAfterCleanEnd /\ Sm!OneLeftPerRun
PROOF
<1> SUFFICES ASSUME SemInv PROVE Sm!RightAfterCleanEnd /\ Sm!OneLeftPerRun
  OBVIOUS
<1>1. ASSUME NEW word, NEW s \in Seq(Wholes), WholeOf(word, run, s)
      PROVE  s = [n \in 1 .. Len(s) |-> <<<<word, run, n - 1>>, <<word, run, n - 1>>>>]
  <2>1. s = [n \in 1 .. Len(s) |-> s[n]]
    OBVIOUS
  <2> QED
    BY <1>1, <2>1 DEF WholeOf
<1>2. Sm!RightAfterCleanEnd
  BY <1>1 DEF SemInv, SemTypeOK, SemInOrder, Sm!RightAfterCleanEnd, Sm!Whole, Sm!Ping, Sm!Echo
<1>3. Sm!OneLeftPerRun
  <2> DEFINE k == sem["sem_client_ready"]
             l == sem["sem_server_ready"]
             a == ServerOwes
             b == ClientOwes
  <2>1. k + l + a + b <= run
    BY DEF SemInv, SemTokens, ServerOwes, ClientOwes
  <2>2. k \in Nat /\ l \in Nat /\ run \in Nat
    BY SemValues DEF SemInv, SemTypeOK
  <2>3. a \in 0 .. 1 /\ b \in 0 .. 1
    BY DEF ServerOwes, ClientOwes
  <2> HIDE DEF k, l, a, b
  <2>4. k + l <= run
    BY <2>1, <2>2, <2>3
  <2> QED
    BY <2>4 DEF Sm!OneLeftPerRun, k, l
<1> QED
  BY <1>2, <1>3

-------------------------------------------------------------------------------
(* priority_queue.c on a prompt machine                                    *)

\* What the clock may show at most before the client's next step.
Slack == PromptSecond + PromptLate

\* Where the processes are, and how far they have counted.
PriorityTypeOK ==
  /\ clock \in Nat /\ due.client \in Nat /\ due.server \in Nat
  /\ pc = [client |-> pc.client, server |-> pc.server]
  /\ due = [client |-> due.client, server |-> due.server]
  /\ i = [client |-> i.client, server |-> i.server]
  /\ i.client \in 0 .. PrioIterations /\ i.server \in 0 .. PrioIterations
  /\ pc.client \in {"open", "send", "reap", "done"}
  /\ pc.server \in {"open", "receive", "unlink", "done"}

\* The client sends on time ...
ClientOnTime ==
  /\ pc.client = "open" => i.client = 0 /\ due.client = PromptSecond
  /\ pc.client = "send" => i.client < PrioIterations /\ due.client <= (i.client + 1) * Slack
  /\ pc.client \in {"open", "send"} => clock <= due.client + PromptLate
  /\ pc.client \in {"reap", "done"} => i.client = PrioIterations

\* ... while the server sleeps.
ServerSleeps ==
  /\ pc.client \in {"open", "send"} => i.server = 0
  /\ pc.server = "open" => i.server = 0
  /\ pc.server = "receive" => due.server >= Nap * PromptSecond /\ i.server < PrioIterations

\* The server takes from the top of what the client has sent.
FromTheTop ==
  /\ IF opened THEN pending = 0 .. i.client - i.server - 1 ELSE pending = {} /\ i.server = 0
  /\ heard = [k \in 1 .. i.server |-> PrioIterations - k]

PriorityInv == PriorityTypeOK /\ ClientOnTime /\ ServerSleeps /\ FromTheTop

\* Products grow with their factors.
LEMMA TimesMono ==
  ASSUME NEW m \in Nat, NEW n \in Nat, NEW s \in Nat, m <= n
  PROVE  m * s <= n * s
PROOF
<1> DEFINE d == n - m
<1>1. d \in Nat /\ n = m + d
  OBVIOUS
<1> HIDE DEF d
<1>2. n * s = m * s + d * s
  BY <1>1
<1>3. d * s \in Nat /\ m * s \in Nat
  BY <1>1
<1> QED
  BY <1>2, <1>3

\* Before the client has sent its last message the server's sleep is not over.
LEMMA StillAsleep ==
  ASSUME PriorityTypeOK, ClientOnTime, pc.client \in {"open", "send"}
  PROVE  clock < Nap * PromptSecond
PROOF
<1>1. /\ PrioIterations \in Nat \ {0} /\ PromptSecond \in Nat /\ PromptLate \in Nat
      /\ Slack \in Nat /\ PromptSecond <= Slack /\ Nap \in Nat
  BY NamedObjectsAssumption DEF Slack
<1>2. PrioIterations * Slack + PromptLate < Nap * PromptSecond
  BY PromptAssumption DEF Slack
<1>3. due.client <= PrioIterations * Slack
  <2>1. CASE pc.client = "open"
    <3>1. 1 * Slack <= PrioIterations * Slack
      BY <1>1, TimesMono
    <3>2. due.client <= 1 * Slack
      BY <1>1, <2>1 DEF ClientOnTime
    <3> QED
      BY <1>1, <3>1, <3>2 DEF PriorityTypeOK
  <2>2. CASE pc.client = "send"
    <3>1. i.client + 1 \in Nat /\ i.client + 1 <= PrioIterations
      BY <1>1, <2>2 DEF ClientOnTime, PriorityTypeOK
    <3>2. (i.client + 1) * Slack <= PrioIterations * Slack
      BY <1>1, <3>1, TimesMono
    <3>3. due.client <= (i.client + 1) * Slack
      BY <2>2 DEF ClientOnTime
    <3> DEFINE a == (i.client + 1) * Slack
    <3>4. a \in Nat /\ PrioIterations * Slack \in Nat
      BY <1>1, <3>1
    <3> HIDE DEF a
    <3> QED
      BY <3>2, <3>3, <3>4 DEF PriorityTypeOK, a
  <2> QED
    BY <2>1, <2>2
<1>4. clock <= due.client + PromptLate
  BY DEF ClientOnTime
<1> DEFINE t == PrioIterations * Slack
           u == Nap * PromptSecond
<1>5. t \in Nat /\ u \in Nat
  BY <1>1
<1> HIDE DEF t, u
<1>6. clock < u
  BY <1>1, <1>2, <1>3, <1>4, <1>5 DEF PriorityTypeOK, t, u
<1> QED
  BY <1>6 DEF u

\* The greatest of the first numbers is the last.
LEMMA MaxOfFirst ==
  ASSUME NEW n \in Nat
  PROVE  /\ Prompt!Max(0 .. n) = n
         /\ (0 .. n) \ {n} = 0 .. n - 1
PROOF
<1>1. n \in 0 .. n /\ \A y \in 0 .. n : n >= y
  OBVIOUS
<1>2. \A x \in 0 .. n : (\A y \in 0 .. n : x >= y) => x = n
  OBVIOUS
<1>3. Prompt!Max(0 .. n) = n
  BY <1>1, <1>2 DEF Prompt!Max
<1> QED
  BY <1>3

\* The greatest of two times is one of them.
LEMMA MaxOfTwo ==
  ASSUME NEW x \in Nat, NEW y \in Nat
  PROVE  Prompt!Max({x, y}) \in Nat /\ Prompt!Max({x, y}) >= x
PROOF
<1>1. \E z \in {x, y} : \A v \in {x, y} : z >= v
  BY DEF Prompt!Max
<1>2. /\ Prompt!Max({x, y}) \in {x, y}
      /\ \A v \in {x, y} : Prompt!Max({x, y}) >= v
  BY <1>1 DEF Prompt!Max
<1> QED
  BY <1>2

\* main() after fork
LEMMA PriorityInitOK == Prompt!Init => PriorityInv
PROOF
<1> SUFFICES ASSUME Prompt!Init PROVE PriorityInv
  OBVIOUS
<1>1. /\ clock = 0 /\ pc = [client |-> "open", server |-> "open"]
      /\ due = [client |-> PromptSecond, server |-> 0]
      /\ opened = FALSE /\ pending = {} /\ heard = << >>
      /\ i = [client |-> 0, server |-> 0]
  BY DEF Prompt!Init, Prompt!Procs
<1>2. PriorityTypeOK
  BY <1>1, NamedObjectsAssumption DEF PriorityTypeOK
<1>3. ClientOnTime
  BY <1>1, NamedObjectsAssumption DEF ClientOnTime
<1>4. ServerSleeps
  BY <1>1 DEF ServerSleeps
<1>5. heard = [k \in 1 .. i.server |-> PrioIterations - k]
  BY <1>1
<1>6. FromTheTop
  BY <1>1, <1>5 DEF FromTheTop
<1> QED
  BY <1>2, <1>3, <1>4, <1>6 DEF PriorityInv

\* mq_open and sleep(6) of the server
LEMMA ServerOpenOK == PriorityInv /\ Prompt!ServerOpen => PriorityInv'
PROOF
<1> SUFFICES ASSUME PriorityInv, Prompt!ServerOpen PROVE PriorityInv'
  OBVIOUS
<1>1. PriorityTypeOK /\ ClientOnTime /\ ServerSleeps /\ FromTheTop
  BY DEF PriorityInv
<1>2. /\ pc.server = "open" /\ pc' = [pc EXCEPT !["server"] = "receive"]
      /\ due' = [due EXCEPT !["server"] = clock + Nap * PromptSecond]
      /\ UNCHANGED <<clock, opened, pending, i, heard>>
  BY DEF Prompt!ServerOpen, Prompt!Goto
<1> DEFINE u == Nap * PromptSecond
<1>3. u \in Nat
  BY NamedObjectsAssumption
<1> HIDE DEF u
<1>4. /\ pc'.client = pc.client /\ pc'.server = "receive"
      /\ due'.client = due.client /\ due'.server = clock + u
      /\ pc' = [client |-> pc'.client, server |-> pc'.server]
      /\ due' = [client |-> due'.client, server |-> due'.server]
  BY <1>1, <1>2 DEF PriorityTypeOK, u
<1>5. PriorityTypeOK'
  BY <1>1, <1>2, <1>3, <1>4 DEF PriorityTypeOK
<1>6. ClientOnTime'
  BY <1>1, <1>2, <1>4 DEF ClientOnTime
<1>7. ServerSleeps'
  <2>1. due'.server >= u
    BY <1>1, <1>3, <1>4 DEF PriorityTypeOK
  <2>2. i.server < PrioIterations
    BY <1>1, <1>2, NamedObjectsAssumption DEF ServerSleeps
  <2> QED
    BY <1>1, <1>2, <1>4, <2>1, <2>2 DEF ServerSleeps, u
<1>8. FromTheTop'
  BY <1>1, <1>2 DEF FromTheTop
<1> QED
  BY <1>5, <1>6, <1>7, <1>8 DEF PriorityInv

\* mq_receive: the server is awake, so the client has sent everything.
LEMMA ServerReceiveOK == PriorityInv /\ Prompt!ServerReceive => PriorityInv'
PROOF
<1> SUFFICES ASSUME PriorityInv, Prompt!ServerReceive PROVE PriorityInv'
  OBVIOUS
<1>1. PriorityTypeOK /\ ClientOnTime /\ ServerSleeps /\ FromTheTop
  BY DEF PriorityInv
<1>2. /\ pc.server = "receive" /\ clock >= due.server /\ pending # {}
      /\ pc' = [pc EXCEPT !["server"] =
                  IF i.server + 1 < PrioIterations THEN "receive" ELSE "unlink"]
      /\ due' = [due EXCEPT !["server"] = clock]
      /\ heard' = Append(heard, Prompt!Max(pending))
      /\ pending' = pending \ {Prompt!Max(pending)}
      /\ i' = [i EXCEPT !.server = i.server + 1]
      /\ UNCHANGED <<clock, opened>>
  <2>1. clock + 0 = clock
    BY <1>1 DEF PriorityTypeOK
  <2> QED
    BY <2>1 DEF Prompt!ServerReceive, Prompt!Goto
<1> DEFINE u == Nap * PromptSecond
<1>3. u \in Nat
  BY NamedObjectsAssumption
<1>4. clock >= u
  <2>1. due.server >= u
    BY <1>1, <1>2 DEF ServerSleeps
  <2> HIDE DEF u
  <2> QED
    BY <1>1, <1>2, <1>3, <2>1 DEF PriorityTypeOK
<1>5. pc.client \notin {"open", "send"}
  <2>1. pc.client \in {"open", "send"} => clock < u
    BY <1>1, StillAsleep
  <2> HIDE DEF u
  <2> QED
    BY <1>1, <1>3, <1>4, <2>1 DEF PriorityTypeOK
<1> HIDE DEF u
<1>6. i.client = PrioIterations /\ PrioIterations \in Nat \ {0}
  BY <1>1, <1>5, NamedObjectsAssumption DEF PriorityTypeOK, ClientOnTime
<1> DEFINE m == PrioIterations - 1 - i.server
<1>7. m \in Nat /\ i.server \in Nat /\ i.server < PrioIterations
  BY <1>1, <1>2, <1>6 DEF PriorityTypeOK, ServerSleeps
<1>8. opened /\ pending = 0 .. m
  BY <1>1, <1>2, <1>6, <1>7 DEF FromTheTop
<1>9. Prompt!Max(pending) = m /\ pending' = 0 .. m - 1
  <2> HIDE DEF m
  <2> QED
    BY <1>2, <1>7, <1>8, MaxOfFirst
<1>10. /\ pc'.client = pc.client /\ pc'.server \in {"receive", "unlink"}
       /\ pc'.server = "receive" => i.server + 1 < PrioIterations
       /\ due'.client = due.client /\ due'.server = clock
       /\ i'.client = i.client /\ i'.server = i.server + 1
       /\ pc' = [client |-> pc'.client, server |-> pc'.server]
       /\ due' = [client |-> due'.client, server |-> due'.server]
       /\ i' = [client |-> i'.client, server |-> i'.server]
  BY <1>1, <1>2 DEF PriorityTypeOK
<1>11. PriorityTypeOK'
  BY <1>1, <1>2, <1>6, <1>7, <1>10 DEF PriorityTypeOK
<1>12. ClientOnTime'
  BY <1>1, <1>2, <1>5, <1>10 DEF ClientOnTime
<1>13. ServerSleeps'
  BY <1>1, <1>4, <1>5, <1>10 DEF ServerSleeps, u
<1>14. FromTheTop'
  <2>1. pending' = 0 .. i'.client - i'.server - 1
    <3>1. m - 1 = i'.client - i'.server - 1
      BY <1>6, <1>7, <1>10
    <3> QED
      BY <1>9, <3>1
  <2>2. heard' = [k \in 1 .. i.server + 1 |-> PrioIterations - k]
    <3> DEFINE n == i.server
               old == [k \in 1 .. n |-> PrioIterations - k]
    <3>1. heard' = Append(old, m) /\ m = PrioIterations - (n + 1)
      BY <1>1, <1>2, <1>6, <1>7, <1>9 DEF FromTheTop
    <3>2. n \in Nat
      BY <1>7
    <3> HIDE DEF n, m
    <3>3. old \in Seq(Int) /\ Len(old) = n
      BY <1>6, <3>2
    <3>4. Append(old, m) = [k \in 1 .. n + 1 |-> IF k = n + 1 THEN m ELSE old[k]]
      BY <3>2, <3>3
    <3>5. \A k \in 1 .. n + 1 : (IF k = n + 1 THEN m ELSE old[k]) = PrioIterations - k
      BY <3>1, <3>2, <1>6
    <3>6. Append(old, m) = [k \in 1 .. n + 1 |-> PrioIterations - k]
      BY <3>4, <3>5
    <3> QED
      BY <3>1, <3>6 DEF n
  <2> QED
    BY <1>2, <1>8, <1>10, <2>1, <2>2 DEF FromTheTop
<1> QED
  BY <1>11, <1>12, <1>13, <1>14 DEF PriorityInv

\* mq_unlink of the server
LEMMA ServerUnlinkOK == PriorityInv /\ Prompt!ServerUnlink => PriorityInv'
PROOF
<1> SUFFICES ASSUME PriorityInv, Prompt!ServerUnlink PROVE PriorityInv'
  OBVIOUS
<1>1. PriorityTypeOK /\ ClientOnTime /\ ServerSleeps /\ FromTheTop
  BY DEF PriorityInv
<1>2. /\ pc' = [pc EXCEPT !["server"] = "done"]
      /\ due' = [due EXCEPT !["server"] = clock]
      /\ UNCHANGED <<clock, opened, pending, i, heard>>
  <2>1. clock + 0 = clock
    BY <1>1 DEF PriorityTypeOK
  <2> QED
    BY <2>1 DEF Prompt!ServerUnlink, Prompt!Goto
<1>3. /\ pc'.client = pc.client /\ pc'.server = "done"
      /\ due'.client = due.client /\ due'.server = clock
      /\ pc' = [client |-> pc'.client, server |-> pc'.server]
      /\ due' = [client |-> due'.client, server |-> due'.server]
  BY <1>1, <1>2 DEF PriorityTypeOK
<1>4. PriorityTypeOK'
  BY <1>1, <1>2, <1>3 DEF PriorityTypeOK
<1>5. ClientOnTime'
  BY <1>1, <1>2, <1>3 DEF ClientOnTime
<1>6. ServerSleeps'
  BY <1>1, <1>2, <1>3 DEF ServerSleeps
<1>7. FromTheTop'
  BY <1>1, <1>2 DEF FromTheTop
<1> QED
  BY <1>4, <1>5, <1>6, <1>7 DEF PriorityInv

\* mq_open of the client
LEMMA ClientOpenOK == PriorityInv /\ Prompt!ClientOpen => PriorityInv'
PROOF
<1> SUFFICES ASSUME PriorityInv, Prompt!ClientOpen PROVE PriorityInv'
  OBVIOUS
<1>1. PriorityTypeOK /\ ClientOnTime /\ ServerSleeps /\ FromTheTop
  BY DEF PriorityInv
<1>2. /\ pc.client = "open" /\ pc' = [pc EXCEPT !["client"] = "send"]
      /\ due' = [due EXCEPT !["client"] = clock]
      /\ opened' = named
      /\ UNCHANGED <<clock, pending, i, heard>>
  <2>1. clock + 0 = clock
    BY <1>1 DEF PriorityTypeOK
  <2> QED
    BY <2>1 DEF Prompt!ClientOpen, Prompt!Goto
<1>3. /\ pc'.server = pc.server /\ pc'.client = "send"
      /\ due'.server = due.server /\ due'.client = clock
      /\ pc' = [client |-> pc'.client, server |-> pc'.server]
      /\ due' = [client |-> due'.client, server |-> due'.server]
  BY <1>1, <1>2 DEF PriorityTypeOK
<1>4. i.client = 0 /\ i.server = 0 /\ due.client = PromptSecond
  BY <1>1, <1>2 DEF ClientOnTime, ServerSleeps
<1>5. PriorityTypeOK'
  BY <1>1, <1>2, <1>3 DEF PriorityTypeOK
<1>6. ClientOnTime'
  <2>1. clock <= (0 + 1) * Slack
    BY <1>1, <1>2, <1>4, NamedObjectsAssumption DEF ClientOnTime, PriorityTypeOK, Slack
  <2>2. clock <= clock + PromptLate /\ 0 < PrioIterations
    BY <1>1, NamedObjectsAssumption DEF PriorityTypeOK
  <2> QED
    BY <1>2, <1>3, <1>4, <2>1, <2>2 DEF ClientOnTime
<1>7. ServerSleeps'
  BY <1>1, <1>2, <1>3, <1>4 DEF ServerSleeps
<1>8. FromTheTop'
  <2>1. pending = {}
    BY <1>1, <1>4 DEF FromTheTop
  <2>2. 0 .. 0 - 0 - 1 = {}
    OBVIOUS
  <2> QED
    BY <1>1, <1>2, <1>4, <2>1, <2>2 DEF FromTheTop
<1> QED
  BY <1>5, <1>6, <1>7, <1>8 DEF PriorityInv

\* mq_send and sleep(1) of the client
LEMMA ClientSendOK == PriorityInv /\ Prompt!ClientSend => PriorityInv'
PROOF
<1> SUFFICES ASSUME PriorityInv, Prompt!ClientSend PROVE PriorityInv'
  OBVIOUS
<1>1. PriorityTypeOK /\ ClientOnTime /\ ServerSleeps /\ FromTheTop
  BY DEF PriorityInv
<1>2. /\ pc.client = "send"
      /\ pc' = [pc EXCEPT !.client = IF i.client + 1 < PrioIterations THEN "send" ELSE "reap"]
      /\ pending' = (IF opened THEN pending \cup {i.client} ELSE pending)
      /\ due' = [client |-> clock + PromptSecond,
                 server |-> IF pending = {} THEN Prompt!Max({due.server, clock}) ELSE due.server]
      /\ i' = [i EXCEPT !.client = i.client + 1]
      /\ UNCHANGED <<clock, opened, heard>>
  BY DEF Prompt!ClientSend
<1>3. due'.server \in Nat /\ due'.server >= due.server
  BY <1>1, <1>2, MaxOfTwo DEF PriorityTypeOK
<1>4. /\ pc'.server = pc.server /\ pc'.client \in {"send", "reap"}
      /\ pc'.client = "send" <=> i.client + 1 < PrioIterations
      /\ due'.client = clock + PromptSecond
      /\ i'.client = i.client + 1 /\ i'.server = i.server
      /\ pc' = [client |-> pc'.client, server |-> pc'.server]
      /\ due' = [client |-> due'.client, server |-> due'.server]
      /\ i' = [client |-> i'.client, server |-> i'.server]
  BY <1>1, <1>2 DEF PriorityTypeOK
<1>5. /\ i.server = 0 /\ i.client \in Nat /\ i.client < PrioIterations
      /\ due.client <= (i.client + 1) * Slack /\ clock <= due.client + PromptLate
      /\ clock \in Nat /\ due.client \in Nat
      /\ PrioIterations \in Nat /\ PromptSecond \in Nat /\ PromptLate \in Nat
  BY <1>1, <1>2, NamedObjectsAssumption DEF ClientOnTime, ServerSleeps, PriorityTypeOK
<1>6. PriorityTypeOK'
  BY <1>1, <1>2, <1>3, <1>4, <1>5 DEF PriorityTypeOK
<1>7. ClientOnTime'
  <2> DEFINE a == (i.client + 1) * Slack
             b == (i.client + 1 + 1) * Slack
  <2>1. b = a + Slack /\ a \in Nat /\ Slack \in Nat
    BY <1>5 DEF Slack
  <2>2. clock + PromptSecond <= b
    <3>1. due.client <= a
      BY <1>5
    <3>2. Slack = PromptSecond + PromptLate
      BY DEF Slack
    <3> HIDE DEF a, b
    <3> QED
      BY <1>5, <2>1, <3>1, <3>2
  <2>3. clock <= (clock + PromptSecond) + PromptLate
    BY <1>5
  <2>4. pc'.client = "reap" => i.client + 1 = PrioIterations
    BY <1>4, <1>5
  <2> QED
    BY <1>2, <1>4, <2>2, <2>3, <2>4 DEF ClientOnTime
<1>8. ServerSleeps'
  <2> DEFINE u == Nap * PromptSecond
  <2>1. u \in Nat
    BY NamedObjectsAssumption
  <2>2. pc.server = "receive" => due.server >= u /\ i.server < PrioIterations
    BY <1>1 DEF ServerSleeps
  <2>3. due.server \in Nat
    BY <1>1 DEF PriorityTypeOK
  <2> HIDE DEF u
  <2>4. pc.server = "receive" => due'.server >= u
    BY <1>3, <2>1, <2>2, <2>3
  <2> QED
    BY <1>4, <1>5, <2>2, <2>4 DEF ServerSleeps, u
<1>9. FromTheTop'
  <2>1. opened => pending' = 0 .. (i.client + 1) - 0 - 1
    <3>1. (0 .. i.client - 0 - 1) \cup {i.client} = 0 .. (i.client + 1) - 0 - 1
      BY <1>5
    <3> QED
      BY <1>1, <1>2, <1>5, <3>1 DEF FromTheTop
  <2> QED
    BY <1>1, <1>2, <1>4, <1>5, <2>1 DEF FromTheTop
<1> QED
  BY <1>6, <1>7, <1>8, <1>9 DEF PriorityInv

\* wait of the client
LEMMA ReapOK == PriorityInv /\ Prompt!Reap => PriorityInv'
PROOF
<1> SUFFICES ASSUME PriorityInv, Prompt!Reap PROVE PriorityInv'
  OBVIOUS
<1>1. PriorityTypeOK /\ ClientOnTime /\ ServerSleeps /\ FromTheTop
  BY DEF PriorityInv
<1>2. /\ pc.client = "reap" /\ pc' = [pc EXCEPT !["client"] = "done"]
      /\ due' = [due EXCEPT !["client"] = clock]
      /\ UNCHANGED <<clock, opened, pending, i, heard>>
  <2>1. clock + 0 = clock
    BY <1>1 DEF PriorityTypeOK
  <2> QED
    BY <2>1 DEF Prompt!Reap, Prompt!Goto
<1>3. /\ pc'.server = pc.server /\ pc'.client = "done"
      /\ due'.server = due.server /\ due'.client = clock
      /\ pc' = [client |-> pc'.client, server |-> pc'.server]
      /\ due' = [client |-> due'.client, server |-> due'.server]
  BY <1>1, <1>2 DEF PriorityTypeOK
<1>4. PriorityTypeOK'
  BY <1>1, <1>2, <1>3 DEF PriorityTypeOK
<1>5. ClientOnTime'
  BY <1>1, <1>2, <1>3 DEF ClientOnTime
<1>6. ServerSleeps'
  BY <1>1, <1>2, <1>3 DEF ServerSleeps
<1>7. FromTheTop'
  BY <1>1, <1>2 DEF FromTheTop
<1> QED
  BY <1>4, <1>5, <1>6, <1>7 DEF PriorityInv

\* Time passes, and no process that may go on is left behind.
LEMMA PriorityTickOK == PriorityInv /\ Prompt!Tick => PriorityInv'
PROOF
<1> SUFFICES ASSUME PriorityInv, Prompt!Tick PROVE PriorityInv'
  OBVIOUS
<1>1. PriorityTypeOK /\ ClientOnTime /\ ServerSleeps /\ FromTheTop
  BY DEF PriorityInv
<1>2. clock' = clock + 1 /\ UNCHANGED <<pc, due, opened, pending, i, heard>>
  BY DEF Prompt!Tick
<1>3. pc.client \in {"open", "send"} => clock < due.client + PromptLate
  BY DEF Prompt!Tick, Prompt!Blocked, Prompt!Procs
<1>4. PriorityTypeOK'
  BY <1>1, <1>2 DEF PriorityTypeOK
<1>5. ClientOnTime'
  <2>1. pc.client \in {"open", "send"} => clock + 1 <= due.client + PromptLate
    BY <1>1, <1>3, NamedObjectsAssumption DEF PriorityTypeOK
  <2> QED
    BY <1>1, <1>2, <2>1 DEF ClientOnTime
<1>6. ServerSleeps'
  BY <1>1, <1>2 DEF ServerSleeps
<1>7. FromTheTop'
  BY <1>1, <1>2 DEF FromTheTop
<1> QED
  BY <1>4, <1>5, <1>6, <1>7 DEF PriorityInv

\* The invariant says what the run checks.
LEMMA PriorityInvImplies == PriorityInv => Prompt!Descending
PROOF
<1> SUFFICES ASSUME PriorityInv, NEW j \in DOMAIN heard, NEW k \in DOMAIN heard, j < k
             PROVE  heard[j] > heard[k]
  BY DEF Prompt!Descending
<1> DEFINE n == i.server
<1>1. heard = [m \in 1 .. n |-> PrioIterations - m] /\ n \in Nat /\ PrioIterations \in Nat
  BY NamedObjectsAssumption DEF PriorityInv, PriorityTypeOK, FromTheTop
<1> HIDE DEF n
<1>2. j \in 1 .. n /\ k \in 1 .. n
  BY <1>1
<1>3. heard[j] = PrioIterations - j /\ heard[k] = PrioIterations - k
  BY <1>1, <1>2
<1> QED
  BY <1>1, <1>2, <1>3

-------------------------------------------------------------------------------
(* The programs together                                                   *)

NamedInv ==
  /\ program \in {"queue", "semaphore", "prompt", "late"}
  /\ program = "queue" => QueueInv
  /\ program = "semaphore" => SemInv
  /\ program = "prompt" => PriorityInv

\* No run has begun, and nothing has been left behind.
LEMMA QueueInitOK == Mq!Init => QueueInv
PROOF
<1> SUFFICES ASSUME Mq!Init PROVE QueueInv
  OBVIOUS
<1>1. /\ run = 0 /\ names = {} /\ queue = [q \in Mq!Queues |-> << >>]
      /\ cpc = "off" /\ ci = 0 /\ answers = << >> /\ spc = "off" /\ si = 0 /\ heard = << >>
  BY DEF Mq!Init
<1>2. queue["c2s"] = << >> /\ queue["s2c"] = << >> /\ queue \in [Mq!Queues -> Seq(Texts)]
  BY <1>1 DEF Mq!Queues
<1>3. QueueTypeOK /\ QueueProcesses /\ HeardSomething
  BY <1>1, <1>2 DEF QueueTypeOK, QueueProcesses, HeardSomething
<1>4. QueueTokens
  <2> DEFINE l == Len(queue["c2s"])
             m == Len(queue["s2c"])
             a == IF spc = "send" THEN 1 ELSE 0
             b == IF cpc \in {"open_c2s", "open_s2c", "send"} THEN 1 ELSE 0
  <2>1. l = 0 /\ m = 0
    BY <1>2
  <2>2. a = 0 /\ b = 0
    BY <1>1
  <2> HIDE DEF l, m, a, b
  <2>3. l + m + a + b <= run
    BY <1>1, <2>1, <2>2
  <2> QED
    BY <2>3 DEF QueueTokens, l, m, a, b
<1>5. QueueInOrder
  BY <1>1, <1>2 DEF QueueInOrder, PingsFrom
<1> QED
  BY <1>3, <1>4, <1>5 DEF QueueInv

\* The same of semaphore.c.
LEMMA SemInitOK == Sm!Init => SemInv
PROOF
<1> SUFFICES ASSUME Sm!Init PROVE SemInv
  OBVIOUS
<1>1. /\ run = 0 /\ names = {} /\ sem = [s \in Sm!Sems |-> 0]
      /\ buffer = <<Sm!Zeros, Sm!Zeros>> /\ temp = <<Sm!Zeros, Sm!Zeros>> /\ reply = Sm!Zeros
      /\ cpc = "off" /\ ci = 0 /\ answers = << >> /\ spc = "off" /\ si = 0 /\ heard = << >>
  BY DEF Sm!Init
<1>2. sem["sem_client_ready"] = 0 /\ sem["sem_server_ready"] = 0 /\ sem \in [Sm!Sems -> Nat]
  BY <1>1 DEF Sm!Sems
<1>3. Sm!Zeros \in Halves
  BY <1>1, HalvesOK
<1>4. SemTypeOK
  <2>1. buffer \in Wholes /\ temp \in Wholes /\ reply \in Halves
    BY <1>1, <1>3 DEF Wholes
  <2> QED
    BY <1>1, <1>2, <2>1 DEF SemTypeOK
<1>5. SemProcesses
  BY <1>1 DEF SemProcesses, Opening
<1>6. SemTokens
  BY <1>1, <1>2 DEF SemTokens, Copying, Echoing, Opening, Sending, Receiving
<1>7. SemInOrder
  BY <1>1, <1>2 DEF SemInOrder, AtRest, WholeOf, Echoing
<1> QED
  BY <1>4, <1>5, <1>6, <1>7 DEF SemInv

\* Whichever program is started, its invariant holds.
LEMMA NamedInitOK == Init => NamedInv
  BY QueueInitOK, SemInitOK, PriorityInitOK DEF Init, NamedInv

\* Every step is one of the program that runs, and keeps its invariant.
LEMMA NamedStepOK == NamedInv /\ [Next]_vars => NamedInv'
PROOF
<1> SUFFICES ASSUME NamedInv, [Next]_vars PROVE NamedInv'
  OBVIOUS
<1>1. CASE Mq!ServerStep /\ OnlyQueues
  BY <1>1, QueueStepOK DEF NamedInv, OnlyQueues
<1>2. CASE Sm!ServerStep /\ OnlySemaphores
  BY <1>2, SemStepOK DEF NamedInv, OnlySemaphores
<1>3. CASE Mq!ClientStep /\ OnlyQueues
  BY <1>3, QueueStepOK DEF NamedInv, OnlyQueues
<1>4. CASE Sm!ClientStep /\ OnlySemaphores
  BY <1>4, SemStepOK DEF NamedInv, OnlySemaphores
<1>5. CASE (Mq!Start \/ Mq!Interrupt) /\ OnlyQueues
  BY <1>5, QueueStepOK DEF NamedInv, OnlyQueues
<1>6. CASE (Sm!Start \/ Sm!Interrupt) /\ OnlySemaphores
  BY <1>6, SemStepOK DEF NamedInv, OnlySemaphores
<1>7. CASE Prompt!Step /\ OnlyPriorities("prompt")
  <2>1. PriorityInv'
    BY <1>7, ServerOpenOK, ServerReceiveOK, ServerUnlinkOK, ClientOpenOK, ClientSendOK, ReapOK
    DEF NamedInv, OnlyPriorities, Prompt!Step
  <2> QED
    BY <1>7, <2>1 DEF NamedInv, OnlyPriorities
<1>8. CASE Late!Step /\ OnlyPriorities("late")
  BY <1>8 DEF NamedInv, OnlyPriorities
<1>9. CASE Prompt!Tick /\ OnlyPriorities("prompt")
  BY <1>9, PriorityTickOK DEF NamedInv, OnlyPriorities
<1>10. CASE Late!Tick /\ OnlyPriorities("late")
  BY <1>10 DEF NamedInv, OnlyPriorities
<1>11. CASE UNCHANGED vars
  <2>1. /\ UNCHANGED <<program, run, names, cpc, ci, answers, spc, si, clean>>
        /\ UNCHANGED <<queue, sem, buffer, reply, temp>>
        /\ UNCHANGED <<clock, pc, due, opened, pending, i, heard>>
    BY <1>11 DEF vars, again, ofQueues, ofSemaphores, ofPriorities
  <2>2. QueueInv => QueueInv'
    BY <2>1 DEF QueueInv, QueueTypeOK, QueueProcesses, HeardSomething, QueueTokens,
      QueueInOrder
  <2>3. SemInv => SemInv'
    <3>1. SemTypeOK => SemTypeOK'
      BY <2>1 DEF SemTypeOK
    <3>2. (SemProcesses => SemProcesses') /\ (SemTokens => SemTokens')
      BY <2>1 DEF SemProcesses, SemTokens
    <3>3. /\ AtRest => AtRest'
          /\ Asks => Asks'
          /\ Asked => Asked'
      BY <2>1 DEF AtRest, Asks, Asked, Sm!Ping
    <3>4. /\ Answers => Answers'
          /\ Answered => Answered'
      BY <2>1 DEF Answers, Answered, Sm!Ping
    <3>5. SemInOrder => SemInOrder'
      BY <2>1, <3>3, <3>4 DEF SemInOrder
    <3> QED
      BY <3>1, <3>2, <3>5 DEF SemInv
  <2>4. PriorityInv => PriorityInv'
    BY <2>1 DEF PriorityInv, PriorityTypeOK, ClientOnTime, ServerSleeps, FromTheTop
  <2> QED
    BY <2>1, <2>2, <2>3, <2>4 DEF NamedInv
<1> QED
  BY <1>1, <1>2, <1>3, <1>4, <1>5, <1>6, <1>7, <1>8, <1>9, <1>10, <1>11
  DEF Next, Server, Client, User, PriorityStep, Tick

\* The invariants hold of every run of the programs.
THEOREM NamedObjectsInvariant == Spec => []NamedInv
  BY NamedInitOK, NamedStepOK, PTL DEF Spec

\* Whatever an interrupted run of queue.c or semaphore.c left behind, and however
\* many there were: the run after one that came to its end by itself passes its own
\* messages only, whole and in order.
THEOREM CleanAfterCleanEnd == Spec => []RightAfterCleanEnd
PROOF
<1>1. NamedInv => RightAfterCleanEnd
  BY QueueInvImplies, SemInvImplies DEF NamedInv, RightAfterCleanEnd
<1> QED
  BY <1>1, NamedObjectsInvariant, PTL

\* For any number of interrupted runs: no more messages or posts are left over than
\* there were runs.
THEOREM NoMoreThanOneLeftPerRun == Spec => []OneLeftPerRun
PROOF
<1>1. NamedInv => OneLeftPerRun
  BY QueueInvImplies, SemInvImplies DEF NamedInv, OneLeftPerRun
<1> QED
  BY <1>1, NamedObjectsInvariant, PTL

\* For any number of messages: on a machine on which all that the processes are late
\* by is less than the second by which the server's sleep outlasts the client's
\* sends, priority_queue.c prints the messages by falling priority.
THEOREM HighestIsHeardFirst == Spec => []HighestFirst
PROOF
<1>1. NamedInv => HighestFirst
  BY PriorityInvImplies DEF NamedInv, HighestFirst
<1> QED
  BY <1>1, NamedObjectsInvariant, PTL
===============================================================================
