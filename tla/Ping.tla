---------------------------------- MODULE Ping ----------------------------------
(***************************************************************************)
(* ping.c and ping.go of lecture-07 in the world of Icmp.  Each sends a    *)
(* request every second or two.  ping.c calls select() on the raw socket   *)
(* until an answer with this process's id comes or a second has passed;    *)
(* ping.go has one read deadline for each request, wants an answer with the*)
(* request's seq, and takes the time from the answer's payload.  A         *)
(* behaviour is a run of one of them.                                      *)
(***************************************************************************)
EXTENDS Icmp, FiniteSets

ASSUME PingAssumption ==
  /\ Pids \subseteq Nat \ {0} /\ {Second, MaxSeq} \subseteq Nat \ {0} /\ Field \in Nat \ {0, 1}
  /\ {MaxLate, MaxForeign, MaxSock} \subseteq Nat

VARIABLES
  program,    \* which of them runs
  late        \* history: time has passed since the program could have gone on

all == <<program, late, vars>>

\* What ping.go does not depend on its pid, which it masks: one is enough.
PingInit ==
  /\ program \in {"c", "go"} /\ late = FALSE /\ Init
  /\ program = "go" => \A p \in Pids : p <= pid

\* sendto and a full `remaining'; WriteTo and SetReadDeadline
Send ==
  /\ pc = "send" /\ seq < MaxSeq
  /\ seq' = seq + 1
  /\ SendRequest
  /\ start' = clock
  /\ deadline' = clock + Second
  /\ pc' = "wait"
  /\ UNCHANGED <<pid, clock, sock, foreign, lines, time, inTime>>

-------------------------------------------------------------------------------
(* ping.c                                                                  *)

\* Mutant: continue in place of break; nothing is left of `remaining'.
CSelectAgain ==
  /\ pc = "wait" /\ sock = << >> /\ clock >= deadline
  /\ UNCHANGED vars

\* select() returns 0.
CSelectTimeout ==
  /\ pc = "wait" /\ sock = << >> /\ clock >= deadline
  /\ PrintTimeout
  /\ UNCHANGED sock

\* select() and recvfrom() give the next packet.
CReceived(packet) ==
  /\ pc = "wait" /\ sock # << >>
  /\ packet = Head(sock)
  /\ sock' = Tail(sock)

CIsMine(packet) == packet.kind = "reply" /\ packet.id = pid

CTakeReply ==
  \E packet \in {sock[k] : k \in DOMAIN sock} :
    /\ CReceived(packet)
    /\ CIsMine(packet)
    /\ PrintReply(packet, clock - start)

\* A packet too short for its headers: select() has left in `remaining' what is
\* left of the second.
CSkipRunt ==
  \E packet \in {sock[k] : k \in DOMAIN sock} :
    /\ CReceived(packet)
    /\ packet.kind = "runt"
    /\ UNCHANGED <<pid, clock, seq, transit, foreign, pc, start, deadline, lines, time, inTime>>

\* Mutant: every packet for others starts a new second.
CSkipForeignAnew ==
  \E packet \in {sock[k] : k \in DOMAIN sock} :
    /\ CReceived(packet)
    /\ packet.kind # "runt" /\ ~CIsMine(packet)
    /\ deadline' = clock + Second
    /\ UNCHANGED <<pid, clock, seq, transit, foreign, pc, start, lines, time, inTime>>

\* Mutant: the first packet for others ends the wait.
CSkipForeignAndGiveUp ==
  \E packet \in {sock[k] : k \in DOMAIN sock} :
    /\ CReceived(packet)
    /\ packet.kind # "runt" /\ ~CIsMine(packet)
    /\ PrintTimeout

\* A packet for others: `remaining' becomes what is left since the request.
CSkipForeign ==
  \E packet \in {sock[k] : k \in DOMAIN sock} :
    /\ CReceived(packet)
    /\ packet.kind # "runt" /\ ~CIsMine(packet)
    /\ IF clock - start > Second
         THEN PrintTimeout
         ELSE /\ deadline' = clock + (Second - (clock - start))
              /\ UNCHANGED <<pid, clock, seq, transit, foreign, pc, start, lines, time, inTime>>

-------------------------------------------------------------------------------
(* ping.go                                                                 *)

\* WriteTo fails: an error is logged, and the next request follows at once.
GoSendFails ==
  /\ pc = "send" /\ seq < MaxSeq
  /\ seq' = seq + 1
  /\ lines' = Append(lines, [kind |-> "error", of |-> seq'])
  /\ UNCHANGED <<pid, clock, transit, sock, foreign, pc, start, deadline, time, inTime>>

\* ReadFrom fails: the deadline has passed.
GoReadTimeout ==
  /\ pc = "wait" /\ clock >= deadline
  /\ PrintTimeout
  /\ UNCHANGED sock

\* ReadFrom gives the next packet, if the deadline has not passed.
GoReceived(packet) ==
  /\ pc = "wait" /\ clock <= deadline /\ sock # << >>
  /\ packet = Head(sock)
  /\ sock' = Tail(sock)

\* Mutant: any answer with this process's id is taken.
GoIsMineById(packet) == packet.kind = "reply" /\ packet.id = Id

GoIsMine(packet) == packet.kind = "reply" /\ packet.id = Id /\ packet.seq = seq

\* Mutant: the time is taken from the last request.
GoTakeReplySinceSend ==
  \E packet \in {sock[k] : k \in DOMAIN sock} :
    /\ GoReceived(packet)
    /\ packet.kind = "reply" /\ packet.id = Id
    /\ PrintReply(packet, clock - start)

GoTakeReply ==
  \E packet \in {sock[k] : k \in DOMAIN sock} :
    /\ GoReceived(packet)
    /\ GoIsMine(packet)
    /\ PrintReply(packet, clock - packet.sent)

\* Too short, no answer, not for this process, or for another request.  What is no
\* answer is read from the wrong place: see GoPanic.
GoSkip ==
  \E packet \in {sock[k] : k \in DOMAIN sock} :
    /\ GoReceived(packet)
    /\ packet.kind # "exceeded" /\ ~GoIsMine(packet)
    /\ UNCHANGED <<pid, clock, seq, transit, foreign, pc, start, deadline, lines, time, inTime>>

\* ReadFrom has taken the IP header off, so that ipHeaderLen is computed from the
\* ICMP type, which is 0 in answers.  Elsewhere it may lie behind the end of the
\* packet, and buf[ipHeaderLen:n] panics.
GoPanic ==
  \E packet \in {sock[k] : k \in DOMAIN sock} :
    /\ GoReceived(packet)
    /\ packet.kind = "exceeded"
    /\ pc' = "panicked"
    /\ UNCHANGED <<pid, clock, seq, transit, foreign, start, deadline, lines, time, inTime>>

-------------------------------------------------------------------------------

Program ==
  /\ \/ Send \/ WakeUp
     \/ /\ program = "c"
        /\ CSelectTimeout \/ CTakeReply \/ CSkipRunt \/ CSkipForeign
     \/ /\ program = "go"
        /\ GoSendFails \/ GoReadTimeout \/ GoTakeReply \/ GoSkip \/ GoPanic
  /\ UNCHANGED <<program, late>>

Network == (Deliver \/ DeliverForeign) /\ UNCHANGED <<program, late>>

Clock ==
  /\ Tick
  /\ late' = (late \/ (pc = "wait" /\ (sock # << >> \/ clock >= deadline)))
  /\ UNCHANGED program

\* The bound MaxSeq ends the endless loop, or a panic does.
Terminated == (pc = "panicked" \/ (pc = "send" /\ seq = MaxSeq)) /\ UNCHANGED all

Next == Program \/ Network \/ Clock \/ Terminated

Spec == PingInit /\ [][Next]_all

\* The program is scheduled and time passes; the network owes nothing.
FairSpec == Spec /\ WF_all(Program) /\ WF_all(Clock)

-------------------------------------------------------------------------------

\* A request whose number, or whose process's, does not fit into 16 bits: the field
\* of its answer is compared with the whole int (ping.c: the pid; ping.go: seq).
Outgrown(n) == (IF program = "c" THEN pid ELSE n) >= Field

\* Every line is true.  No answer is taken for another request's or another
\* process's: ping.go's n-th line is about its n-th request; ping.c reports answers
\* to requests it has made, each no more often than the network delivered it.
\* And as long as the program takes each packet as it comes, a request is reported
\* as timed out only if no answer to it had come in time, or if it has outgrown
\* the 16 bits: then no answer is believed.
LinesAreTrue ==
  \A k \in DOMAIN lines :
    /\ program = "go" => lines[k].of = k
    /\ lines[k].kind = "reply" =>
         /\ lines[k].of \in 1 .. k
         /\ Cardinality({j \in DOMAIN lines : lines[j] = lines[k]}) <= 2
         /\ ~Outgrown(lines[k].of)
    /\ lines[k].kind = "timeout" /\ lines[k].of \in inTime => late \/ Outgrown(lines[k].of)

\* The time that is printed is what the answer took, or in ping.c, which measures
\* a late answer from a later request, less than that.
TimesAreHonest ==
  [][Len(lines') > Len(lines) /\ lines'[Len(lines')].kind = "reply" =>
       LET took == clock - Head(sock).sent
       IN  IF program = "go" THEN time' = took ELSE time' <= took]_all

\* Packets for others, however many, and answers to older requests do not keep the
\* program from giving up a second after it sent the request.
DeadlineKept == pc = "wait" => deadline = start + Second

\* A panic of ping.go, which a packet for others has brought about
PanicByStranger == program = "go" /\ pc = "panicked" /\ foreign > 0

\* Whatever comes, the program does not wait for one answer for ever: a line
\* settles the request, and the loop goes on.  Only ping.go may end, and only by
\* a packet for others that it cuts at the wrong place.
LoopGoesOn == pc = "wait" ~> (pc = "send" \/ PanicByStranger)

\* What the `continue' behind each check of ping.c and ping.go says, and ping.go's
\* message "Error parsing ICMP message": a packet that is not an answer is skipped,
\* whatever is in it, and the endless loop goes on.
NothingEndsTheLoop == pc = "wait" ~> pc = "send"

\* What a "Request timed out" of ping.c says: the request that was reported as
\* timed out is not reported as answered later.
TimedOutIsFinal ==
  program = "c" =>
    \A j, k \in DOMAIN lines :
      lines[j].kind = "timeout" /\ lines[k].kind = "reply" => lines[j].of # lines[k].of
===============================================================================
