----------------------------- MODULE SmallPrograms -----------------------------
(***************************************************************************)
(* The programs of the course whose difficulty is in what they compute or  *)
(* print: tokenizer.c, where two coroutines hand words to each other,      *)
(* coro.c, the checksum of ping.c, and fork.c and its kin.  A behaviour is *)
(* a run of one of them.                                                   *)
(*                                                                         *)
(* checksum(), the Internet checksum over 16-bit words in an unsigned int, *)
(* is in this module, with how main() puts it into a packet.  The receiver,*)
(* which runs the same sum over what arrives, is not part of the course.   *)
(***************************************************************************)
EXTENDS Naturals, Sequences, SequencesExt

CONSTANTS
  Letters, Space, MaxText, Room,    \* see Coroutines
  Byte,     \* the values of a byte: 256.  A word has Byte^2, the sum Byte^4.
  MaxLen    \* the longest packet: 40

\* The sum of a packet of MaxLen bytes does not overflow an unsigned int.
ASSUME SmallProgramsAssumption ==
  /\ Space \notin Letters /\ MaxText \in Nat /\ Room \in Nat \ {0}
  /\ Byte \in Nat \ {0, 1}
  /\ MaxLen \in 4 .. 2 * (Byte * Byte + 1)

VARIABLES
  program,                                  \* which of them runs
  text, cpu, ctx, current_word, printed,    \* see Coroutines
  packet,   \* what main() of ping.c has built, or what arrives
  state,    \* "built" with checksum = 0, "summed", or "damaged" on its way
  way, tty, ppc, kpc, stdio, out, smashed   \* see Forks

ofCoroutines == <<text, cpu, ctx, current_word, printed>>
ofChecksum == <<packet, state>>
ofForks == <<way, tty, ppc, kpc, stdio, out, smashed>>
vars == <<program, ofCoroutines, ofChecksum, ofForks>>

Co == INSTANCE Coroutines
Fk == INSTANCE Forks

-------------------------------------------------------------------------------
(* The checksum of ping.c                                                  *)

Word == Byte * Byte

\* The words of a packet; the last is one byte alone if the length is odd.
Words(buf) ==
  [k \in 1 .. (Len(buf) + 1) \div 2 |->
     buf[2 * k - 1] + (IF 2 * k <= Len(buf) THEN Byte * buf[2 * k] ELSE 0)]

\* The two loops over buf
Sum(buf) ==
  FoldLeft(LAMBDA sum, w : (sum + w) % (Word * Word), 0, Words(buf))

\* Mutant: the carry of the first fold is lost.
FoldOnce(sum) == (sum \div Word) + (sum % Word)

\* sum = (sum >> 16) + (sum & 0xFFFF); sum += (sum >> 16)
Fold(sum) ==
  LET once == (sum \div Word) + (sum % Word)
  IN  (once + once \div Word) % (Word * Word)

\* result = ~sum, cut to 16 bits
checksum(buf) == Word - 1 - (Fold(Sum(buf)) % Word)

ChecksumTypeOK ==
  /\ packet \in UNION {[1 .. n -> 0 .. Byte - 1] : n \in 4 .. MaxLen}
  /\ state \in {"built", "summed", "damaged"}

\* The third and the fourth byte are the header's checksum.
ChecksumInit ==
  /\ packet \in {p \in UNION {[1 .. n -> 0 .. Byte - 1] : n \in 4 .. MaxLen} :
                   p[3] = 0 /\ p[4] = 0}
  /\ state = "built"

\* icmp_hdr->checksum = checksum(packet, packet_size)
StoreChecksum ==
  /\ state = "built" /\ state' = "summed"
  /\ packet' = [packet EXCEPT ![3] = checksum(packet) % Byte, ![4] = checksum(packet) \div Byte]

\* One byte arrives changed.
Damage ==
  /\ state = "summed" /\ state' = "damaged"
  /\ \E k \in DOMAIN packet, b \in 0 .. Byte - 1 :
       b # packet[k] /\ packet' = [packet EXCEPT ![k] = b]

ChecksumStep == StoreChecksum \/ Damage

-------------------------------------------------------------------------------

\* What the other program owns has its least value.
Init ==
  /\ program \in {"tokenizer", "coro", "checksum", "fork"}
  /\ Co!Init /\ ChecksumInit /\ Fk!Init
  /\ program # "tokenizer" => text = << >>
  /\ program # "checksum" => packet = <<0, 0, 0, 0>>
  /\ program # "fork" => way = "fork" /\ tty

OnlyCoroutines(which) == program = which /\ UNCHANGED <<program, ofChecksum, ofForks>>
TokenizerStep == OnlyCoroutines("tokenizer") /\ Co!TokenizerStep
CoroStep == OnlyCoroutines("coro") /\ Co!CoroStep

PacketStep ==
  program = "checksum" /\ ChecksumStep /\ UNCHANGED <<program, ofCoroutines, ofForks>>

ForkStep == program = "fork" /\ Fk!Step /\ UNCHANGED <<program, ofCoroutines, ofChecksum>>

Terminated == (cpu.at = "done" \/ state = "damaged" \/ ppc = "ended") /\ UNCHANGED vars

Next == TokenizerStep \/ CoroStep \/ PacketStep \/ ForkStep \/ Terminated

Spec == Init /\ [][Next]_vars

-------------------------------------------------------------------------------

\* What is printed is what should be.  tokenizer.c prints every word of any text
\* once, whole and in order, and loses no letter; in coro.c main and the coroutine
\* take turns; nobody returns from a coroutine's function, under which there is no
\* stack.  fork.c and its kin print each line once, but for what fork has copied
\* and what is lost with a stack that the child of a vfork has destroyed.
PrintsTheLines ==
  /\ program = "tokenizer" => Co!PrintsTheWords /\ Co!NeverReturns
  /\ program = "coro" => Co!TakesTurns /\ Co!NeverReturns
  /\ program = "fork" => Fk!EachLineOnce

\* One's complement addition: the carry out of a word comes in at its end.
EndAround(a, b) == IF a + b < Word THEN a + b ELSE a + b - Word + 1

\* Adding first and folding the carries in at the end gives the complement of
\* the words' one's complement sum: two folds are enough.
IsOnesComplementSum ==
  checksum(packet) = Word - 1 - FoldLeft(EndAround, 0, Words(packet))

\* The receiver's sum over a packet that arrives as it was sent gives 0, and
\* something else if one byte of it, the checksum's own bytes and a last byte
\* without a pair included, has changed.
InternetChecksum ==
  program = "checksum" =>
  /\ IsOnesComplementSum
  /\ state = "summed" => checksum(packet) = 0
  /\ state = "damaged" => checksum(packet) # 0
===============================================================================
