------------------------------ MODULE Coroutines ------------------------------
(***************************************************************************)
(* coro.c and tokenizer.c: coroutines on stacks of their own and a         *)
(* switch_context that saves where one of them is, and loads where another *)
(* one was.  In coro.c main and one coroutine take turns; in tokenizer.c a *)
(* reader cuts a text into words and a printer prints them.  What a step   *)
(* does is the code between two switches, which nothing interrupts.        *)
(***************************************************************************)
EXTENDS Naturals, Sequences, SequencesExt

CONSTANTS
  Letters,      \* the characters of words
  Space,        \* ' '
  MaxText,      \* bound: the longest input_stream
  Room          \* sizeof(current_word) - 1: 255

VARIABLES
  text,           \* input_stream
  cpu,            \* where the processor is, and the register or stack slot with p
  ctx,            \* what switch_context has saved in each Coroutine
  current_word,   \* the buffer between the two coroutines, up to its NUL
  printed         \* what has been printed: words, or the places of coro.c

vars == <<text, cpu, ctx, current_word, printed>>

Texts == UNION {[1 .. n -> Letters \cup {Space}] : n \in 0 .. MaxText}
Names == {"main", "read", "print", "coro"}

\* Where a coroutine can be: at its entry or after one of its switches.
Places ==
  {"main", "finished", "done", "read", "word", "last", "return", "print"}
    \cup {"coro", "step 2", "end", "back 1", "back 2", "back 3"}
Saved == [at : Places, p : 0 .. MaxText + 1]

Words == UNION {[1 .. n -> Letters] : n \in 0 .. Room}

\* coro.c has no text and prints its places.
TypeOK ==
  /\ text \in Texts
  /\ cpu \in Saved /\ ctx \in [Names -> Saved]
  /\ current_word \in Words
  /\ printed \in (IF text = << >> THEN Seq(Places) ELSE Seq(Words))

\* main(), with the coroutines made by coroutine_init: a stack that begins with
\* the function's address, and registers of zero.
Init ==
  /\ text \in Texts
  /\ cpu = [at |-> "main", p |-> 0]
  /\ ctx = [c \in Names |-> [at |-> c, p |-> 0]]
  /\ current_word = << >>
  /\ printed = << >>

\* Mutant: where the coroutine is is not saved.
SwitchUnsaved(from, back, p, to) == UNCHANGED ctx /\ cpu' = ctx[to]

\* switch_context(&from, &to), called where a later switch to `from' goes back to.
Switch(from, back, p, to) ==
  /\ ctx' = [ctx EXCEPT ![from] = [at |-> back, p |-> p]]
  /\ cpu' = ctx[to]

-------------------------------------------------------------------------------
(* coro.c.  Each line is printed, and then the other has its turn.         *)

Say(line) == printed' = Append(printed, line) /\ UNCHANGED <<text, current_word>>

\* coroutine_entry: step 1, step 2 and end
CoroutineEntry ==
  \E turn \in {<<"coro", "step 2">>, <<"step 2", "end">>, <<"end", "return">>} :
    /\ cpu.at = turn[1]
    /\ Say(cpu.at)
    /\ Switch("coro", turn[2], cpu.p, "main")

CoroMain ==
  \/ \E turn \in {<<"main", "back 1">>, <<"back 1", "back 2">>, <<"back 2", "back 3">>} :
       /\ cpu.at = turn[1]
       /\ Say(cpu.at)
       /\ Switch("main", turn[2], cpu.p, "coro")
  \/ /\ cpu.at = "back 3"
     /\ Say(cpu.at)
     /\ cpu' = [cpu EXCEPT !.at = "done"] /\ UNCHANGED ctx

CoroStep == CoroutineEntry \/ CoroMain

-------------------------------------------------------------------------------
(* main of tokenizer.c                                                     *)

Start ==
  /\ cpu.at = "main"
  /\ Switch("main", "finished", cpu.p, "read")
  /\ UNCHANGED <<text, current_word, printed>>

\* Mutant: main switches to the reader once more.
FinishTwice ==
  /\ cpu.at = "finished"
  /\ Switch("main", "done", cpu.p, "read")
  /\ UNCHANGED <<text, current_word, printed>>

Finish ==
  /\ cpu.at = "finished"
  /\ cpu' = [cpu EXCEPT !.at = "done"]
  /\ UNCHANGED <<text, ctx, current_word, printed>>

-------------------------------------------------------------------------------
(* read_coroutine                                                          *)

\* p at the head of the outer loop
Position == IF cpu.at = "read" THEN 1 ELSE cpu.p

\* Where the next word begins; behind the text if there is none.
WordStart ==
  LET starts == {k \in Position .. Len(text) : text[k] # Space}
  IN  IF starts = {} THEN Len(text) + 1 ELSE Min(starts)

\* Mutant: the inner loop does not stop at a space.
WordEndOfText == Min({WordStart + Room, Len(text) + 1})

\* Where the inner loop stops: a space, the end of the text or of the buffer.
WordEnd ==
  Min({k \in WordStart .. Len(text) : text[k] = Space} \cup {WordStart + Room, Len(text) + 1})

ReadWord ==
  /\ cpu.at \in {"read", "word"} /\ WordStart <= Len(text)
  /\ current_word' = SubSeq(text, WordStart, WordEnd - 1)
  /\ Switch("read", "word", WordEnd, "print")
  /\ UNCHANGED <<text, printed>>

\* The text is at its end: the printer gets one more turn.
ReadEnd ==
  /\ cpu.at \in {"read", "word"} /\ WordStart > Len(text)
  /\ Switch("read", "last", WordStart, "print")
  /\ UNCHANGED <<text, current_word, printed>>

Leave ==
  /\ cpu.at = "last"
  /\ Switch("read", "return", cpu.p, "main")
  /\ UNCHANGED <<text, current_word, printed>>

-------------------------------------------------------------------------------
(* printer_coroutine                                                       *)

PrintWord ==
  /\ cpu.at = "print"
  /\ printed' = IF current_word # << >> THEN Append(printed, current_word) ELSE printed
  /\ current_word' = << >>
  /\ Switch("print", "print", cpu.p, "read")
  /\ UNCHANGED text

-------------------------------------------------------------------------------

TokenizerStep == Start \/ Finish \/ ReadWord \/ ReadEnd \/ Leave \/ PrintWord

-------------------------------------------------------------------------------

\* The words of a text, by the letters that begin one: a letter begins a word
\* when an exact number of full buffers lies between it and the space, or the
\* start of the text, before it.
Begins(k) ==
  /\ text[k] # Space
  /\ \E run \in 1 .. k :
       /\ run = 1 \/ text[run - 1] = Space
       /\ \A j \in run .. k : text[j] # Space
       /\ (k - run) % Room = 0

Ends(k) == Begins(k + 1) \/ text[k + 1] = Space

WordsOfText ==
  LET begins == {k \in DOMAIN text : Begins(k)}
      ends   == {k \in DOMAIN text : text[k] # Space /\ (k = Len(text) \/ Ends(k))}
      from   == SetToSortSeq(begins, <)
      to     == SetToSortSeq(ends, <)
  IN  [k \in DOMAIN from |-> SubSeq(text, from[k], to[k])]

\* Every word of any text is printed once, whole and in order, whatever spaces
\* are between words and around them; one that is longer than the buffer comes
\* in pieces and loses no letter.
PrintsTheWords ==
  /\ IsPrefix(printed, WordsOfText)
  /\ cpu.at = "done" => printed = WordsOfText

\* Main and the coroutine of coro.c take turns, each from where it was.
TakesTurns ==
  IsPrefix(printed, <<"main", "coro", "back 1", "step 2", "back 2", "end", "back 3">>)

\* No coroutine returns from its function, under which there is no stack.
NeverReturns == cpu.at # "return"
===============================================================================
