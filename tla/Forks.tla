--------------------------------- MODULE Forks ---------------------------------
(***************************************************************************)
(* fork.c, vfork.c, vfork_ok.c and spawn.c of lecture-03: a parent and a   *)
(* child that print, and what stdio makes of it.  On a terminal printf     *)
(* writes at every newline; into a file or a pipe only when the process    *)
(* ends by exit().  fork copies the buffer; vfork lends the child the      *)
(* parent's memory, with its buffer and its stack, until the child has     *)
(* called exec or ended.                                                   *)
(***************************************************************************)
EXTENDS Naturals, Sequences, SequencesExt

VARIABLES
  way,        \* which program runs, by its way to create the child
  tty,        \* whether stdout is a terminal
  ppc, kpc,   \* where the parent and the child are
  stdio,      \* what each of them has printed and not yet written
  out,        \* what has been written to stdout
  smashed     \* the child has returned from main() on the parent's stack

vars == <<way, tty, ppc, kpc, stdio, out, smashed>>

Lines == {"hello", "child", "again"}
Vforks == {"vfork", "vfork_ok"}

Init ==
  /\ way \in {"fork", "spawn"} \cup Vforks /\ tty \in BOOLEAN
  /\ ppc = "hello" /\ kpc = "none"
  /\ stdio = [p \in {"parent", "child"} |-> << >>] /\ out = << >>
  /\ smashed = FALSE

Parent(from, to) == ppc = from /\ ppc' = to /\ UNCHANGED <<way, tty, kpc, smashed>>
Child(from, to) == kpc = from /\ kpc' = to /\ UNCHANGED <<way, tty>>

\* The stdio buffer that process p uses.
Buffer(p) == IF p = "child" /\ way \in Vforks THEN "parent" ELSE p

Printf(p, line) ==
  IF tty THEN out' = Append(out, line) /\ UNCHANGED stdio
         ELSE stdio' = [stdio EXCEPT ![Buffer(p)] = Append(@, line)] /\ UNCHANGED out

Flush(p) ==
  /\ out' = out \o stdio[Buffer(p)]
  /\ stdio' = [stdio EXCEPT ![Buffer(p)] = << >>]

-------------------------------------------------------------------------------
(* The parent                                                              *)

Hello == Parent("hello", "create") /\ Printf("parent", "hello")

\* fork and posix_spawnp go on at once, vfork when the child has gone its way.
Create ==
  /\ ppc = "create" /\ ppc' = IF way \in Vforks THEN "lent" ELSE "again"
  /\ \/ way = "fork" /\ kpc' = "print" /\ stdio' = [stdio EXCEPT !["child"] = stdio["parent"]]
     \/ way = "spawn" /\ kpc' \in {"echo", "ended"} /\ UNCHANGED stdio
     \/ way = "vfork" /\ kpc' = "write" /\ UNCHANGED stdio
     \/ way = "vfork_ok" /\ kpc' = "exec" /\ UNCHANGED stdio
  /\ UNCHANGED <<way, tty, out, smashed>>

Again == Parent("again", "wait") /\ Printf("parent", "again")

\* wait, waitpid
Wait == kpc = "ended" /\ Parent("wait", "exit") /\ UNCHANGED <<stdio, out>>

Exit == Parent("exit", "ended") /\ Flush("parent")

\* "*** stack smashing detected ***": abort() does not flush.
Abort == smashed /\ Parent("exit", "ended") /\ UNCHANGED <<stdio, out>>

-------------------------------------------------------------------------------
(* The child                                                               *)

ChildPrintf ==
  Child("print", "exit") /\ Printf("child", "child") /\ UNCHANGED <<ppc, smashed>>

\* write(STDOUT_FILENO, ...) goes past the buffer.
ChildWrite ==
  /\ Child("write", "exit")
  /\ out' = Append(out, "child")
  /\ UNCHANGED <<ppc, stdio, smashed>>

\* execvp gives the memory back, or fails and lets the child go on.
Exec ==
  /\ \/ Child("exec", "echo") /\ ppc' = "again"
     \/ Child("exec", "write") /\ UNCHANGED ppc
  /\ UNCHANGED <<stdio, out, smashed>>

\* The program echo, which has a buffer of its own.
EchoRuns ==
  /\ Child("echo", "ended")
  /\ out' = Append(out, "child")
  /\ UNCHANGED <<ppc, stdio, smashed>>

\* Mutant: _exit, as it should be after vfork.
ChildUnderscoreExit ==
  /\ Child("exit", "ended")
  /\ ppc' = IF way \in Vforks THEN "again" ELSE ppc
  /\ UNCHANGED <<stdio, out, smashed>>

\* return 0 from main(): exit() flushes the buffer, even if it is the parent's.
ChildExit ==
  /\ Child("exit", "ended")
  /\ Flush("child")
  /\ ppc' = IF way \in Vforks THEN "again" ELSE ppc
  /\ smashed' = (way \in Vforks)

-------------------------------------------------------------------------------

Step ==
  \/ Hello \/ Create \/ Again \/ Wait \/ Exit \/ Abort
  \/ ChildPrintf \/ ChildWrite \/ Exec \/ EchoRuns \/ ChildExit

Times(line) == Len(SelectSeq(out, LAMBDA x : x = line))

\* On a terminal every line is written once, the parent's first before all others.
\* Elsewhere fork.c writes that line twice, from both copies of the buffer; the
\* others write it once, even vfork.c, where it is the child that does; and a line
\* is lost only if the parent finds its stack smashed, or echo was not found.
EachLineOnce ==
  /\ out # << >> /\ tty => out[1] = "hello"
  /\ ppc = "ended" =>
       /\ Times("hello") = IF way = "fork" /\ ~tty THEN 2 ELSE 1
       /\ Times("again") = 1 \/ (smashed /\ ~tty /\ Times("again") = 0)
       /\ Times("child") = 1 \/ (way = "spawn" /\ Times("child") = 0)
===============================================================================
