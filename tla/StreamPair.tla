------------------------------ MODULE StreamPair ------------------------------
(***************************************************************************)
(* What pipes.c, mkfifo.c, sockets.c and unix_sockets.c share: a client    *)
(* and a server process that talk through two one-way byte streams, and    *)
(* what the kernel does for them.  One write() of these programs is short  *)
(* enough to enter a stream whole, so a stream holds pieces: the text of a *)
(* message, or the NUL that ends it.                                       *)
(***************************************************************************)
EXTENDS Naturals, Sequences

CONSTANTS
  Iterations,   \* ITERATIONS: 5
  MaxKills      \* how many of the two processes a signal from outside may kill

ASSUME StreamAssumption == Iterations \in Nat \ {0} /\ MaxKills \in 0 .. 1

VARIABLES
  pc,         \* where each process is
  i,          \* the loop counter of each process
  printed,    \* the texts each process has got and printed
  stream,     \* the pieces in each stream
  ends,       \* who holds which end of which stream open
  kills       \* how many processes have been killed from outside

vars == <<pc, i, printed, stream, ends, kills>>

Procs == {"client", "server"}
Streams == {"c2s", "s2c"}

Other(p) == IF p = "client" THEN "server" ELSE "client"
Out(p) == IF p = "client" THEN "c2s" ELSE "s2c"
In(p) == Out(Other(p))

\* "ping server %d", and the NUL; a text that begins with NUL is empty.
Ping(n) == <<"ping", n>>
Nul == <<"nul", 0>>
Texts == {Nul} \cup {Ping(n) : n \in 0 .. Iterations - 1}

Ended(p) == pc[p] \in {"done", "killed"}
AllEnded == \A p \in Procs : Ended(p)

CanRead(s) == \E p \in Procs : <<p, s, "r">> \in ends
CanWrite(s) == \E p \in Procs : <<p, s, "w">> \in ends

\* What read() tells p when nothing is left and nobody can write any more.
AtEof(p) == stream[In(p)] = << >> /\ ~CanWrite(In(p))

StreamTypeOK(places) ==
  /\ pc \in [Procs -> places \cup {"reap", "done", "killed"}]
  /\ i \in [Procs -> 0 .. Iterations]
  /\ printed \in [Procs -> Seq(Texts)]
  /\ stream \in [Streams -> Seq(Texts)]
  /\ ends \in SUBSET (Procs \X Streams \X {"r", "w"})
  /\ kills \in 0 .. MaxKills

StreamInit ==
  /\ i = [p \in Procs |-> 0]
  /\ printed = [p \in Procs |-> << >>]
  /\ stream = [s \in Streams |-> << >>]
  /\ kills = 0

Goto(p, from, to) == pc[p] = from /\ pc' = [pc EXCEPT ![p] = to]

\* Where p goes at the end of its loop's body.
Round(p, again, over) == IF i[p] + 1 < Iterations THEN again ELSE over

-------------------------------------------------------------------------------
(* System calls                                                            *)

Lost(p) == {e \in ends : e[1] = p}

\* write(): SIGPIPE kills a writer when nobody can read what it writes.
Write(p, from, piece, to) ==
  /\ UNCHANGED <<printed, kills>>
  /\ IF CanRead(Out(p))
       THEN /\ Goto(p, from, to)
            /\ stream' = [stream EXCEPT ![Out(p)] = Append(@, piece)]
            /\ UNCHANGED ends
       ELSE /\ Goto(p, from, "killed")
            /\ ends' = ends \ Lost(p)
            /\ UNCHANGED stream

Close(p, from, closed, to) ==
  /\ Goto(p, from, to)
  /\ ends' = ends \ {<<p, e[1], e[2]>> : e \in closed}
  /\ UNCHANGED <<i, printed, stream, kills>>

\* wait(NULL) and the end of main(), which is the client's process.
Reap ==
  /\ Ended("server")
  /\ Goto("client", "reap", "done")
  /\ UNCHANGED <<i, printed, stream, ends, kills>>

\* A signal from outside kills p; the kernel closes what p held.
Kill(p) ==
  /\ kills < MaxKills /\ ~Ended(p)
  /\ kills' = kills + 1
  /\ pc' = [pc EXCEPT ![p] = "killed"]
  /\ ends' = ends \ Lost(p)
  /\ UNCHANGED <<i, printed, stream>>
===============================================================================
