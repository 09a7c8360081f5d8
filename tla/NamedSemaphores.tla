---------------------------- MODULE NamedSemaphores ----------------------------
(***************************************************************************)
(* lecture-03/ipc/semaphore.c, run after run.  Client and server share a   *)
(* buffer and take turns by two named semaphores.  The names, and what     *)
(* they stand for, outlive the processes: only a main() that comes to its  *)
(* end unlinks them, and sem_open ignores its initial value when it finds  *)
(* a semaphore.  The user may interrupt a run at any moment, which kills   *)
(* both processes, and start the program again.  The buffer takes many     *)
(* stores; two halves stand for them.                                      *)
(***************************************************************************)
EXTENDS Naturals, Sequences

CONSTANTS
  Iterations,   \* ITERATIONS: 5
  MaxRuns       \* how often the program is started

VARIABLES
  run,             \* the number of runs so far
  names,           \* what shm_open and sem_open can find
  sem,             \* the value of each semaphore
  buffer,          \* the two halves of shm->buffer
  cpc, ci,         \* where main() is, then the client ("off" between runs), and its i
  reply,           \* the half of the buffer that the client's printf has read
  answers,         \* what the client has printed in this run
  spc, si,         \* where the server is, and its i
  temp,            \* the server's local copy of the buffer
  heard,           \* what the server has printed in this run
  clean            \* history: did the last run come to its end by itself?

client == <<cpc, ci, reply, answers>>
server == <<spc, si, temp, heard>>
shared == <<names, sem, buffer>>
vars == <<run, shared, client, server, clean>>

Sems == {"sem_client_ready", "sem_server_ready"}
Names == Sems \cup {"shm"}

\* The halves of "ping server %d", of its echo, and of a new page.
Ping(n) == <<"ping", run, n>>
Echo(half) == <<"echo", half[2], half[3]>>
Zeros == <<"none", 0, 0>>
Halves == {Zeros} \cup ({"ping", "echo"} \X (0 .. MaxRuns) \X (0 .. Iterations - 1))

TypeOK ==
  /\ run \in 0 .. MaxRuns
  /\ names \in SUBSET Names
  /\ sem \in [Sems -> Nat]
  /\ {buffer[1], buffer[2], temp[1], temp[2], reply} \subseteq Halves
  /\ cpc \in {"off", "shm_open", "open_client", "open_server", "fork", "send", "send_tail",
              "post", "wait", "receive", "receive_tail", "reap", "unlink_shm", "unlink_client",
              "unlink_server"}
  /\ spc \in {"off", "wait", "copy", "copy_tail", "echo", "echo_tail", "post"}
  /\ ci \in 0 .. Iterations /\ Len(answers) = ci
  /\ si \in 0 .. Iterations

Init ==
  /\ run = 0 /\ names = {} /\ sem = [s \in Sems |-> 0] /\ buffer = <<Zeros, Zeros>>
  /\ cpc = "off" /\ ci = 0 /\ reply = Zeros /\ answers = << >>
  /\ spc = "off" /\ si = 0 /\ temp = <<Zeros, Zeros>> /\ heard = << >>
  /\ clean = TRUE

Client(from, to) == cpc = from /\ cpc' = to /\ UNCHANGED <<run, server, clean>>
Server(from, to) == spc = from /\ spc' = to /\ UNCHANGED <<run, client, clean>>

Post(s) == sem' = [sem EXCEPT ![s] = @ + 1] /\ UNCHANGED <<names, buffer>>
Wait(s) == sem[s] > 0 /\ sem' = [sem EXCEPT ![s] = @ - 1] /\ UNCHANGED <<names, buffer>>
SetHalf(k, half) == buffer' = [buffer EXCEPT ![k] = half] /\ UNCHANGED <<names, sem>>

-------------------------------------------------------------------------------
(* The user, and main()                                                    *)

Start ==
  /\ cpc = "off" /\ run < MaxRuns
  /\ run' = run + 1
  /\ cpc' = "shm_open"
  /\ UNCHANGED <<shared, ci, reply, answers, server, clean>>

\* Both processes are gone; what has no name any more is gone too.
Gone ==
  /\ cpc' = "off" /\ ci' = 0 /\ reply' = Zeros /\ answers' = << >>
  /\ spc' = "off" /\ si' = 0 /\ temp' = <<Zeros, Zeros>> /\ heard' = << >>
  /\ sem' = [s \in Sems |-> IF s \in names' THEN sem[s] ELSE 0]
  /\ buffer' = IF "shm" \in names' THEN buffer ELSE <<Zeros, Zeros>>

\* Ctrl-C
Interrupt == cpc # "off" /\ clean' = FALSE /\ UNCHANGED <<run, names>> /\ Gone

\* shm_open and sem_open with O_CREAT: what is there is taken as it is.
OpenOrCreate(from, name, to) ==
  /\ Client(from, to)
  /\ names' = names \cup {name}
  /\ UNCHANGED <<sem, buffer, ci, reply, answers>>

OpenAll ==
  \/ OpenOrCreate("shm_open", "shm", "open_client")
  \/ OpenOrCreate("open_client", "sem_client_ready", "open_server")
  \/ OpenOrCreate("open_server", "sem_server_ready", "fork")

Fork ==
  /\ cpc = "fork" /\ cpc' = "send" /\ spc' = "wait"
  /\ UNCHANGED <<run, shared, ci, reply, answers, si, temp, heard, clean>>

\* wait(NULL), munmap
Reap ==
  /\ spc = "off"
  /\ Client("reap", "unlink_shm")
  /\ UNCHANGED <<shared, ci, reply, answers>>

UnlinkShm ==
  /\ Client("unlink_shm", "unlink_client")
  /\ names' = names \ {"shm"}
  /\ UNCHANGED <<sem, buffer, ci, reply, answers>>

\* sem_close of both
UnlinkClientReady ==
  /\ Client("unlink_client", "unlink_server")
  /\ names' = names \ {"sem_client_ready"}
  /\ UNCHANGED <<sem, buffer, ci, reply, answers>>

\* ... and the end of main()
UnlinkServerReady ==
  /\ cpc = "unlink_server" /\ clean' = TRUE /\ UNCHANGED run
  /\ names' = names \ {"sem_server_ready"}
  /\ Gone

-------------------------------------------------------------------------------
(* run_server                                                              *)

ServerWait ==
  /\ Server("wait", "copy")
  /\ Wait("sem_client_ready")
  /\ UNCHANGED <<si, temp, heard>>

\* strncpy(temp, shm->buffer, BUF_SIZE), and printf
ServerCopy ==
  \/ /\ Server("copy", "copy_tail")
     /\ temp' = <<buffer[1], temp[2]>>
     /\ UNCHANGED <<shared, si, heard>>
  \/ /\ Server("copy_tail", "echo")
     /\ temp' = <<temp[1], buffer[2]>>
     /\ heard' = Append(heard, temp')
     /\ UNCHANGED <<shared, si>>

\* snprintf(shm->buffer, BUF_SIZE, "echo: %s", temp)
ServerEcho ==
  /\ \/ Server("echo", "echo_tail") /\ SetHalf(1, Echo(temp[1]))
     \/ Server("echo_tail", "post") /\ SetHalf(2, Echo(temp[2]))
  /\ UNCHANGED <<si, temp, heard>>

\* Mutant: the server posts the semaphore it waits on as well.
ServerPostBoth ==
  /\ Server("post", IF si + 1 < Iterations THEN "wait" ELSE "off")
  /\ sem' = [s \in Sems |-> sem[s] + 1] /\ UNCHANGED <<names, buffer>>
  /\ si' = si + 1
  /\ UNCHANGED <<temp, heard>>

ServerPost ==
  /\ Server("post", IF si + 1 < Iterations THEN "wait" ELSE "off")
  /\ Post("sem_server_ready")
  /\ si' = si + 1
  /\ UNCHANGED <<temp, heard>>

-------------------------------------------------------------------------------
(* run_client                                                              *)

\* strncpy(shm->buffer, msg, BUF_SIZE)
ClientSend ==
  /\ \/ Client("send", "send_tail") /\ SetHalf(1, Ping(ci))
     \/ Client("send_tail", "post") /\ SetHalf(2, Ping(ci))
  /\ UNCHANGED <<ci, reply, answers>>

ClientPost ==
  /\ Client("post", "wait")
  /\ Post("sem_client_ready")
  /\ UNCHANGED <<ci, reply, answers>>

ClientWait ==
  /\ Client("wait", "receive")
  /\ Wait("sem_server_ready")
  /\ UNCHANGED <<ci, reply, answers>>

\* printf of shm->buffer
ClientReceive ==
  \/ /\ Client("receive", "receive_tail")
     /\ reply' = buffer[1]
     /\ UNCHANGED <<shared, ci, answers>>
  \/ /\ Client("receive_tail", IF ci + 1 < Iterations THEN "send" ELSE "reap")
     /\ answers' = Append(answers, <<reply, buffer[2]>>)
     /\ ci' = ci + 1
     /\ UNCHANGED <<shared, reply>>

-------------------------------------------------------------------------------

ServerStep == ServerWait \/ ServerCopy \/ ServerEcho \/ ServerPost

ClientStep ==
  \/ OpenAll \/ Fork \/ ClientSend \/ ClientPost \/ ClientWait \/ ClientReceive
  \/ Reap \/ UnlinkShm \/ UnlinkClientReady \/ UnlinkServerReady

Next == Start \/ Interrupt \/ ServerStep \/ ClientStep

-------------------------------------------------------------------------------

Whole(half) == <<half, half>>

\* A run that follows one that came to its end by itself, and the first run,
\* pass whole messages of that run, in order, each answer the echo of the ping
\* before it: no post and no text of an older run is left, not even of one that
\* was interrupted before the clean one.
RightAfterCleanEnd ==
  clean =>
    /\ heard = [n \in 1 .. Len(heard) |-> Whole(Ping(n - 1))]
    /\ answers = [n \in 1 .. Len(answers) |-> Whole(Echo(Ping(n - 1)))]

\* An interrupted run leaves at most one post behind: the two processes of a run
\* can be out of step by no more than the number of runs before them.
OneLeftPerRun == sem["sem_client_ready"] + sem["sem_server_ready"] <= run
===============================================================================
