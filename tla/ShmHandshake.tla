----------------------------- MODULE ShmHandshake -----------------------------
(***************************************************************************)
(* shmem.c and shmem_anon.c: a client and a server exchange messages       *)
(* through one buffer in shared memory and take turns by two flags,        *)
(* client_ready and server_ready.  The flags are volatile, not atomic:     *)
(* every access is one load or one store of the processor (see TSO), and   *)
(* nothing but the order of each processor's own stores protects the       *)
(* buffer.  The buffer takes many stores; two halves stand for them, so    *)
(* that a message can be read while it is half written.  The two programs  *)
(* differ only in how main() maps the memory.                              *)
(***************************************************************************)
EXTENDS TSO

CONSTANT Iterations    \* ITERATIONS: 5

\* The halves of "ping server %d", of its echo, and of memset's zeros.
Ping(i) == <<"ping", i>>
Echo(i) == <<"echo", i>>
Zeros == <<"none", 0>>

VARIABLES
  cpc, ci,      \* where the client is, and its i
  reply,        \* the half of shm->buffer that the client's printf has read
  spc, si,      \* where the server is, and its i
  temp,         \* the server's local copy of the message
  heard,        \* the messages the server has printed
  answers       \* the messages the client has printed

client == <<cpc, ci, reply, answers>>
server == <<spc, si, temp, heard>>
vars == <<memory, client, server>>

Procs == {"client", "server"}
Halves == {Zeros} \cup ({"ping", "echo"} \X (0 .. Iterations - 1))

TypeOK ==
  /\ mem.client_ready \in {0, 1} /\ mem.server_ready \in {0, 1}
  /\ {mem.head, mem.tail, reply, temp[1], temp[2]} \subseteq Halves
  /\ \A p \in Procs : Len(buffer[p]) <= 5
  /\ cpc \in {"check_client", "check_server", "send", "send_tail", "set_client",
              "await", "receive", "receive_tail", "clear_server", "reap", "done"}
  /\ spc \in {"wait", "copy", "copy_tail", "echo", "echo_tail", "set_server",
              "clear_client", "done"}
  /\ ci \in 0 .. Iterations /\ si \in 0 .. Iterations

\* main() after memset and fork.
MemoryInit ==
  /\ mem = [client_ready |-> 0, server_ready |-> 0, head |-> Zeros, tail |-> Zeros]
  /\ buffer = [p \in Procs |-> << >>]

OwnInit ==
  /\ cpc = "check_client" /\ ci = 0 /\ reply = Zeros
  /\ spc = "wait" /\ si = 0 /\ temp = <<Zeros, Zeros>>
  /\ heard = << >> /\ answers = << >>

Client(from, to) == cpc = from /\ cpc' = to /\ UNCHANGED server
Server(from, to) == spc = from /\ spc' = to /\ UNCHANGED client

-------------------------------------------------------------------------------
(* run_server                                                              *)

ServerWait ==
  /\ Server("wait", IF Read("server", "client_ready") = 1 THEN "copy" ELSE "wait")
  /\ UNCHANGED <<memory, si, temp, heard>>

\* strncpy(temp, shm->buffer, BUF_SIZE)
ServerCopy ==
  /\ Server("copy", "copy_tail")
  /\ temp' = <<Read("server", "head"), temp[2]>>
  /\ UNCHANGED <<memory, si, heard>>

\* ... and printf
ServerCopyTail ==
  /\ Server("copy_tail", "echo")
  /\ temp' = <<temp[1], Read("server", "tail")>>
  /\ heard' = Append(heard, temp')
  /\ UNCHANGED <<memory, si>>

\* Mutant: server_ready is set before the echo has left the server.
ServerReadyEarly ==
  /\ Server("echo", "echo_tail")
  /\ buffer' = [buffer EXCEPT !["server"] =
       @ \o <<[loc |-> "server_ready", val |-> 1], [loc |-> "head", val |-> Echo(temp[1][2])]>>]
  /\ UNCHANGED <<mem, si, temp, heard>>

\* snprintf(shm->buffer, BUF_SIZE, "echo: %s", temp)
ServerEcho ==
  /\ Server("echo", "echo_tail")
  /\ Write("server", "head", Echo(temp[1][2]))
  /\ UNCHANGED <<si, temp, heard>>

ServerEchoTail ==
  /\ Server("echo_tail", "set_server")
  /\ Write("server", "tail", Echo(temp[2][2]))
  /\ UNCHANGED <<si, temp, heard>>

\* shm->server_ready = 1
ServerReady ==
  /\ Server("set_server", "clear_client")
  /\ Write("server", "server_ready", 1)
  /\ UNCHANGED <<si, temp, heard>>

\* shm->client_ready = 0, and the next iteration or _exit
ServerTaken ==
  /\ Server("clear_client", IF si + 1 < Iterations THEN "wait" ELSE "done")
  /\ Write("server", "client_ready", 0)
  /\ si' = si + 1
  /\ UNCHANGED <<temp, heard>>

-------------------------------------------------------------------------------
(* run_client                                                              *)

\* Mutant: the client does not wait for the server to take its request back.
ClientCheckNothing ==
  /\ Client("check_client", "check_server")
  /\ UNCHANGED <<memory, ci, reply, answers>>

\* The left operand of while (shm->client_ready || shm->server_ready)
ClientCheckOwn ==
  /\ Client("check_client",
            IF Read("client", "client_ready") = 1 THEN "check_client" ELSE "check_server")
  /\ UNCHANGED <<memory, ci, reply, answers>>

\* and the right one.
ClientCheckOther ==
  /\ Client("check_server",
            IF Read("client", "server_ready") = 1 THEN "check_client" ELSE "send")
  /\ UNCHANGED <<memory, ci, reply, answers>>

\* strncpy(shm->buffer, msg, BUF_SIZE)
ClientSend ==
  /\ Client("send", "send_tail")
  /\ Write("client", "head", Ping(ci))
  /\ UNCHANGED <<ci, reply, answers>>

ClientSendTail ==
  /\ Client("send_tail", "set_client")
  /\ Write("client", "tail", Ping(ci))
  /\ UNCHANGED <<ci, reply, answers>>

\* shm->client_ready = 1
ClientReady ==
  /\ Client("set_client", "await")
  /\ Write("client", "client_ready", 1)
  /\ UNCHANGED <<ci, reply, answers>>

ClientAwait ==
  /\ Client("await", IF Read("client", "server_ready") = 1 THEN "receive" ELSE "await")
  /\ UNCHANGED <<memory, ci, reply, answers>>

\* printf of shm->buffer
ClientReceive ==
  /\ Client("receive", "receive_tail")
  /\ reply' = Read("client", "head")
  /\ UNCHANGED <<memory, ci, answers>>

ClientReceiveTail ==
  /\ Client("receive_tail", "clear_server")
  /\ answers' = Append(answers, <<reply, Read("client", "tail")>>)
  /\ UNCHANGED <<memory, ci, reply>>

\* shm->server_ready = 0, and the next iteration
ClientTaken ==
  /\ Client("clear_server", IF ci + 1 < Iterations THEN "check_client" ELSE "reap")
  /\ Write("client", "server_ready", 0)
  /\ ci' = ci + 1
  /\ UNCHANGED <<reply, answers>>

\* wait(NULL) and the end of main()
Reap ==
  /\ spc = "done"
  /\ Client("reap", "done")
  /\ UNCHANGED <<memory, ci, reply, answers>>

-------------------------------------------------------------------------------

ServerStep ==
  \/ ServerWait \/ ServerCopy \/ ServerCopyTail \/ ServerEcho \/ ServerEchoTail
  \/ ServerReady \/ ServerTaken

ClientStep ==
  \/ ClientCheckOwn \/ ClientCheckOther \/ ClientSend \/ ClientSendTail
  \/ ClientReady \/ ClientAwait \/ ClientReceive \/ ClientReceiveTail
  \/ ClientTaken \/ Reap

MemoryStep(p) == Flush(p) /\ UNCHANGED <<client, server>>

Next == ServerStep \/ ClientStep \/ \E p \in Procs : MemoryStep(p)

-------------------------------------------------------------------------------

Whole(half) == <<half, half>>

\* The flags pass whole messages, in order, each exactly once: the server hears
\* every ping and the client the echo of the ping it has just sent, although no
\* access is atomic and stores are delayed.
Channel == INSTANCE RequestReply WITH
  Request <- LAMBDA i : Whole(Ping(i)),
  Reply   <- LAMBDA i : Whole(Echo(i)),
  asked   <- ci + (IF cpc \in {"await", "receive", "receive_tail", "clear_server"}
                   THEN 1 ELSE 0)

ImplementsRequestReply == Channel!Spec
===============================================================================
