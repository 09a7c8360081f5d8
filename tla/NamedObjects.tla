------------------------------ MODULE NamedObjects ------------------------------
(***************************************************************************)
(* The programs of lecture-03/ipc that meet through objects of the kernel  *)
(* with names: queue.c, semaphore.c and priority_queue.c.  The first two   *)
(* are started again and again, and interrupted; the third is run on a     *)
(* prompt machine and on one that runs it seconds late.                    *)
(***************************************************************************)
EXTENDS Naturals, Sequences

CONSTANTS
  QueueIterations, MaxMsg, QueueRuns,     \* see MessageQueues
  SemIterations, SemRuns,                 \* see NamedSemaphores
  PrioIterations, Nap,                    \* see PriorityQueue
  PromptSecond, PromptLate,               \* a second, and how late, in the prompt run
  Second, MaxLate                         \* the same in the late run

ASSUME NamedObjectsAssumption ==
  /\ {QueueIterations, MaxMsg, QueueRuns} \subseteq Nat \ {0}
  /\ {SemIterations, SemRuns} \subseteq Nat \ {0}
  /\ {PrioIterations, Nap, PromptSecond, Second} \subseteq Nat \ {0}
  /\ {PromptLate, MaxLate} \subseteq Nat

\* What "prompt" means: all that the two processes are late by, over all sends,
\* is less than the second by which the server's sleep outlasts the client's.
ASSUME PromptAssumption ==
  PrioIterations * (PromptSecond + PromptLate) + PromptLate < Nap * PromptSecond

VARIABLES
  program,                                          \* which of the programs runs
  run, names, cpc, ci, answers, spc, si, clean,     \* see MessageQueues, NamedSemaphores
  queue, cfd,                                       \* see MessageQueues
  sem, buffer, reply, temp,                         \* see NamedSemaphores
  clock, pc, due, named, opened, pending, i,        \* see PriorityQueue
  heard                                             \* what the server has printed

again == <<run, names, cpc, ci, answers, spc, si, clean>>
ofQueues == <<queue, cfd>>
ofSemaphores == <<sem, buffer, reply, temp>>
ofPriorities == <<clock, pc, due, named, opened, pending, i>>
vars == <<program, again, ofQueues, ofSemaphores, ofPriorities, heard>>

Mq == INSTANCE MessageQueues WITH Iterations <- QueueIterations, MaxRuns <- QueueRuns
Sm == INSTANCE NamedSemaphores WITH Iterations <- SemIterations, MaxRuns <- SemRuns
Prompt == INSTANCE PriorityQueue WITH
  Iterations <- PrioIterations, Second <- PromptSecond, MaxLate <- PromptLate
Late == INSTANCE PriorityQueue WITH Iterations <- PrioIterations

\* Every program leaves what only the others use as it begins.
Init ==
  /\ program \in {"queue", "semaphore", "prompt", "late"}
  /\ Mq!Init /\ Sm!Init
  /\ IF program = "prompt" THEN Prompt!Init ELSE Late!Init

OnlyQueues == program = "queue" /\ UNCHANGED <<program, ofSemaphores, ofPriorities>>
OnlySemaphores == program = "semaphore" /\ UNCHANGED <<program, ofQueues, ofPriorities>>
OnlyPriorities(which) == program = which /\ UNCHANGED <<program, again, ofQueues, ofSemaphores>>

Server ==
  \/ Mq!ServerStep /\ OnlyQueues
  \/ Sm!ServerStep /\ OnlySemaphores

Client ==
  \/ Mq!ClientStep /\ OnlyQueues
  \/ Sm!ClientStep /\ OnlySemaphores

User ==
  \/ (Mq!Start \/ Mq!Interrupt) /\ OnlyQueues
  \/ (Sm!Start \/ Sm!Interrupt) /\ OnlySemaphores

PriorityStep ==
  \/ Prompt!Step /\ OnlyPriorities("prompt")
  \/ Late!Step /\ OnlyPriorities("late")

Tick ==
  \/ Prompt!Tick /\ OnlyPriorities("prompt")
  \/ Late!Tick /\ OnlyPriorities("late")

Next == Server \/ Client \/ User \/ PriorityStep \/ Tick

Spec == Init /\ [][Next]_vars

\* The kernel lets both processes run, and time passes; the user need not do
\* anything.
FairSpec ==
  Spec /\ WF_vars(Server) /\ WF_vars(Client) /\ WF_vars(PriorityStep) /\ WF_vars(Tick)

-------------------------------------------------------------------------------

\* What a run of queue.c or semaphore.c leaves behind matters only after an
\* interrupted one: a run that follows one that came to its end by itself passes
\* its own messages, whole and in order, each answer to the ping before it.
RightAfterCleanEnd ==
  /\ program = "queue" => Mq!RightAfterCleanEnd
  /\ program = "semaphore" => Sm!RightAfterCleanEnd

\* An interrupted run leaves at most one message or one post behind: it takes
\* mq_maxmsg of them to fill a queue, and the two processes are never further out
\* of step than there were runs.
OneLeftPerRun ==
  /\ program = "queue" => Mq!OneLeftPerRun
  /\ program = "semaphore" => Sm!OneLeftPerRun

\* priority_queue.c on a prompt machine prints the messages by falling priority:
\* the server's one long sleep outlasts the client's five short ones.
HighestFirst == program = "prompt" => Prompt!Descending

\* Every run ends.  A client of queue.c that found both queues does, whatever old
\* messages are in them; so does every run of semaphore.c, whatever posts are
\* left; and priority_queue.c ends with all messages heard, unless on a late
\* machine the client looked for the queue before the server had made it.
EveryRunEnds ==
  /\ (program = "queue" /\ cfd = Mq!Queues) ~> (cpc = "off")
  /\ (program = "semaphore" /\ cpc # "off") ~> (cpc = "off")
  /\ program = "prompt" => Prompt!EndsWithAll
  /\ program = "late" => Late!HangsOnlyUnopened
===============================================================================
