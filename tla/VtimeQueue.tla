----------------------------- MODULE VtimeQueue -----------------------------
(***************************************************************************)
(* What a dispatch queue promises: it keeps tasks in order of arrival,     *)
(* each with a virtual time, and hands a CPU the task with the smallest    *)
(* virtual time, the earliest to arrive among equals, of those the CPU may *)
(* run.  Virtual time does not wrap here.                                  *)
(***************************************************************************)
EXTENDS Integers, Sequences, SequencesExt

CONSTANTS Task, Cpu, Allowed, None

VARIABLES
    waiting,    \* the queued tasks in order of arrival: [task, vtime]
    reply       \* the CPU that asked last and the task it got, or None

queueVars == <<waiting, reply>>

NoReply == [cpu |-> None, task |-> None]

QueueInit == waiting = <<>> /\ reply = NoReply

Waits(t) == \E i \in DOMAIN waiting : waiting[i].task = t

(* A task arrives, with some virtual time. *)
Put(t) ==
    /\ ~Waits(t)
    /\ waiting' # <<>>
    /\ Last(waiting').task = t
    /\ waiting' = Append(waiting, Last(waiting'))
    /\ reply' = NoReply

Before(i, j) ==
    \/ waiting[i].vtime < waiting[j].vtime
    \/ waiting[i].vtime = waiting[j].vtime /\ i < j

(* A CPU takes the first task it may run. *)
Grab(c) ==
    \E i \in DOMAIN waiting :
        /\ c \in Allowed[waiting[i].task]
        /\ \A j \in DOMAIN waiting : c \in Allowed[waiting[j].task] => ~Before(j, i)
        /\ waiting' = RemoveAt(waiting, i)
        /\ reply' = [cpu |-> c, task |-> waiting[i].task]

(* ... and leaves without one only when it may run none that waits. *)
Miss(c) ==
    /\ \A i \in DOMAIN waiting : c \notin Allowed[waiting[i].task]
    /\ reply' = [cpu |-> c, task |-> None]
    /\ UNCHANGED waiting

(* A task is taken out, wherever it stands. *)
TakeOut(t) ==
    \E i \in DOMAIN waiting :
        /\ waiting[i].task = t
        /\ waiting' = RemoveAt(waiting, i)
        /\ reply' = NoReply

QueueNext ==
    \/ \E t \in Task : Put(t) \/ TakeOut(t)
    \/ \E c \in Cpu : Grab(c) \/ Miss(c)

QueueSpec == QueueInit /\ [][QueueNext]_queueVars

=============================================================================
