------------------------------ MODULE Machine -------------------------------
(***************************************************************************)
(* What a simulated machine promises, whatever the scheduler: the life of  *)
(* a task and the CPUs it runs on.  A CPU runs one task at a time, a task  *)
(* runs on one CPU at a time, only a runnable task is started, and a task  *)
(* leaves its CPU before it sleeps, exits or moves.                        *)
(***************************************************************************)
CONSTANTS
    Task, Cpu, NoTask

VARIABLES
    running,    \* the task on each CPU, or NoTask
    status      \* Sleeping, Runnable, Running or Exited

machineVars == <<running, status>>

MachineInit ==
    /\ running = [c \in Cpu |-> NoTask]
    /\ status = [t \in Task |-> "Sleeping"]

(* A wake makes a task runnable, or takes it to the end of its script. *)
WakeUp(t) ==
    /\ status[t] = "Sleeping"
    /\ \E s \in {"Runnable", "Exited"} : status' = [status EXCEPT ![t] = s]
    /\ UNCHANGED running

StartOn(c, t) ==
    /\ status[t] = "Runnable"
    /\ running[c] = NoTask
    /\ running' = [running EXCEPT ![c] = t]
    /\ status' = [status EXCEPT ![t] = "Running"]

StopOn(c) ==
    /\ running[c] # NoTask
    /\ running' = [running EXCEPT ![c] = NoTask]
    /\ \E s \in {"Runnable", "Sleeping", "Exited"} :
         status' = [status EXCEPT ![running[c]] = s]

MachineNext ==
    \/ \E t \in Task : WakeUp(t)
    \/ \E c \in Cpu, t \in Task : StartOn(c, t)
    \/ \E c \in Cpu : StopOn(c)

MachineSpec == MachineInit /\ [][MachineNext]_machineVars

=============================================================================
