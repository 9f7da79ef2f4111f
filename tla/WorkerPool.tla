----------------------------- MODULE WorkerPool -----------------------------
(***************************************************************************)
(* The pool of persistent worker threads of                                *)
(* crates/scx_simulator/src/unsafe_impl/worker_pool.rs, one step per atomic *)
(* load or store and per futex system call.                                *)
(*                                                                         *)
(* The owner thread writes each worker's description, resets its           *)
(* completion word, stores a command and wakes it; then, worker by worker, *)
(* it waits for Done and for the command word to be Idle again.  A worker  *)
(* parks while its command is Idle, executes, stores Done, stores Idle.    *)
(* dispatch_round and batch_round wake all workers; wake_workers and       *)
(* wait_workers_complete the first `count` of them.  shutdown (and Drop)   *)
(* stores Shutdown in every command word and joins the threads.            *)
(*                                                                         *)
(* A description and what its execution leaves behind are abstracted to    *)
(* the number of the round they belong to.  MaxRounds bounds the rounds.   *)
(***************************************************************************)
EXTENDS Integers, Sequences

CONSTANTS
    Total,          \* number of worker threads
    MaxRounds,      \* bound: rounds the owner runs
    CloseMidRound   \* the owner may drop the pool between wake_workers and
                    \* wait_workers_complete (unwinding from a panic)

ASSUME WorkerPoolAssumption ==
    /\ Total \in Nat \ {0}
    /\ MaxRounds \in Nat
    /\ CloseMidRound \in BOOLEAN

VARIABLES
    commands,       \* command futex words
    completions,    \* completion futex words
    workDescs,      \* work descriptions: the round they were written for
    pc,             \* where each worker thread is
    cmd,            \* the command a worker loaded
    ran,            \* the rounds whose description a worker has executed
    opc,            \* where the owner thread is
    i,              \* the worker the owner's loop is at
    count,          \* workers taking part in this round
    command,        \* the command of this round
    seen,           \* the command wait_idle observed
    round           \* rounds begun so far

poolWords == <<commands, completions, workDescs>>
workerVars == <<pc, cmd, ran>>
ownerVars == <<opc, i, count, command, seen, round>>
vars == <<poolWords, workerVars, ownerVars>>

Worker == 1..Total
WorkerCommand == {"Idle", "Dispatch", "Batch", "Shutdown"}
CompletionStatus == {"Pending", "Done"}

WorkerPc == {"check", "wait", "asleep", "load", "work", "storeDone", "wakeDone",
             "storeIdle", "wakeIdle", "exited"}
OwnerPc == {"idle", "describe", "storePending", "storeCommand", "wakeWorker",
            "waitDone", "sleepDone", "asleepDone", "waitIdle", "sleepIdle",
            "asleepIdle", "storeShutdown", "wakeShutdown", "join", "closed"}

Init ==
    /\ commands = [w \in Worker |-> "Idle"]
    /\ completions = [w \in Worker |-> "Pending"]
    /\ workDescs = [w \in Worker |-> 0]
    /\ pc = [w \in Worker |-> "check"]
    /\ cmd = [w \in Worker |-> "Idle"]
    /\ ran = [w \in Worker |-> <<>>]
    /\ opc = "idle"
    /\ i = 1
    /\ count = 0
    /\ command = "Idle"
    /\ seen = "Idle"
    /\ round = 0

-----------------------------------------------------------------------------
(* worker_loop *)

Goto(w, from, to) == pc[w] = from /\ pc' = [pc EXCEPT ![w] = to]

(* Two threads may sleep on a command word: its worker while it is Idle, and *)
(* the owner in wait_idle.  futex_wake(word, 1) wakes one of them.           *)
OwnerAsleepOn(w) == opc = "asleepIdle" /\ i = w

CheckCommand(w) ==
    /\ Goto(w, "check", IF commands[w] # "Idle" THEN "load" ELSE "wait")
    /\ UNCHANGED <<poolWords, cmd, ran, ownerVars>>

FutexWait(w) ==
    /\ Goto(w, "wait", IF commands[w] = "Idle" THEN "asleep" ELSE "check")
    /\ UNCHANGED <<poolWords, cmd, ran, ownerVars>>

LoadCommand(w) ==
    /\ Goto(w, "load", IF commands[w] = "Shutdown" THEN "exited" ELSE "work")
    /\ cmd' = [cmd EXCEPT ![w] = commands[w]]
    /\ UNCHANGED <<poolWords, ran, ownerVars>>

ExecuteWork(w) ==
    /\ Goto(w, "work", "storeDone")
    /\ ran' = [ran EXCEPT ![w] = Append(@, workDescs[w])]
    /\ UNCHANGED <<poolWords, cmd, ownerVars>>

StoreDone(w) ==
    /\ Goto(w, "storeDone", "wakeDone")
    /\ completions' = [completions EXCEPT ![w] = "Done"]
    /\ UNCHANGED <<commands, workDescs, cmd, ran, ownerVars>>

(* Mutant: Done is stored but nobody is woken. *)
WakeDoneNot(w) ==
    /\ Goto(w, "wakeDone", "storeIdle")
    /\ UNCHANGED <<poolWords, cmd, ran, ownerVars>>

WakeDone(w) ==
    /\ Goto(w, "wakeDone", "storeIdle")
    /\ opc' = IF opc = "asleepDone" /\ i = w THEN "waitDone" ELSE opc
    /\ UNCHANGED <<poolWords, cmd, ran, i, count, command, seen, round>>

StoreIdle(w) ==
    /\ Goto(w, "storeIdle", "wakeIdle")
    /\ commands' = [commands EXCEPT ![w] = "Idle"]
    /\ UNCHANGED <<completions, workDescs, cmd, ran, ownerVars>>

WakeIdle(w) ==
    /\ Goto(w, "wakeIdle", "check")
    /\ opc' = IF OwnerAsleepOn(w) THEN "waitIdle" ELSE opc
    /\ UNCHANGED <<poolWords, cmd, ran, i, count, command, seen, round>>

WorkerStep(w) ==
    \/ CheckCommand(w) \/ FutexWait(w) \/ LoadCommand(w) \/ ExecuteWork(w)
    \/ StoreDone(w) \/ WakeDone(w) \/ StoreIdle(w) \/ WakeIdle(w)

(* Mutant: the command is not looked at again after the wait. *)
SpuriousWakeUnchecked(w) ==
    /\ Goto(w, "asleep", "load")
    /\ UNCHANGED <<poolWords, cmd, ran, ownerVars>>

SpuriousWake(w) ==
    /\ Goto(w, "asleep", "check")
    /\ UNCHANGED <<poolWords, cmd, ran, ownerVars>>

-----------------------------------------------------------------------------
(* The owner thread *)

OwnerGoto(from, to) == opc = from /\ opc' = to

(* One turn of a `for i in 0..bound` loop that ends by going to `after`.     *)
LoopGoto(from, bound, again, after) ==
    /\ opc = from
    /\ \/ i < bound /\ i' = i + 1 /\ opc' = again
       \/ i = bound /\ i' = 1 /\ opc' = after

(* The caller decides on a round: dispatch_round and batch_round take all    *)
(* workers, wake_workers the first few.                                      *)
BeginRound ==
    /\ round < MaxRounds
    /\ OwnerGoto("idle", "describe")
    /\ count' \in Worker
    /\ command' \in {"Dispatch", "Batch"}
    /\ round' = round + 1
    /\ UNCHANGED <<poolWords, workerVars, i, seen>>

SetWorkDesc ==
    /\ LoopGoto("describe", count, "describe", "storePending")
    /\ workDescs' = [workDescs EXCEPT ![i] = round]
    /\ UNCHANGED <<commands, completions, workerVars, count, command, seen, round>>

(* issue_command, three steps *)
StorePending ==
    /\ OwnerGoto("storePending", "storeCommand")
    /\ completions' = [completions EXCEPT ![i] = "Pending"]
    /\ UNCHANGED <<commands, workDescs, workerVars, i, count, command, seen, round>>

StoreCommand ==
    /\ OwnerGoto("storeCommand", "wakeWorker")
    /\ commands' = [commands EXCEPT ![i] = command]
    /\ UNCHANGED <<completions, workDescs, workerVars, i, count, command, seen, round>>

WakeWorkerAt(w) ==
    pc' = IF pc[w] = "asleep" THEN [pc EXCEPT ![w] = "check"] ELSE pc

WakeWorker ==
    /\ LoopGoto("wakeWorker", count, "storePending", "waitDone")
    /\ WakeWorkerAt(i)
    /\ UNCHANGED <<poolWords, cmd, ran, count, command, seen, round>>

(* wait_for_completion *)
CheckDone ==
    /\ OwnerGoto("waitDone",
                 IF completions[i] = "Done" THEN "waitIdle" ELSE "sleepDone")
    /\ UNCHANGED <<poolWords, workerVars, i, count, command, seen, round>>

SleepDone ==
    /\ OwnerGoto("sleepDone",
                 IF completions[i] = "Pending" THEN "asleepDone" ELSE "waitDone")
    /\ UNCHANGED <<poolWords, workerVars, i, count, command, seen, round>>

(* Mutant: Done is taken to mean that the worker is parked again. *)
CheckIdleNot ==
    /\ LoopGoto("waitIdle", count, "waitDone", "idle")
    /\ UNCHANGED <<poolWords, workerVars, count, command, seen, round>>

(* wait_idle: the value it sleeps on is the one it observed.                 *)
CheckIdle ==
    \/ /\ commands[i] = "Idle"
       /\ LoopGoto("waitIdle", count, "waitDone", "idle")
       /\ UNCHANGED <<poolWords, workerVars, count, command, seen, round>>
    \/ /\ commands[i] # "Idle"
       /\ OwnerGoto("waitIdle", "sleepIdle")
       /\ seen' = commands[i]
       /\ UNCHANGED <<poolWords, workerVars, i, count, command, round>>

SleepIdle ==
    /\ OwnerGoto("sleepIdle", IF commands[i] = seen THEN "asleepIdle" ELSE "waitIdle")
    /\ UNCHANGED <<poolWords, workerVars, i, count, command, seen, round>>

OwnerSpuriousWake ==
    /\ \/ OwnerGoto("asleepDone", "waitDone")
       \/ OwnerGoto("asleepIdle", "waitIdle")
    /\ UNCHANGED <<poolWords, workerVars, i, count, command, seen, round>>

(* shutdown, called between rounds or, when the owner unwinds, after it has  *)
(* woken the workers.                                                        *)
Shutdown ==
    /\ \/ OwnerGoto("idle", "storeShutdown")
       \/ CloseMidRound /\ i = 1 /\ OwnerGoto("waitDone", "storeShutdown")
    /\ UNCHANGED <<poolWords, workerVars, i, count, command, seen, round>>

StoreShutdown ==
    /\ OwnerGoto("storeShutdown", "wakeShutdown")
    /\ commands' = [commands EXCEPT ![i] = "Shutdown"]
    /\ UNCHANGED <<completions, workDescs, workerVars, i, count, command, seen, round>>

(* Mutant: Shutdown is stored but the workers are not woken. *)
WakeShutdownNot ==
    /\ LoopGoto("wakeShutdown", Total, "storeShutdown", "join")
    /\ UNCHANGED <<poolWords, workerVars, count, command, seen, round>>

WakeShutdown ==
    /\ LoopGoto("wakeShutdown", Total, "storeShutdown", "join")
    /\ WakeWorkerAt(i)
    /\ UNCHANGED <<poolWords, cmd, ran, count, command, seen, round>>

Join ==
    /\ pc[i] = "exited"
    /\ LoopGoto("join", Total, "join", "closed")
    /\ UNCHANGED <<poolWords, workerVars, count, command, seen, round>>

(* What the owner does once it is inside one of the pool's methods.          *)
OwnerStep ==
    \/ SetWorkDesc \/ StorePending \/ StoreCommand \/ WakeWorker
    \/ CheckDone \/ SleepDone \/ CheckIdle \/ SleepIdle
    \/ StoreShutdown \/ WakeShutdown \/ Join

Closed == opc = "closed" /\ UNCHANGED vars

Next ==
    \/ \E w \in Worker : WorkerStep(w) \/ SpuriousWake(w)
    \/ OwnerStep
    \/ BeginRound \/ Shutdown
    \/ OwnerSpuriousWake
    \/ Closed

(* Threads keep being scheduled; the caller owes neither a round nor the     *)
(* shutdown, and spurious wake-ups are never owed.                           *)
Fairness == WF_vars(OwnerStep) /\ \A w \in Worker : WF_vars(WorkerStep(w))

Spec == Init /\ [][Next]_vars
FairSpec == Spec /\ Fairness

-----------------------------------------------------------------------------
(* Properties. *)

(* Every word of the pool and every thread's place in the code has its type. *)
TypeOK ==
    /\ commands \in [Worker -> WorkerCommand]
    /\ completions \in [Worker -> CompletionStatus]
    /\ workDescs \in [Worker -> Nat]
    /\ pc \in [Worker -> WorkerPc]
    /\ cmd \in [Worker -> WorkerCommand]
    /\ ran \in [Worker -> Seq(Nat)]
    /\ opc \in OwnerPc
    /\ i \in Worker
    /\ count \in Worker \cup {0}
    /\ command \in {"Idle", "Dispatch", "Batch"}
    /\ seen \in WorkerCommand
    /\ round \in Nat

(* The UnsafeCell<WorkDesc> of a worker "accessed by exactly one thread at a *)
(* time": the owner writes it only while the worker is parked, and nobody    *)
(* overwrites a command its worker has not finished with.                    *)
Parked(w) == pc[w] \in {"check", "wait", "asleep", "wakeIdle"} /\ commands[w] = "Idle"
OwnerWritesParked ==
    opc \in {"describe", "storePending", "storeCommand"} => Parked(i)

(* The pool gives the rounds ParallelRounds promises: exactly one execution  *)
(* of this round's description per worker asked, all of them before the      *)
(* round returns, no completion of an earlier round taken for this one's.    *)
InRound == opc \notin {"idle", "storeShutdown", "wakeShutdown", "join", "closed"}
Rounds == INSTANCE ParallelRounds
             WITH inRound <- InRound, rounds <- round, executed <- ran,
                  todo <- IF InRound THEN {w \in 1..count : \A k \in DOMAIN ran[w] : ran[w][k] # round}
                     ELSE {}
ImplementsRounds == Rounds!RoundsSpec

(* A round that begins returns: neither the owner nor a worker misses the    *)
(* only wake-up it will get.                                                 *)
RoundsReturn == (opc = "describe") ~> (opc = "idle")

(* shutdown: "Workers receive the `Shutdown` command, exit their loops, and  *)
(* the handles are joined."                                                  *)
ShutdownReturns == (opc = "storeShutdown") ~> (opc = "closed")
=============================================================================
