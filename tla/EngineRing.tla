----------------------------- MODULE EngineRing -----------------------------
(***************************************************************************)
(* The engine ring of crates/scx_simulator/src/unsafe_impl/engine_ring.rs, *)
(* one step per atomic operation or futex system call.                     *)
(*                                                                         *)
(* Every worker thread blocks on its own futex word until the engine       *)
(* stores Running there.  A worker gives control back by publishing who it *)
(* is and why it yields, storing Woken in engine_wake and waking the       *)
(* engine; the engine swaps Sleeping back in, reads what was published and *)
(* starts the unfinished worker with the smallest clock.                   *)
(*                                                                         *)
(* A futex wait is two steps: the kernel compares the word and puts the    *)
(* thread to sleep ("wait"), and a sleeping thread is woken by futex_wake  *)
(* or spuriously.  A worker yields at most MaxYields times in a round, and *)
(* the ring is used for MaxRounds rounds: the two bounds of the model.     *)
(***************************************************************************)
EXTENDS MinClock

CONSTANTS
    MaxYields,      \* bound: yields of one worker in one round
    MaxRounds,      \* bound: rounds between new() and drop
    Advance         \* how far one stretch of work may move a local clock

ASSUME EngineRingAssumption ==
    /\ MaxYields \in Nat
    /\ MaxRounds \in Nat
    /\ Advance \subseteq Nat \ {0}

VARIABLES
    workers,        \* AtomicWorkerState of each worker: its futex word
    engineWake,     \* AtomicEngineWake: the engine's futex word
    yieldedWorker,  \* AtomicYieldedWorker
    yieldReason,    \* AtomicYieldReason
    finishedMask,   \* AtomicFinishedMask
    localClock,     \* local clock of the CPU a worker simulates
    pc,             \* where each worker thread is
    reason,         \* the reason a worker thread is about to publish
    yields,         \* yields a worker thread has made in this round
    epc,            \* where the engine thread is
    got,            \* what the engine read: who yielded, and why
    next,           \* the worker the engine is starting
    round           \* rounds begun so far

ringWords == <<workers, engineWake, yieldedWorker, yieldReason, finishedMask>>
workerVars == <<localClock, pc, reason, yields>>
engineVars == <<epc, got, next, round>>
vars == <<ringWords, workerVars, engineVars>>

NoWorker == "no worker"
NoReason == "no reason"

YieldReason == {"Cooperative", "Preemption", "Finished"}

WorkerPc == {"check", "wait", "asleep", "run", "park", "finish",
             "publishWorker", "publishReason", "storeWoken", "wakeEngine",
             "exited"}

EnginePc == {"start", "wakeNext", "swap", "wait", "asleep", "readWorker",
             "readReason", "decide", "done"}

Init ==
    /\ workers = [w \in Worker |-> "Parked"]
    /\ engineWake = "Sleeping"
    /\ yieldedWorker = NoWorker
    /\ yieldReason = NoReason
    /\ finishedMask = {}
    /\ localClock = [w \in Worker |-> 0]
    /\ pc = [w \in Worker |-> "check"]
    /\ reason = [w \in Worker |-> NoReason]
    /\ yields = [w \in Worker |-> 0]
    /\ epc = "start"
    /\ got = [worker |-> NoWorker, reason |-> NoReason]
    /\ next = NoWorker
    /\ round = 1

-----------------------------------------------------------------------------
(* Worker threads. *)

Goto(w, from, to) == pc[w] = from /\ pc' = [pc EXCEPT ![w] = to]

(* wait_until_running: leave the loop once the word says Running. *)
CheckRunning(w) ==
    /\ Goto(w, "check", IF workers[w] = "Running" THEN "run" ELSE "wait")
    /\ UNCHANGED <<ringWords, localClock, reason, yields, engineVars>>

(* Mutant: the thread sleeps whatever the word says by then. *)
FutexWaitAnyway(w) ==
    /\ Goto(w, "wait", "asleep")
    /\ UNCHANGED <<ringWords, localClock, reason, yields, engineVars>>

(* futex_wait: the kernel sleeps only if the word still says Parked. *)
FutexWait(w) ==
    /\ Goto(w, "wait", IF workers[w] = "Parked" THEN "asleep" ELSE "check")
    /\ UNCHANGED <<ringWords, localClock, reason, yields, engineVars>>

SpuriousWake(w) ==
    /\ Goto(w, "asleep", "check")
    /\ UNCHANGED <<ringWords, localClock, reason, yields, engineVars>>

(* The token holder runs scheduler code until it yields ... *)
RunUntilYield(w) ==
    /\ yields[w] < MaxYields
    /\ Goto(w, "run", "park")
    /\ yields' = [yields EXCEPT ![w] = @ + 1]
    /\ \E r \in {"Cooperative", "Preemption"} : reason' = [reason EXCEPT ![w] = r]
    /\ \E d \in Advance : localClock' = [localClock EXCEPT ![w] = @ + d]
    /\ UNCHANGED <<ringWords, engineVars>>

(* ... or until its round function returns. *)
RunUntilDone(w) ==
    /\ Goto(w, "run", "finish")
    /\ reason' = [reason EXCEPT ![w] = "Finished"]
    /\ UNCHANGED <<ringWords, localClock, yields, engineVars>>

(* Mutant: the worker does not park itself before it publishes. *)
ParkSelfNot(w) ==
    /\ Goto(w, "park", "publishWorker")
    /\ UNCHANGED <<ringWords, localClock, reason, yields, engineVars>>

(* yield_to_engine, step 1: "Park ourselves to prevent wake-before-wait     *)
(* races".                                                                  *)
ParkSelf(w) ==
    /\ Goto(w, "park", "publishWorker")
    /\ workers' = [workers EXCEPT ![w] = "Parked"]
    /\ UNCHANGED <<engineWake, yieldedWorker, yieldReason, finishedMask,
                   localClock, reason, yields, engineVars>>

(* finish_worker begins with the mask and leaves the worker's word alone. *)
MarkFinished(w) ==
    /\ Goto(w, "finish", "publishWorker")
    /\ finishedMask' = finishedMask \cup {w}
    /\ UNCHANGED <<workers, engineWake, yieldedWorker, yieldReason,
                   localClock, reason, yields, engineVars>>

(* Mutant: the engine is woken before the reason is published. *)
PublishWorkerOnly(w) ==
    /\ Goto(w, "publishWorker", "storeWoken")
    /\ yieldedWorker' = w
    /\ UNCHANGED <<workers, engineWake, yieldReason, finishedMask,
                   localClock, reason, yields, engineVars>>

PublishWorker(w) ==
    /\ Goto(w, "publishWorker", "publishReason")
    /\ yieldedWorker' = w
    /\ UNCHANGED <<workers, engineWake, yieldReason, finishedMask,
                   localClock, reason, yields, engineVars>>

PublishReason(w) ==
    /\ Goto(w, "publishReason", "storeWoken")
    /\ yieldReason' = reason[w]
    /\ UNCHANGED <<workers, engineWake, yieldedWorker, finishedMask,
                   localClock, reason, yields, engineVars>>

(* AtomicEngineWake::wake, the store. *)
StoreWoken(w) ==
    /\ Goto(w, "storeWoken", "wakeEngine")
    /\ engineWake' = "Woken"
    /\ UNCHANGED <<workers, yieldedWorker, yieldReason, finishedMask,
                   localClock, reason, yields, engineVars>>

(* Mutant: the store is not followed by a futex_wake. *)
WakeEngineNot(w) ==
    /\ Goto(w, "wakeEngine", IF reason[w] = "Finished" THEN "exited" ELSE "check")
    /\ UNCHANGED <<ringWords, localClock, reason, yields, engineVars>>

(* AtomicEngineWake::wake, the futex_wake; then a yielding worker waits for *)
(* its next turn and a finished one returns.                                *)
WakeEngine(w) ==
    /\ Goto(w, "wakeEngine", IF reason[w] = "Finished" THEN "exited" ELSE "check")
    /\ epc' = IF epc = "asleep" THEN "swap" ELSE epc
    /\ UNCHANGED <<ringWords, localClock, reason, yields, got, next, round>>

WorkerStep(w) ==
    \/ CheckRunning(w) \/ FutexWait(w)
    \/ RunUntilYield(w) \/ RunUntilDone(w) \/ ParkSelf(w) \/ MarkFinished(w)
    \/ PublishWorker(w) \/ PublishReason(w) \/ StoreWoken(w) \/ WakeEngine(w)

-----------------------------------------------------------------------------
(* The engine thread. *)

EngineGoto(from, to) == epc = from /\ epc' = to

(* start_first_worker, or the grant of engine_loop: store Running ... *)
SetRunning(w) ==
    /\ workers' = [workers EXCEPT ![w] = "Running"]
    /\ next' = w
    /\ UNCHANGED <<engineWake, yieldedWorker, yieldReason, finishedMask,
                   workerVars, got, round>>

StartFirstWorker ==
    /\ EngineGoto("start", "wakeNext")
    /\ \E w \in Worker : SetRunning(w)

(* ... then futex_wake_one. *)
FutexWakeOne ==
    /\ EngineGoto("wakeNext", "swap")
    /\ pc' = IF pc[next] = "asleep" THEN [pc EXCEPT ![next] = "check"] ELSE pc
    /\ UNCHANGED <<ringWords, localClock, reason, yields, got, next, round>>

SwapSleeping ==
    /\ EngineGoto("swap", IF engineWake = "Woken" THEN "readWorker" ELSE "wait")
    /\ engineWake' = "Sleeping"
    /\ UNCHANGED <<workers, yieldedWorker, yieldReason, finishedMask,
                   workerVars, got, next, round>>

EngineFutexWait ==
    /\ EngineGoto("wait", IF engineWake = "Sleeping" THEN "asleep" ELSE "swap")
    /\ UNCHANGED <<ringWords, workerVars, got, next, round>>

EngineSpuriousWake ==
    /\ EngineGoto("asleep", "swap")
    /\ UNCHANGED <<ringWords, workerVars, got, next, round>>

ReadYieldedWorker ==
    /\ EngineGoto("readWorker", "readReason")
    /\ got' = [got EXCEPT !.worker = yieldedWorker]
    /\ UNCHANGED <<ringWords, workerVars, next, round>>

ReadYieldReason ==
    /\ EngineGoto("readReason", "decide")
    /\ got' = [got EXCEPT !.reason = yieldReason]
    /\ UNCHANGED <<ringWords, workerVars, next, round>>

(* engine_loop: leave when the mask is full, else on_yield decides.  The    *)
(* callback is the one the engine is written for, pick_by_min_clock.        *)
AllDone == finishedMask = Worker

(* Mutant: any unfinished worker is started, whatever its clock. *)
DecideAny ==
    \/ /\ AllDone
       /\ EngineGoto("decide", "done")
       /\ UNCHANGED <<ringWords, workerVars, got, next, round>>
    \/ /\ ~AllDone
       /\ EngineGoto("decide", "wakeNext")
       /\ \E w \in Worker \ finishedMask : SetRunning(w)

Decide ==
    \/ /\ AllDone
       /\ EngineGoto("decide", "done")
       /\ UNCHANGED <<ringWords, workerVars, got, next, round>>
    \/ /\ ~AllDone
       /\ EngineGoto("decide", "wakeNext")
       /\ \E w \in PickByMinClock(localClock, finishedMask) : SetRunning(w)

(* The engine joins the workers, resets the ring and begins a new round, in *)
(* which every worker first calls wait_for_token.                           *)
Reset ==
    /\ EngineGoto("done", "start")
    /\ round < MaxRounds
    /\ \A w \in Worker : pc[w] = "exited"
    /\ round' = round + 1
    /\ workers' = [w \in Worker |-> "Parked"]
    /\ engineWake' = "Sleeping"
    /\ yieldedWorker' = NoWorker
    /\ yieldReason' = NoReason
    /\ finishedMask' = {}
    /\ pc' = [w \in Worker |-> "check"]
    /\ yields' = [w \in Worker |-> 0]
    /\ UNCHANGED <<localClock, reason, got, next>>

EngineStep ==
    \/ StartFirstWorker \/ FutexWakeOne \/ SwapSleeping \/ EngineFutexWait
    \/ ReadYieldedWorker \/ ReadYieldReason \/ Decide \/ Reset

(* The last round is over and every thread has returned. *)
AllReturned ==
    /\ epc = "done" /\ round = MaxRounds
    /\ \A w \in Worker : pc[w] = "exited"
    /\ UNCHANGED vars

Next ==
    \/ \E w \in Worker : WorkerStep(w) \/ SpuriousWake(w)
    \/ EngineStep
    \/ EngineSpuriousWake
    \/ AllReturned

(* Every thread keeps being scheduled; spurious wake-ups are never owed. *)
Fairness == WF_vars(EngineStep) /\ \A w \in Worker : WF_vars(WorkerStep(w))

Spec == Init /\ [][Next]_vars
FairSpec == Spec /\ Fairness

-----------------------------------------------------------------------------
(* Properties. *)

(* Every word of the ring and every thread's place in the code has its type. *)
TypeOK ==
    /\ workers \in [Worker -> {"Parked", "Running"}]
    /\ engineWake \in {"Sleeping", "Woken"}
    /\ yieldedWorker \in Worker \cup {NoWorker}
    /\ yieldReason \in YieldReason \cup {NoReason}
    /\ finishedMask \subseteq Worker
    /\ localClock \in [Worker -> Nat]
    /\ pc \in [Worker -> WorkerPc]
    /\ reason \in [Worker -> YieldReason \cup {NoReason}]
    /\ yields \in [Worker -> Nat]
    /\ epc \in EnginePc
    /\ got \in [worker : Worker \cup {NoWorker}, reason : YieldReason \cup {NoReason}]
    /\ next \in Worker \cup {NoWorker}
    /\ round \in Nat

(* The worker executes scheduler code against the shared simulator state.   *)
Holding(w) == pc[w] \in {"run", "park", "finish"}

(* The engine reads the state to decide who runs next.                      *)
EngineDeciding == epc \in {"readWorker", "readReason", "decide"}

(* The data race the ring exists to prevent: at no time do two workers, or a *)
(* worker and the deciding engine, execute against SimulatorState, whose     *)
(* Send/Sync impls rest on this alone.                                       *)
TokenExclusive ==
    /\ \A w, v \in Worker : Holding(w) /\ Holding(v) => w = v
    /\ EngineDeciding => \A w \in Worker : ~Holding(w)

(* The words yielded_worker and yield_reason are not written atomically: the *)
(* pair the engine decides on must be one worker's pair, published by the    *)
(* yield that woke it and not left over from an earlier one.                 *)
DecisionMatchesYield ==
    epc = "decide" =>
        /\ got.worker \in Worker
        /\ got.reason = reason[got.worker]
        /\ got.reason = "Finished" <=> got.worker \in finishedMask
        /\ workers[got.worker] = "Running" => got.reason = "Finished"

(* No wake-up is lost in the window between the check of a futex word and    *)
(* the sleep: a thread asleep on a word that already says go has a           *)
(* futex_wake on the way.                                                    *)
NoLostWakeup ==
    /\ \A w \in Worker :
          pc[w] = "asleep" /\ workers[w] = "Running" => epc = "wakeNext" /\ next = w
    /\ epc = "asleep" /\ engineWake = "Woken" =>
          \E w \in Worker : pc[w] = "wakeEngine"

(* The ring hands the token over as TokenPassing says: from the engine to an *)
(* unfinished worker of smallest clock, whatever the threads' interleaving.  *)
Holder == IF \E w \in Worker : Holding(w)
             THEN CHOOSE w \in Worker : Holding(w)
             ELSE Engine
FirstChosen == \/ finishedMask # {}
               \/ \E w \in Worker : yields[w] > 0 \/ Holding(w)
Token == INSTANCE TokenPassing
            WITH holder <- Holder, finished <- finishedMask,
                 clock <- localClock, started <- FirstChosen
ImplementsTokenPassing == Token!TokenSpec

(* Every round the engine starts ends, with every worker finished: nobody    *)
(* waits for a wake-up that never comes.                                     *)
RoundsEnd == (epc = "start") ~> (epc = "done" /\ AllDone)

=============================================================================
