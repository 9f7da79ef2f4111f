-------------------------- MODULE EngineRingProofs --------------------------
(***************************************************************************)
(* The engine ring's type correctness, token exclusivity, wake-ups and     *)
(* decisions, and that it implements TokenPassing, for any number of       *)
(* workers, yields and rounds.                                             *)
(*                                                                         *)
(* TokenExclusive is not inductive: it says nothing of the moments when    *)
(* the token travels in a futex word and no thread holds it.  Ownership    *)
(* says where control is at every moment: with the worker that runs or     *)
(* publishes its yield, with the worker whose word says Running, or with   *)
(* the engine (which includes a Woken not yet swapped out), and with one   *)
(* of them only.                                                           *)
(***************************************************************************)
EXTENDS EngineRing, TLAPS

Publishing == {"publishWorker", "publishReason", "storeWoken"}
Waiting(w) ==
    \/ pc[w] \in {"check", "wait", "asleep"}
    \/ pc[w] = "wakeEngine" /\ reason[w] # "Finished"

WorkerOwns(w) ==
    \/ Holding(w)
    \/ pc[w] \in Publishing
    \/ Waiting(w) /\ workers[w] = "Running"
EngineActive == epc \in {"start", "readWorker", "readReason", "decide", "done"}
EngineOwns == EngineActive \/ engineWake = "Woken"

OneOwner ==
    /\ \A w, v \in Worker : WorkerOwns(w) /\ WorkerOwns(v) => w = v
    /\ \A w \in Worker : WorkerOwns(w) => ~EngineOwns

Discipline ==
    /\ EngineActive => engineWake = "Sleeping"
    /\ \A w \in Worker :
        /\ pc[w] = "park" => reason[w] # "Finished"
        /\ pc[w] = "finish" => reason[w] = "Finished"
        /\ pc[w] \in Publishing /\ reason[w] # "Finished" => workers[w] = "Parked"

Ownership == TypeOK /\ OneOwner /\ Discipline

-----------------------------------------------------------------------------
(* Type correctness holds at the start, and every step keeps it.             *)
LEMMA TypeInit == Init => TypeOK
<1> SUFFICES ASSUME Init PROVE TypeOK
    OBVIOUS
<1>1. /\ workers \in [Worker -> {"Parked", "Running"}]
      /\ localClock \in [Worker -> Nat]
      /\ yields \in [Worker -> Nat]
    BY DEF Init
<1>2. /\ pc \in [Worker -> WorkerPc]
      /\ reason \in [Worker -> YieldReason \cup {NoReason}]
    BY DEF Init, WorkerPc
<1> QED
    BY <1>1, <1>2 DEF Init, TypeOK, EnginePc

(* A stretch of work moves a clock by a natural number.                      *)
LEMMA RunUntilYieldType ==
    ASSUME TypeOK, NEW w \in Worker, RunUntilYield(w)
    PROVE  TypeOK'
<1>1. localClock' \in [Worker -> Nat]
  <2>1. PICK d \in Advance : localClock' = [localClock EXCEPT ![w] = @ + d]
    BY DEF RunUntilYield
  <2>2. localClock \in [Worker -> Nat] /\ d \in Nat
    BY <2>1, EngineRingAssumption DEF TypeOK
  <2> QED
    BY <2>1, <2>2
<1>2. yields' \in [Worker -> Nat]
  <2>1. yields \in [Worker -> Nat] /\ yields' = [yields EXCEPT ![w] = @ + 1]
    BY DEF TypeOK, RunUntilYield
  <2> QED
    BY <2>1
<1>3. /\ pc' \in [Worker -> WorkerPc]
      /\ reason' \in [Worker -> YieldReason \cup {NoReason}]
    BY DEF TypeOK, RunUntilYield, Goto, WorkerPc, YieldReason
<1>4. UNCHANGED <<ringWords, engineVars>>
    BY DEF RunUntilYield
<1> QED
    BY <1>1, <1>2, <1>3, <1>4 DEF TypeOK, ringWords, engineVars

(* A ring that has been reset has its type again.                            *)
LEMMA ResetType ==
    ASSUME TypeOK, Reset
    PROVE  TypeOK'
<1>1. round' \in Nat
    BY DEF TypeOK, Reset
<1>2. workers' \in [Worker -> {"Parked", "Running"}] /\ yields' \in [Worker -> Nat]
    BY DEF Reset
<1>3. pc' \in [Worker -> WorkerPc] /\ epc' \in EnginePc
    BY DEF Reset, EngineGoto, WorkerPc, EnginePc
<1>4. /\ engineWake' = "Sleeping" /\ finishedMask' = {}
      /\ yieldedWorker' = NoWorker /\ yieldReason' = NoReason
      /\ UNCHANGED <<localClock, reason, got, next>>
    BY DEF Reset
<1> QED
    BY <1>1, <1>2, <1>3, <1>4 DEF TypeOK

(* A step of a worker thread that only moves it along its code.              *)
LEMMA GotoType ==
    ASSUME TypeOK, NEW w \in Worker, NEW from, NEW to \in WorkerPc,
           Goto(w, from, to)
    PROVE  pc' \in [Worker -> WorkerPc]
BY DEF TypeOK, Goto

LEMMA PcStepType ==
    ASSUME TypeOK, pc' \in [Worker -> WorkerPc],
           UNCHANGED <<ringWords, localClock, reason, yields, engineVars>>
    PROVE  TypeOK'
BY DEF TypeOK, ringWords, engineVars

(* Every step of a worker thread keeps the type.                             *)
LEMMA WorkerStepType ==
    ASSUME TypeOK, NEW w \in Worker, WorkerStep(w) \/ SpuriousWake(w)
    PROVE  TypeOK'
<1>1. CASE CheckRunning(w)
  <2>1. pc' \in [Worker -> WorkerPc]
    BY <1>1, GotoType DEF CheckRunning, WorkerPc
  <2> QED
    BY <1>1, <2>1, PcStepType DEF CheckRunning
<1>2. CASE FutexWait(w)
  <2>1. pc' \in [Worker -> WorkerPc]
    BY <1>2, GotoType DEF FutexWait, WorkerPc
  <2> QED
    BY <1>2, <2>1, PcStepType DEF FutexWait
<1>3. CASE SpuriousWake(w)
  <2>1. pc' \in [Worker -> WorkerPc]
    BY <1>3, GotoType DEF SpuriousWake, WorkerPc
  <2> QED
    BY <1>3, <2>1, PcStepType DEF SpuriousWake
<1>4. CASE RunUntilYield(w)
    BY <1>4, RunUntilYieldType
<1>5. CASE RunUntilDone(w)
  <2>1. pc' \in [Worker -> WorkerPc]
    BY <1>5, GotoType DEF RunUntilDone, WorkerPc
  <2>2. reason' \in [Worker -> YieldReason \cup {NoReason}]
    BY <1>5 DEF TypeOK, RunUntilDone, YieldReason
  <2> QED
    BY <1>5, <2>1, <2>2 DEF TypeOK, RunUntilDone, ringWords, engineVars
<1>6. CASE ParkSelf(w)
  <2>1. pc' \in [Worker -> WorkerPc]
    BY <1>6, GotoType DEF ParkSelf, WorkerPc
  <2>2. workers' \in [Worker -> {"Parked", "Running"}]
    BY <1>6 DEF TypeOK, ParkSelf
  <2> QED
    BY <1>6, <2>1, <2>2 DEF TypeOK, ParkSelf, engineVars
<1>7. CASE MarkFinished(w)
  <2>1. pc' \in [Worker -> WorkerPc]
    BY <1>7, GotoType DEF MarkFinished, WorkerPc
  <2>2. finishedMask' \subseteq Worker
    BY <1>7 DEF TypeOK, MarkFinished
  <2> QED
    BY <1>7, <2>1, <2>2 DEF TypeOK, MarkFinished, engineVars
<1>8. CASE PublishWorker(w)
  <2>1. pc' \in [Worker -> WorkerPc]
    BY <1>8, GotoType DEF PublishWorker, WorkerPc
  <2>2. yieldedWorker' \in Worker \cup {NoWorker}
    BY <1>8 DEF PublishWorker
  <2> QED
    BY <1>8, <2>1, <2>2 DEF TypeOK, PublishWorker, engineVars
<1>9. CASE PublishReason(w)
  <2>1. pc' \in [Worker -> WorkerPc]
    BY <1>9, GotoType DEF PublishReason, WorkerPc
  <2>2. yieldReason' \in YieldReason \cup {NoReason}
    BY <1>9 DEF TypeOK, PublishReason
  <2> QED
    BY <1>9, <2>1, <2>2 DEF TypeOK, PublishReason, engineVars
<1>10. CASE StoreWoken(w)
  <2>1. pc' \in [Worker -> WorkerPc]
    BY <1>10, GotoType DEF StoreWoken, WorkerPc
  <2>2. engineWake' \in {"Sleeping", "Woken"}
    BY <1>10 DEF StoreWoken
  <2> QED
    BY <1>10, <2>1, <2>2 DEF TypeOK, StoreWoken, engineVars
<1>11. CASE WakeEngine(w)
  <2>1. pc' \in [Worker -> WorkerPc]
    BY <1>11, GotoType DEF WakeEngine, WorkerPc
  <2>2. epc' \in EnginePc
    BY <1>11 DEF TypeOK, WakeEngine, EnginePc
  <2> QED
    BY <1>11, <2>1, <2>2 DEF TypeOK, WakeEngine, ringWords
<1> QED
    BY <1>1, <1>2, <1>3, <1>4, <1>5, <1>6, <1>7, <1>8, <1>9, <1>10, <1>11
    DEF WorkerStep

(* The engine starts a worker: its word says Running, whichever it is.       *)
LEMMA SetRunningType ==
    ASSUME TypeOK, NEW w \in Worker, SetRunning(w), epc' \in EnginePc
    PROVE  TypeOK'
<1>1. workers' \in [Worker -> {"Parked", "Running"}]
    BY DEF TypeOK, SetRunning
<1>2. next' \in Worker \cup {NoWorker}
    BY DEF SetRunning
<1> QED
    BY <1>1, <1>2 DEF TypeOK, SetRunning, workerVars

(* Every step of the engine keeps the type.                                  *)
LEMMA EngineStepType ==
    ASSUME TypeOK, EngineStep \/ EngineSpuriousWake
    PROVE  TypeOK'
<1>1. CASE StartFirstWorker
  <2>1. epc' \in EnginePc
    BY <1>1 DEF StartFirstWorker, EngineGoto, EnginePc
  <2> QED
    BY <1>1, <2>1, SetRunningType DEF StartFirstWorker
<1>2. CASE FutexWakeOne
  <2>1. epc' \in EnginePc
    BY <1>2 DEF FutexWakeOne, EngineGoto, EnginePc
  <2>2. pc' \in [Worker -> WorkerPc]
    BY <1>2 DEF TypeOK, FutexWakeOne, WorkerPc
  <2> QED
    BY <1>2, <2>1, <2>2 DEF TypeOK, FutexWakeOne, ringWords
<1>3. CASE SwapSleeping
  <2>1. epc' \in EnginePc /\ engineWake' \in {"Sleeping", "Woken"}
    BY <1>3 DEF SwapSleeping, EngineGoto, EnginePc
  <2> QED
    BY <1>3, <2>1 DEF TypeOK, SwapSleeping, workerVars
<1>4. CASE EngineFutexWait \/ EngineSpuriousWake
  <2>1. epc' \in EnginePc
    BY <1>4 DEF EngineFutexWait, EngineSpuriousWake, EngineGoto, EnginePc
  <2> QED
    BY <1>4, <2>1 DEF TypeOK, EngineFutexWait, EngineSpuriousWake,
                      ringWords, workerVars
<1>5. CASE ReadYieldedWorker
  <2>1. epc' \in EnginePc
    BY <1>5 DEF ReadYieldedWorker, EngineGoto, EnginePc
  <2>2. got' \in [worker : Worker \cup {NoWorker}, reason : YieldReason \cup {NoReason}]
    BY <1>5 DEF TypeOK, ReadYieldedWorker
  <2> QED
    BY <1>5, <2>1, <2>2 DEF TypeOK, ReadYieldedWorker, ringWords, workerVars
<1>6. CASE ReadYieldReason
  <2>1. epc' \in EnginePc
    BY <1>6 DEF ReadYieldReason, EngineGoto, EnginePc
  <2>2. got' \in [worker : Worker \cup {NoWorker}, reason : YieldReason \cup {NoReason}]
    BY <1>6 DEF TypeOK, ReadYieldReason
  <2> QED
    BY <1>6, <2>1, <2>2 DEF TypeOK, ReadYieldReason, ringWords, workerVars
<1>7. CASE Decide
  <2>1. epc' \in EnginePc
    BY <1>7 DEF Decide, EngineGoto, EnginePc
  <2>2. CASE AllDone
    BY <1>7, <2>1, <2>2 DEF TypeOK, Decide, ringWords, workerVars
  <2>3. CASE ~AllDone
    <3>1. PICK w \in Worker : SetRunning(w)
      BY <1>7, <2>3 DEF Decide, PickByMinClock
    <3> QED
      BY <2>1, <3>1, SetRunningType
  <2> QED
    BY <2>2, <2>3
<1>8. CASE Reset
    BY <1>8, ResetType
<1> QED
    BY <1>1, <1>2, <1>3, <1>4, <1>5, <1>6, <1>7, <1>8 DEF EngineStep

(* Every action keeps the type.                                              *)
LEMMA TypeStep == TypeOK /\ [Next]_vars => TypeOK'
<1> SUFFICES ASSUME TypeOK, [Next]_vars PROVE TypeOK'
    OBVIOUS
<1>1. ASSUME NEW w \in Worker, WorkerStep(w) \/ SpuriousWake(w) PROVE TypeOK'
    BY <1>1, WorkerStepType
<1>2. CASE EngineStep \/ EngineSpuriousWake
    BY <1>2, EngineStepType
<1>3. CASE UNCHANGED vars
    BY <1>3 DEF TypeOK, vars, ringWords, workerVars, engineVars
<1> QED
    BY <1>1, <1>2, <1>3 DEF Next, AllReturned

(* Every variable has its type for ever: no word of the ring is ever one its *)
(* load() would panic on.                                                    *)
THEOREM TypeCorrect == Spec => []TypeOK
BY TypeInit, TypeStep, PTL DEF Spec

-----------------------------------------------------------------------------
(* Control is with one owner, and stays with one owner under every step.     *)
LEMMA OwnershipInit == Init => OneOwner /\ Discipline
BY DEF Init, OneOwner, Discipline, WorkerOwns, Holding, Waiting, Publishing,
       EngineOwns, EngineActive

(* Every action leaves control with one owner.                               *)
LEMMA OwnershipStep ==
    Ownership /\ [Next]_vars => (OneOwner /\ Discipline)'
<1> SUFFICES ASSUME TypeOK, OneOwner, Discipline, [Next]_vars
             PROVE  OneOwner' /\ Discipline'
    BY DEF Ownership
<1> USE DEF OneOwner, Discipline, WorkerOwns, Holding, Waiting, Publishing,
            EngineOwns, EngineActive, ringWords, workerVars, engineVars,
            Goto, EngineGoto
<1>1. ASSUME NEW w \in Worker, CheckRunning(w) PROVE OneOwner' /\ Discipline'
    BY <1>1 DEF CheckRunning, TypeOK
<1>2. ASSUME NEW w \in Worker, FutexWait(w) PROVE OneOwner' /\ Discipline'
    BY <1>2 DEF FutexWait, TypeOK
<1>3. ASSUME NEW w \in Worker, RunUntilYield(w) PROVE OneOwner' /\ Discipline'
    BY <1>3 DEF RunUntilYield, TypeOK
<1>4. ASSUME NEW w \in Worker, RunUntilDone(w) PROVE OneOwner' /\ Discipline'
    BY <1>4 DEF RunUntilDone, TypeOK
<1>5. ASSUME NEW w \in Worker, ParkSelf(w) PROVE OneOwner' /\ Discipline'
    BY <1>5 DEF ParkSelf, TypeOK
<1>6. ASSUME NEW w \in Worker, MarkFinished(w) PROVE OneOwner' /\ Discipline'
    BY <1>6 DEF MarkFinished, TypeOK
<1>7. ASSUME NEW w \in Worker, PublishWorker(w) PROVE OneOwner' /\ Discipline'
    BY <1>7 DEF PublishWorker, TypeOK
<1>8. ASSUME NEW w \in Worker, PublishReason(w) PROVE OneOwner' /\ Discipline'
    BY <1>8 DEF PublishReason, TypeOK
<1>9. ASSUME NEW w \in Worker, StoreWoken(w) PROVE OneOwner' /\ Discipline'
    BY <1>9 DEF StoreWoken, TypeOK
<1>10. ASSUME NEW w \in Worker, WakeEngine(w) PROVE OneOwner' /\ Discipline'
    BY <1>10 DEF WakeEngine, TypeOK
<1>11. ASSUME NEW w \in Worker, SpuriousWake(w) PROVE OneOwner' /\ Discipline'
    BY <1>11 DEF SpuriousWake, TypeOK
<1>12. CASE StartFirstWorker
    BY <1>12 DEF StartFirstWorker, SetRunning, TypeOK
<1>13. CASE FutexWakeOne
    BY <1>13 DEF FutexWakeOne, TypeOK
<1>14. CASE SwapSleeping
    BY <1>14 DEF SwapSleeping, TypeOK
<1>15. CASE EngineFutexWait
    BY <1>15 DEF EngineFutexWait, TypeOK
<1>16. CASE ReadYieldedWorker
    BY <1>16 DEF ReadYieldedWorker, TypeOK
<1>17. CASE ReadYieldReason
    BY <1>17 DEF ReadYieldReason, TypeOK
<1>18. CASE Decide
    BY <1>18 DEF Decide, SetRunning, PickByMinClock, TypeOK
<1>19. CASE Reset
    BY <1>19 DEF Reset, TypeOK
<1>20. CASE EngineSpuriousWake
    BY <1>20 DEF EngineSpuriousWake, TypeOK
<1>21. CASE UNCHANGED vars
    BY <1>21 DEF vars
<1> QED
    BY <1>1, <1>2, <1>3, <1>4, <1>5, <1>6, <1>7, <1>8, <1>9, <1>10, <1>11, <1>12, <1>13, <1>14, <1>15, <1>16, <1>17, <1>18, <1>19, <1>20, <1>21 DEF Next, WorkerStep, EngineStep, AllReturned

(* Control is never with two threads: of the worker that runs or publishes,  *)
(* the worker that has been granted the token and the engine, at most one    *)
(* has it, and the ring's words agree with where the threads are             *)
(* (yield_to_engine, finish_worker, engine_loop).                            *)
THEOREM OwnershipInvariant == Spec => []Ownership
<1>1. Init => Ownership
    BY TypeInit, OwnershipInit DEF Ownership
<1>2. Ownership /\ [Next]_vars => Ownership'
    BY TypeStep, OwnershipStep DEF Ownership
<1> QED
    BY <1>1, <1>2, PTL DEF Spec

(* Two threads never execute against the simulator state at once, and none   *)
(* does while the engine reads it to decide: the assertion that the Send and *)
(* Sync impls of the shared pointers make without a check.                   *)
THEOREM Exclusive == Spec => []TokenExclusive
<1>1. Ownership => TokenExclusive
    BY DEF Ownership, OneOwner, TokenExclusive, WorkerOwns, EngineOwns,
           EngineActive, EngineDeciding
<1> QED
    BY <1>1, OwnershipInvariant, PTL

-----------------------------------------------------------------------------
(* No thread sleeps through the word that should have kept it awake.         *)
LEMMA WakeupStep == TypeOK /\ NoLostWakeup /\ [Next]_vars => NoLostWakeup'
<1> SUFFICES ASSUME TypeOK, NoLostWakeup, [Next]_vars PROVE NoLostWakeup'
    OBVIOUS
<1> USE DEF NoLostWakeup, ringWords, workerVars, engineVars, Goto, EngineGoto
<1>1. ASSUME NEW w \in Worker, CheckRunning(w) PROVE NoLostWakeup'
    BY <1>1 DEF CheckRunning, TypeOK
<1>2. ASSUME NEW w \in Worker, FutexWait(w) PROVE NoLostWakeup'
    BY <1>2 DEF FutexWait, TypeOK
<1>3. ASSUME NEW w \in Worker, RunUntilYield(w) PROVE NoLostWakeup'
    BY <1>3 DEF RunUntilYield, TypeOK
<1>4. ASSUME NEW w \in Worker, RunUntilDone(w) PROVE NoLostWakeup'
    BY <1>4 DEF RunUntilDone, TypeOK
<1>5. ASSUME NEW w \in Worker, ParkSelf(w) PROVE NoLostWakeup'
    BY <1>5 DEF ParkSelf, TypeOK
<1>6. ASSUME NEW w \in Worker, MarkFinished(w) PROVE NoLostWakeup'
    BY <1>6 DEF MarkFinished, TypeOK
<1>7. ASSUME NEW w \in Worker, PublishWorker(w) PROVE NoLostWakeup'
    BY <1>7 DEF PublishWorker, TypeOK
<1>8. ASSUME NEW w \in Worker, PublishReason(w) PROVE NoLostWakeup'
    BY <1>8 DEF PublishReason, TypeOK
<1>9. ASSUME NEW w \in Worker, StoreWoken(w) PROVE NoLostWakeup'
    BY <1>9 DEF StoreWoken, TypeOK
<1>10. ASSUME NEW w \in Worker, WakeEngine(w) PROVE NoLostWakeup'
    BY <1>10 DEF WakeEngine, TypeOK
<1>11. ASSUME NEW w \in Worker, SpuriousWake(w) PROVE NoLostWakeup'
    BY <1>11 DEF SpuriousWake, TypeOK
<1>12. CASE StartFirstWorker
    BY <1>12 DEF StartFirstWorker, SetRunning, TypeOK
<1>13. CASE FutexWakeOne
    BY <1>13 DEF FutexWakeOne, TypeOK
<1>14. CASE SwapSleeping
    BY <1>14 DEF SwapSleeping, TypeOK
<1>15. CASE EngineFutexWait
    BY <1>15 DEF EngineFutexWait, TypeOK
<1>16. CASE ReadYieldedWorker
    BY <1>16 DEF ReadYieldedWorker, TypeOK
<1>17. CASE ReadYieldReason
    BY <1>17 DEF ReadYieldReason, TypeOK
<1>18. CASE Decide
    BY <1>18 DEF Decide, SetRunning, PickByMinClock, TypeOK
<1>19. CASE Reset
    BY <1>19 DEF Reset, TypeOK
<1>20. CASE EngineSpuriousWake
    BY <1>20 DEF EngineSpuriousWake, TypeOK
<1>21. CASE UNCHANGED vars
    BY <1>21 DEF vars
<1> QED
    BY <1>1, <1>2, <1>3, <1>4, <1>5, <1>6, <1>7, <1>8, <1>9, <1>10, <1>11, <1>12, <1>13, <1>14, <1>15, <1>16, <1>17, <1>18, <1>19, <1>20, <1>21 DEF Next, WorkerStep, EngineStep, AllReturned

(* A thread asleep on a word that says go has a futex_wake on the way        *)
(* (futex_wait, futex_wake_one, AtomicEngineWake::wake), for ever.           *)
THEOREM WakeupsArrive == Spec => []NoLostWakeup
<1>1. Init => NoLostWakeup
    BY DEF Init, NoLostWakeup
<1> QED
    BY <1>1, WakeupStep, TypeCorrect, PTL DEF Spec

-----------------------------------------------------------------------------
(* What the engine decides on.  The pair of words belongs to one worker from *)
(* the moment Woken is stored until the engine has read both, and the mask   *)
(* holds exactly the workers on their way out.                               *)
Published == pc[yieldedWorker] \in {"wakeEngine", "check", "wait", "asleep", "exited"}

MaskExact ==
    \A w \in Worker :
        w \in finishedMask <=> /\ reason[w] = "Finished"
                              /\ pc[w] \in Publishing \cup {"wakeEngine", "exited"}

PairWritten ==
    \A w \in Worker :
        /\ pc[w] \in {"publishReason", "storeWoken"} => yieldedWorker = w
        /\ pc[w] = "storeWoken" => yieldReason = reason[w]
        /\ pc[w] = "exited" => reason[w] = "Finished"

PairPending ==
    engineWake = "Woken" \/ EngineDeciding =>
        /\ yieldedWorker \in Worker
        /\ yieldReason = reason[yieldedWorker]
        /\ Published
        /\ yieldReason = "Finished" <=> yieldedWorker \in finishedMask
        /\ yieldReason # "Finished" => workers[yieldedWorker] = "Parked"

PairRead ==
    /\ epc \in {"readReason", "decide"} => got.worker = yieldedWorker
    /\ epc = "decide" => got.reason = yieldReason

Publication == MaskExact /\ PairWritten /\ PairPending /\ PairRead

(* Nothing has been read before the first yield.                             *)
LEMMA PublicationInit == Init => Publication
BY DEF Init, Publication, MaskExact, PairWritten, PairPending, PairRead,
       EngineDeciding, Publishing

(* Every action keeps what is published and read to one yield.               *)
LEMMA PublicationStep == Ownership /\ Publication /\ [Next]_vars => Publication'
<1> SUFFICES ASSUME TypeOK, OneOwner, Discipline, Publication, [Next]_vars
             PROVE  Publication'
    BY DEF Ownership
<1> USE DEF Publication, MaskExact, PairWritten, PairPending, PairRead, Published,
            EngineDeciding, OneOwner, Discipline, WorkerOwns, Holding, Waiting,
            Publishing, EngineOwns, EngineActive, ringWords, workerVars,
            engineVars, Goto, EngineGoto
<1>1. ASSUME NEW w \in Worker, CheckRunning(w) PROVE Publication'
    BY <1>1 DEF CheckRunning, TypeOK
<1>2. ASSUME NEW w \in Worker, FutexWait(w) PROVE Publication'
    BY <1>2 DEF FutexWait, TypeOK
<1>3. ASSUME NEW w \in Worker, RunUntilYield(w) PROVE Publication'
    BY <1>3 DEF RunUntilYield, TypeOK
<1>4. ASSUME NEW w \in Worker, RunUntilDone(w) PROVE Publication'
    BY <1>4 DEF RunUntilDone, TypeOK
<1>5. ASSUME NEW w \in Worker, ParkSelf(w) PROVE Publication'
    BY <1>5 DEF ParkSelf, TypeOK
<1>6. ASSUME NEW w \in Worker, MarkFinished(w) PROVE Publication'
    BY <1>6 DEF MarkFinished, TypeOK
<1>7. ASSUME NEW w \in Worker, PublishWorker(w) PROVE Publication'
    BY <1>7 DEF PublishWorker, TypeOK
<1>8. ASSUME NEW w \in Worker, PublishReason(w) PROVE Publication'
    BY <1>8 DEF PublishReason, TypeOK
<1>9. ASSUME NEW w \in Worker, StoreWoken(w) PROVE Publication'
    BY <1>9 DEF StoreWoken, TypeOK
<1>10. ASSUME NEW w \in Worker, WakeEngine(w) PROVE Publication'
    BY <1>10 DEF WakeEngine, TypeOK
<1>11. ASSUME NEW w \in Worker, SpuriousWake(w) PROVE Publication'
    BY <1>11 DEF SpuriousWake, TypeOK
<1>12. CASE StartFirstWorker
    BY <1>12 DEF StartFirstWorker, SetRunning, TypeOK
<1>13. CASE FutexWakeOne
    BY <1>13 DEF FutexWakeOne, TypeOK
<1>14. CASE SwapSleeping
    BY <1>14 DEF SwapSleeping, TypeOK
<1>15. CASE EngineFutexWait
    BY <1>15 DEF EngineFutexWait, TypeOK
<1>16. CASE ReadYieldedWorker
    BY <1>16 DEF ReadYieldedWorker, TypeOK
<1>17. CASE ReadYieldReason
    BY <1>17 DEF ReadYieldReason, TypeOK
<1>18. CASE Decide
    BY <1>18 DEF Decide, SetRunning, PickByMinClock, TypeOK
<1>19. CASE Reset
    BY <1>19 DEF Reset, TypeOK
<1>20. CASE EngineSpuriousWake
    BY <1>20 DEF EngineSpuriousWake, TypeOK
<1>21. CASE UNCHANGED vars
    BY <1>21 DEF vars
<1> QED
    BY <1>1, <1>2, <1>3, <1>4, <1>5, <1>6, <1>7, <1>8, <1>9, <1>10, <1>11, <1>12, <1>13, <1>14, <1>15, <1>16, <1>17, <1>18, <1>19, <1>20, <1>21 DEF Next, WorkerStep, EngineStep, AllReturned

(* The decision is made on the yield that woke the engine, never on a mix of *)
(* two yields or on a stale one.                                             *)
THEOREM DecisionsFresh == Spec => []DecisionMatchesYield
<1>1. Init => Publication
    BY PublicationInit
<1>2. Ownership /\ Publication => DecisionMatchesYield
    BY DEF Publication, PairPending, PairRead, DecisionMatchesYield, EngineDeciding
<1> QED
    BY <1>1, <1>2, PublicationStep, OwnershipInvariant, PTL DEF Spec
-----------------------------------------------------------------------------
(* The ring implements the token.  A grant is made by the engine's Decide    *)
(* and takes effect when the worker sees its word say Running: in between,   *)
(* nobody may move a clock or finish, or the pick would be stale.            *)
GrantStands ==
    \A w \in Worker :
        Waiting(w) /\ workers[w] = "Running" /\ FirstChosen =>
            w \in PickByMinClock(localClock, finishedMask)

RoundEdges ==
    /\ epc = "start" => ~FirstChosen
    /\ epc = "done" => AllDone
    /\ \A w \in Worker : pc[w] = "park" => yields[w] > 0

Grants == GrantStands /\ RoundEdges

(* The holder of the mapping is the one worker that runs, or the engine.     *)
LEMMA HolderIs ==
    ASSUME OneOwner
    PROVE  /\ \A w \in Worker : Holding(w) => Holder = w
           /\ (\A w \in Worker : ~Holding(w)) => Holder = Engine
<1>1. ASSUME NEW w \in Worker, Holding(w) PROVE Holder = w
  <2>1. /\ Holder \in Worker
        /\ Holding(Holder)
    BY <1>1 DEF Holder
  <2> QED
    BY <1>1, <2>1 DEF OneOwner, WorkerOwns
<1> QED
    BY <1>1 DEF Holder

(* ... also after the step.                                                  *)
LEMMA HolderIsAfter ==
    ASSUME OneOwner'
    PROVE  /\ \A w \in Worker : Holding(w)' => Holder' = w
           /\ (\A w \in Worker : ~Holding(w)') => Holder' = Engine
<1>1. ASSUME NEW w \in Worker, Holding(w)' PROVE Holder' = w
  <2>1. /\ Holder' \in Worker
        /\ \E v \in Worker : v = Holder' /\ Holding(v)'
    BY <1>1 DEF Holder, Holding
  <2> QED
    BY <1>1, <2>1 DEF OneOwner, WorkerOwns
<1> QED
    BY <1>1 DEF Holder

(* Nothing has been granted at the start.                                    *)
LEMMA GrantsInit == Init => Grants
BY DEF Init, Grants, GrantStands, RoundEdges, FirstChosen, Holding

(* No step makes a pending grant stale.                                      *)
LEMMA GrantsStep == Ownership /\ Grants /\ [Next]_vars => Grants'
<1> SUFFICES ASSUME TypeOK, OneOwner, Discipline, Grants, [Next]_vars
             PROVE  Grants'
    BY DEF Ownership
<1> USE DEF Grants, GrantStands, RoundEdges, FirstChosen, AllDone, OneOwner,
            Discipline, WorkerOwns, Holding, Waiting, Publishing, EngineOwns,
            EngineActive, ringWords, workerVars, engineVars, Goto, EngineGoto
<1>1. ASSUME NEW w \in Worker, CheckRunning(w) PROVE Grants'
    BY <1>1 DEF CheckRunning, TypeOK
<1>2. ASSUME NEW w \in Worker, FutexWait(w) PROVE Grants'
    BY <1>2 DEF FutexWait, TypeOK
<1>3. ASSUME NEW w \in Worker, RunUntilYield(w) PROVE Grants'
    BY <1>3 DEF RunUntilYield, TypeOK
<1>4. ASSUME NEW w \in Worker, RunUntilDone(w) PROVE Grants'
    BY <1>4 DEF RunUntilDone, TypeOK
<1>5. ASSUME NEW w \in Worker, ParkSelf(w) PROVE Grants'
    BY <1>5 DEF ParkSelf, TypeOK
<1>6. ASSUME NEW w \in Worker, MarkFinished(w) PROVE Grants'
    BY <1>6 DEF MarkFinished, TypeOK
<1>7. ASSUME NEW w \in Worker, PublishWorker(w) PROVE Grants'
    BY <1>7 DEF PublishWorker, TypeOK
<1>8. ASSUME NEW w \in Worker, PublishReason(w) PROVE Grants'
    BY <1>8 DEF PublishReason, TypeOK
<1>9. ASSUME NEW w \in Worker, StoreWoken(w) PROVE Grants'
    BY <1>9 DEF StoreWoken, TypeOK
<1>10. ASSUME NEW w \in Worker, WakeEngine(w) PROVE Grants'
    BY <1>10 DEF WakeEngine, TypeOK
<1>11. ASSUME NEW w \in Worker, SpuriousWake(w) PROVE Grants'
    BY <1>11 DEF SpuriousWake, TypeOK
<1>12. CASE StartFirstWorker
    BY <1>12 DEF StartFirstWorker, SetRunning, TypeOK
<1>13. CASE FutexWakeOne
    BY <1>13 DEF FutexWakeOne, TypeOK
<1>14. CASE SwapSleeping
    BY <1>14 DEF SwapSleeping, TypeOK
<1>15. CASE EngineFutexWait
    BY <1>15 DEF EngineFutexWait, TypeOK
<1>16. CASE ReadYieldedWorker
    BY <1>16 DEF ReadYieldedWorker, TypeOK
<1>17. CASE ReadYieldReason
    BY <1>17 DEF ReadYieldReason, TypeOK
<1>18. CASE Decide
    BY <1>18 DEF Decide, SetRunning, PickByMinClock, TypeOK
<1>19. CASE Reset
    BY <1>19 DEF Reset, TypeOK
<1>20. CASE EngineSpuriousWake
    BY <1>20 DEF EngineSpuriousWake, TypeOK
<1>21. CASE UNCHANGED vars
    BY <1>21 DEF vars
<1> QED
    BY <1>1, <1>2, <1>3, <1>4, <1>5, <1>6, <1>7, <1>8, <1>9, <1>10, <1>11, <1>12, <1>13, <1>14, <1>15, <1>16, <1>17, <1>18, <1>19, <1>20, <1>21 DEF Next, WorkerStep, EngineStep, AllReturned

(* A step that moves neither the token nor a clock nor the mask is a stutter *)
(* of the token.                                                             *)
LEMMA TokenStutters ==
    ASSUME OneOwner, OneOwner', UNCHANGED <<finishedMask, localClock, yields>>,
           \A w \in Worker : Holding(w)' <=> Holding(w)
    PROVE  UNCHANGED <<Holder, finishedMask, localClock, FirstChosen>>
<1>1. FirstChosen' = FirstChosen
    BY DEF FirstChosen
<1>2. CASE \E w \in Worker : Holding(w)
    BY <1>1, <1>2, HolderIs, HolderIsAfter
<1>3. CASE ~ \E w \in Worker : Holding(w)
    BY <1>1, <1>3, HolderIs, HolderIsAfter
<1> QED
    BY <1>1, <1>2, <1>3

(* Every step of the ring is a step of the token or a stutter.               *)
LEMMA TokenStep ==
    ASSUME Ownership, Ownership', Grants, [Next]_vars
    PROVE  [Token!TokenNext]_(Token!tokenVars)
<1> DEFINE Stutter == UNCHANGED <<Holder, finishedMask, localClock, FirstChosen>>
<1> SUFFICES Stutter \/ Token!TokenNext
    BY DEF Token!tokenVars
<1> USE DEF Ownership
<1>1. ASSUME NEW w \in Worker, CheckRunning(w) PROVE Stutter \/ Token!TokenNext
  <2>1. CASE workers[w] # "Running"
    BY <1>1, <2>1, TokenStutters
    DEF CheckRunning, Goto, Holding, TypeOK, ringWords
  <2>2. CASE workers[w] = "Running"
    <3>1. WorkerOwns(w) /\ Waiting(w) /\ pc[w] = "check"
      BY <1>1, <2>2 DEF CheckRunning, Goto, WorkerOwns, Waiting
    <3>2. Holder = Engine
      BY <3>1, HolderIs DEF OneOwner, WorkerOwns, Holding
    <3>3. Holding(w)' /\ Holder' = w /\ FirstChosen'
      BY <1>1, <2>2, HolderIsAfter
      DEF CheckRunning, Goto, Holding, TypeOK, FirstChosen
    <3>4. FirstChosen => w \in PickByMinClock(localClock, finishedMask)
      BY <2>2, <3>1 DEF Grants, GrantStands
    <3>5. UNCHANGED <<finishedMask, localClock>>
      BY <1>1 DEF CheckRunning, ringWords
    <3>6. Token!Grant(w)
      BY <3>2, <3>3, <3>4, <3>5
      DEF Token!Grant, Token!PickByMinClock, PickByMinClock, Token!NotAfter, NotAfter
    <3> QED
      BY <3>6 DEF Token!TokenNext
  <2> QED
    BY <2>1, <2>2
<1>2. ASSUME NEW w \in Worker, FutexWait(w) \/ SpuriousWake(w)
      PROVE  Stutter
    BY <1>2, TokenStutters
    DEF FutexWait, SpuriousWake, Goto, Holding, TypeOK, ringWords
<1>3. ASSUME NEW w \in Worker, RunUntilYield(w) PROVE Token!TokenNext
  <2>1. Holding(w) /\ Holding(w)' /\ Holder = w /\ Holder' = w
    BY <1>3, HolderIs, HolderIsAfter DEF RunUntilYield, Goto, Holding, TypeOK
  <2>2. FirstChosen /\ FirstChosen' /\ finishedMask' = finishedMask
    BY <1>3, <2>1 DEF RunUntilYield, FirstChosen, ringWords
  <2>3. /\ localClock' \in [Worker -> Nat]
        /\ localClock'[w] > localClock[w]
        /\ \A v \in Worker \ {w} : localClock'[v] = localClock[v]
    <3>1. PICK d \in Advance : localClock' = [localClock EXCEPT ![w] = @ + d]
      BY <1>3 DEF RunUntilYield
    <3>2. d \in Nat /\ d > 0 /\ localClock \in [Worker -> Nat]
      BY <3>1, EngineRingAssumption DEF TypeOK
    <3> QED
      BY <3>1, <3>2 DEF TypeOK
  <2>4. Token!Work(w)
    BY <2>1, <2>2, <2>3 DEF Token!Work
  <2> QED
    BY <2>4 DEF Token!TokenNext
<1>4. ASSUME NEW w \in Worker, RunUntilDone(w) PROVE Stutter
    BY <1>4, TokenStutters DEF RunUntilDone, Goto, Holding, TypeOK, ringWords
<1>5. ASSUME NEW w \in Worker, ParkSelf(w) \/ MarkFinished(w)
      PROVE  Token!TokenNext
  <2>1. Holding(w) /\ Holder = w /\ FirstChosen
    BY <1>5, HolderIs DEF ParkSelf, MarkFinished, Goto, Holding, FirstChosen
  <2>2. Holder' = Engine
    <3>1. \A v \in Worker : ~Holding(v)'
      BY <1>5, <2>1 DEF ParkSelf, MarkFinished, Goto, Holding, TypeOK,
                        OneOwner, WorkerOwns
    <3> QED
      BY <3>1, HolderIsAfter
  <2>3. FirstChosen'
    <3>1. CASE ParkSelf(w)
      BY <3>1 DEF ParkSelf, Goto, FirstChosen, Grants, RoundEdges
    <3>2. CASE MarkFinished(w)
      BY <3>2 DEF MarkFinished, FirstChosen
    <3> QED
      BY <1>5, <3>1, <3>2
  <2>4. /\ finishedMask' \in {finishedMask, finishedMask \cup {w}}
        /\ localClock' = localClock
    BY <1>5 DEF ParkSelf, MarkFinished
  <2>5. Token!GiveBack(w)
    BY <2>1, <2>2, <2>3, <2>4 DEF Token!GiveBack
  <2> QED
    BY <2>5 DEF Token!TokenNext
<1>6. ASSUME NEW w \in Worker,
             PublishWorker(w) \/ PublishReason(w) \/ StoreWoken(w) \/ WakeEngine(w)
      PROVE  Stutter
    BY <1>6, TokenStutters
    DEF PublishWorker, PublishReason, StoreWoken, WakeEngine, Goto, Holding,
        TypeOK, ringWords
<1>7. CASE StartFirstWorker \/ Decide
    BY <1>7, TokenStutters
    DEF StartFirstWorker, Decide, SetRunning, Holding, workerVars, ringWords
<1>8. CASE FutexWakeOne
    BY <1>8, TokenStutters DEF FutexWakeOne, Holding, TypeOK, ringWords
<1>9. CASE \/ SwapSleeping \/ EngineFutexWait \/ EngineSpuriousWake
           \/ ReadYieldedWorker \/ ReadYieldReason
    BY <1>9, TokenStutters
    DEF SwapSleeping, EngineFutexWait, EngineSpuriousWake, ReadYieldedWorker,
        ReadYieldReason, Holding, workerVars, ringWords
<1>10. CASE Reset
  <2>1. Holder = Engine
    BY <1>10, HolderIs DEF Reset, Holding
  <2>2. Holder' = Engine /\ ~FirstChosen'
    BY <1>10, HolderIsAfter DEF Reset, Holding, FirstChosen
  <2>3. finishedMask = Worker /\ finishedMask' = {} /\ localClock' = localClock
    BY <1>10 DEF Reset, EngineGoto, Grants, RoundEdges, AllDone
  <2>4. Token!NewRound
    BY <2>1, <2>2, <2>3 DEF Token!NewRound, FirstChosen
  <2> QED
    BY <2>4 DEF Token!TokenNext
<1>11. CASE UNCHANGED vars
    BY <1>11, TokenStutters DEF vars, Holding, workerVars, ringWords
<1> QED
    BY <1>1, <1>2, <1>3, <1>4, <1>5, <1>6, <1>7, <1>8, <1>9, <1>10, <1>11
    DEF Next, WorkerStep, EngineStep, AllReturned

(* The ring passes one token, from the engine to an unfinished worker of     *)
(* smallest clock and back, whatever the interleaving of its threads'        *)
(* atomic operations and futex calls: engine_ring.rs implements the token    *)
(* passing it documents.                                                     *)
THEOREM RingImplementsToken == Spec => ImplementsTokenPassing
<1>1. Init => Token!TokenInit
  <2> SUFFICES ASSUME Init PROVE Token!TokenInit
    OBVIOUS
  <2>1. OneOwner /\ \A w \in Worker : ~Holding(w)
    BY OwnershipInit DEF Init, Holding
  <2>2. Holder = Engine
    BY <2>1, HolderIs
  <2> QED
    BY <2>1, <2>2 DEF Token!TokenInit, Init, FirstChosen
<1>2. Spec => []Grants
  <2>1. Init => Grants
    BY GrantsInit
  <2> QED
    BY <2>1, GrantsStep, OwnershipInvariant, PTL DEF Spec
<1>3. Ownership /\ Ownership' /\ Grants /\ [Next]_vars
          => [Token!TokenNext]_(Token!tokenVars)
    BY TokenStep
<1> QED
    BY <1>1, <1>2, <1>3, OwnershipInvariant, PTL
    DEF Spec, ImplementsTokenPassing, Token!TokenSpec
=============================================================================
