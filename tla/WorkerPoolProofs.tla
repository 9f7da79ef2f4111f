-------------------------- MODULE WorkerPoolProofs --------------------------
(***************************************************************************)
(* The worker pool never shares a work description between two threads,    *)
(* for any number of workers and rounds, and whether or not the owner may  *)
(* close the pool in the middle of a round; and, when it may not, the pool *)
(* implements ParallelRounds.                                              *)
(*                                                                         *)
(* OwnerWritesParked speaks of the worker the owner is at, and only while  *)
(* it writes.  What is inductive is the whole picture: which workers are   *)
(* parked at each place of the owner's loops, and that a worker between    *)
(* its load and its store of Idle has a command that is not Idle.          *)
(***************************************************************************)
EXTENDS WorkerPool, TLAPS

Busy == {"load", "work", "storeDone", "wakeDone", "storeIdle"}

BusyHasCommand == \A w \in Worker : pc[w] \in Busy => commands[w] # "Idle"

Closing == {"storeShutdown", "wakeShutdown", "join", "closed"}
Waits == {"waitDone", "sleepDone", "asleepDone", "waitIdle", "sleepIdle", "asleepIdle"}

(* The workers that have no command at each place of the owner. *)
Rested(w) ==
    \/ opc \in {"idle", "describe"}
    \/ opc \in {"storePending", "storeCommand"} /\ (w >= i \/ w > count)
    \/ opc = "wakeWorker" /\ (w > i \/ w > count)
    \/ opc \in Waits /\ (w < i \/ w > count)

RestedParked == \A w \in Worker : Rested(w) => commands[w] = "Idle"

(* In a round the owner is at a worker that takes part in it.              *)
LoopInRange ==
    /\ opc \in {"describe", "storePending", "storeCommand", "wakeWorker"} \cup Waits =>
          i <= count /\ count \in Worker /\ command # "Idle"
    /\ opc = "idle" => i = 1

(* Nobody is told to exit, or has exited, before the pool is closed. *)
NoEarlyExit ==
    opc \notin Closing => \A w \in Worker : pc[w] # "exited" /\ commands[w] # "Shutdown"

PoolInv == TypeOK /\ BusyHasCommand /\ RestedParked /\ LoopInRange /\ NoEarlyExit

-----------------------------------------------------------------------------
(* The type holds at the start. *)
LEMMA PoolTypeInit == Init => TypeOK
BY WorkerPoolAssumption
   DEF Init, TypeOK, Worker, WorkerCommand, CompletionStatus, WorkerPc, OwnerPc

(* The steps of a worker keep the type, ... *)
LEMMA WorkerType ==
    ASSUME TypeOK, NEW w \in Worker, WorkerStep(w) \/ SpuriousWake(w)
    PROVE  TypeOK'
<1> USE DEF TypeOK, WorkerCommand, CompletionStatus, WorkerPc, OwnerPc, Goto, poolWords, ownerVars
<1>1. CASE CheckCommand(w)
  BY <1>1 DEF CheckCommand
<1>2. CASE FutexWait(w)
  BY <1>2 DEF FutexWait
<1>3. CASE LoadCommand(w)
  BY <1>3 DEF LoadCommand
<1>4. CASE ExecuteWork(w)
  BY <1>4 DEF ExecuteWork
<1>5. CASE StoreDone(w)
  BY <1>5 DEF StoreDone
<1>6. CASE WakeDone(w)
  BY <1>6 DEF WakeDone
<1>7. CASE StoreIdle(w)
  BY <1>7 DEF StoreIdle
<1>8. CASE WakeIdle(w)
  BY <1>8 DEF WakeIdle
<1>9. CASE SpuriousWake(w)
  BY <1>9 DEF SpuriousWake
<1>. QED
  BY <1>1, <1>2, <1>3, <1>4, <1>5, <1>6, <1>7, <1>8, <1>9 DEF WorkerStep

(* ... and so does one turn of a loop of the owner, ...                    *)
LEMMA LoopType ==
    ASSUME TypeOK, NEW bound \in Worker, NEW from, NEW again \in OwnerPc, NEW after \in OwnerPc,
           LoopGoto(from, bound, again, after)
    PROVE  i' \in Worker /\ opc' \in OwnerPc
BY WorkerPoolAssumption DEF TypeOK, LoopGoto, Worker

(* ... and the other steps of the owner, where count is of the round.      *)
LEMMA OwnerType ==
    ASSUME TypeOK, LoopInRange,
           OwnerStep \/ BeginRound \/ Shutdown \/ OwnerSpuriousWake \/ Closed
    PROVE  TypeOK'
<1> USE DEF TypeOK, WorkerCommand, CompletionStatus, WorkerPc, OwnerPc, OwnerGoto, poolWords,
            workerVars
<1>1. CASE SetWorkDesc
  <2>1. count \in Worker
    BY <1>1 DEF SetWorkDesc, LoopGoto, LoopInRange
  <2>2. i' \in Worker /\ opc' \in OwnerPc
    BY <1>1, <2>1, LoopType DEF SetWorkDesc
  <2>. QED
    BY <1>1, <2>2 DEF SetWorkDesc
<1>2. CASE StorePending
  BY <1>2 DEF StorePending
<1>3. CASE StoreCommand
  BY <1>3 DEF StoreCommand
<1>4. CASE WakeWorker
  <2>1. count \in Worker
    BY <1>4 DEF WakeWorker, LoopGoto, LoopInRange
  <2>2. i' \in Worker /\ opc' \in OwnerPc
    BY <1>4, <2>1, LoopType DEF WakeWorker
  <2>. QED
    BY <1>4, <2>2 DEF WakeWorker, WakeWorkerAt
<1>5. CASE CheckDone
  BY <1>5 DEF CheckDone
<1>6. CASE SleepDone
  BY <1>6 DEF SleepDone
<1>7. CASE CheckIdle
  <2>1. CASE commands[i] = "Idle"
    <3>1. count \in Worker
      BY <1>7, <2>1 DEF CheckIdle, LoopGoto, LoopInRange, Waits
    <3>2. i' \in Worker /\ opc' \in OwnerPc
      BY <1>7, <2>1, <3>1, LoopType DEF CheckIdle
    <3>. QED
      BY <1>7, <2>1, <3>2 DEF CheckIdle
  <2>2. CASE commands[i] # "Idle"
    BY <1>7, <2>2 DEF CheckIdle
  <2>. QED
    BY <2>1, <2>2
<1>8. CASE SleepIdle
  BY <1>8 DEF SleepIdle
<1>9. CASE StoreShutdown
  BY <1>9 DEF StoreShutdown
<1>10. Total \in Worker
  BY WorkerPoolAssumption DEF Worker
<1>11. CASE WakeShutdown
  <2>1. i' \in Worker /\ opc' \in OwnerPc
    BY <1>11, <1>10, LoopType DEF WakeShutdown
  <2>. QED
    BY <1>11, <2>1 DEF WakeShutdown, WakeWorkerAt
<1>12. CASE Join
  <2>1. i' \in Worker /\ opc' \in OwnerPc
    BY <1>12, <1>10, LoopType DEF Join
  <2>. QED
    BY <1>12, <2>1 DEF Join
<1>13. CASE BeginRound
  BY <1>13 DEF BeginRound
<1>14. CASE Shutdown
  BY <1>14 DEF Shutdown
<1>15. CASE OwnerSpuriousWake
  BY <1>15 DEF OwnerSpuriousWake
<1>16. CASE Closed
  BY <1>16 DEF Closed, vars, ownerVars
<1>. QED
  BY <1>1, <1>2, <1>3, <1>4, <1>5, <1>6, <1>7, <1>8, <1>9, <1>11, <1>12, <1>13, <1>14, <1>15,
     <1>16 DEF OwnerStep

-----------------------------------------------------------------------------
(* Every step keeps the type. *)
LEMMA PoolTypeStep ==
    ASSUME TypeOK, LoopInRange, [Next]_vars
    PROVE  TypeOK'
<1>1. ASSUME NEW w \in Worker, WorkerStep(w) \/ SpuriousWake(w) PROVE TypeOK'
  BY <1>1, WorkerType
<1>2. CASE OwnerStep \/ BeginRound \/ Shutdown \/ OwnerSpuriousWake \/ Closed
  BY <1>2, OwnerType
<1>3. CASE UNCHANGED vars
  BY <1>3 DEF vars, poolWords, workerVars, ownerVars, TypeOK
<1>. QED
  BY <1>1, <1>2, <1>3 DEF Next

(* The picture holds at the start. *)
LEMMA PoolInvInit == Init => PoolInv
<1>1. Init => TypeOK
  BY PoolTypeInit
<1>2. Init => BusyHasCommand /\ RestedParked /\ LoopInRange /\ NoEarlyExit
  BY DEF Init, BusyHasCommand, Busy, RestedParked, Rested, LoopInRange, NoEarlyExit, Waits
<1>. QED
  BY <1>1, <1>2 DEF PoolInv

(* A worker takes up a command that is not Idle and ends with Idle in its  *)
(* word; it moves the owner only where the owner sleeps.                   *)
LEMMA WorkerKeeps ==
    ASSUME PoolInv, NEW w \in Worker, WorkerStep(w) \/ SpuriousWake(w)
    PROVE  (BusyHasCommand /\ RestedParked /\ LoopInRange /\ NoEarlyExit)'
<1> USE DEF PoolInv, TypeOK, BusyHasCommand, Busy, RestedParked, Rested, LoopInRange,
            NoEarlyExit, Closing, Waits, Goto, poolWords, ownerVars
<1>1. CASE CheckCommand(w)
  BY <1>1 DEF CheckCommand
<1>2. CASE FutexWait(w)
  BY <1>2 DEF FutexWait
<1>3. CASE LoadCommand(w)
  BY <1>3 DEF LoadCommand
<1>4. CASE ExecuteWork(w)
  BY <1>4 DEF ExecuteWork
<1>5. CASE StoreDone(w)
  BY <1>5 DEF StoreDone
<1>6. CASE WakeDone(w)
  BY <1>6 DEF WakeDone
<1>7. CASE StoreIdle(w)
  BY <1>7 DEF StoreIdle
<1>8. CASE WakeIdle(w)
  BY <1>8 DEF WakeIdle, OwnerAsleepOn
<1>9. CASE SpuriousWake(w)
  BY <1>9 DEF SpuriousWake
<1>. QED
  BY <1>1, <1>2, <1>3, <1>4, <1>5, <1>6, <1>7, <1>8, <1>9 DEF WorkerStep

(* The owner gives a command only to workers of the round, and leaves one  *)
(* behind only when it has seen Idle in its word.                          *)
LEMMA OwnerKeeps ==
    ASSUME PoolInv,
           OwnerStep \/ BeginRound \/ Shutdown \/ OwnerSpuriousWake \/ Closed
    PROVE  (BusyHasCommand /\ RestedParked /\ LoopInRange /\ NoEarlyExit)'
<1> USE DEF PoolInv, TypeOK, BusyHasCommand, Busy, RestedParked, Rested, LoopInRange,
            NoEarlyExit, Closing, Waits, OwnerGoto, LoopGoto, Worker, poolWords, workerVars
<1>1. CASE SetWorkDesc
  BY <1>1 DEF SetWorkDesc
<1>2. CASE StorePending
  BY <1>2 DEF StorePending
<1>3. CASE StoreCommand
  BY <1>3 DEF StoreCommand
<1>4. CASE WakeWorker
  BY <1>4 DEF WakeWorker, WakeWorkerAt
<1>5. CASE CheckDone
  BY <1>5 DEF CheckDone
<1>6. CASE SleepDone
  BY <1>6 DEF SleepDone
<1>7. CASE CheckIdle
  <2>1. CASE commands[i] # "Idle"
    BY <1>7, <2>1 DEF CheckIdle
  <2>2. CASE commands[i] = "Idle" /\ i < count
    BY <1>7, <2>2 DEF CheckIdle
  <2>3. CASE commands[i] = "Idle" /\ i = count
    <3>1. opc = "waitIdle" /\ opc' = "idle" /\ i' = 1 /\ UNCHANGED <<commands, pc>>
      BY <1>7, <2>3 DEF CheckIdle
    <3>2. \A w \in Worker : commands[w] = "Idle"
      <4>1. \A w \in Worker : w < i \/ w > count => commands[w] = "Idle"
        BY <3>1
      <4>2. \A w \in Worker : w < i \/ w > count \/ w = i
        BY <2>3
      <4>. QED
        BY <4>1, <4>2, <2>3
    <3>3. BusyHasCommand' /\ NoEarlyExit'
      BY <3>1
    <3>4. RestedParked' /\ LoopInRange'
      BY <3>1, <3>2
    <3>. QED
      BY <3>3, <3>4
  <2>. QED
    BY <1>7, <2>1, <2>2, <2>3 DEF CheckIdle
<1>8. CASE SleepIdle
  BY <1>8 DEF SleepIdle
<1>9. CASE StoreShutdown
  BY <1>9 DEF StoreShutdown
<1>10. CASE WakeShutdown
  BY <1>10 DEF WakeShutdown, WakeWorkerAt
<1>11. CASE Join
  BY <1>11 DEF Join
<1>12. CASE BeginRound
  BY <1>12 DEF BeginRound
<1>13. CASE Shutdown
  BY <1>13 DEF Shutdown
<1>14. CASE OwnerSpuriousWake
  BY <1>14 DEF OwnerSpuriousWake
<1>15. CASE Closed
  BY <1>15 DEF Closed, vars, ownerVars
<1>. QED
  BY <1>1, <1>2, <1>3, <1>4, <1>5, <1>6, <1>7, <1>8, <1>9, <1>10, <1>11, <1>12, <1>13, <1>14,
     <1>15 DEF OwnerStep

(* Every step keeps the picture. *)
LEMMA PoolInvStep == PoolInv /\ [Next]_vars => PoolInv'
<1> SUFFICES ASSUME PoolInv, [Next]_vars PROVE PoolInv'
  OBVIOUS
<1>1. TypeOK'
  BY PoolTypeStep DEF PoolInv
<1>2. (BusyHasCommand /\ RestedParked /\ LoopInRange /\ NoEarlyExit)'
  <2>1. ASSUME NEW w \in Worker, WorkerStep(w) \/ SpuriousWake(w)
        PROVE  (BusyHasCommand /\ RestedParked /\ LoopInRange /\ NoEarlyExit)'
    BY <2>1, WorkerKeeps
  <2>2. CASE OwnerStep \/ BeginRound \/ Shutdown \/ OwnerSpuriousWake \/ Closed
    BY <2>2, OwnerKeeps
  <2>3. CASE UNCHANGED vars
    BY <2>3 DEF vars, poolWords, workerVars, ownerVars, PoolInv, BusyHasCommand, RestedParked,
                Rested, LoopInRange, NoEarlyExit
  <2>. QED
    BY <2>1, <2>2, <2>3 DEF Next
<1>. QED
  BY <1>1, <1>2 DEF PoolInv

-----------------------------------------------------------------------------
(* Every word of the pool and every thread's place has its type for ever.  *)
THEOREM PoolTypeCorrect == Spec => []TypeOK
<1>1. PoolInv => TypeOK
  BY DEF PoolInv
<1>. QED
  BY <1>1, PoolInvInit, PoolInvStep, PTL DEF Spec

(* A work description, and a command word that carries no command, are     *)
(* written only while their worker is parked: the claim of the unsafe      *)
(* Send and Sync impls of the pool, "accessed by exactly one thread at a   *)
(* time" (set_work_desc, issue_command, wait_idle).                        *)
THEOREM DescNeverShared == Spec => []OwnerWritesParked
<1>1. ASSUME PoolInv, opc \in {"describe", "storePending", "storeCommand"}
      PROVE  Parked(i)
  <2>1. i \in Worker /\ pc[i] \in WorkerPc
    BY <1>1 DEF PoolInv, TypeOK
  <2>2. Rested(i)
    BY <1>1, <2>1 DEF Rested, Worker
  <2>3. commands[i] = "Idle"
    BY <1>1, <2>1, <2>2 DEF PoolInv, RestedParked
  <2>4. pc[i] \notin Busy /\ pc[i] # "exited"
    BY <1>1, <2>1, <2>3 DEF PoolInv, BusyHasCommand, NoEarlyExit, Closing
  <2>. QED
    BY <2>1, <2>3, <2>4 DEF Parked, Busy, WorkerPc
<1>2. PoolInv => OwnerWritesParked
  BY <1>1 DEF OwnerWritesParked
<1>. QED
  BY <1>2, PoolInvInit, PoolInvStep, PTL DEF Spec
-----------------------------------------------------------------------------
(* The pool implements the rounds.  OnceInv says where each worker is in     *)
(* the round that is on: not yet commanded and not yet executed, commanded   *)
(* with the description of this very round, or executed, and that a Done     *)
(* the owner can see is never left over from an earlier round.               *)
AfterWork == {"storeDone", "wakeDone", "storeIdle"}
Ran(w) == \E k \in DOMAIN ran[w] : ran[w][k] = round

(* The owner has not come to this worker yet in this round.                  *)
Uncommanded(w) ==
    \/ opc = "describe"
    \/ opc \in {"storePending", "storeCommand"} /\ w >= i
    \/ opc = "wakeWorker" /\ w > i

NoRoundAhead == \A w \in Worker : \A k \in DOMAIN ran[w] : ran[w][k] <= round

Described ==
    InRound => \A w \in 1..count : (opc = "describe" => w < i) => workDescs[w] = round

OnceCommanded ==
    InRound => \A w \in Worker :
        /\ Uncommanded(w) => ~Ran(w)
        /\ commands[w] # "Idle" => (Ran(w) <=> pc[w] \in AfterWork)
        /\ ~Uncommanded(w) /\ w <= count /\ completions[w] = "Done" => Ran(w)

Collected ==
    /\ opc = "storeCommand" => completions[i] = "Pending"
    /\ opc \in Waits => \A w \in Worker : w < i => Ran(w)
    /\ opc \in {"waitIdle", "sleepIdle", "asleepIdle"} => Ran(i)

ClosedQuietly ==
    opc \in Closing => \A w \in Worker :
        /\ commands[w] \in {"Idle", "Shutdown"}
        /\ pc[w] \notin {"work"} \cup AfterWork

OnceInv == NoRoundAhead /\ Described /\ OnceCommanded /\ Collected /\ ClosedQuietly

(* A worker has executed this round when it had, or when it does so now.     *)
LEMMA RanAfter ==
    ASSUME TypeOK, NEW w \in Worker, UNCHANGED round,
           ran' = [ran EXCEPT ![w] = Append(@, workDescs[w])]
    PROVE  \A v \in Worker : Ran(v)' <=> Ran(v) \/ (v = w /\ workDescs[w] = round)
<1>1. ran[w] \in Seq(Nat) /\ workDescs[w] \in Nat
  BY DEF TypeOK
<1>2. /\ DOMAIN Append(ran[w], workDescs[w]) = DOMAIN ran[w] \cup {Len(ran[w]) + 1}
      /\ \A k \in DOMAIN ran[w] : Append(ran[w], workDescs[w])[k] = ran[w][k]
      /\ Append(ran[w], workDescs[w])[Len(ran[w]) + 1] = workDescs[w]
  BY <1>1
<1>3. ran'[w] = Append(ran[w], workDescs[w]) /\ \A v \in Worker \ {w} : ran'[v] = ran[v]
  BY DEF TypeOK
<1>4. ASSUME NEW v \in Worker \ {w} PROVE Ran(v)' <=> Ran(v)
  BY <1>3 DEF Ran
<1>5. Ran(w)' <=> Ran(w) \/ workDescs[w] = round
  BY <1>2, <1>3 DEF Ran
<1> QED
  BY <1>4, <1>5

(* Where no description is executed, nothing of this changes.                *)
LEMMA RanKept ==
    ASSUME UNCHANGED <<ran, round>>
    PROVE  /\ \A w \in Worker : Ran(w)' <=> Ran(w)
           /\ NoRoundAhead => NoRoundAhead'
BY DEF Ran, NoRoundAhead

(* A description that is executed is not of a round to come.                 *)
LEMMA NoRoundAheadKept ==
    ASSUME TypeOK, NoRoundAhead, NEW w \in Worker, UNCHANGED round,
           ran' = [ran EXCEPT ![w] = Append(@, workDescs[w])], workDescs[w] <= round
    PROVE  NoRoundAhead'
<1>1. ran[w] \in Seq(Nat) /\ workDescs[w] \in Nat
  BY DEF TypeOK
<1>2. /\ DOMAIN Append(ran[w], workDescs[w]) = DOMAIN ran[w] \cup {Len(ran[w]) + 1}
      /\ \A k \in DOMAIN ran[w] : Append(ran[w], workDescs[w])[k] = ran[w][k]
      /\ Append(ran[w], workDescs[w])[Len(ran[w]) + 1] = workDescs[w]
  BY <1>1
<1>3. ran'[w] = Append(ran[w], workDescs[w]) /\ \A v \in Worker \ {w} : ran'[v] = ran[v]
  BY DEF TypeOK
<1> QED
  BY <1>2, <1>3 DEF NoRoundAhead

(* No worker has executed a round that has not begun.                        *)
LEMMA NothingRanYet ==
    ASSUME TypeOK, NoRoundAhead, UNCHANGED ran, round' = round + 1
    PROVE  NoRoundAhead' /\ \A w \in Worker : ~Ran(w)'
<1>1. \A w \in Worker : \A k \in DOMAIN ran[w] : ran[w][k] \in Nat
  BY DEF TypeOK
<1>2. \A w \in Worker : \A k \in DOMAIN ran[w] : ran[w][k] <= round
  BY DEF NoRoundAhead
<1>3. round \in Nat
  BY DEF TypeOK
<1>4. \A w \in Worker : \A k \in DOMAIN ran[w] : ran[w][k] < round + 1
  BY <1>1, <1>2, <1>3
<1>5. NoRoundAhead'
  BY <1>1, <1>3, <1>4 DEF NoRoundAhead
<1>6. ASSUME NEW w \in Worker PROVE ~Ran(w)'
  BY <1>1, <1>3, <1>4 DEF Ran
<1> QED
  BY <1>5, <1>6

(* A worker about to execute was commanded in this round, and has not.       *)
LEMMA AboutToExecute ==
    ASSUME PoolInv, OnceInv, NEW w \in Worker, pc[w] = "work"
    PROVE  InRound /\ w \in 1..count /\ workDescs[w] = round /\ ~Ran(w)
<1>1. commands[w] # "Idle"
  BY DEF PoolInv, BusyHasCommand, Busy
<1>2. opc \notin Closing /\ ~Rested(w)
  BY <1>1 DEF OnceInv, ClosedQuietly, PoolInv, RestedParked
<1>3. InRound /\ w <= count /\ opc # "describe" /\ opc \in OwnerPc
  BY <1>2 DEF Rested, Closing, InRound, PoolInv, TypeOK, OwnerPc, Waits, Worker
<1>4. w \in 1..count
  BY <1>3 DEF Worker, PoolInv, TypeOK
<1> QED
  BY <1>1, <1>3, <1>4 DEF OnceInv, Described, OnceCommanded, AfterWork

(* Nothing has run at the start. *)
LEMMA OnceInit == Init => OnceInv
<1> SUFFICES ASSUME Init PROVE OnceInv
  OBVIOUS
<1>1. NoRoundAhead
  BY DEF Init, NoRoundAhead
<1> QED
  BY <1>1 DEF Init, OnceInv, Described, OnceCommanded, Collected, ClosedQuietly, InRound,
              Closing, Waits

(* The execution itself: the worker now has this round behind it.            *)
LEMMA OnceExecute ==
    ASSUME PoolInv, OnceInv, NEW w \in Worker, ExecuteWork(w)
    PROVE  OnceInv'
<1>1. InRound /\ workDescs[w] = round /\ ~Ran(w)
  BY AboutToExecute DEF ExecuteWork, Goto
<1>2. TypeOK /\ NoRoundAhead /\ UNCHANGED round /\ workDescs[w] <= round
  BY <1>1 DEF PoolInv, OnceInv, TypeOK, ExecuteWork, ownerVars
<1>3. ran' = [ran EXCEPT ![w] = Append(@, workDescs[w])]
  BY DEF ExecuteWork
<1>4. NoRoundAhead'
  BY <1>2, <1>3, NoRoundAheadKept
<1>5. \A v \in Worker : Ran(v)' <=> Ran(v) \/ v = w
  BY <1>1, <1>2, <1>3, RanAfter
<1> QED
  BY <1>1, <1>4, <1>5
  DEF ExecuteWork, Goto, PoolInv, TypeOK, BusyHasCommand, Busy, RestedParked, Rested,
      NoEarlyExit, OnceInv, Described, OnceCommanded, Collected, ClosedQuietly, AfterWork,
      Uncommanded, InRound, Closing, Waits, poolWords, ownerVars

(* A worker executes this round's description once, and says Done after it.  *)
LEMMA OnceWorker ==
    ASSUME PoolInv, OnceInv, NEW w \in Worker, WorkerStep(w) \/ SpuriousWake(w)
    PROVE  OnceInv'
<1> USE DEF PoolInv, TypeOK, BusyHasCommand, Busy, RestedParked, Rested, NoEarlyExit, OnceInv,
            Described, OnceCommanded, Collected, ClosedQuietly, AfterWork, Uncommanded, InRound, Closing,
            Waits, Goto, poolWords, ownerVars
<1>1. CASE CheckCommand(w)
  BY <1>1, RanKept DEF CheckCommand
<1>2. CASE FutexWait(w)
  BY <1>2, RanKept DEF FutexWait
<1>3. CASE LoadCommand(w)
  BY <1>3, RanKept DEF LoadCommand
<1>4. CASE ExecuteWork(w)
  BY <1>4, OnceExecute
<1>5. CASE StoreDone(w)
  <2>1. Ran(w)
    BY <1>5 DEF StoreDone, OwnerPc
  <2>2. opc = "storeCommand" => i # w
    BY <1>5 DEF StoreDone, Worker
  <2>3. NoRoundAhead' /\ (\A v \in Worker : Ran(v)' <=> Ran(v)) /\ UNCHANGED <<opc, i, count, round>>
    BY <1>5, RanKept DEF StoreDone
  <2>4. completions' = [completions EXCEPT ![w] = "Done"] /\ UNCHANGED <<commands, workDescs>>
    BY <1>5 DEF StoreDone
  <2>5. pc' = [pc EXCEPT ![w] = "wakeDone"] /\ pc[w] = "storeDone"
    BY <1>5 DEF StoreDone
  <2>6. OnceCommanded'
    BY <2>1, <2>3, <2>4, <2>5
  <2>7. Collected'
    BY <2>2, <2>3, <2>4
  <2>8. Described' /\ ClosedQuietly'
    BY <2>3, <2>4, <2>5
  <2> QED
    BY <2>3, <2>6, <2>7, <2>8
<1>6. CASE WakeDone(w)
  BY <1>6, RanKept DEF WakeDone
<1>7. CASE StoreIdle(w)
  BY <1>7, RanKept DEF StoreIdle
<1>8. CASE WakeIdle(w)
  BY <1>8, RanKept DEF WakeIdle, OwnerAsleepOn
<1>9. CASE SpuriousWake(w)
  BY <1>9, RanKept DEF SpuriousWake
<1> QED
  BY <1>1, <1>2, <1>3, <1>4, <1>5, <1>6, <1>7, <1>8, <1>9 DEF WorkerStep

(* The owner commands each worker of the round once, and does not go on from *)
(* one before it has seen the Done of this round.                            *)
LEMMA OnceOwner ==
    ASSUME ~CloseMidRound, PoolInv, OnceInv,
           OwnerStep \/ BeginRound \/ Shutdown \/ OwnerSpuriousWake \/ Closed
    PROVE  OnceInv'
<1> USE DEF PoolInv, TypeOK, BusyHasCommand, Busy, RestedParked, Rested, LoopInRange,
            NoEarlyExit, OnceInv, Described, OnceCommanded, Collected, ClosedQuietly, AfterWork,
            Uncommanded, InRound, Closing, Waits, OwnerGoto, LoopGoto, Worker, poolWords,
            workerVars
<1>1. CASE SetWorkDesc
  BY <1>1, RanKept DEF SetWorkDesc
<1>2. CASE StorePending
  BY <1>2, RanKept DEF StorePending
<1>3. CASE StoreCommand
  BY <1>3, RanKept DEF StoreCommand
<1>4. CASE WakeWorker
  BY <1>4, RanKept DEF WakeWorker, WakeWorkerAt
<1>5. CASE CheckDone
  BY <1>5, RanKept DEF CheckDone
<1>6. CASE SleepDone
  BY <1>6, RanKept DEF SleepDone
<1>7. CASE CheckIdle
  <2>1. NoRoundAhead' /\ (\A w \in Worker : Ran(w)' <=> Ran(w)) /\ opc = "waitIdle"
    BY <1>7, RanKept DEF CheckIdle
  <2>2. CASE commands[i] # "Idle"
    <3>1. opc' = "sleepIdle" /\ UNCHANGED <<pc, workDescs, commands, completions, i, count, round>>
      BY <1>7, <2>2 DEF CheckIdle, poolWords
    <3>2. OnceCommanded'
      BY <2>1, <3>1
    <3>3. Collected'
      BY <2>1, <3>1
    <3>4. Described' /\ ClosedQuietly'
      BY <2>1, <3>1
    <3> QED
      BY <2>1, <3>2, <3>3, <3>4
  <2>3. CASE commands[i] = "Idle" /\ i < count
    <3>1. i' = i + 1 /\ opc' = "waitDone"
      BY <1>7, <2>3 DEF CheckIdle
    <3>2. \A w \in Worker : w < i' => Ran(w)
      BY <2>1, <3>1
    <3> QED
      BY <1>7, <2>1, <2>3, <3>1, <3>2 DEF CheckIdle
  <2>4. CASE commands[i] = "Idle" /\ i = count
    <3>1. i' = 1 /\ opc' = "idle"
      BY <1>7, <2>4 DEF CheckIdle
    <3> QED
      BY <2>1, <3>1
  <2> QED
    BY <1>7, <2>2, <2>3, <2>4 DEF CheckIdle
<1>8. CASE SleepIdle
  BY <1>8, RanKept DEF SleepIdle
<1>9. CASE StoreShutdown
  BY <1>9, RanKept DEF StoreShutdown
<1>10. CASE WakeShutdown
  BY <1>10, RanKept DEF WakeShutdown, WakeWorkerAt
<1>11. CASE Join
  BY <1>11, RanKept DEF Join
<1>12. CASE BeginRound
  BY <1>12, NothingRanYet DEF BeginRound
<1>13. CASE Shutdown
  BY <1>13, RanKept DEF Shutdown
<1>14. CASE OwnerSpuriousWake
  BY <1>14, RanKept DEF OwnerSpuriousWake
<1>15. CASE Closed
  BY <1>15, RanKept DEF Closed, vars, ownerVars
<1> QED
  BY <1>1, <1>2, <1>3, <1>4, <1>5, <1>6, <1>7, <1>8, <1>9, <1>10, <1>11, <1>12, <1>13, <1>14, <1>15 DEF OwnerStep

(* Every step keeps it, as long as no round is abandoned half way.           *)
LEMMA OnceStep ==
    ASSUME ~CloseMidRound, PoolInv, OnceInv, [Next]_vars
    PROVE  OnceInv'
<1>1. ASSUME NEW w \in Worker, WorkerStep(w) \/ SpuriousWake(w) PROVE OnceInv'
  BY <1>1, OnceWorker
<1>2. CASE OwnerStep \/ BeginRound \/ Shutdown \/ OwnerSpuriousWake \/ Closed
  BY <1>2, OnceOwner
<1>3. CASE UNCHANGED vars
  BY <1>3, RanKept
  DEF PoolInv, TypeOK, vars, poolWords, workerVars, ownerVars, OnceInv, Described, OnceCommanded, Collected,
      ClosedQuietly, Uncommanded, InRound
<1> QED
  BY <1>1, <1>2, <1>3 DEF Next

-----------------------------------------------------------------------------
(* The workers that have still to execute, as ImplementsRounds maps them.    *)
Todo == IF InRound THEN {w \in 1..count : \A k \in DOMAIN ran[w] : ran[w][k] # round} ELSE {}

(* Every step of the pool is a step of the rounds or a stutter.              *)
LEMMA RoundsStep ==
    ASSUME ~CloseMidRound, PoolInv, OnceInv, [Next]_vars
    PROVE  [Rounds!RoundsNext]_(Rounds!roundVars)
<1> DEFINE Stutter == UNCHANGED <<InRound, Todo, round, ran>>
<1> SUFFICES Stutter \/ Rounds!RoundsNext
  BY DEF Rounds!roundVars, Todo
<1>1. ASSUME UNCHANGED <<InRound, count, round, ran>> PROVE Stutter
  BY <1>1 DEF Todo
<1>2. \A w \in Worker : w \in Todo <=> InRound /\ w \in 1..count /\ ~Ran(w)
  BY DEF Todo, Ran
<1>3. ASSUME NEW w \in Worker, ExecuteWork(w) PROVE Rounds!RoundsNext
  <2>1. InRound /\ w \in 1..count /\ workDescs[w] = round /\ ~Ran(w)
    BY <1>3, AboutToExecute DEF ExecuteWork, Goto
  <2>2. \A v \in Worker : Ran(v)' <=> Ran(v) \/ v = w
    BY <1>3, <2>1, RanAfter DEF ExecuteWork, PoolInv, ownerVars
  <2>3. UNCHANGED <<InRound, count, round>> /\ 1..count \subseteq Worker
    <3>1. UNCHANGED <<InRound, count, round>>
      BY <1>3 DEF ExecuteWork, ownerVars, InRound
    <3>2. count \in 0..Total
      BY WorkerPoolAssumption DEF PoolInv, TypeOK, Worker
    <3> QED
      BY <3>1, <3>2, WorkerPoolAssumption DEF Worker
  <2>4. Todo' = Todo \ {w}
    <3>1. Todo = {v \in 1..count : ~Ran(v)}
      BY <2>1 DEF Todo, Ran
    <3>2. Todo' = {v \in 1..count : ~Ran(v)'}
      BY <2>1, <2>3 DEF Todo, Ran
    <3> QED
      BY <3>1, <3>2, <2>2, <2>3
  <2>5. ran' = [ran EXCEPT ![w] = Append(@, round)]
    BY <1>3, <2>1 DEF ExecuteWork
  <2>6. w \in Todo /\ w \in 1..Total
    BY <1>2, <2>1 DEF Worker
  <2>7. Rounds!Execute(w)
    BY <2>1, <2>3, <2>4, <2>5, <2>6 DEF Rounds!Execute, Todo
  <2> QED
    BY <2>6, <2>7 DEF Rounds!RoundsNext
<1>4. ASSUME NEW w \in Worker, WorkerStep(w) \/ SpuriousWake(w), ~ExecuteWork(w)
      PROVE  Stutter
  BY <1>1, <1>4
  DEF WorkerStep, CheckCommand, FutexWait, LoadCommand, StoreDone, WakeDone, StoreIdle,
      WakeIdle, SpuriousWake, ownerVars, InRound, OwnerAsleepOn
<1>5. CASE BeginRound
  <2>1. ~InRound /\ InRound' /\ count' \in 1..Total /\ UNCHANGED ran
    BY <1>5 DEF BeginRound, OwnerGoto, InRound, Worker, workerVars
  <2>2. \A w \in Worker : ~Ran(w)'
    BY <1>5, NothingRanYet DEF BeginRound, PoolInv, OnceInv, workerVars
  <2>3. Todo' = 1..count'
    <3>1. Todo' = {w \in 1..count' : ~Ran(w)'}
      BY <2>1 DEF Todo, Ran
    <3>2. 1..count' \subseteq Worker
      BY <2>1, WorkerPoolAssumption DEF Worker
    <3> QED
      BY <3>1, <3>2, <2>2
  <2>4. Rounds!Begin
    BY <1>5, <2>1, <2>3 DEF Rounds!Begin, BeginRound, Todo
  <2> QED
    BY <2>4 DEF Rounds!RoundsNext
<1>6. CASE CheckIdle
  <2>1. CASE InRound'
    BY <1>1, <1>6, <2>1 DEF CheckIdle, LoopGoto, OwnerGoto, InRound, workerVars
  <2>2. CASE ~InRound'
    <3>1. InRound /\ i = count /\ opc = "waitIdle" /\ UNCHANGED <<round, ran>>
      BY <1>6, <2>2 DEF CheckIdle, LoopGoto, OwnerGoto, InRound, workerVars
    <3>2. \A w \in Worker : w < i \/ w = i => Ran(w)
      BY <3>1 DEF OnceInv, Collected, Waits
    <3>3. Todo = {}
      <4>1. \A w \in 1..count : w \in Worker /\ (w < i \/ w = i)
        BY <3>1, WorkerPoolAssumption DEF PoolInv, TypeOK, Worker
      <4> QED
        BY <3>2, <4>1 DEF Todo, Ran
    <3>4. Todo' = {}
      BY <2>2 DEF Todo
    <3>5. Rounds!Return
      BY <2>2, <3>1, <3>3, <3>4 DEF Rounds!Return, Todo
    <3> QED
      BY <3>5 DEF Rounds!RoundsNext
  <2> QED
    BY <2>1, <2>2
<1>7. CASE Shutdown \/ StoreShutdown \/ WakeShutdown \/ Join
  <2>1. ~InRound /\ ~InRound' /\ UNCHANGED <<round, ran>>
    BY <1>7 DEF Shutdown, StoreShutdown, WakeShutdown, Join, LoopGoto, OwnerGoto, InRound,
                workerVars
  <2> QED
    BY <2>1 DEF Todo, InRound
<1>8. CASE \/ SetWorkDesc \/ StorePending \/ StoreCommand \/ WakeWorker
           \/ CheckDone \/ SleepDone \/ SleepIdle \/ OwnerSpuriousWake
  BY <1>1, <1>8
  DEF SetWorkDesc, StorePending, StoreCommand, WakeWorker, CheckDone, SleepDone, SleepIdle,
      OwnerSpuriousWake, LoopGoto, OwnerGoto, InRound, workerVars
<1>9. CASE Closed \/ UNCHANGED vars
  BY <1>1, <1>9 DEF Closed, vars, ownerVars, workerVars, InRound
<1> QED
  BY <1>3, <1>4, <1>5, <1>6, <1>7, <1>8, <1>9 DEF Next, OwnerStep

(* In every round each worker asked executes that round's description        *)
(* exactly once, and the round does not return before all of them have       *)
(* (dispatch_round, batch_round, wake_workers .. wait_workers_complete), as  *)
(* long as the owner does not unwind between the two halves of a round: then *)
(* the workers it has woken execute after the call is over.                  *)
THEOREM PoolImplementsRounds ==
    ASSUME ~CloseMidRound
    PROVE  Spec => ImplementsRounds
<1>1. Init => Rounds!RoundsInit
  BY DEF Init, Rounds!RoundsInit, InRound, Worker
<1>2. Init => PoolInv /\ OnceInv
  BY PoolInvInit, OnceInit
<1>3. (PoolInv /\ OnceInv) /\ [Next]_vars => (PoolInv /\ OnceInv)'
  BY PoolInvStep, OnceStep
<1>4. (PoolInv /\ OnceInv) /\ [Next]_vars => [Rounds!RoundsNext]_(Rounds!roundVars)
  BY RoundsStep
<1>. QED
  BY <1>1, <1>2, <1>3, <1>4, PTL DEF Spec, ImplementsRounds, Rounds!RoundsSpec

=============================================================================
