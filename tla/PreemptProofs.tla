--------------------------- MODULE PreemptProofs ---------------------------
(***************************************************************************)
(* Safety of the preemption protocol, for any number of workers, and the    *)
(* number of timeslices a worker draws.                                     *)
(***************************************************************************)
EXTENDS Preempt, TLAPS

\* Control points between an inhibit_preemption and its allow_preemption.
Inhibited == {"stop", "save", "parked", "restore", "pause", "lock", "body",
              "allow", "xlock", "xsync", "xallow"}

\* Control points at which the thread owns SIM_ARC.
Locked == {"body", "xsync"}

\* Before the first arm and after the hand-over of the token.
Outside == {"ready", "xinhibit", "xlock", "xsync", "xallow", "xclear", "done"}

(***************************************************************************)
(* The inductive invariant, per worker: the inhibit count and the mutex     *)
(* follow the control point; a handler that has decided to yield runs where *)
(* the count is zero; no signal is on its way to a thread outside; code     *)
(* that executes has the token; a kfunc body has its identity.              *)
(***************************************************************************)
CountFollows(w) == inhibit[w] = IF pc[w] \in Inhibited THEN 1 ELSE 0
LockFollows(w)  == lock = w <=> pc[w] \in Locked
YieldsFree(w)   == hpc[w] \in {"capture", "yield", "parked"} => pc[w] \notin Inhibited
QuietOutside(w) ==
    /\ pc[w] \in Outside => ~timer[w] /\ ~pending[w] /\ hpc[w] = "off"
    /\ pc[w] = "finish" => ~timer[w]
CtxInside(w)    == pc[w] \notin {"ready", "done"} => ctx[w]
HasToken(w)     == Executing(w) => token = w
OwnIdentity(w)  == InKfuncBody(w) => simCpu = w

WorkerInv(w) ==
    /\ CountFollows(w)
    /\ LockFollows(w)
    /\ YieldsFree(w)
    /\ QuietOutside(w)
    /\ CtxInside(w)
    /\ HasToken(w)
    /\ OwnIdentity(w)

IInv == TypeOK /\ \A w \in Workers : WorkerInv(w)

(***************************************************************************)
(* Steps that touch one worker v leave the invariant of the others alone.   *)
(***************************************************************************)
LEMMA TypePreserved == TypeOK /\ (\A w \in Workers : CountFollows(w)) /\ [Next]_vars => TypeOK'
<1> SUFFICES ASSUME TypeOK, \A w \in Workers : CountFollows(w), [Next]_vars
             PROVE  TypeOK'
  OBVIOUS
<1> USE TimedAssumption, KfuncsAssumption, NoneAssumption
<1> USE DEF TypeOK, PCs, HandlerPCs
<1>1. CASE UNCHANGED vars
  BY <1>1 DEF vars
<1>2. ASSUME NEW v \in Workers, Overflow(v) \/ Dispatch(v) \/ Enter(v) \/ CallKfunc(v) \/ Disarm(v)
      PROVE  TypeOK'
  <2>1. CASE Overflow(v)
    BY <2>1 DEF Overflow
  <2>2. CASE Dispatch(v)
    BY <2>2 DEF Dispatch
  <2>3. CASE Enter(v)
    BY <2>3 DEF Enter, At, Goto
  <2>4. CASE CallKfunc(v)
    BY <2>4 DEF CallKfunc, At, Goto
  <2>5. CASE Disarm(v)
    BY <2>5 DEF Disarm, At, Goto, DisableTimer
  <2> QED
    BY <1>2, <2>1, <2>2, <2>3, <2>4, <2>5
<1>3. ASSUME NEW v \in Workers, Yielding(v)
      PROVE  TypeOK'
  <2>1. CASE YieldInhibit(v)
    BY <2>1 DEF YieldInhibit, At, Goto, Inhibit, CountFollows, Inhibited
  <2>2. CASE YieldAllow(v)
    BY <2>2 DEF YieldAllow, At, Goto, Allow, CountFollows, Inhibited
  <2>3. CASE YieldRearm(v) /\ v \in Timed
    <3>1. timer' \in [Workers -> BOOLEAN] /\ rolls' \in [Workers -> Nat]
      <4>1. /\ timer' = [timer EXCEPT ![v] = TRUE]
            /\ rolls' = [rolls EXCEPT ![v] = rolls[v] + 1]
        BY <2>3 DEF YieldRearm, RearmTimer
      <4>2. rolls \in [Workers -> Nat] /\ timer \in [Workers -> BOOLEAN]
        OBVIOUS
      <4> HIDE DEF TypeOK
      <4> QED
        BY <4>1, <4>2
    <3>2. pc' \in [Workers -> PCs] /\ phase' \in [Workers -> {"pre", "post"}]
      BY <2>3 DEF YieldRearm, Goto
    <3> QED
      BY <2>3, <3>1, <3>2 DEF YieldRearm
  <2>4. CASE YieldRearm(v) /\ v \notin Timed
    BY <2>4 DEF YieldRearm, At, Goto, RearmTimer
  <2>5. CASE YieldStopTimer(v)
    BY <2>5 DEF YieldStopTimer, At, Goto, DisableTimer
  <2>6. CASE YieldToEngine(v)
    BY <2>6 DEF YieldToEngine, At, Goto
  <2>7. CASE YieldResume(v)
    BY <2>7 DEF YieldResume, At, Goto
  <2> QED
    BY <1>3, <2>1, <2>2, <2>3, <2>4, <2>5, <2>6, <2>7 DEF Yielding
<1>4. ASSUME NEW v \in Workers, WithSim(v)
      PROVE  TypeOK'
  <2>1. CASE SimInhibit(v)
    BY <2>1 DEF SimInhibit, At, Goto, Inhibit, CountFollows, Inhibited
  <2>2. CASE SimAllow(v)
    BY <2>2 DEF SimAllow, At, Goto, Allow, CountFollows, Inhibited
  <2>3. CASE SimResumeTimer(v) /\ v \in Timed
    <3>1. timer' \in [Workers -> BOOLEAN] /\ rolls' \in [Workers -> Nat]
      <4>1. /\ timer' = [timer EXCEPT ![v] = TRUE]
            /\ rolls' = [rolls EXCEPT ![v] = rolls[v] + 1]
        BY <2>3 DEF SimResumeTimer, RearmTimer
      <4>2. rolls \in [Workers -> Nat] /\ timer \in [Workers -> BOOLEAN]
        OBVIOUS
      <4> HIDE DEF TypeOK
      <4> QED
        BY <4>1, <4>2
    <3>2. pc' \in [Workers -> PCs] /\ phase' \in [Workers -> {"pre", "post"}]
      BY <2>3 DEF SimResumeTimer, Goto
    <3> QED
      BY <2>3, <3>1, <3>2 DEF SimResumeTimer
  <2>4. CASE SimResumeTimer(v) /\ v \notin Timed
    BY <2>4 DEF SimResumeTimer, At, Goto, RearmTimer
  <2>5. CASE SimPauseTimer(v)
    BY <2>5 DEF SimPauseTimer, At, Goto, DisableTimer
  <2>6. CASE SimLock(v)
    BY <2>6 DEF SimLock, At, Goto
  <2>7. CASE SimUnlock(v)
    BY <2>7 DEF SimUnlock, At, Goto
  <2> QED
    BY <1>4, <2>1, <2>2, <2>3, <2>4, <2>5, <2>6, <2>7 DEF WithSim
<1>5. ASSUME NEW v \in Workers, Exiting(v)
      PROVE  TypeOK'
  <2>1. CASE ExitInhibit(v)
    BY <2>1 DEF ExitInhibit, At, Goto, Inhibit, CountFollows, Inhibited
  <2>2. CASE ExitAllow(v)
    BY <2>2 DEF ExitAllow, At, Goto, Allow, CountFollows, Inhibited
  <2>3. CASE Finish(v)
    BY <2>3 DEF Finish, At, Goto
  <2>4. CASE ExitLock(v)
    BY <2>4 DEF ExitLock, At, Goto
  <2>5. CASE ExitSync(v)
    BY <2>5 DEF ExitSync, At, Goto
  <2>6. CASE ExitClear(v)
    BY <2>6 DEF ExitClear, At, Goto, DisableTimer
  <2> QED
    BY <1>5, <2>1, <2>2, <2>3, <2>4, <2>5, <2>6 DEF Exiting
<1>6. ASSUME NEW v \in Workers, Handler(v)
      PROVE  TypeOK'
  <2>1. CASE Deliver(v)
    BY <2>1 DEF Deliver
  <2>2. CASE HandlerStopTimer(v)
    BY <2>2 DEF HandlerStopTimer, DisableTimer
  <2>3. CASE HandlerCapture(v)
    BY <2>3 DEF HandlerCapture
  <2>4. CASE HandlerYield(v)
    BY <2>4 DEF HandlerYield
  <2>5. CASE HandlerResume(v)
    BY <2>5 DEF HandlerResume
  <2> QED
    BY <1>6, <2>1, <2>2, <2>3, <2>4, <2>5 DEF Handler
<1>7. CASE Terminated
  BY <1>7 DEF Terminated, vars
<1> QED
  BY <1>1, <1>2, <1>3, <1>4, <1>5, <1>6, <1>7 DEF Next, Thread

(***************************************************************************)
(* A step of worker v and a worker w, the same or another.                  *)
(***************************************************************************)
LEMMA StepPreserves ==
    ASSUME TypeOK, \A w \in Workers : WorkerInv(w),
           NEW v \in Workers, NEW w \in Workers,
           Thread(v) \/ Overflow(v) \/ Dispatch(v)
    PROVE  WorkerInv(w)'
<1> USE NoneAssumption
<1> USE DEF WorkerInv, CountFollows, LockFollows, YieldsFree, QuietOutside, CtxInside,
            HasToken, OwnIdentity, Inhibited, Locked, Outside, Executing, InKfuncBody,
            TypeOK, PCs, HandlerPCs, At, Goto
<1>1. WorkerInv(v) /\ WorkerInv(w)
  OBVIOUS
<1>2. CASE Overflow(v)
  BY <1>1, <1>2, SMTT(60) DEF Overflow, Parked, ParkedInHandler, ParkedInYield
<1>3. CASE Dispatch(v)
  BY <1>1, <1>3, SMTT(60) DEF Dispatch, Parked, ParkedInHandler, ParkedInYield
<1>4. CASE Enter(v)
  BY <1>1, <1>4, SMTT(60) DEF Enter
<1>5. CASE CallKfunc(v)
  BY <1>1, <1>5, SMTT(60) DEF CallKfunc
<1>6. CASE Disarm(v)
  BY <1>1, <1>6, SMTT(60) DEF Disarm, DisableTimer
<1>7. CASE Yielding(v)
  <2>1. CASE YieldInhibit(v)
    BY <1>1, <2>1, SMTT(60) DEF YieldInhibit, Inhibit
  <2>2. CASE YieldStopTimer(v)
    BY <1>1, <2>2, SMTT(60) DEF YieldStopTimer, DisableTimer
  <2>3. CASE YieldToEngine(v)
    BY <1>1, <2>3, SMTT(60) DEF YieldToEngine
  <2>4. CASE YieldResume(v)
    BY <1>1, <2>4, SMTT(60) DEF YieldResume
  <2>5. CASE YieldAllow(v)
    BY <1>1, <2>5, SMTT(60) DEF YieldAllow, Allow
  <2>6. CASE YieldRearm(v)
    BY <1>1, <2>6, SMTT(60) DEF YieldRearm, RearmTimer
  <2> QED
    BY <1>7, <2>1, <2>2, <2>3, <2>4, <2>5, <2>6 DEF Yielding
<1>8. CASE WithSim(v)
  <2>1. CASE SimInhibit(v)
    BY <1>1, <2>1, SMTT(60) DEF SimInhibit, Inhibit
  <2>2. CASE SimPauseTimer(v)
    BY <1>1, <2>2, SMTT(60) DEF SimPauseTimer, DisableTimer
  <2>3. CASE SimLock(v)
    BY <1>1, <2>3, SMTT(60) DEF SimLock
  <2>4. CASE SimUnlock(v)
    BY <1>1, <2>4, SMTT(60) DEF SimUnlock
  <2>5. CASE SimAllow(v)
    BY <1>1, <2>5, SMTT(60) DEF SimAllow, Allow
  <2>6. CASE SimResumeTimer(v)
    BY <1>1, <2>6, SMTT(60) DEF SimResumeTimer, RearmTimer
  <2> QED
    BY <1>8, <2>1, <2>2, <2>3, <2>4, <2>5, <2>6 DEF WithSim
<1>9. CASE Exiting(v)
  <2>1. CASE Finish(v)
    BY <1>1, <2>1, SMTT(60) DEF Finish
  <2>2. CASE ExitInhibit(v)
    BY <1>1, <2>2, SMTT(60) DEF ExitInhibit, Inhibit
  <2>3. CASE ExitLock(v)
    BY <1>1, <2>3, SMTT(60) DEF ExitLock
  <2>4. CASE ExitSync(v)
    BY <1>1, <2>4, SMTT(60) DEF ExitSync
  <2>5. CASE ExitAllow(v)
    BY <1>1, <2>5, SMTT(60) DEF ExitAllow, Allow
  <2>6. CASE ExitClear(v)
    BY <1>1, <2>6, SMTT(60) DEF ExitClear, DisableTimer
  <2> QED
    BY <1>9, <2>1, <2>2, <2>3, <2>4, <2>5, <2>6 DEF Exiting
<1>10. CASE Handler(v)
  <2>1. CASE Deliver(v)
    BY <1>1, <2>1, SMTT(60) DEF Deliver
  <2>2. CASE HandlerStopTimer(v)
    BY <1>1, <2>2, SMTT(60) DEF HandlerStopTimer, DisableTimer
  <2>3. CASE HandlerCapture(v)
    BY <1>1, <2>3, SMTT(60) DEF HandlerCapture
  <2>4. CASE HandlerYield(v)
    BY <1>1, <2>4, SMTT(60) DEF HandlerYield
  <2>5. CASE HandlerResume(v)
    BY <1>1, <2>5, SMTT(60) DEF HandlerResume
  <2> QED
    BY <1>10, <2>1, <2>2, <2>3, <2>4, <2>5 DEF Handler
<1> QED
  BY <1>2, <1>3, <1>4, <1>5, <1>6, <1>7, <1>8, <1>9, <1>10 DEF Thread

(***************************************************************************)
(* The invariant holds of every behaviour of the round.                     *)
(***************************************************************************)
THEOREM PreemptInvariant == Spec => []IInv
<1>1. Init => IInv
  BY NoneAssumption, KfuncsAssumption
  DEF Init, IInv, TypeOK, PCs, HandlerPCs, WorkerInv, CountFollows, LockFollows,
      YieldsFree, QuietOutside, CtxInside, HasToken, OwnIdentity, Inhibited, Locked,
      Outside, Executing, InKfuncBody
<1>2. IInv /\ [Next]_vars => IInv'
  <2> SUFFICES ASSUME IInv, [Next]_vars
               PROVE  IInv'
    OBVIOUS
  <2>1. TypeOK'
    BY TypePreserved DEF IInv, WorkerInv
  <2>2. ASSUME NEW w \in Workers
        PROVE  WorkerInv(w)'
    <3>1. CASE UNCHANGED vars
      BY <3>1 DEF IInv, vars, WorkerInv, CountFollows, LockFollows, YieldsFree,
         QuietOutside, CtxInside, HasToken, OwnIdentity, Executing, InKfuncBody
    <3>2. CASE Terminated
      BY <3>1, <3>2 DEF Terminated
    <3>3. ASSUME NEW v \in Workers, Thread(v) \/ Overflow(v) \/ Dispatch(v)
          PROVE  WorkerInv(w)'
      BY <3>3, StepPreserves DEF IInv
    <3> QED
      BY <3>1, <3>2, <3>3 DEF Next
  <2> QED
    BY <2>1, <2>2 DEF IInv
<1> QED
  BY <1>1, <1>2, PTL DEF Spec

(***************************************************************************)
(* No thread sleeps with the SIM_ARC mutex, for any number of workers.      *)
(***************************************************************************)
THEOREM NoSleepWithLock == Spec => []ParkedHoldsNoLock
<1>1. IInv => ParkedHoldsNoLock
  BY DEF IInv, TypeOK, ParkedHoldsNoLock, Parked, ParkedInHandler, ParkedInYield,
     WorkerInv, LockFollows, YieldsFree, Locked, Inhibited, QuietOutside, Outside
<1> QED
  BY <1>1, PreemptInvariant, PTL

(***************************************************************************)
(* Simulation code runs only with the token, whenever signals arrive.       *)
(***************************************************************************)
THEOREM ExecutesWithToken == Spec => []TokenHeld
<1>1. IInv => TokenHeld
  BY DEF IInv, TokenHeld, WorkerInv, HasToken
<1> QED
  BY <1>1, PreemptInvariant, PTL

(***************************************************************************)
(* A handler never yields inside a cooperative yield.                       *)
(***************************************************************************)
THEOREM YieldsDoNotNest == Spec => []NoNestedYield
<1>1. IInv => NoNestedYield
  BY DEF IInv, NoNestedYield, ParkedInHandler, ParkedInYield, WorkerInv, YieldsFree,
     Inhibited
<1> QED
  BY <1>1, PreemptInvariant, PTL

(***************************************************************************)
(* Every kfunc body works on the CPU of its caller.                         *)
(***************************************************************************)
THEOREM KfuncIdentity == Spec => []KfuncSeesOwnCpu
<1>1. IInv => KfuncSeesOwnCpu
  BY DEF IInv, KfuncSeesOwnCpu, WorkerInv, OwnIdentity
<1> QED
  BY <1>1, PreemptInvariant, PTL

(***************************************************************************)
(* Inhibit sections are closed when C code runs and when a worker is done.  *)
(***************************************************************************)
THEOREM InhibitBalanced == Spec => []InhibitUndone
<1>1. IInv => InhibitUndone
  BY DEF IInv, InhibitUndone, WorkerInv, CountFollows, Inhibited
<1> QED
  BY <1>1, PreemptInvariant, PTL

\* Control points of a cooperative yield, and of the kfunc body after the first one.
InYield == {"inhibit", "stop", "save", "parked", "restore"}
InBody  == {"enter", "pause", "lock", "body", "allow", "resume"}

(***************************************************************************)
(* How far a worker with a timer is with the two timeslices of the kfunc it *)
(* is in; one without a timer draws the timeslice of build_target only.     *)
(***************************************************************************)
RollsFollow(w) ==
    /\ pc[w] = "ready" => rolls[w] = 0 /\ used[w] = 0
    /\ w \notin Timed /\ pc[w] # "ready" => rolls[w] = 1
    /\ w \in Timed =>
        /\ pc[w] \in {"c", "finish"} \cup Outside /\ pc[w] # "ready" =>
              rolls[w] = 1 + 2 * used[w]
        /\ pc[w] \in InBody => rolls[w] + 1 = 2 * used[w]
        /\ pc[w] \in InYield /\ phase[w] = "pre" => rolls[w] + 1 = 2 * used[w]
        /\ pc[w] \in InYield /\ phase[w] = "post" => rolls[w] = 2 * used[w]
        /\ pc[w] = "rearm" => rolls[w] = 2 * used[w]

(***************************************************************************)
(* A step of another worker draws nothing for this one, ...                 *)
(***************************************************************************)
LEMMA RollsOfOthers ==
    ASSUME TypeOK, NEW v \in Workers, NEW w \in Workers, v # w,
           Thread(v) \/ Overflow(v) \/ Dispatch(v)
    PROVE  /\ pc'[w] = pc[w] /\ phase'[w] = phase[w]
           /\ used'[w] = used[w] /\ rolls'[w] = rolls[w]
<1> USE DEF TypeOK, At, Goto, RearmTimer
<1>1. CASE Overflow(v)
  BY <1>1 DEF Overflow
<1>2. CASE Dispatch(v)
  BY <1>2 DEF Dispatch
<1>3. CASE Enter(v)
  BY <1>3 DEF Enter
<1>4. CASE CallKfunc(v)
  BY <1>4 DEF CallKfunc
<1>5. CASE Disarm(v)
  BY <1>5 DEF Disarm
<1>6. CASE Yielding(v)
  <2>1. CASE YieldInhibit(v)
    BY <2>1 DEF YieldInhibit
  <2>2. CASE YieldStopTimer(v)
    BY <2>2 DEF YieldStopTimer
  <2>3. CASE YieldToEngine(v)
    BY <2>3 DEF YieldToEngine
  <2>4. CASE YieldResume(v)
    BY <2>4 DEF YieldResume
  <2>5. CASE YieldAllow(v)
    BY <2>5 DEF YieldAllow
  <2>6. CASE YieldRearm(v)
    BY <2>6 DEF YieldRearm
  <2> QED
    BY <1>6, <2>1, <2>2, <2>3, <2>4, <2>5, <2>6 DEF Yielding
<1>7. CASE WithSim(v)
  <2>1. CASE SimInhibit(v)
    BY <2>1 DEF SimInhibit
  <2>2. CASE SimPauseTimer(v)
    BY <2>2 DEF SimPauseTimer
  <2>3. CASE SimLock(v)
    BY <2>3 DEF SimLock
  <2>4. CASE SimUnlock(v)
    BY <2>4 DEF SimUnlock
  <2>5. CASE SimAllow(v)
    BY <2>5 DEF SimAllow
  <2>6. CASE SimResumeTimer(v)
    BY <2>6 DEF SimResumeTimer
  <2> QED
    BY <1>7, <2>1, <2>2, <2>3, <2>4, <2>5, <2>6 DEF WithSim
<1>8. CASE Exiting(v)
  <2>1. CASE Finish(v)
    BY <2>1 DEF Finish
  <2>2. CASE ExitInhibit(v)
    BY <2>2 DEF ExitInhibit
  <2>3. CASE ExitLock(v)
    BY <2>3 DEF ExitLock
  <2>4. CASE ExitSync(v)
    BY <2>4 DEF ExitSync
  <2>5. CASE ExitAllow(v)
    BY <2>5 DEF ExitAllow
  <2>6. CASE ExitClear(v)
    BY <2>6 DEF ExitClear
  <2> QED
    BY <1>8, <2>1, <2>2, <2>3, <2>4, <2>5, <2>6 DEF Exiting
<1>9. CASE Handler(v)
  <2>1. CASE Deliver(v)
    BY <2>1 DEF Deliver
  <2>2. CASE HandlerStopTimer(v)
    BY <2>2 DEF HandlerStopTimer
  <2>3. CASE HandlerCapture(v)
    BY <2>3 DEF HandlerCapture
  <2>4. CASE HandlerYield(v)
    BY <2>4 DEF HandlerYield
  <2>5. CASE HandlerResume(v)
    BY <2>5 DEF HandlerResume
  <2> QED
    BY <1>9, <2>1, <2>2, <2>3, <2>4, <2>5 DEF Handler
<1> QED
  BY <1>1, <1>2, <1>3, <1>4, <1>5, <1>6, <1>7, <1>8, <1>9 DEF Thread

(***************************************************************************)
(* ... and its own steps draw the two timeslices of a kfunc in with_sim and *)
(* in the yield after it, never where a signal happens to land.             *)
(***************************************************************************)
LEMMA RollsOfOwnStep ==
    ASSUME TypeOK, NEW w \in Workers, RollsFollow(w),
           Thread(w) \/ Overflow(w) \/ Dispatch(w)
    PROVE  RollsFollow(w)'
<1>1. /\ pc[w] \in PCs /\ phase[w] \in {"pre", "post"}
      /\ used[w] \in Nat /\ rolls[w] \in Nat
  BY DEF TypeOK
<1>2. /\ pc \in [Workers -> PCs] /\ phase \in [Workers -> {"pre", "post"}]
      /\ used \in [Workers -> Nat] /\ rolls \in [Workers -> Nat]
  BY DEF TypeOK
<1> USE <1>1, <1>2 DEF RollsFollow, InYield, InBody, Outside, PCs, At, Goto
<1>3. CASE Overflow(w)
  BY <1>3 DEF Overflow
<1>4. CASE Dispatch(w)
  BY <1>4 DEF Dispatch
<1>5. CASE Enter(w)
  BY <1>5 DEF Enter
<1>6. CASE CallKfunc(w)
  BY <1>6 DEF CallKfunc
<1>7. CASE Disarm(w)
  BY <1>7 DEF Disarm
<1>8. CASE Yielding(w)
  <2>1. CASE YieldInhibit(w)
    BY <2>1 DEF YieldInhibit
  <2>2. CASE YieldStopTimer(w)
    BY <2>2 DEF YieldStopTimer
  <2>3. CASE YieldToEngine(w)
    BY <2>3 DEF YieldToEngine
  <2>4. CASE YieldResume(w)
    BY <2>4 DEF YieldResume
  <2>5. CASE YieldAllow(w)
    BY <2>5 DEF YieldAllow
  <2>6. CASE YieldRearm(w)
    <3>1. pc'[w] = "c" /\ phase'[w] = phase[w] /\ used'[w] = used[w]
      BY <2>6 DEF YieldRearm
    <3>2. CASE w \in Timed
      <4>1. rolls' = [rolls EXCEPT ![w] = rolls[w] + 1]
        BY <2>6, <3>2 DEF YieldRearm, RearmTimer
      <4>2. rolls'[w] = rolls[w] + 1
        BY <4>1
      <4> QED
        BY <2>6, <3>1, <3>2, <4>2 DEF YieldRearm
    <3>3. CASE w \notin Timed
      <4>1. rolls'[w] = rolls[w]
        BY <2>6, <3>3 DEF YieldRearm, RearmTimer
      <4> QED
        BY <2>6, <3>1, <3>3, <4>1 DEF YieldRearm
    <3> QED
      BY <3>2, <3>3
  <2> QED
    BY <1>8, <2>1, <2>2, <2>3, <2>4, <2>5, <2>6 DEF Yielding
<1>9. CASE WithSim(w)
  <2>1. CASE SimInhibit(w)
    BY <2>1 DEF SimInhibit
  <2>2. CASE SimPauseTimer(w)
    BY <2>2 DEF SimPauseTimer
  <2>3. CASE SimLock(w)
    BY <2>3 DEF SimLock
  <2>4. CASE SimUnlock(w)
    BY <2>4 DEF SimUnlock
  <2>5. CASE SimAllow(w)
    BY <2>5 DEF SimAllow
  <2>6. CASE SimResumeTimer(w)
    <3>1. pc'[w] = "inhibit" /\ phase'[w] = "post" /\ used'[w] = used[w]
      BY <2>6 DEF SimResumeTimer
    <3>2. CASE w \in Timed
      <4>1. rolls' = [rolls EXCEPT ![w] = rolls[w] + 1]
        BY <2>6, <3>2 DEF SimResumeTimer, RearmTimer
      <4>2. rolls'[w] = rolls[w] + 1
        BY <4>1
      <4> QED
        BY <2>6, <3>1, <3>2, <4>2 DEF SimResumeTimer
    <3>3. CASE w \notin Timed
      <4>1. rolls'[w] = rolls[w]
        BY <2>6, <3>3 DEF SimResumeTimer, RearmTimer
      <4> QED
        BY <2>6, <3>1, <3>3, <4>1 DEF SimResumeTimer
    <3> QED
      BY <3>2, <3>3
  <2> QED
    BY <1>9, <2>1, <2>2, <2>3, <2>4, <2>5, <2>6 DEF WithSim
<1>10. CASE Exiting(w)
  <2>1. CASE Finish(w)
    BY <2>1 DEF Finish
  <2>2. CASE ExitInhibit(w)
    BY <2>2 DEF ExitInhibit
  <2>3. CASE ExitLock(w)
    BY <2>3 DEF ExitLock
  <2>4. CASE ExitSync(w)
    BY <2>4 DEF ExitSync
  <2>5. CASE ExitAllow(w)
    BY <2>5 DEF ExitAllow
  <2>6. CASE ExitClear(w)
    BY <2>6 DEF ExitClear
  <2> QED
    BY <1>10, <2>1, <2>2, <2>3, <2>4, <2>5, <2>6 DEF Exiting
<1>11. CASE Handler(w)
  <2>1. CASE Deliver(w)
    BY <2>1 DEF Deliver
  <2>2. CASE HandlerStopTimer(w)
    BY <2>2 DEF HandlerStopTimer
  <2>3. CASE HandlerCapture(w)
    BY <2>3 DEF HandlerCapture
  <2>4. CASE HandlerYield(w)
    BY <2>4 DEF HandlerYield
  <2>5. CASE HandlerResume(w)
    BY <2>5 DEF HandlerResume
  <2> QED
    BY <1>11, <2>1, <2>2, <2>3, <2>4, <2>5 DEF Handler
<1> QED
  BY <1>3, <1>4, <1>5, <1>6, <1>7, <1>8, <1>9, <1>10, <1>11 DEF Thread

(***************************************************************************)
(* Recording and replay draw the same number of timeslices: it follows from *)
(* the kfuncs a worker calls, wherever signals hit it (build_target,        *)
(* resume_timer, rearm_timer).                                              *)
(***************************************************************************)
THEOREM RollsAreFixed == Spec => []RollsFixed
<1> DEFINE Follow == \A w \in Workers : RollsFollow(w)
<1>1. Init => Follow
  BY DEF Init, RollsFollow, InYield, InBody, Outside
<1>2. IInv /\ Follow /\ [Next]_vars => Follow'
  <2> SUFFICES ASSUME IInv, Follow, [Next]_vars, NEW w \in Workers
               PROVE  RollsFollow(w)'
    OBVIOUS
  <2>1. ASSUME NEW v \in Workers, Thread(v) \/ Overflow(v) \/ Dispatch(v)
        PROVE  RollsFollow(w)'
    <3>1. CASE v = w
      BY <2>1, <3>1, RollsOfOwnStep DEF IInv
    <3>2. CASE v # w
      BY <2>1, <3>2, RollsOfOthers DEF IInv, RollsFollow
    <3> QED
      BY <3>1, <3>2
  <2>2. CASE UNCHANGED vars
    BY <2>2 DEF vars, RollsFollow
  <2> QED
    BY <2>1, <2>2 DEF Next, Terminated
<1>3. IInv /\ Follow => RollsFixed
  BY DEF RollsFixed, RollsFollow, Outside
<1> QED
  BY <1>1, <1>2, <1>3, PreemptInvariant, PTL DEF Spec

=============================================================================
