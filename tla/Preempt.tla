------------------------------ MODULE Preempt ------------------------------
(***************************************************************************)
(* Preemption of scheduler callbacks by PMU signals.                        *)
(*                                                                          *)
(* Each worker thread runs one callback of the scheduler (C code) per       *)
(* round.  The C code calls kfuncs; every kfunc is a cooperative yield, the *)
(* kfunc body under the SIM_ARC mutex (with_sim) and a second cooperative   *)
(* yield.  Between them a counter of retired branches overflows and queues  *)
(* SIGSTKFLT, whose handler yields too.  A queued signal is delivered at    *)
(* any later point of the thread, in the kfunc code, inside the mutex or    *)
(* while the thread is parked: the inhibit count decides whether the        *)
(* handler may yield there.                                                 *)
(*                                                                          *)
(* The engine ring is abstract here: `token' says whose turn it is, as      *)
(* EngineRing is shown to implement.  pc is the control point of the code   *)
(* of a thread, hpc the one of the handler running on top of it.            *)
(*                                                                          *)
(* The driver that started rounds of workers is not in the repository any   *)
(* more.  What it did around a callback, Enter and Finish, is environment,  *)
(* taken from the lifecycle that the PreemptionBackend trait describes.     *)
(***************************************************************************)
EXTENDS Naturals, FiniteSets

CONSTANTS
    Workers,     \* the worker threads of a dispatch round
    Timed,       \* those whose perf_event timer could be opened
    MaxKfuncs,   \* bound: kfunc calls of the callback of each worker
    Engine,      \* the engine's turn
    None         \* no owner of the mutex, no identity in the state

ASSUME TimedAssumption  == Timed \subseteq Workers
ASSUME KfuncsAssumption == MaxKfuncs \in [Workers -> Nat]
ASSUME NoneAssumption   == Engine \notin Workers /\ None \notin Workers

VARIABLES
    token,     \* who may execute: the engine or a worker
    pc,        \* control point of each thread
    phase,     \* KfuncYieldPhase of the cooperative yield under way
    hpc,       \* control point of the signal handler on each thread
    inhibit,   \* PREEMPT_INHIBIT
    timer,     \* the counter is enabled
    pending,   \* a SIGSTKFLT is queued for the thread
    ctx,       \* CALLBACK_CTX is installed
    lock,      \* owner of the SIM_ARC mutex
    simCpu,    \* whose identity SimulatorState.current_cpu holds
    used,      \* kfunc calls made
    rolls      \* timeslices drawn from the ring's PRNG

vars == <<token, pc, phase, hpc, inhibit, timer, pending, ctx, lock, simCpu,
          used, rolls>>

PCs == {"ready", "c", "inhibit", "stop", "save", "parked", "restore",
        "rearm", "enter", "pause", "lock", "body", "allow", "resume",
        "finish", "xinhibit", "xlock", "xsync", "xallow", "xclear", "done"}

HandlerPCs == {"off", "entered", "capture", "yield", "parked"}

(***************************************************************************)
(* Places where a thread sleeps until the engine gives it the token.        *)
(***************************************************************************)
ParkedInHandler(w) == hpc[w] = "parked"
ParkedInYield(w)   == pc[w] = "parked"
Parked(w) == ParkedInHandler(w) \/ ParkedInYield(w) \/ pc[w] = "ready"

InKfuncBody(w) == pc[w] = "body"

Init ==
    /\ token = Engine
    /\ pc = [w \in Workers |-> "ready"]
    /\ phase = [w \in Workers |-> "pre"]
    /\ hpc = [w \in Workers |-> "off"]
    /\ inhibit = [w \in Workers |-> 0]
    /\ timer = [w \in Workers |-> FALSE]
    /\ pending = [w \in Workers |-> FALSE]
    /\ ctx = [w \in Workers |-> FALSE]
    /\ lock = None
    /\ simCpu = None
    /\ used = [w \in Workers |-> 0]
    /\ rolls = [w \in Workers |-> 0]

(***************************************************************************)
(* The code of a thread runs only while no handler runs on top of it.       *)
(***************************************************************************)
At(w, p) == pc[w] = p /\ hpc[w] = "off"
Goto(w, p) == pc' = [pc EXCEPT ![w] = p]

\* Mutant: the handler's inhibit check is never raised
InhibitNot(w) == UNCHANGED inhibit

Inhibit(w) == inhibit' = [inhibit EXCEPT ![w] = @ + 1]
\* Mutant: allow_preemption is forgotten
AllowNot(w) == inhibit' = inhibit

Allow(w)   == inhibit' = [inhibit EXCEPT ![w] = @ - 1]
DisableTimer(w) == timer' = [timer EXCEPT ![w] = FALSE]

\* Mutant: the timeslice is drawn before the code looks at the timer
RearmTimerAlways(w) ==
    /\ timer' = [timer EXCEPT ![w] = w \in Timed]
    /\ rolls' = [rolls EXCEPT ![w] = @ + 1]

\* Without a timer rearm_timer returns before it draws a timeslice.
RearmTimer(w) ==
    IF w \in Timed
    THEN /\ timer' = [timer EXCEPT ![w] = TRUE]
         /\ rolls' = [rolls EXCEPT ![w] = @ + 1]
    ELSE UNCHANGED <<timer, rolls>>

(***************************************************************************)
(* The engine picks any worker that waits: EngineRing decides which.        *)
(***************************************************************************)
Dispatch(w) ==
    /\ token = Engine
    /\ Parked(w)
    /\ token' = w
    /\ UNCHANGED <<pc, phase, hpc, inhibit, timer, pending, ctx, lock, simCpu,
                   used, rolls>>

(***************************************************************************)
(* Environment, the driver: wait_for_token, enter_sim, then the backend's   *)
(* build_target and arm.                                                    *)
(* build_target draws a timeslice whether or not there is a timer.          *)
(***************************************************************************)
Enter(w) ==
    /\ At(w, "ready") /\ token = w
    /\ simCpu' = w
    /\ ctx' = [ctx EXCEPT ![w] = TRUE]
    /\ timer' = [timer EXCEPT ![w] = w \in Timed]
    /\ rolls' = [rolls EXCEPT ![w] = @ + 1]
    /\ Goto(w, "c")
    /\ UNCHANGED <<token, phase, hpc, inhibit, pending, lock, used>>

\* The C code calls a kfunc: maybe_yield comes first.
CallKfunc(w) ==
    /\ At(w, "c") /\ used[w] < MaxKfuncs[w]
    /\ used' = [used EXCEPT ![w] = @ + 1]
    /\ phase' = [phase EXCEPT ![w] = "pre"]
    /\ Goto(w, "inhibit")
    /\ UNCHANGED <<token, hpc, inhibit, timer, pending, ctx, lock, simCpu, rolls>>

(***************************************************************************)
(* cooperative_yield_impl                                                   *)
(***************************************************************************)
YieldInhibit(w) ==
    /\ At(w, "inhibit")
    /\ Inhibit(w)
    /\ Goto(w, "stop")
    /\ UNCHANGED <<token, phase, hpc, timer, pending, ctx, lock, simCpu, used, rolls>>

YieldStopTimer(w) ==
    /\ At(w, "stop")
    /\ DisableTimer(w)
    /\ Goto(w, "save")
    /\ UNCHANGED <<token, phase, hpc, inhibit, pending, ctx, lock, simCpu, used, rolls>>

YieldToEngine(w) ==
    /\ At(w, "save")
    /\ token' = Engine
    /\ Goto(w, "parked")
    /\ UNCHANGED <<phase, hpc, inhibit, timer, pending, ctx, lock, simCpu, used, rolls>>

YieldResume(w) ==
    /\ At(w, "parked") /\ token = w
    /\ ctx' = [ctx EXCEPT ![w] = TRUE]
    /\ Goto(w, "restore")
    /\ UNCHANGED <<token, phase, hpc, inhibit, timer, pending, lock, simCpu, used, rolls>>

YieldAllow(w) ==
    /\ At(w, "restore")
    /\ Allow(w)
    /\ Goto(w, IF phase[w] = "post" THEN "rearm" ELSE "enter")
    /\ UNCHANGED <<token, phase, hpc, timer, pending, ctx, lock, simCpu, used, rolls>>

YieldRearm(w) ==
    /\ At(w, "rearm")
    /\ RearmTimer(w)
    /\ Goto(w, "c")
    /\ UNCHANGED <<token, phase, hpc, inhibit, pending, ctx, lock, simCpu, used>>

(***************************************************************************)
(* with_sim: inhibit, stop the timer, lock, restore the identity fields and *)
(* run the kfunc, unlock, allow, re-arm, and the yield after the kfunc.     *)
(***************************************************************************)
SimInhibit(w) ==
    /\ At(w, "enter")
    /\ Inhibit(w)
    /\ Goto(w, "pause")
    /\ UNCHANGED <<token, phase, hpc, timer, pending, ctx, lock, simCpu, used, rolls>>

SimPauseTimer(w) ==
    /\ At(w, "pause")
    /\ DisableTimer(w)
    /\ Goto(w, "lock")
    /\ UNCHANGED <<token, phase, hpc, inhibit, pending, ctx, lock, simCpu, used, rolls>>

\* Mutant: the identity fields are left as the last worker set them
SimLockStale(w) ==
    /\ At(w, "lock") /\ lock = None
    /\ lock' = w
    /\ simCpu' = simCpu
    /\ Goto(w, "body")
    /\ UNCHANGED <<token, phase, hpc, inhibit, timer, pending, ctx, used, rolls>>

\* Restores current_cpu from CALLBACK_CTX before the body reads it.
SimLock(w) ==
    /\ At(w, "lock") /\ lock = None
    /\ lock' = w
    /\ simCpu' = IF ctx[w] THEN w ELSE simCpu
    /\ Goto(w, "body")
    /\ UNCHANGED <<token, phase, hpc, inhibit, timer, pending, ctx, used, rolls>>

SimUnlock(w) ==
    /\ At(w, "body")
    /\ lock' = None
    /\ Goto(w, "allow")
    /\ UNCHANGED <<token, phase, hpc, inhibit, timer, pending, ctx, simCpu, used, rolls>>

SimAllow(w) ==
    /\ At(w, "allow")
    /\ Allow(w)
    /\ Goto(w, "resume")
    /\ UNCHANGED <<token, phase, hpc, timer, pending, ctx, lock, simCpu, used, rolls>>

SimResumeTimer(w) ==
    /\ At(w, "resume")
    /\ RearmTimer(w)
    /\ phase' = [phase EXCEPT ![w] = "post"]
    /\ Goto(w, "inhibit")
    /\ UNCHANGED <<token, hpc, inhibit, pending, ctx, lock, simCpu, used>>

(***************************************************************************)
(* The callback returns: disarm; the driver clears ops_context and hands    *)
(* the token back (Finish, environment), then exit_sim_no_clear_ops while   *)
(* another worker may already run.  Nothing in the code protects the window *)
(* after the hand-over from a signal queued before disarm.  The conjunct    *)
(* ~pending[w] assumes that the ioctl that disables the counter delivers    *)
(* what is queued.                                                          *)
(***************************************************************************)
Disarm(w) ==
    /\ At(w, "c")
    /\ DisableTimer(w)
    /\ Goto(w, "finish")
    /\ UNCHANGED <<token, phase, hpc, inhibit, pending, ctx, lock, simCpu, used, rolls>>

Finish(w) ==
    /\ At(w, "finish") /\ ~pending[w]
    /\ token' = Engine
    /\ Goto(w, "xinhibit")
    /\ UNCHANGED <<phase, hpc, inhibit, timer, pending, ctx, lock, simCpu, used, rolls>>

ExitInhibit(w) ==
    /\ At(w, "xinhibit")
    /\ Inhibit(w)
    /\ Goto(w, "xlock")
    /\ UNCHANGED <<token, phase, hpc, timer, pending, ctx, lock, simCpu, used, rolls>>

ExitLock(w) ==
    /\ At(w, "xlock") /\ lock = None
    /\ lock' = w
    /\ Goto(w, "xsync")
    /\ UNCHANGED <<token, phase, hpc, inhibit, timer, pending, ctx, simCpu, used, rolls>>

ExitSync(w) ==
    /\ At(w, "xsync")
    /\ simCpu' = w
    /\ lock' = None
    /\ Goto(w, "xallow")
    /\ UNCHANGED <<token, phase, hpc, inhibit, timer, pending, ctx, used, rolls>>

ExitAllow(w) ==
    /\ At(w, "xallow")
    /\ Allow(w)
    /\ Goto(w, "xclear")
    /\ UNCHANGED <<token, phase, hpc, timer, pending, ctx, lock, simCpu, used, rolls>>

ExitClear(w) ==
    /\ At(w, "xclear")
    /\ ctx' = [ctx EXCEPT ![w] = FALSE]
    /\ DisableTimer(w)
    /\ Goto(w, "done")
    /\ UNCHANGED <<token, phase, hpc, inhibit, pending, lock, simCpu, used, rolls>>

(***************************************************************************)
(* The counter of an executing thread overflows.  A second overflow before  *)
(* delivery adds nothing: SIGSTKFLT is not a queued real-time signal.       *)
(***************************************************************************)
Overflow(w) ==
    /\ timer[w] /\ ~Parked(w)
    /\ ~pending[w]
    /\ pending' = [pending EXCEPT ![w] = TRUE]
    /\ UNCHANGED <<token, pc, phase, hpc, inhibit, timer, ctx, lock, simCpu, used, rolls>>

\* The signal is masked while its handler runs, and interrupts a futex wait.
Deliver(w) ==
    /\ pending[w] /\ hpc[w] = "off"
    /\ pending' = [pending EXCEPT ![w] = FALSE]
    /\ hpc' = [hpc EXCEPT ![w] = "entered"]
    /\ UNCHANGED <<token, pc, phase, inhibit, timer, ctx, lock, simCpu, used, rolls>>

\* Mutant: the handler yields without looking at the inhibit count
HandlerStopTimerOnly(w) ==
    /\ hpc[w] = "entered"
    /\ DisableTimer(w)
    /\ hpc' = [hpc EXCEPT ![w] = "capture"]
    /\ UNCHANGED <<token, pc, phase, inhibit, pending, ctx, lock, simCpu, used, rolls>>

(***************************************************************************)
(* preempt_handler                                                          *)
(***************************************************************************)
HandlerStopTimer(w) ==
    /\ hpc[w] = "entered"
    /\ DisableTimer(w)
    /\ hpc' = [hpc EXCEPT ![w] = IF inhibit[w] > 0 THEN "off" ELSE "capture"]
    /\ UNCHANGED <<token, pc, phase, inhibit, pending, ctx, lock, simCpu, used, rolls>>

HandlerCapture(w) ==
    /\ hpc[w] = "capture"
    /\ hpc' = [hpc EXCEPT ![w] = IF ctx[w] THEN "yield" ELSE "off"]
    /\ UNCHANGED <<token, pc, phase, inhibit, timer, pending, ctx, lock, simCpu, used, rolls>>

HandlerYield(w) ==
    /\ hpc[w] = "yield"
    /\ token' = Engine
    /\ hpc' = [hpc EXCEPT ![w] = "parked"]
    /\ UNCHANGED <<pc, phase, inhibit, timer, pending, ctx, lock, simCpu, used, rolls>>

\* Mutant: the handler re-arms the timer before it returns
HandlerResumeArmed(w) ==
    /\ hpc[w] = "parked" /\ token = w
    /\ ctx' = [ctx EXCEPT ![w] = TRUE]
    /\ hpc' = [hpc EXCEPT ![w] = "off"]
    /\ timer' = [timer EXCEPT ![w] = TRUE]
    /\ UNCHANGED <<token, pc, phase, inhibit, pending, lock, simCpu, used, rolls>>

\* Resumed: the context is restored and the timer stays disabled.
HandlerResume(w) ==
    /\ hpc[w] = "parked" /\ token = w
    /\ ctx' = [ctx EXCEPT ![w] = TRUE]
    /\ hpc' = [hpc EXCEPT ![w] = "off"]
    /\ UNCHANGED <<token, pc, phase, inhibit, timer, pending, lock, simCpu, used, rolls>>

Done == \A w \in Workers : pc[w] = "done"

Terminated == Done /\ UNCHANGED vars

Yielding(w) == YieldInhibit(w) \/ YieldStopTimer(w) \/ YieldToEngine(w)
                 \/ YieldResume(w) \/ YieldAllow(w) \/ YieldRearm(w)
WithSim(w)  == SimInhibit(w) \/ SimPauseTimer(w) \/ SimLock(w)
                 \/ SimUnlock(w) \/ SimAllow(w) \/ SimResumeTimer(w)
Exiting(w)  == Finish(w) \/ ExitInhibit(w) \/ ExitLock(w) \/ ExitSync(w)
                 \/ ExitAllow(w) \/ ExitClear(w)
Handler(w)  == Deliver(w) \/ HandlerStopTimer(w) \/ HandlerCapture(w)
                 \/ HandlerYield(w) \/ HandlerResume(w)

Thread(w) == Enter(w) \/ CallKfunc(w) \/ Disarm(w) \/ Yielding(w)
               \/ WithSim(w) \/ Exiting(w) \/ Handler(w)

Next ==
    \/ \E w \in Workers : Thread(w) \/ Overflow(w) \/ Dispatch(w)
    \/ Terminated

(***************************************************************************)
(* The operating system runs every thread that can run and delivers queued  *)
(* signals; the engine goes on until every worker has finished.  Nothing    *)
(* is assumed of overflows, and nothing of which worker the engine picks.   *)
(***************************************************************************)
Fairness ==
    /\ \A w \in Workers : WF_vars(Thread(w))
    /\ WF_vars(\E w \in Workers : Dispatch(w))

Spec == Init /\ [][Next]_vars /\ Fairness

----------------------------------------------------------------------------

\* Control points where the thread executes on behalf of the simulation.
Executing(w) ==
    /\ pc[w] \notin {"ready", "parked", "xinhibit", "xlock", "xsync",
                     "xallow", "xclear", "done"}
    /\ hpc[w] # "parked"

(***************************************************************************)
(* Types, and how deep the inhibit count goes.                              *)
(***************************************************************************)
TypeOK ==
    /\ token \in Workers \cup {Engine}
    /\ pc \in [Workers -> PCs]
    /\ phase \in [Workers -> {"pre", "post"}]
    /\ hpc \in [Workers -> HandlerPCs]
    /\ inhibit \in [Workers -> 0..1]
    /\ timer \in [Workers -> BOOLEAN]
    /\ pending \in [Workers -> BOOLEAN]
    /\ ctx \in [Workers -> BOOLEAN]
    /\ lock \in Workers \cup {None}
    /\ simCpu \in Workers \cup {None}
    /\ used \in [Workers -> Nat]
    /\ \A w \in Workers : used[w] <= MaxKfuncs[w]
    /\ rolls \in [Workers -> Nat]

(***************************************************************************)
(* No thread sleeps with the SIM_ARC mutex: the worker the engine picks     *)
(* next would block on it for ever (the comment in with_sim).               *)
(***************************************************************************)
ParkedHoldsNoLock == \A w \in Workers : Parked(w) => lock # w

(***************************************************************************)
(* Only the holder of the token executes simulation code, although signals  *)
(* reach threads that have given it away and whose handler could yield a    *)
(* token they do not have.                                                  *)
(***************************************************************************)
TokenHeld == \A w \in Workers : Executing(w) => token = w

(***************************************************************************)
(* A thread never yields from the handler inside a cooperative yield: it    *)
(* would wait twice for one token.                                          *)
(***************************************************************************)
NoNestedYield == \A w \in Workers : ~(ParkedInHandler(w) /\ ParkedInYield(w))

(***************************************************************************)
(* A kfunc body works on the CPU of the worker that called it, whoever ran  *)
(* while that worker was parked and whoever leaves the simulation now.      *)
(***************************************************************************)
KfuncSeesOwnCpu == \A w \in Workers : InKfuncBody(w) => simCpu = w

(***************************************************************************)
(* Every inhibit is undone by the time C code runs again or the worker has  *)
(* left: otherwise signals would never preempt it again.                    *)
(***************************************************************************)
InhibitUndone == \A w \in Workers : pc[w] \in {"c", "done"} => inhibit[w] = 0

(***************************************************************************)
(* The number of timeslices drawn from the PRNG is fixed by the kfuncs a    *)
(* worker calls and never by where signals hit it: recording and replay     *)
(* stay in step.                                                            *)
(***************************************************************************)
RollsFixed ==
    \A w \in Workers :
        pc[w] = "done" => rolls[w] = IF w \in Timed THEN 1 + 2 * used[w] ELSE 1

(***************************************************************************)
(* The round ends: no deadlock on the mutex, no lost worker, and no live    *)
(* lock of a handler that preempts its own return.                          *)
(***************************************************************************)
RoundEnds == <>Done

=============================================================================
