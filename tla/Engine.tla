------------------------------- MODULE Engine -------------------------------
(***************************************************************************)
(* The discrete-event engine of crates/scx_simulator/src/safe/engine.rs:   *)
(* the event queue, the life of a task from TaskWake to exit, ops.*        *)
(* callbacks, dispatch queues, ticks, kicks and CPU hotplug.               *)
(*                                                                         *)
(* The engine pops one event at a time and runs its handler to the end.    *)
(* A handler stops at every callback into the scheduler, whose answer is   *)
(* not the engine's to choose: one action of this module is the stretch of *)
(* a handler up to its next callback, and "calls" is what the handler has  *)
(* still to do.  No event is popped while "calls" is not empty.            *)
(*                                                                         *)
(* The scheduler is the environment.  It answers with any CPU and any      *)
(* dispatch its capabilities (Chosen, SelectDsq, EnqueueDsq, DispatchDsq,  *)
(* Slices, Kicks, TickKicks) allow, inserts at most one task in a          *)
(* callback, and keeps in "held" the tasks it queues itself.               *)
(*                                                                         *)
(* Repeat modes are unrolled: Phases[t] is the phases t goes through until *)
(* it exits or the run ends.  Times are cut at Duration, like a run's.     *)
(***************************************************************************)
EXTENDS Integers, SequencesExt, FiniteSets, Bags

CONSTANTS
    Task,           \* the tasks of the scenario
    NoTask,         \* Option::None of a task
    NrCpus,         \* CPUs are 0 .. NrCpus - 1
    Duration,       \* bound: scenario.duration_ns
    TickInterval,   \* TICK_INTERVAL_NS
    Ipi,            \* effective_ipi_delivery_ns()
    Csw,            \* csw_overhead()
    Phases,         \* phases of each task
    Start,          \* start_time_ns of each task
    InitialCpu,     \* initial_cpu() of each task
    Allowed,        \* cpumask of each task
    Chosen,         \* CPUs the scheduler may choose for a task, of its own accord
    Hotplug,        \* the scenario's hotplug and class-preemption events
    SelectDsq,      \* DSQs ops.select_cpu may insert a task into
    EnqueueDsq,     \* DSQs ops.enqueue may insert a task into
    DispatchDsq,    \* DSQs ops.dispatch may insert a held task into
    Holds,          \* whether ops.enqueue may keep the task for itself
    Slices,         \* slices the scheduler hands out
    Kicks,          \* kicks ops.enqueue may make: a CPU and flags
    TickKicks       \* whether ops.tick may ask for preemption

Cpu == 0 .. NrCpus - 1

Local == [kind |-> "local"]                         \* SCX_DSQ_LOCAL
LocalOn(c) == [kind |-> "localOn", cpu |-> c]       \* SCX_DSQ_LOCAL_ON | c
Global == [kind |-> "global"]                       \* SCX_DSQ_GLOBAL
Shared == [kind |-> "shared"]                       \* a DSQ the scheduler made

DsqId == {Local, Global, Shared} \cup {LocalOn(c) : c \in Cpu}

KickFlags == SUBSET {"PREEMPT", "IDLE"}

Run(n) == [kind |-> "Run", ns |-> n]
Sleep(n) == [kind |-> "Sleep", ns |-> n]
Wake(t) == [kind |-> "Wake", task |-> t]
Yield == [kind |-> "Yield"]
Park == [kind |-> "Park"]

Phase == [kind : {"Run", "Sleep"}, ns : Nat] \cup [kind : {"Wake"}, task : Task]
            \cup {Yield, Park}

EventKind == {"TaskWake", "SliceExpired", "PhaseComplete", "Tick", "Kick",
              "Offline", "Online", "Release", "Acquire",
              "Timer", "Control", "Migrate", "Rename", "Futex", "IrqStart", "IrqEnd"}

Event == [time : Nat, kind : EventKind, cpu : Cpu, task : Task \cup {NoTask},
          flags : KickFlags]

(* Events past the end of the run are never popped: they share one time.   *)
EventAt(time, kind, c) ==
    [time |-> IF time > Duration THEN Duration + 1 ELSE time, kind |-> kind,
     cpu |-> c, task |-> NoTask, flags |-> {}]

WakeAt(time, t, c) == [EventAt(time, "TaskWake", c) EXCEPT !.task = t]

KickAt(time, c, flags) == [EventAt(time, "Kick", c) EXCEPT !.flags = flags]

ASSUME EngineAssumption ==
    /\ NoTask \notin Task
    /\ NrCpus \in Nat \ {0}
    /\ Duration \in Nat
    /\ TickInterval \in Nat \ {0}
    /\ Ipi \in Nat
    /\ Csw \in Nat
    /\ Phases \in [Task -> Seq(Phase)]
    /\ Start \in [Task -> Nat]
    /\ InitialCpu \in [Task -> Cpu]
    /\ Allowed \in [Task -> (SUBSET Cpu) \ {{}}]
    /\ Chosen \in [Task -> (SUBSET Cpu) \ {{}}]
    /\ Hotplug \subseteq {e \in Event : e.kind # "TaskWake"}
    /\ SelectDsq \subseteq DsqId
    /\ EnqueueDsq \subseteq DsqId
    /\ DispatchDsq \subseteq DsqId
    /\ Holds \in BOOLEAN
    /\ Slices \subseteq Nat \ {0}
    /\ Kicks \subseteq [cpu : Cpu, flags : KickFlags]
    /\ TickKicks \in BOOLEAN

VARIABLES
    clock,      \* sim.clock
    events,     \* the event queue, a bag
    staged,     \* sim.staged_events: kicks not yet in the event queue
    calls,      \* what the running handler has still to do
    failed,     \* bpf_error is set: the run ends with this event
    tasks,      \* SimTask of each task
    cpus,       \* SimCpu of each CPU
    dsqs,       \* contents of the global and the shared DSQ
    held,       \* tasks queued inside the scheduler
    unserved    \* history: CPU time the phases begun so far still ask for

vars == <<clock, events, staged, calls, failed, tasks, cpus, dsqs, held, unserved>>

TaskState == {"Sleeping", "Runnable", "Running", "Exited"}

CallOp == {"selectCpu", "enqueue", "requeue", "drain", "tick", "dispatch",
           "pick", "drainLocal", "takeDown"}

Call(op, c, t) == [op |-> op, cpu |-> c, task |-> t]
Dispatch(c) == Call("dispatch", c, NoTask)

PhaseAt(t, p) == IF p \in 1 .. Len(Phases[t]) THEN Phases[t][p] ELSE [kind |-> "None"]

RunTime(ph) == IF ph.kind = "Run" THEN ph.ns ELSE 0

Init ==
    /\ clock = 0
    /\ events = SetToBag({WakeAt(Start[t], t, InitialCpu[t]) : t \in Task}
                        \cup {EventAt(TickInterval, "Tick", c) : c \in Cpu}
                        \cup Hotplug)
    /\ staged = EmptyBag
    /\ calls = <<>>
    /\ failed = FALSE
    /\ tasks = [t \in Task |-> [state |-> "Sleeping", pos |-> 1,
                                remaining |-> RunTime(PhaseAt(t, 1)),
                                slice |-> 0, prevCpu |-> InitialCpu[t],
                                ops |-> "None"]]
    /\ cpus = [c \in Cpu |-> [current |-> NoTask, local |-> <<>>, clock |-> 0,
                              startedAt |-> 0, slice |-> 0, online |-> TRUE]]
    /\ dsqs = [global |-> <<>>, shared |-> <<>>]
    /\ held = {}
    /\ unserved = [t \in Task |-> RunTime(PhaseAt(t, 1))]

-----------------------------------------------------------------------------
(* The event queue and the running handler. *)

(* Mutant: a subtraction that does not saturate. *)
MinusPlain(m, n) == m - n

Monus(m, n) == IF m > n THEN m - n ELSE 0

(* Mutant: a CPU's clock is set back to the event's time. *)
NowIsEvent(c, time) == time

(* advance_cpu_clock: a CPU's clock never falls behind the event.          *)
Now(c, time) == IF cpus[c].clock > time THEN cpus[c].clock ELSE time

Advance(c, time) == [cpus EXCEPT ![c].clock = Now(c, time)]

(* Pop the earliest event - any of the earliest, as the tiebreaker is      *)
(* random - and push what its handler schedules.  A bpf_error has ended    *)
(* the run: ignore_bpf_errors is off.                                      *)
Pop(e, pushed) ==
    /\ calls = <<>>
    /\ ~failed
    /\ e.time <= Duration
    /\ \A f \in DOMAIN events : e.time <= f.time
    /\ clock' = e.time
    /\ events' = (events (-) SetToBag({e})) (+) pushed

Take(e, pushed) ==
    /\ Pop(e, pushed)
    /\ UNCHANGED failed

(* A handler that returns before it does anything. *)
Ignore(e) ==
    /\ Take(e, EmptyBag)
    /\ cpus' = Advance(e.cpu, e.time)
    /\ UNCHANGED <<staged, calls, tasks, dsqs, held, unserved>>

Calling(op) == calls # <<>> /\ Head(calls).op = op

(* flush_staged_events, with the kicks a callback has just staged. *)
Flush(kicks) ==
    /\ events' = events (+) staged (+) kicks
    /\ staged' = EmptyBag

-----------------------------------------------------------------------------
(* Phases. *)

(* From phase p of t on, phases of the kinds in skip are passed over; q is *)
(* where that ends.                                                        *)
Reaches(t, p, q, skip) ==
    /\ \A k \in p .. q - 1 : PhaseAt(t, k).kind \in skip
    /\ PhaseAt(t, q).kind \notin skip

(* The wakes t issues on its way from phase p to phase q. *)
Wakes(t, p, q, time, c) ==
    LET at == {k \in p .. q - 1 : PhaseAt(t, k).kind = "Wake"}
        Woken(k) == WakeAt(time, Phases[t][k].task, c)
    IN  [e \in {Woken(k) : k \in at} |-> Cardinality({k \in at : Woken(k) = e})]

StateIn(ph) ==
    CASE ph.kind = "Run" -> "Runnable"
      [] ph.kind = "None" -> "Exited"
      [] OTHER -> "Sleeping"

-----------------------------------------------------------------------------
(* handle_task_wake *)

WakeIgnored(e) ==
    /\ e.kind = "TaskWake"
    /\ tasks[e.task].state # "Sleeping"
    /\ Ignore(e)

(* advance_to_run_phase passes over Sleep, Yield and Wake; the wakes of a  *)
(* task that is being woken have no waker.  A task that reaches Park or    *)
(* its end goes no further.                                                *)
WakeSleeper(e, t, pushed) ==
    /\ tasks[t].state = "Sleeping"
    /\ LET p == tasks[t].pos IN
       \E q \in p .. Len(Phases[t]) + 1 :
            /\ Reaches(t, p, q, {"Sleep", "Yield", "Wake"})
            /\ Take(e, pushed (+) Wakes(t, p, q, e.time, tasks[t].prevCpu))
            /\ tasks' = [tasks EXCEPT
                  ![t].state = StateIn(PhaseAt(t, q)), ![t].pos = q,
                  ![t].remaining = IF q = p /\ @ > 0 THEN @ ELSE RunTime(PhaseAt(t, q))]
            /\ unserved' = IF q = p THEN unserved
                           ELSE [unserved EXCEPT ![t] = @ + RunTime(PhaseAt(t, q))]
            /\ calls' = IF PhaseAt(t, q).kind = "Run"
                        THEN <<Call("selectCpu", e.cpu, t)>> ELSE <<>>
            /\ cpus' = Advance(e.cpu, e.time)
            /\ UNCHANGED <<staged, dsqs, held>>

TaskWake(e) ==
    /\ e.kind = "TaskWake"
    /\ WakeSleeper(e, e.task, EmptyBag)

-----------------------------------------------------------------------------
(* resolve_pending_dispatch: where a task the scheduler has inserted goes. *)

LandsOn(d, c) == IF d = Local THEN c ELSE d.cpu

(* check_local_on_dispatch, for tasks that may migrate. *)
Rejected(t, d) == d.kind = "localOn" /\ d.cpu \notin Allowed[t]

(* Whether a CPU got the task: resolve_pending_dispatch returns it. *)
Direct(t, d) == d.kind \in {"local", "localOn"} /\ ~Rejected(t, d)

(* cs is the CPUs as the callback left them. *)
Deliver(cs, t, d, c) ==
    \/ /\ Direct(t, d)
       /\ cpus' = [cs EXCEPT ![LandsOn(d, c)].local = Append(@, t)]
       /\ UNCHANGED <<dsqs, failed>>
    \/ /\ Rejected(t, d)
       /\ failed' = TRUE
       /\ cpus' = cs
       /\ UNCHANGED dsqs
    \/ /\ d.kind \in {"global", "shared"}
       /\ dsqs' = [dsqs EXCEPT ![d.kind] = Append(@, t)]
       /\ cpus' = cs
       /\ UNCHANGED failed

(* Mutant: an idle CPU is not told of a task sent to it. *)
ReschedNot(cs, t, d, c) == EmptyBag

(* resched_if_remote_idle *)
Resched(cs, t, d, c) ==
    IF d.kind = "localOn" /\ Direct(t, d) /\ d.cpu # c /\ cs[d.cpu].current = NoTask
    THEN SetToBag({KickAt(cs[c].clock + Ipi, d.cpu, {"IDLE"})})
    ELSE EmptyBag

(* scx_bpf_dsq_insert: the insertion sets the slice; once it is resolved   *)
(* the task is out of the scheduler's hands.                               *)
Inserted(t, sl) == [tasks EXCEPT ![t].slice = sl, ![t].ops = "None"]

(* scx_bpf_kick_cpu, called at most once in a callback on c. *)
KicksFrom(c) ==
    {EmptyBag} \cup {SetToBag({KickAt(cpus[c].clock + Ipi, k.cpu, k.flags)}) : k \in Kicks}

(* ops.select_cpu picks a CPU and may insert the task; the wake goes on    *)
(* with dispatch on the CPU that got it, or with ops.enqueue.  The engine  *)
(* does not hold the answer against the cpumask.                           *)
SelectCpu ==
    /\ Calling("selectCpu")
    /\ LET t == Head(calls).task IN
       \E c \in Chosen[t] :
         \/ /\ tasks' = [tasks EXCEPT ![t].prevCpu = c, ![t].ops = "Queued"]
            /\ calls' = <<Call("enqueue", c, t)>>
            /\ UNCHANGED <<cpus, dsqs, staged, failed>>
         \/ \E d \in SelectDsq, sl \in Slices :
              /\ Deliver(cpus, t, d, c)
              /\ tasks' = [Inserted(t, sl) EXCEPT ![t].prevCpu = c]
              /\ staged' = staged (+) Resched(cpus, t, d, c)
              /\ calls' = IF Direct(t, d) THEN <<Dispatch(LandsOn(d, c))>>
                          ELSE <<Call("enqueue", c, t)>>
    /\ UNCHANGED <<clock, events, held, unserved>>

IdleCpus == {c \in Cpu : cpus[c].current = NoTask}

(* A dispatch on each of a set of CPUs, in the order of their numbers.     *)
IsDispatchOf(todo, S) ==
    \E order \in Bijection(1 .. Cardinality(S), S) :
        /\ \A i, j \in DOMAIN order : i < j => order[i] < order[j]
        /\ todo = [i \in DOMAIN order |-> Dispatch(order[i])]

(* ops.enqueue.  After a wake every CPU that is idle now gets a dispatch,  *)
(* and the staged kicks stay staged; stop_and_reenqueue and a completed    *)
(* phase flush them; the drain of an offlined CPU does neither.            *)
AfterEnqueue(kicks) ==
    /\ IF Calling("requeue") THEN Flush(kicks)
       ELSE staged' = staged (+) kicks /\ UNCHANGED events
    /\ IF Calling("enqueue") THEN IsDispatchOf(calls', IdleCpus) ELSE calls' = Tail(calls)
    /\ UNCHANGED <<clock, unserved>>

EnqueueInsert ==
    /\ Calling("enqueue") \/ Calling("requeue") \/ Calling("drain")
    /\ LET c == Head(calls).cpu
           t == Head(calls).task
       IN \E d \in EnqueueDsq, sl \in Slices, kick \in KicksFrom(c) :
            /\ Deliver(cpus, t, d, c)
            /\ tasks' = Inserted(t, sl)
            /\ AfterEnqueue(kick (+) Resched(cpus, t, d, c))
    /\ UNCHANGED held

EnqueueHold ==
    /\ Calling("enqueue") \/ Calling("requeue") \/ Calling("drain")
    /\ Holds
    /\ held' = held \cup {Head(calls).task}
    /\ \E kick \in KicksFrom(Head(calls).cpu) : AfterEnqueue(kick)
    /\ UNCHANGED <<tasks, cpus, dsqs, failed>>

-----------------------------------------------------------------------------
(* Stopping the task that runs on a CPU. *)

Stop(c, now) ==
    [cpus EXCEPT ![c].current = NoTask, ![c].clock = now + Csw,
                 ![c].startedAt = 0, ![c].slice = 0]

Ran(c, now) == now - cpus[c].startedAt

(* stop_and_reenqueue, up to ops.enqueue; consumed is what the caller says *)
(* the task used, ran what it really got.                                  *)
StopAndReenqueue(c, now, consumed, left) ==
    LET t == cpus[c].current IN
    /\ cpus' = Stop(c, now)
    /\ tasks' = [tasks EXCEPT ![t].state = "Runnable", ![t].slice = left,
                              ![t].remaining = Monus(@, consumed), ![t].ops = "Queued"]
    /\ unserved' = [unserved EXCEPT ![t] = @ - Ran(c, now)]
    /\ UNCHANGED <<dsqs, held>>

Reenqueue(c) == <<Call("requeue", c, cpus[c].current), Dispatch(c)>>

(* Mutant: a preempted task is not charged for its run. *)
PreemptFree(c, now) ==
    StopAndReenqueue(c, now, 0, Monus(cpus[c].slice, Ran(c, now)))

PreemptCurrent(c, now) ==
    StopAndReenqueue(c, now, Ran(c, now), Monus(cpus[c].slice, Ran(c, now)))

(* An end event that finds no task on its CPU. *)
EndIgnored(e) ==
    /\ e.kind \in {"SliceExpired", "PhaseComplete"}
    /\ cpus[e.cpu].current = NoTask
    /\ Ignore(e)

(* Mutant: the expired slice is not charged. *)
SliceExpiredFree(e) ==
    /\ e.kind = "SliceExpired"
    /\ cpus[e.cpu].current # NoTask
    /\ Take(e, EmptyBag)
    /\ StopAndReenqueue(e.cpu, Now(e.cpu, e.time), 0, 0)
    /\ calls' = Reenqueue(e.cpu)
    /\ UNCHANGED staged

(* handle_slice_expired charges the slice, whoever is running. *)
SliceExpired(e) ==
    /\ e.kind = "SliceExpired"
    /\ cpus[e.cpu].current # NoTask
    /\ Take(e, EmptyBag)
    /\ StopAndReenqueue(e.cpu, Now(e.cpu, e.time), tasks[cpus[e.cpu].current].slice, 0)
    /\ calls' = Reenqueue(e.cpu)
    /\ UNCHANGED staged

(* The task t of CPU c has done its phase and goes on to phase q: it runs  *)
(* again, or leaves.  The wakes it issues on its way and the end of its    *)
(* sleep are scheduled on the clock of this CPU.                           *)
Completes(e, c, t, now, q) ==
    LET p == tasks[t].pos + 1
        next == PhaseAt(t, q)
        yielded == \A k \in p .. q - 1 : PhaseAt(t, k) = Yield
        wakeUp == IF next.kind = "Sleep" /\ now + Csw + next.ns <= Duration
                  THEN {WakeAt(now + Csw + next.ns, t, tasks[t].prevCpu)} ELSE {}
        pushed == Wakes(t, p, q, now + Csw, c) (+) SetToBag(wakeUp)
    IN
    /\ IF next.kind = "Run"
       THEN /\ Take(e, pushed)
            /\ calls' = Reenqueue(c)
            /\ UNCHANGED staged
       ELSE /\ Take(e, pushed (+) staged)
            /\ calls' = <<Dispatch(c)>>
            /\ staged' = EmptyBag
    /\ cpus' = Stop(c, now)
    /\ tasks' = [tasks EXCEPT
          ![t].state = StateIn(next), ![t].pos = q, ![t].remaining = RunTime(next),
          ![t].slice = Monus(@, tasks[t].remaining),
          ![t].ops = IF next.kind = "Run" THEN "Queued" ELSE "None"]
    /\ held' = IF tasks[t].ops = "Queued" /\ ~(yielded /\ next.kind = "Run")
               THEN held \ {t} ELSE held
    /\ unserved' = [unserved EXCEPT ![t] = @ - Ran(c, now) + RunTime(next)]
    /\ UNCHANGED dsqs

(* handle_task_phase_complete: whoever is running has done its phase.  Its *)
(* Yield and Wake phases are passed over.                                  *)
PhaseComplete(e) ==
    /\ e.kind = "PhaseComplete"
    /\ cpus[e.cpu].current # NoTask
    /\ LET t == cpus[e.cpu].current
           p == tasks[t].pos + 1
       IN \E q \in p .. Len(Phases[t]) + 1 :
            /\ Reaches(t, p, q, {"Yield", "Wake"})
            /\ Completes(e, e.cpu, t, Now(e.cpu, e.time), q)

-----------------------------------------------------------------------------
(* try_dispatch_and_run *)

(* The CPU is busy or offline. *)
DispatchRefused ==
    /\ Calling("dispatch")
    /\ LET cpu == cpus[Head(calls).cpu] IN cpu.current # NoTask \/ ~cpu.online
    /\ calls' = Tail(calls)
    /\ UNCHANGED <<clock, events, staged, failed, tasks, cpus, dsqs, held, unserved>>

(* Mutant: a busy CPU dispatches. *)
DispatchingBusy(c) ==
    /\ Calling("dispatch")
    /\ c = Head(calls).cpu
    /\ cpus[c].online
    /\ calls' = <<Call("pick", c, NoTask)>> \o Tail(calls)
    /\ UNCHANGED <<clock, unserved>>

Dispatching(c) ==
    /\ Calling("dispatch")
    /\ c = Head(calls).cpu
    /\ cpus[c].current = NoTask
    /\ cpus[c].online
    /\ calls' = <<Call("pick", c, NoTask)>> \o Tail(calls)
    /\ UNCHANGED <<clock, unserved>>

(* The local DSQ is not empty: the scheduler is not asked. *)
DispatchLocal(c) ==
    /\ Dispatching(c)
    /\ cpus[c].local # <<>>
    /\ cpus' = Advance(c, clock)
    /\ UNCHANGED <<events, staged, failed, tasks, dsqs, held>>

(* ops.dispatch has nothing to offer, ... *)
DispatchNothing(c) ==
    /\ Dispatching(c)
    /\ cpus[c].local = <<>>
    /\ cpus' = Advance(c, clock)
    /\ Flush(EmptyBag)
    /\ UNCHANGED <<failed, tasks, dsqs, held>>

(* Mutant: whatever is at the head of the queue. *)
FirstOfAll(queue, c, i) == i = 1

(* pop_first_matching: position i of the queue is the first task CPU c may *)
(* run.                                                                    *)
FirstMatching(queue, c, i) ==
    /\ c \in Allowed[queue[i]]
    /\ \A j \in 1 .. i - 1 : c \notin Allowed[queue[j]]

(* ... moves a task of its DSQ to the local one (scx_bpf_dsq_move_to_local *)
(* acts at once), ...                                                      *)
DispatchMove(c) ==
    /\ Dispatching(c)
    /\ cpus[c].local = <<>>
    /\ \E i \in DOMAIN dsqs.shared :
         /\ FirstMatching(dsqs.shared, c, i)
         /\ cpus' = [Advance(c, clock) EXCEPT ![c].local = Append(@, dsqs.shared[i])]
         /\ dsqs' = [dsqs EXCEPT !.shared = RemoveAt(@, i)]
    /\ Flush(EmptyBag)
    /\ UNCHANGED <<failed, tasks, held>>

(* ... or inserts a task it holds, in a DSQ or on a CPU of its choice;     *)
(* SCX_DSQ_LOCAL is not held against the cpumask, either.                  *)
DispatchHeld(c) ==
    /\ Dispatching(c)
    /\ cpus[c].local = <<>>
    /\ \E t \in held, d \in DispatchDsq, sl \in Slices :
         /\ d = Local => c \in Chosen[t]
         /\ Deliver(Advance(c, clock), t, d, c)
         /\ tasks' = Inserted(t, sl)
         /\ held' = held \ {t}
         /\ Flush(Resched(Advance(c, clock), t, d, c))

(* post_dispatch_run takes the head of the local DSQ or, when that is      *)
(* empty, what the global DSQ has for this CPU.                            *)
Picks(c) ==
    LET local == cpus[c].local
        global == dsqs.global
        Pick(t, l, g) == [task |-> t, local |-> l, global |-> g]
    IN  IF local # <<>> THEN {Pick(Head(local), Tail(local), global)}
        ELSE {Pick(global[i], local, RemoveAt(global, i)) :
                i \in {j \in DOMAIN global : FirstMatching(global, c, j)}}

Picked(c, pick) ==
    /\ Calling("pick")
    /\ c = Head(calls).cpu
    /\ pick \in Picks(c)
    /\ dsqs' = [dsqs EXCEPT !.global = pick.global]
    /\ UNCHANGED <<clock, staged, failed, held, unserved>>

(* Mutant: the end of the slice ends the run, however short the phase. *)
EndOfSlice(c, t, slice) ==
    IF slice > 0 THEN EventAt(cpus[c].clock + slice, "SliceExpired", c)
    ELSE EventAt(cpus[c].clock + tasks[t].remaining, "PhaseComplete", c)

(* start_running: the end of the slice or of the phase, whichever comes    *)
(* first, is scheduled and never cancelled.                                *)
EndOfRun(c, t, slice) ==
    LET now == cpus[c].clock
        remaining == tasks[t].remaining
    IN  IF remaining > 0 /\ slice > 0 /\ slice <= remaining
        THEN EventAt(now + slice, "SliceExpired", c)
        ELSE EventAt(now + remaining, "PhaseComplete", c)

(* A task that exited while queued is skipped: the CPU dispatches again.   *)
SkipExited(c, pick) ==
    /\ Picked(c, pick)
    /\ tasks[pick.task].state = "Exited"
    /\ cpus' = [cpus EXCEPT ![c].local = pick.local]
    /\ calls' = <<Dispatch(c)>> \o Tail(calls)
    /\ UNCHANGED <<tasks, events>>

RunFor(c, pick, slice) ==
    /\ Picked(c, pick)
    /\ tasks[pick.task].state # "Exited"
    /\ tasks' = [tasks EXCEPT ![pick.task].state = "Running", ![pick.task].prevCpu = c]
    /\ cpus' = [cpus EXCEPT ![c].local = pick.local, ![c].current = pick.task,
                            ![c].startedAt = cpus[c].clock, ![c].slice = slice]
    /\ events' = events (+) SetToBag({EndOfRun(c, pick.task, slice)})
    /\ calls' = Tail(calls)

StartRunning(c) ==
    \E pick \in Picks(c) : SkipExited(c, pick) \/ RunFor(c, pick, tasks[pick.task].slice)

GoIdle(c) ==
    /\ Calling("pick")
    /\ c = Head(calls).cpu
    /\ Picks(c) = {}
    /\ calls' = Tail(calls)
    /\ UNCHANGED <<clock, events, staged, failed, tasks, cpus, dsqs, held, unserved>>

-----------------------------------------------------------------------------
(* handle_kick_delivered *)

KickPreempt(e) ==
    /\ e.kind = "Kick"
    /\ "PREEMPT" \in e.flags
    /\ cpus[e.cpu].current # NoTask
    /\ Take(e, EmptyBag)
    /\ PreemptCurrent(e.cpu, Now(e.cpu, e.time))
    /\ calls' = Reenqueue(e.cpu)
    /\ UNCHANGED staged

(* A kick that preempts nobody: an IDLE kick dispatches on an idle CPU     *)
(* only, any other kick always tries to.                                   *)
KickDispatch(e) ==
    /\ e.kind = "Kick"
    /\ "PREEMPT" \in e.flags => cpus[e.cpu].current = NoTask
    /\ Take(e, EmptyBag)
    /\ cpus' = Advance(e.cpu, e.time)
    /\ calls' = IF "IDLE" \in e.flags /\ cpus[e.cpu].current # NoTask
                THEN <<>> ELSE <<Dispatch(e.cpu)>>
    /\ UNCHANGED <<staged, tasks, dsqs, held, unserved>>

-----------------------------------------------------------------------------
(* handle_tick *)

(* The chain of ticks of an offline CPU ends. *)
TickOffline(e) ==
    /\ e.kind = "Tick"
    /\ ~cpus[e.cpu].online
    /\ Ignore(e)

Tick(e) ==
    /\ e.kind = "Tick"
    /\ cpus[e.cpu].online
    /\ Take(e, SetToBag({EventAt(Now(e.cpu, e.time) + TickInterval, "Tick", e.cpu)}))
    /\ cpus' = Advance(e.cpu, e.time)
    /\ calls' = IF cpus[e.cpu].current = NoTask THEN <<>>
                ELSE <<Call("tick", e.cpu, cpus[e.cpu].current)>>
    /\ UNCHANGED <<staged, tasks, dsqs, held, unserved>>

(* ops.tick asks for preemption by a PREEMPT kick of its own CPU or by     *)
(* zeroing the slice.  The handler acts on that, and on any PREEMPT kick   *)
(* of this CPU still staged; staged kicks of this CPU are dropped, the     *)
(* others flushed.                                                         *)
OpsTick ==
    /\ Calling("tick")
    /\ LET c == Head(calls).cpu
           own == {e \in DOMAIN staged : e.cpu = c}
       IN \E asked \in {FALSE, TickKicks} :
            /\ events' = events (+) [e \in DOMAIN staged \ own |-> staged[e]]
            /\ IF asked \/ \E e \in own : "PREEMPT" \in e.flags
               THEN /\ PreemptCurrent(c, cpus[c].clock)
                    /\ calls' = Reenqueue(c)
               ELSE /\ calls' = <<>>
                    /\ UNCHANGED <<tasks, cpus, dsqs, held, unserved>>
    /\ staged' = EmptyBag
    /\ UNCHANGED <<clock, failed>>

-----------------------------------------------------------------------------
(* handle_cpu_offline, handle_cpu_online, handle_cpu_release and           *)
(* handle_cpu_acquire.                                                     *)

AlreadyThere(e) ==
    /\ \/ e.kind \in {"Offline", "Release"} /\ ~cpus[e.cpu].online
       \/ e.kind = "Online" /\ cpus[e.cpu].online
    /\ Ignore(e)

(* What follows the preemption of the running task, if there is one: an    *)
(* offlined CPU is drained, a released one keeps its local DSQ.            *)
Leaving(e) ==
    IF e.kind = "Offline" THEN <<Call("drainLocal", e.cpu, NoTask)>>
    ELSE <<Call("takeDown", e.cpu, NoTask)>>

CpuLeaves(e) ==
    /\ e.kind \in {"Offline", "Release"}
    /\ cpus[e.cpu].online
    /\ Take(e, EmptyBag)
    /\ IF cpus[e.cpu].current = NoTask
       THEN /\ calls' = Leaving(e)
            /\ cpus' = Advance(e.cpu, e.time)
            /\ UNCHANGED <<tasks, dsqs, held, unserved>>
       ELSE /\ calls' = Reenqueue(e.cpu) \o Leaving(e)
            /\ PreemptCurrent(e.cpu, Now(e.cpu, e.time))
    /\ UNCHANGED staged

(* Mutant: the tasks of the local DSQ are dropped. *)
DropLocal ==
    /\ Calling("drainLocal")
    /\ cpus' = [cpus EXCEPT ![Head(calls).cpu].local = <<>>]
    /\ calls' = <<Call("takeDown", Head(calls).cpu, NoTask)>>
    /\ UNCHANGED <<clock, events, staged, failed, tasks, dsqs, held, unserved>>

(* Every task of the local DSQ goes back through ops.enqueue. *)
DrainLocal ==
    /\ Calling("drainLocal")
    /\ LET c == Head(calls).cpu
           queue == cpus[c].local
       IN /\ cpus' = [cpus EXCEPT ![c].local = <<>>]
          /\ calls' = [i \in DOMAIN queue |-> Call("drain", c, queue[i])]
                        \o <<Call("takeDown", c, NoTask)>>
    /\ UNCHANGED <<clock, events, staged, failed, tasks, dsqs, held, unserved>>

TakeDown ==
    /\ Calling("takeDown")
    /\ cpus' = [cpus EXCEPT ![Head(calls).cpu].online = FALSE]
    /\ calls' = Tail(calls)
    /\ UNCHANGED <<clock, events, staged, failed, tasks, dsqs, held, unserved>>

(* Mutants: a CPU that comes back has no ticks, or is not dispatched to. *)
CpuReturnsTickless(e) ==
    /\ \/ e.kind = "Online" /\ ~cpus[e.cpu].online
       \/ e.kind = "Acquire"
    /\ Take(e, EmptyBag)
    /\ cpus' = [Advance(e.cpu, e.time) EXCEPT ![e.cpu].online = TRUE]
    /\ calls' = <<Dispatch(e.cpu)>>
    /\ UNCHANGED <<staged, tasks, dsqs, held, unserved>>

(* A CPU that comes back starts a chain of ticks and is dispatched to;     *)
(* handle_cpu_acquire does so for a CPU that is online already, too.       *)
CpuReturns(e) ==
    /\ \/ e.kind = "Online" /\ ~cpus[e.cpu].online
       \/ e.kind = "Acquire"
    /\ Take(e, SetToBag({EventAt(Now(e.cpu, e.time) + TickInterval, "Tick", e.cpu)}))
    /\ cpus' = [Advance(e.cpu, e.time) EXCEPT ![e.cpu].online = TRUE]
    /\ calls' = <<Dispatch(e.cpu)>>
    /\ UNCHANGED <<staged, tasks, dsqs, held, unserved>>

-----------------------------------------------------------------------------

HandleEvent(e) ==
    \/ WakeIgnored(e) \/ TaskWake(e)
    \/ EndIgnored(e) \/ SliceExpired(e) \/ PhaseComplete(e)
    \/ KickPreempt(e) \/ KickDispatch(e)
    \/ TickOffline(e) \/ Tick(e)
    \/ AlreadyThere(e) \/ CpuLeaves(e) \/ CpuReturns(e)

DispatchAndRun(c) ==
    \/ DispatchLocal(c) \/ DispatchNothing(c) \/ DispatchMove(c) \/ DispatchHeld(c)
    \/ StartRunning(c) \/ GoIdle(c)

Next ==
    \/ \E e \in DOMAIN events : HandleEvent(e)
    \/ SelectCpu \/ EnqueueInsert \/ EnqueueHold \/ OpsTick
    \/ DispatchRefused \/ \E c \in Cpu : DispatchAndRun(c)
    \/ DrainLocal \/ TakeDown

Spec == Init /\ [][Next]_vars

-----------------------------------------------------------------------------
(* Properties *)

IsBagOf(B, S) == DOMAIN B \subseteq S /\ \A e \in DOMAIN B : B[e] \in Nat \ {0}

(* Every variable has its type; at most one task sits in a callback that   *)
(* has still to be made.                                                   *)
TypeOK ==
    /\ clock \in Nat
    /\ IsBagOf(events, Event)
    /\ IsBagOf(staged, Event)
    /\ calls \in Seq([op : CallOp, cpu : Cpu, task : Task \cup {NoTask}])
    /\ failed \in BOOLEAN
    /\ tasks \in [Task -> [state : TaskState, pos : Nat, remaining : Nat, slice : Nat,
                           prevCpu : Cpu, ops : {"None", "Queued"}]]
    /\ cpus \in [Cpu -> [current : Task \cup {NoTask}, local : Seq(Task), clock : Nat,
                         startedAt : Nat, slice : Nat, online : BOOLEAN]]
    /\ dsqs \in [global : Seq(Task), shared : Seq(Task)]
    /\ held \subseteq Task
    /\ unserved \in [Task -> Int]

Positions(queue, t) == {i \in DOMAIN queue : queue[i] = t}
Copies(queue, t) == Cardinality(Positions(queue, t))

(* The places a runnable task can be: on a CPU, in a dispatch queue, with  *)
(* the scheduler, or in the hands of the handler that is running.          *)
OnCpu(cs, t) == {c \in Cpu : cs[c].current = t}
OnLocal(cs, t) == UNION {{c} \X Positions(cs[c].local, t) : c \in Cpu}
InHand(todo, t) == {i \in DOMAIN todo : todo[i].op # "tick" /\ todo[i].task = t}

Places(t) ==
    Cardinality(OnCpu(cpus, t)) + Cardinality(OnLocal(cpus, t))
        + Copies(dsqs.global, t) + Copies(dsqs.shared, t)
        + Cardinality({t} \cap held) + Cardinality(InHand(calls, t))

(* No handler loses a task or queues it twice: a runnable or running task  *)
(* is in exactly one place, a sleeping or exited one in none.  A rejected  *)
(* dispatch does lose its task, and ends the run.                          *)
Conserved ==
    ~failed => \A t \in Task :
        Places(t) = IF tasks[t].state \in {"Runnable", "Running"} THEN 1 ELSE 0

(* No run goes on for ever: although old end events are never cancelled    *)
(* and hit whoever is running, a running task always has an end event      *)
(* pending at or before the moment its slice and its phase allow.          *)
EndPending ==
    \A c \in Cpu : LET t == cpus[c].current IN
        t # NoTask => \E e \in DOMAIN events :
            /\ e.cpu = c
            /\ e.kind \in {"SliceExpired", "PhaseComplete"}
            /\ e.time <= cpus[c].startedAt + tasks[t].remaining

(* No CPU time from nowhere: whatever ends a run, a task never runs longer *)
(* than its phases ask.                                                    *)
NoOverrun == \A t \in Task : unserved[t] >= tasks[t].remaining

(* "Run (consume CPU) for the given number of nanoseconds": what is left   *)
(* of the phase is what the task has not had yet.                          *)
Served == \A t \in Task : tasks[t].state # "Running" => unserved[t] = tasks[t].remaining

(* A task on the local DSQ of an idle CPU has a kick coming that starts it *)
(* (resched_if_remote_idle).                                               *)
NotStranded ==
    \A c \in Cpu :
        (calls = <<>> /\ cpus[c].online /\ cpus[c].current = NoTask /\ cpus[c].local # <<>>)
            => \E e \in DOMAIN events \cup DOMAIN staged : e.kind = "Kick" /\ e.cpu = c

(* The chain of ticks of an online CPU never breaks, however its hotplug   *)
(* events fall.                                                            *)
TicksAlive ==
    \A c \in Cpu : cpus[c].online => \E e \in DOMAIN events : e.kind = "Tick" /\ e.cpu = c

(* "A pinned task is only ever scheduled on an allowed CPU"                *)
(* (tests/cpu_affinity.rs), as far as the engine decides: whichever queues *)
(* it goes through, a task runs off its cpumask only where the scheduler   *)
(* chose to put it.                                                        *)
NoneStrays ==
    \A c \in Cpu : LET t == cpus[c].current IN
        t # NoTask => c \in Allowed[t] \cup Chosen[t]

(* Nothing starts on an offline CPU. *)
OfflineStartsNothing ==
    [][\A c \in Cpu : ~cpus[c].online => cpus'[c].current \in {NoTask, cpus[c].current}]_vars

(* "No task runs on two CPUs at once", also when ops.enqueue puts a task   *)
(* aside that the stash of the engine holds as well.                       *)
TaskOnOneCpu ==
    \A c, d \in Cpu : cpus[c].current = cpus[d].current /\ cpus[c].current # NoTask => c = d

(* handle_cpu_offline: a CPU that is offline runs nothing. *)
OfflineRunsNothing == \A c \in Cpu : ~cpus[c].online => cpus[c].current = NoTask

(* "Time never runs backward (interval end >= start; per-CPU ticks         *)
(* ordered)": sim.clock can, with a kick flushed late; a CPU's clock and   *)
(* the runs on it cannot.                                                  *)
TimeForward ==
    [][\A c \in Cpu : cpus'[c].clock >= cpus[c].clock /\ cpus'[c].startedAt <= cpus'[c].clock]_vars

Machine == INSTANCE Machine WITH
    running <- [c \in Cpu |-> cpus[c].current],
    status <- [t \in Task |-> tasks[t].state]

(* The engine runs the abstract machine. *)
ImplementsMachine == Machine!MachineSpec

=============================================================================
