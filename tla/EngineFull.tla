----------------------------- MODULE EngineFull -----------------------------
(***************************************************************************)
(* The engine with the rest of its events: BPF timers, the cpu.max stash   *)
(* of throttled tasks and its replenishment, cgroup migration, interrupts, *)
(* the watchdog, futex operations, renames and userspace control.          *)
(*                                                                         *)
(* The cgroup_bw library, which runs inside the scheduler, is environment: *)
(* it throttles a cgroup in any callback, replenishes in a timer callback, *)
(* and says what is left of a budget.  A task is billed to its nearest     *)
(* limited cgroup.                                                         *)
(***************************************************************************)
EXTENDS Engine

CONSTANTS
    Group,          \* the cgroups
    NoGroup,        \* Option::None of a cgroup
    Home,           \* the cgroup each task starts in
    MoveTo,         \* the cgroup a migration takes each task to
    Billing,        \* the nearest limited ancestor-or-self of each cgroup
    Budgets,        \* what cgroup_bw_budget_remaining may answer
    PutsAside,      \* the tasks ops.enqueue puts aside when throttled
    Period,         \* the time after which a timer callback re-arms itself
    Window,         \* stochastic_timer_interleave_window_ns
    IrqTime,        \* duration_ns of every interrupt
    Timeout         \* watchdog_timeout

ASSUME FullAssumption ==
    /\ NoGroup \notin Group
    /\ Home \in [Task -> Group]
    /\ MoveTo \in [Task -> Group]
    /\ Billing \in [Group -> Group \cup {NoGroup}]
    /\ Budgets \subseteq Nat
    /\ PutsAside \subseteq Task
    /\ IsFiniteSet(Group)
    /\ \A e \in Hotplug : e.kind = "Migrate" => e.task \in Task
    /\ Period \in Nat \ {0}
    /\ Window \in Nat
    /\ IrqTime \in Nat \ {0}
    /\ Timeout \in Nat

VARIABLES
    group,      \* task_to_cgid and the C side's task cgroup
    throttled,  \* the limited cgroups the library has throttled
    blocked,    \* bw_blocked: the tasks stashed for each cgroup
    owed,       \* irq_stolen_ns of each CPU
    stolen,     \* history: what interrupts took from the run on each CPU
    since,      \* runnable_at_ns of each task
    seen        \* last_throttled_at of each cgroup

bwVars == <<group, throttled, blocked>>
irqVars == <<owed, stolen>>
watchVars == <<since, seen>>
fullVars == <<vars, bwVars, irqVars, watchVars>>

None == -1

FullInit ==
    /\ Init
    /\ group = Home
    /\ throttled = {}
    /\ blocked = [g \in Group |-> <<>>]
    /\ owed = [c \in Cpu |-> 0]
    /\ stolen = [c \in Cpu |-> 0]
    /\ since = [t \in Task |-> None]
    /\ seen = [g \in Group |-> None]

(* What handle_task_wake does for the watchdog: a task that becomes        *)
(* runnable is watched from now, unless it is already; one that parks is   *)
(* not.                                                                    *)
Watch(e) ==
    since' = [t \in Task |->
        IF tasks'[t].state = tasks[t].state /\ tasks'[t].pos = tasks[t].pos THEN since[t]
        ELSE IF tasks'[t].state = "Sleeping" THEN None
        ELSE IF since[t] = None THEN e.time ELSE since[t]]

(* A handler that ends the run. *)
Fail(e) ==
    /\ Pop(e, EmptyBag)
    /\ failed' = TRUE
    /\ cpus' = Advance(e.cpu, e.time)
    /\ UNCHANGED <<staged, calls, tasks, dsqs, held, unserved>>

-----------------------------------------------------------------------------
(* cpu.max: the gate at the head of a local DSQ. *)

(* pid_is_bw_throttled: the cgroup a task waits for, or NoGroup. *)
ThrottledBy(t) ==
    LET g == Billing[group[t]] IN IF g \in throttled THEN g ELSE NoGroup

(* Mutant: the throttled task is taken out of the DSQ and forgotten. *)
ForgetThrottled(c) ==
    \E pick \in Picks(c) :
        /\ Picked(c, pick)
        /\ ThrottledBy(pick.task) # NoGroup
        /\ cpus' = [cpus EXCEPT ![c].local = pick.local]
        /\ calls' = Tail(calls)
        /\ UNCHANGED <<events, tasks, bwVars, irqVars, watchVars>>

(* eager_stash_throttled: the task at the front waits in bw_blocked for    *)
(* its cgroup, and the CPU goes idle whatever else its local DSQ holds.    *)
StashThrottled(c) ==
    \E pick \in Picks(c) :
        /\ Picked(c, pick)
        /\ ThrottledBy(pick.task) # NoGroup
        /\ cpus' = [cpus EXCEPT ![c].local = pick.local]
        /\ calls' = Tail(calls)
        /\ blocked' = [blocked EXCEPT ![ThrottledBy(pick.task)] = Append(@, pick.task)]
        /\ UNCHANGED <<events, tasks, group, throttled, irqVars, watchVars>>

(* pid_bw_max_run_ns: a slice is cut to what is left of the budget, of     *)
(* which at least 1 ns; a slice of zero becomes the budget.                *)
Capped(slice, budget) ==
    LET most == IF budget = 0 THEN 1 ELSE budget
    IN  IF slice = 0 \/ most < slice THEN most ELSE slice

StartWithin(c) ==
    \E pick \in Picks(c) :
        LET t == pick.task IN
        /\ ThrottledBy(t) = NoGroup
        /\ \/ /\ SkipExited(c, pick)
              /\ UNCHANGED <<irqVars, watchVars>>
           \/ /\ \/ /\ Billing[group[t]] = NoGroup
                    /\ RunFor(c, pick, tasks[t].slice)
                 \/ /\ Billing[group[t]] # NoGroup
                    /\ \E budget \in Budgets : RunFor(c, pick, Capped(tasks[t].slice, budget))
              /\ owed' = [owed EXCEPT ![c] = 0]
              /\ stolen' = [stolen EXCEPT ![c] = 0]
              /\ since' = [since EXCEPT ![t] = None]
              /\ UNCHANGED seen
        /\ UNCHANGED bwVars

(* The library bills a run in ops.tick, ops.stopping and ops.dispatch, and *)
(* may find that a budget is used up.                                      *)
Throttle(g) ==
    /\ Calling("tick") \/ Calling("requeue") \/ Calling("pick")
    /\ \E h \in Group : Billing[h] = g
    /\ g \notin throttled
    /\ throttled' = throttled \cup {g}
    /\ UNCHANGED <<vars, group, blocked, irqVars, watchVars>>

(* ops.enqueue parks a throttled task in the library's own queue (here:    *)
(* held), and the observer of the call stashes it in bw_blocked as well.   *)
PutAside ==
    /\ Calling("enqueue") \/ Calling("requeue") \/ Calling("drain")
    /\ LET t == Head(calls).task IN
        /\ t \in PutsAside
        /\ ThrottledBy(t) # NoGroup
        /\ held' = held \cup {t}
        /\ blocked' = [blocked EXCEPT ![ThrottledBy(t)] = Append(@, t)]
    /\ AfterEnqueue(EmptyBag)
    /\ UNCHANGED <<tasks, cpus, dsqs, failed, group, throttled, irqVars, watchVars>>

-----------------------------------------------------------------------------
(* handle_timer_fired: the callback replenishes some cgroups and leaves    *)
(* some of them throttled; it may re-arm its timer.  Every task stashed    *)
(* for a cgroup that is not throttled any more is made a sleeper and woken.*)

Drained(released) ==
    [t \in Task |-> IF \E g \in released : t \in Range(blocked[g])
                    THEN [tasks[t] EXCEPT !.state = "Sleeping"] ELSE tasks[t]]

(* Mutant: only the first task of each queue is woken. *)
WakesOfHeads(released, time, c) ==
    SetToBag({WakeAt(time, Head(blocked[g]), c) : g \in {h \in released : Len(blocked[h]) > 0}})

(* Where a task is stashed for some groups.                                *)
StashedAt(t, groups) == UNION {{g} \X Positions(blocked[g], t) : g \in groups}

WakesOf(released, time, c) ==
    LET drained == UNION {Range(blocked[g]) : g \in released} IN
    [e \in {WakeAt(time, t, c) : t \in drained} |-> Cardinality(StashedAt(e.task, released))]

Limited == {Billing[g] : g \in Group} \ {NoGroup}

Rearms(now, c) == {{}, {EventAt(now + Period, "Timer", c)}}

TimerFired(e) ==
    /\ e.kind = "Timer"
    /\ LET now == Now(e.cpu, e.time) IN
       \E released \in SUBSET Limited, rearm \in Rearms(now, e.cpu) :
         /\ Take(e, staged (+) SetToBag(rearm) (+) WakesOf(released, now, e.cpu))
         /\ throttled' = throttled \ released
         /\ tasks' = Drained(released)
         /\ blocked' = [g \in Group |-> IF g \in released THEN <<>> ELSE blocked[g]]
    /\ cpus' = Advance(e.cpu, e.time)
    /\ staged' = EmptyBag
    /\ UNCHANGED <<calls, dsqs, held, unserved, group, irqVars, watchVars>>

TimerClock(e) == Advance(e.cpu, e.time)

(* scxsim_cgroup_bw_begin_interleaved_timer: a callback that calls the     *)
(* library may run a timer due within the window there and then, inside    *)
(* the callback, on the timer's CPU.  Unlike handle_timer_fired, the end   *)
(* of it wakes nobody: what is stashed for a cgroup it replenishes waits   *)
(* for a later replenishment.                                              *)
InterleavedTimer ==
    /\ \E op \in {"tick", "enqueue", "requeue", "drain", "dispatch"} : Calling(op)
    /\ \E e \in DOMAIN events, released \in SUBSET Limited :
         /\ e.kind = "Timer"
         /\ e.time <= Duration
         /\ e.time <= Now(Head(calls).cpu, clock) + Window
         /\ \E rearm \in Rearms(Now(e.cpu, e.time), e.cpu) :
              events' = (events (-) SetToBag({e})) (+) SetToBag(rearm) (+) staged
         /\ throttled' = throttled \ released
         /\ cpus' = TimerClock(e)
    /\ staged' = EmptyBag
    /\ UNCHANGED <<clock, calls, failed, tasks, dsqs, held, unserved, group, blocked,
                   irqVars, watchVars>>

-----------------------------------------------------------------------------
(* handle_cgroup_migrate *)

(* Position i is the first of the task in the queue.                       *)
FirstOf(queue, t, i) == queue[i] = t /\ \A j \in 1 .. i - 1 : queue[j] # t

(* cgroup_migrate_dequeue: out of one DSQ and of one local DSQ that has    *)
(* it, once, and out of the scheduler's own queue; not out of bw_blocked.  *)
MigrateDequeue(e) ==
    LET t == e.task
        on == {c \in Cpu : t \in Range(cpus[c].local)}
        now == Advance(e.cpu, e.time)
    IN
    /\ tasks[t].state = "Runnable"
    /\ tasks' = [tasks EXCEPT ![t].ops = "Queued"]
    /\ held' = IF tasks[t].ops = "Queued" THEN held \ {t} ELSE held
    /\ \/ /\ \A d \in DOMAIN dsqs : t \notin Range(dsqs[d])
          /\ UNCHANGED dsqs
       \/ \E d \in DOMAIN dsqs : \E i \in DOMAIN dsqs[d] :
            /\ FirstOf(dsqs[d], t, i)
            /\ dsqs' = [dsqs EXCEPT ![d] = RemoveAt(@, i)]
    /\ \/ on = {} /\ cpus' = now
       \/ \E c \in on : \E i \in DOMAIN cpus[c].local :
            /\ \A k \in on : c <= k
            /\ FirstOf(cpus[c].local, t, i)
            /\ cpus' = [now EXCEPT ![c].local = RemoveAt(@, i)]

(* A queued task is dequeued, moved and enqueued again, on the CPU of the  *)
(* last callback, whichever that was; any other task is only moved.        *)
Migrate(e) ==
    /\ e.kind = "Migrate"
    /\ IF tasks[e.task].state = "Runnable"
       THEN /\ Take(e, EmptyBag)
            /\ MigrateDequeue(e)
            /\ \E c \in Cpu : calls' = <<Call("requeue", c, e.task)>>
            /\ UNCHANGED staged
       ELSE /\ Take(e, staged)
            /\ staged' = EmptyBag
            /\ cpus' = Advance(e.cpu, e.time)
            /\ UNCHANGED <<calls, tasks, dsqs, held>>
    /\ group' = [group EXCEPT ![e.task] = MoveTo[e.task]]
    /\ UNCHANGED <<unserved, throttled, blocked, irqVars, watchVars>>

-----------------------------------------------------------------------------
(* handle_irq_start and handle_irq_end *)

(* The time is taken from the run under way, if there is one; the wakes of *)
(* the interrupt are handled inside it, on its CPU.                        *)
IrqStart(e) ==
    /\ e.kind = "IrqStart"
    /\ LET took == IF cpus[e.cpu].current = NoTask THEN 0 ELSE IrqTime
           ends == SetToBag({EventAt(Now(e.cpu, e.time) + IrqTime, "IrqEnd", e.cpu)})
       IN /\ owed' = [owed EXCEPT ![e.cpu] = @ + took]
          /\ stolen' = [stolen EXCEPT ![e.cpu] = @ + took]
          /\ IF e.task # NoTask /\ tasks[e.task].state = "Sleeping"
             THEN /\ WakeSleeper(e, e.task, ends)
                  /\ Watch(e)
             ELSE /\ Take(e, ends)
                  /\ cpus' = Advance(e.cpu, e.time)
                  /\ UNCHANGED <<staged, calls, tasks, dsqs, held, unserved, since>>
    /\ UNCHANGED <<bwVars, seen>>

(* Mutant: the end event is put off, and the debt stays. *)
PostponeAgain(e) ==
    /\ e.kind \in {"SliceExpired", "PhaseComplete"}
    /\ owed[e.cpu] > 0
    /\ Take(e, SetToBag({EventAt(Now(e.cpu, e.time) + owed[e.cpu], e.kind, e.cpu)}))
    /\ cpus' = Advance(e.cpu, e.time)
    /\ UNCHANGED <<staged, calls, tasks, dsqs, held, unserved, bwVars, irqVars, watchVars>>

(* The first end event after an interrupt, whichever run it belongs to, is *)
(* put off by what interrupts have taken.                                  *)
Postpone(e) ==
    /\ e.kind \in {"SliceExpired", "PhaseComplete"}
    /\ owed[e.cpu] > 0
    /\ Take(e, SetToBag({EventAt(Now(e.cpu, e.time) + owed[e.cpu], e.kind, e.cpu)}))
    /\ owed' = [owed EXCEPT ![e.cpu] = 0]
    /\ cpus' = Advance(e.cpu, e.time)
    /\ UNCHANGED <<staged, calls, tasks, dsqs, held, unserved, stolen, bwVars, watchVars>>

EndOfRunFired(e) ==
    /\ owed[e.cpu] = 0
    /\ EndIgnored(e) \/ SliceExpired(e) \/ PhaseComplete(e)
    /\ UNCHANGED <<bwVars, irqVars, watchVars>>

-----------------------------------------------------------------------------
(* Events that only call the scheduler. *)

(* handle_userspace_control re-arms itself; handle_task_rename flushes;    *)
(* handle_futex_op calls the hook on the CPU its task runs on, if any;     *)
(* handle_irq_end leaves the interrupt context.                            *)
Notify(e) ==
    /\ \/ /\ e.kind = "Control"
          /\ Take(e, SetToBag({EventAt(e.time + Period, "Control", e.cpu)}))
          /\ cpus' = Advance(e.cpu, e.time)
          /\ UNCHANGED staged
       \/ /\ e.kind = "Rename"
          /\ Take(e, staged)
          /\ cpus' = Advance(e.cpu, e.time)
          /\ staged' = EmptyBag
       \/ /\ e.kind = "IrqEnd"
          /\ Take(e, EmptyBag)
          /\ cpus' = Advance(e.cpu, e.time)
          /\ UNCHANGED staged
       \/ /\ e.kind = "Futex"
          /\ Take(e, EmptyBag)
          /\ cpus' = [c \in Cpu |-> IF cpus[c].current = e.task
                                    THEN Advance(c, e.time)[c] ELSE cpus[c]]
          /\ UNCHANGED staged
    /\ UNCHANGED <<calls, tasks, dsqs, held, unserved, bwVars, irqVars, watchVars>>

-----------------------------------------------------------------------------
(* check_watchdog, on every tick. *)

(* The ticks see which cgroups with a runnable task are throttled; only a  *)
(* limited cgroup has a snapshot.                                          *)
SeenAt(time) ==
    [g \in Group |-> IF g \in throttled /\ \E t \in Task :
                            tasks[t].state = "Runnable" /\ group[t] = g
                     THEN time ELSE seen[g]]

Stalled(time) ==
    \E t \in Task :
        LET from == IF SeenAt(time)[group[t]] > since[t] THEN SeenAt(time)[group[t]] ELSE since[t]
        IN  tasks[t].state = "Runnable" /\ since[t] # None /\ time - from > Timeout

WatchedTick(e) ==
    /\ e.kind = "Tick"
    /\ seen' = SeenAt(e.time)
    /\ \/ /\ ~Stalled(e.time)
          /\ TickOffline(e) \/ Tick(e)
       \/ /\ Stalled(e.time)
          /\ Fail(e)
    /\ UNCHANGED <<bwVars, irqVars, since>>

WatchedWake(e) ==
    /\ \/ WakeIgnored(e) /\ UNCHANGED since
       \/ TaskWake(e) /\ Watch(e)
    /\ UNCHANGED <<bwVars, irqVars, seen>>

-----------------------------------------------------------------------------

FullHandle(e) ==
    \/ WatchedWake(e) \/ Postpone(e) \/ EndOfRunFired(e) \/ WatchedTick(e)
    \/ /\ KickPreempt(e) \/ KickDispatch(e) \/ AlreadyThere(e) \/ CpuLeaves(e) \/ CpuReturns(e)
       /\ UNCHANGED <<bwVars, irqVars, watchVars>>
    \/ TimerFired(e) \/ Migrate(e) \/ IrqStart(e) \/ Notify(e)

FullCallback ==
    /\ \/ SelectCpu \/ EnqueueInsert \/ EnqueueHold \/ OpsTick
       \/ DispatchRefused \/ DrainLocal \/ TakeDown
       \/ \E c \in Cpu : \/ DispatchLocal(c) \/ DispatchNothing(c)
                         \/ DispatchMove(c) \/ DispatchHeld(c) \/ GoIdle(c)
    /\ UNCHANGED <<bwVars, irqVars, watchVars>>

FullNext ==
    \/ \E e \in DOMAIN events : FullHandle(e)
    \/ FullCallback \/ PutAside \/ InterleavedTimer
    \/ \E g \in Group : Throttle(g)
    \/ \E c \in Cpu : StashThrottled(c) \/ StartWithin(c)

FullSpec == FullInit /\ [][FullNext]_fullVars

-----------------------------------------------------------------------------
(* Properties *)

Stashed(t) == Cardinality(StashedAt(t, Group))

(* cpu.max loses no task and doubles none: a runnable task is stashed for  *)
(* its cgroup or in one of the engine's places, never both.  (A task the   *)
(* library puts aside is in both: see TaskOnOneCpu.)                       *)
StashConserved ==
    ~failed => \A t \in Task \ PutsAside :
        Places(t) + Stashed(t) = IF tasks[t].state \in {"Runnable", "Running"} THEN 1 ELSE 0

(* A task that computes is never left asleep: whoever made it a sleeper,   *)
(* the replenishment included, has a wake pending for it.                  *)
SleeperWoken ==
    ~failed => \A t \in Task \ PutsAside :
        (tasks[t].state = "Sleeping" /\ PhaseAt(t, tasks[t].pos).kind = "Run")
            => \E e \in DOMAIN events : e.kind = "TaskWake" /\ e.task = t

(* An interrupt gives back what it took, and no more: a run ends when what *)
(* is left of its phase and what interrupts took from it are over.         *)
EndsDespiteIrq ==
    \A c \in Cpu : LET t == cpus[c].current IN
        t \in Task \ PutsAside => \E e \in DOMAIN events :
            /\ e.cpu = c
            /\ e.kind \in {"SliceExpired", "PhaseComplete"}
            /\ e.time + owed[c] <= cpus[c].startedAt + tasks[t].remaining + stolen[c]

=============================================================================
