# TLA+ models of the scx simulator

This directory holds the formal models of the core of this repository: of
`scx-sim`, the deterministic discrete-event simulator for sched_ext schedulers,
and of the two other programs with state worth a model, `repm` (experiments
that can be killed and resumed) and `schtest` (processes that meet in a
semaphore in shared memory). There are TLA+ modules, the TLC configurations that
check them on small instances, and TLAPS proofs. Source paths below are relative
to `scx-sim/crates/scx_simulator/src/` unless they start with a directory of the
repository. `PROJECT.json` lists components, runs, findings, hazards and
theorems, and maps every definition to the lines it models.

## The system

A scenario (tasks with scripted phases, CPUs, events) is run against a real
sched_ext scheduler compiled into the process. The engine plays the kernel: it
keeps the event queue, the tasks, the CPUs and the dispatch queues, and calls the
scheduler's `ops.*` callbacks, which call back into the engine through kfuncs.

| Component | State | Operations | Hard behaviour | What makes it correct |
|---|---|---|---|---|
| Event engine (`safe/engine.rs`, `unsafe_impl/kfuncs.rs`, `safe/{cpu,task}.rs`) | event queue, staged kicks, per-CPU clock / current task / local DSQ, task states, DSQs, pending dispatches | one handler per event kind; `try_dispatch_and_run`, `stop_and_reenqueue`, `start_running`; kfuncs inserting, moving, kicking | events that outlive the run they were made for; CPU clocks ahead of the event clock; handlers split by callbacks the scheduler answers freely; hotplug | no task lost or doubled; none taken off its cpumask by the engine; every run ends; CPU time served as asked; nothing stranded; ticks live on |
| Bandwidth, timers, IRQs, watchdog, futex operations (handlers in `safe/engine.rs`, `unsafe_impl/kfuncs.rs`) | `bw_blocked` stash, throttled cgroups, stolen time, `runnable_at_ns` | timer fired or interleaved into a callback, throttle, stash, replenish, migrate, IRQ start and the ends it postpones | stash against wake, migration and replenishment; stolen time credited to stale events | no stashed task lost, every replenished sleeper woken, interrupts give back what they took |
| cgroups (`safe/cgroup.rs`, `unsafe_impl/cgroup_*.rs`, handlers in `safe/engine.rs`) | registry, names, C-side ancestors, CSS lists, the scheduler's own cgroups | create, destroy, cpuset change, migrate, walk, exit in order | pointers kept in four places; names given again; failing `cgroup_init` | no pointer outlives its cgroup |
| Engine ring (`unsafe_impl/engine_ring.rs`, `safe/atomic_types.rs`) | futex words of workers and engine, yielded worker and reason, finished mask | `yield_to_engine`, `finish_worker`, `start_first_worker`, `engine_loop`, `reset` | threads, futexes, spurious wake-ups | one token; no lost wake-up; the engine decides on one yield; rounds end |
| Worker pool (`unsafe_impl/worker_pool.rs`) | command, completion and description per worker | `dispatch_round`, `batch_round`, `wake_workers`, `wait_workers_complete`, `shutdown`, `Drop` | threads, futexes, two sleepers on one word, shutdown during a round | descriptions never shared; each round once per worker; calls return |
| PMU preemption (`unsafe_impl/preempt/`, `with_sim` of `unsafe_impl/kfuncs.rs`) | inhibit count, timer, queued signal, simulator mutex, identity in the state | cooperative yield, signal handler, `with_sim`, end of a callback | a signal at any instruction, also with the mutex held or while parked | nobody sleeps with the mutex; one token; kfuncs see their own CPU |
| Dispatch queue (`safe/dsq.rs`, `Vtime` in `safe/types.rs`) | mode, FIFO entries, tree of virtual times | `insert_fifo`, `insert_vtime`, `pop_first_matching`, `remove_pid` | wrapping, non-transitive order in a `BTreeMap`; `assert!`/`unwrap` | order kept across wrap; no panic |
| layered's CPUs (`safe/layered_control.rs`, `scx-sim/schedulers/layered/wrapper.c`) | CPUs of each layer, growth denial, gate of migrations | static split; the control loop every period | targets that depend on what they change; masks that are the input of the next iteration | layers own their CPUs; the loop survives its own masks and comes to rest |
| `repm run` (`repm/src/commands/run.rs`) | experiment directory: provenance, snapshot, CSVs, markers | choose or make a directory, seal it, measure the matrix, resume | kills between any two steps, failures, edits between runs | a marker vouches for final data of one config |
| `schtest` (`schtest/rust/src/workloads/`) | semaphores in shared memory, shared iteration counts | semaphore calls, `Context::run`, fork, death of a child | processes, futexes, time-outs, death at any point | rounds done once; no lost wake-up; the context returns or reports |
| Loading and FFI, parsing, topology, tracing, statistics, calibration, build tools, scripts | configuration, output | glue and I/O | - | not state machines |
| C schedulers | - | the programs under test | - | environment of the engine |

The engine calls the scheduler synchronously, one callback at a time; it owns
the DSQs and uses only their four operations. The cgroup handlers change what
the timers' callbacks and the bandwidth stash look at. The userspace control
event of the engine runs layered's control loop.

Worker pool, ring and preemption are the infrastructure for running callbacks on
several threads of which one executes at a time: the pool starts a round on its
workers, each worker waits for the ring's token, and a PMU signal makes its
holder give it back early. They share no state with each other beyond the worker
index and the token. All three are dormant at this commit: the event loop is
sequential, `unsafe_impl/mod.rs:33-66` keeps the ring and the pool for a later
parallel backend, the callers of the preemption backends are "temporarily
removed" (`unsafe_impl/backend/mod.rs:28`), and no run of the simulator starts a
worker. They are modelled because the code is kept and has its own tests, and
because it is what that backend will rest on. What is checked is what they
promise a caller who keeps to their comments.

## Modules

| Module | Role |
|---|---|
| `Engine`, `EngineProofs` | the event engine; environment: the scheduler, as nondeterministic answers; theorems |
| `EngineFull`, `EngineFullProofs` | the engine with timers, bandwidth, migration, IRQs, watchdog and the rest of its events; extends `Engine`; theorems |
| `Machine` | abstract: what a simulated machine promises; `EngineProofs` proves it |
| `EngineRing`, `MinClock` | the ring, one step per atomic operation; the choice by smallest clock |
| `TokenPassing` | abstract: one token |
| `EngineRingProofs` | theorems about `EngineRing` |
| `WorkerPool` | the pool, one step per atomic operation |
| `ParallelRounds` | abstract: rounds that run exactly once per worker |
| `WorkerPoolProofs` | theorems about `WorkerPool` |
| `Preempt`, `PreemptProofs` | signals against kfuncs on top of the token; theorems |
| `Dsq` | one dispatch queue |
| `VtimeQueue` | abstract: a queue served by unwrapped virtual time |
| `Cgroups` | the registry and everything that points into it |
| `LayeredControl` | the CPUs of layered's layers |
| `UnitsProofs` | theorems about `Dsq`, `LayeredControl` and `Cgroups` |
| `Experiment`, `ExperimentProofs` | `repm run` with kills; what a marker and a snapshot vouch for, proved |
| `Semaphore`, `Process`, `ProcessProofs` | schtest's semaphore; the context and its children, which call it; theorems |
| `MC*` | instances for TLC (`WorkerPool` needs none); `MCUnits` puts `Dsq`, `Cgroups` and `LayeredControl` side by side, since they do not interact |

Operators commented "Mutant:" are plausible bugs of the definition that follows
them; no action uses them. Each property has been seen to fail with the mutant
in the place of that definition (`PROJECT.json`, "mutants").

### Engine

`clock`, `events`, `staged` are `sim.clock`, the event queue and
`staged_events`; `tasks`, `cpus`, `dsqs` are `SimTask`, `SimCpu` and the global
and one user DSQ. A handler runs to the end before the next event, but stops
at every callback. `calls` is the rest of the running handler: an action pops an
event (`Take`) and does the part of its handler before the first callback, or
takes the head of `calls` - the scheduler's answer and what the engine does with it.

| Code | Actions |
|---|---|
| `handle_task_wake` | `WakeIgnored`, `TaskWake`, then `SelectCpu`, `EnqueueInsert`/`EnqueueHold` |
| `handle_slice_expired`, `handle_task_phase_complete` | `EndIgnored`, `SliceExpired`, `PhaseComplete` |
| `stop_and_reenqueue`, `preempt_current` | `StopAndReenqueue`, `PreemptCurrent`, then a `requeue` call |
| `try_dispatch_and_run`, `post_dispatch_run` | `DispatchRefused`, `DispatchLocal/Nothing/Move/Held`, then `StartRunning`/`GoIdle` |
| `handle_tick` | `TickOffline`, `Tick`, `OpsTick` |
| `handle_kick_delivered` | `KickPreempt`, `KickDispatch` |
| `handle_cpu_offline/release/online/acquire` | `AlreadyThere`, `CpuLeaves`, `DrainLocal`, `TakeDown`, `CpuReturns` |

What the model abstracts, or assumes of the environment:

- the scheduler inserts at most one task in a callback; it kicks only from
  `ops.enqueue` and `ops.tick`, at most once in a callback; it never inserts a
  task it does not hold. `ops.yield` exists and returns true.
- `ops.select_cpu` answers a CPU of `Chosen[t]`, and `ops.dispatch` inserts a
  task it holds into the local DSQ of the CPU that asks only if that CPU is in
  `Chosen[t]`. The cpumask `Allowed[t]` plays no part in either, as in the code:
  the answer is only clamped to the number of CPUs (`safe/engine.rs:4186`) and
  `SCX_DSQ_LOCAL` is pushed unchecked (`unsafe_impl/kfuncs.rs:913`).
- every task may migrate: the other reason to refuse a LOCAL_ON insertion, a
  `TaskDef` with `migration_disabled` (`unsafe_impl/kfuncs.rs:1029`), is left out.
- `ignore_bpf_errors` is off: a `bpf_error` ends the run.
- the context-switch cost is a constant `Csw`, the IPI delay a constant `Ipi`;
  callback costs, tick jitter and noise are zero.
- the order of one user DSQ is FIFO (`Dsq` models the ordered kind).
- repeat modes are unrolled into `Phases`; time is cut at `Duration`.
- events of equal time are popped in any order (the code's tiebreaker is random).
- `DsqConsume` and `StartRunning` events have handlers, but nothing in the code
  pushes them; they are not in the model.
- every task may run on some CPU; the scenario's events are the hotplug kinds
  (wake-ups come from phases, starts and `advance_to_run_phase`).
- `unserved` is a history variable: the CPU time the phases begun so far still
  ask for. Properties read it, no guard does.

### EngineFull

| Code | Actions |
|---|---|
| the bandwidth gate in `try_dispatch_and_run`, the budget cap of a slice | `StashThrottled`, `ForgetThrottled`, `StartWithin` |
| `scxsim_cgroup_bw_observe_put_aside` | `PutAside` |
| the library throttling a cgroup (environment) | `Throttle` |
| `handle_timer_fired` with the wake-ups of a replenishment | `TimerFired` |
| `begin_interleaved_timer`, `end_interleaved_timer` | `InterleavedTimer` |
| `handle_cgroup_migrate` | `MigrateDequeue`, `Migrate` |
| `handle_irq_start` and the ends it postpones | `IrqStart`, `Postpone`, `EndOfRunFired` |
| `check_watchdog` | `WatchedTick`, `WatchedWake` |
| `handle_futex_op`, task rename, `userspace_control` | `Notify` |

`MigrateDequeue` takes the task from one DSQ and from the local DSQ of the
CPU with the smallest number that has it, the first occurrence of each, which
matters for a task that is queued twice. The cgroup_bw library runs inside the
scheduler: which cgroups it throttles,
what it answers for a budget and when it replenishes are choices. `stolen`, the
time interrupts took from the run under way, is a history variable.

### EngineRing

Every atomic load, store, swap and futex call is a step; `pc` and `epc` are
the places of the worker threads and of the engine. A futex wait is the
comparison in the kernel and then sleep; a sleeper is woken by `futex_wake` or
spuriously. All operations are SeqCst in the code, so the interleaving model
is exact. Reset happens, as its safety comment demands, after the workers have
returned. The decision callback is `pick_by_min_clock`.

### WorkerPool

Likewise one step per atomic operation. A description is the number of the
round it was written for, and `ran` is the log of the descriptions each worker
has executed (a history). `CloseMidRound` allows the owner to drop the pool
between `wake_workers` and `wait_workers_complete`, as unwinding does.

`wait_idle` alone keeps rounds apart: a model without the reset of the
completion word to Pending still implements `ParallelRounds`, since the owner
waits for Idle after Done. The reset only makes it sleep on the right word.

### Preempt

A worker runs one callback: C code that calls kfuncs, each a cooperative yield,
the body under the mutex (`with_sim`) and a second yield. `Overflow` queues a
signal while the timer runs; `Deliver` starts the handler on top of whatever the
thread is doing, `pc` being where the code below stands and `hpc` the
handler. The ring is abstract, as `EngineRing` implements it: `token` says whose
turn it is, and the engine's choice is free. Recording mode only.

The driver of a round - what waits for the token, enters the simulator, has the
backend armed and disarmed around the callback and hands the token back - is not
in the repository any more. `Enter` and `Finish` stand for it and are
environment, in the order that the trait's comments in
`unsafe_impl/backend/mod.rs` ask for. `Finish` assumes that a signal queued
before the counter was disabled has been delivered by then: nothing in the code
protects the time after the hand-over. The properties of `preempt` rest on it.

### Dsq

A virtual time is taken modulo `2 * Half`; `Greater` is the sign of the wrapped
difference. The order is not transitive over the whole range, so the tree's
search is modelled (one node, as every tree of up to eleven entries is), and a
key in it may fail to be found. The scheduler keeps queued virtual times within
`Window`. `reply` is the value of the last pop, which makes wrong orders
visible in `VtimeQueue`. `arrived` is a history: the queued tasks in the order
of their arrival with the virtual times they would have without wrapping, which
is what `VtimeQueue`'s `waiting` stands for.

### Cgroups

One action per handler (`Create`/`Exhausted`, `Destroy`, `ChangeCpuset`,
`Migrate`), `Walk` for a timer callback that iterates over the CSS lists, and
the end of a run (`Finish`, `ExitLast`, `Drop`). `entries` counts what LAVD's
wrapper counts, an entry per `cgroup_init` and one back per `cgroup_exit`.

A scenario destroys a cgroup with neither children nor tasks (`Removable`). The
code does not check that; the scenario's documentation asks for it
(`safe/scenario.rs`). The initial cgroups lie under the root; the contents of
cpusets are left out. `Interleaves` says whether timers also fire inside other
callbacks. It is FALSE, the simulator's default; with TRUE, TLC refutes
`NoDangling` (see the observations below).

### LayeredControl

`LayersInit` is the static split of `ops.init`, `Control` one iteration of the
loop, whose four parts (target, demand, cores, masks) are operators. A layer
without a `util_range` - most open ones have none - has `high` = 0. The
allocator and the order of growth are upstream code in submodules that are not
part of this repository: `UnifiedAlloc` and `CoreOrder` state what the
code here relies on. The loads are measured by the environment; they start at
zero, as the averages do, and change at most `MaxChanges` times. Explicit CPU
sets of a layer and the migration rates (a pure function of the same inputs)
are left out. `stage` names the assertion that failed, if one did.

### Experiment

One step per file operation of `repm run` that a kill can separate; a file
written in place is `Torn` in between. The user starts one run at a time and
edits the config, rebuilds schedulers or makes the rt-app config between runs.
A cell whose measurement succeeds may leave nothing to collect: its CSV has a
placeholder row, or the header alone, which the model has as an empty set of
measurements, and it is marked like any other. A measurement is what was configured, built and loaded when it was made, and the
data of a cell is a set of measurements. Binaries of distinct schedulers have
distinct names; writing the empty marker succeeds.

### Semaphore and Process

A semaphore call is a record of the place in its loop and the word it read; each
atomic operation and futex call is a step, a weak exchange may fail for no
reason, a wait may be interrupted and a timed one may time out. `Process` adds
the parent, which forks children, starts rounds and polls, and two workloads
(`Workloads`: any number of independent children, or a ping-pong of two). Its
threads and semaphores instantiate those of `Semaphore` (`ThreadsAssumption`).
Children die anywhere. The `running` flag, which no workload reads, is left out.

## Runs

| Run | Question | Bounds | Distinct states |
|---|---|---|---|
| `engine_queues` | are tasks conserved and served through all queues? Does the engine keep them on their CPUs? Refines `Machine` | 3 tasks (sleep, yield, wake and park; two pinned, one of them to a CPU the scheduler does not keep to), 2 CPUs, 7 instants, slices 2 and 3 | 517,303 |
| `engine_churn` | do tasks, ticks, kicks and clocks survive hotplug and class preemption? | 2 tasks, CPU 1 offline, online, released, acquired within 3 instants; `Ipi` = `Csw` = 1; ticks and kicks preempt | 241,755 |
| `engine_full` | does the stash keep its tasks, do interrupts give back what they took? | 2 tasks, 2 cgroups of which one limited, one timer, IRQ, migration, futex, rename and control event, timers also inside callbacks | 932,174 |
| `engine_ring` | one token, no lost wake-up, decisions on one yield, rounds end; refines `TokenPassing` | 2 workers, 2 rounds, 2 yields each | 522,559 |
| `worker_pool` | descriptions unshared, calls return; refines `ParallelRounds` | 2 workers, 3 rounds | 82,314 |
| `preempt` | who sleeps with the mutex, with whose identity, and does the round end? | 3 workers, 2 of them with a timer, a kfunc each | 405,306 |
| `units` | queue order over the wrap and no panic (refines `VtimeQueue`); no dangling cgroup; layers own their CPUs and settle | 3 tasks, 3-bit virtual time, 5 ordered insertions; 3 cgroups at a time of 5, 2 names; 8 CPUs, 9 layer tables, 2 changes of load among 5 | 47,661 |
| `experiment` | what do markers and snapshots vouch for, does re-running come to an end? | 3 modes, 2 versions, a kill, a failure, an edit | 493,820 |
| `schtest` | rounds delivered, wake-ups arrive, the context returns | 2 children, 2 rounds, 1 death, both workloads | 63,104 |
| `engine_twice`, `engine_offline`, `experiment_markers` | counterexamples to statements of the comments and tests (below) | as above, smaller | - |

Why the bounds are enough for the cases of interest: two CPUs and three tasks
let a remote CPU be idle or busy, a queue hold two tasks, and a stale event meet
another task; slices equal to, below and above a phase occur; the hotplug events
fall together, before and after ticks. In `engine_full` the period is shorter
than the run, so a task is throttled, stashed and replenished while the
interrupt, the migration and an interleaved timer fall anywhere around it. Two
rounds reach every leftover of the round before; two yields let a worker be both
woken again and overtaken. In `preempt` one worker can be hit by a signal in a
place of its own while another holds the mutex and a third cannot be preempted.
The virtual times handed out (0 to 10, modulo 8) cross the wrap; five ids for
three places make the registry full and names be given again. Two nodes of two
LLCs of one core of two threads make each restriction matter, and
two changes of load shrink and regrow layers. One kill, one failure and one edit
meet in every order (the safety properties are proved for any number), and two
versions let a run refuse to resume.

The runs of the engine end, so they do not check for deadlock: past `Duration`
nothing is popped. `units` and `experiment` stop at their bounds as well. The
ring, the pool, the preemption and schtest are checked for deadlock, with an
explicit final step where they may end.

Fairness:

- `EngineRing`, `WorkerPool`, `Preempt`: weak fairness of each thread's own next
  step - the operating system keeps scheduling runnable threads, and a `round_fn`
  returns - and of the engine's dispatch. A spurious wake-up, a signal, the
  caller's next round or shutdown are never owed.
- `Process`: weak fairness of parent and children outside and inside their
  semaphore calls; strong fairness of the weak exchanges (`Swap`, `Mark`), which
  may fail spuriously but not for ever, and of the parent's time-out, since a
  timed wait that is repeated does expire.
- `LayeredControl`: weak fairness of `Control`; the engine pushes the next
  control event in its handler.
- `Experiment`: weak fairness of a run's own steps; strong fairness of the user
  resuming the newest experiment and making the rt-app config, without which
  `MatrixCompletes` could not hold of anything.
- The engine is sequential and its properties are safety.

## Where code and documents disagree

1. `engine_twice`. A task that `ops.enqueue` puts aside is in the queue of the
   cgroup_bw library and in `bw_blocked`. "V2 does NOT push redundant TaskWake
   events on replenish", but `handle_timer_fired` wakes every stashed task of a
   replenished cgroup while the library inserts it again: two CPUs run it.
2. `engine_offline`. "an offlined CPU runs no tasks": `handle_cpu_offline`
   preempts while the CPU is still online, and the re-dispatch can restart a
   task. Nothing *starts* there later (`OfflineIsIdle`, a theorem).
3. `experiment_markers`. "An empty CSV or a CSV with only a placeholder row
   does NOT get a .done marker. Only successful data collection does": a cell
   whose rt-app writes no log counts as a success, gets the placeholder row and its marker,
   and no later run measures it. `MatrixCompletes` therefore only says that every
   cell is marked in the end, with or without a measurement.

### Observations without a run

Met while modelling; the models contain the behaviour where it says so.

Engine:

- `Served` is a property of runs without preemption. End events are not
  cancelled: after a preemption the old one ends a later run on that CPU,
  `handle_slice_expired` charges it a whole slice, `handle_task_phase_complete`
  completes its phase. `NoOverrun` and `EndPending` hold all the same
  (`engine_churn`).
- after `ops.select_cpu` inserts into a DSQ that no CPU owns,
  `resolve_pending_dispatch` returns no CPU and `ops.enqueue` is asked to queue
  the task again; a task inserted by both is queued twice. The instances keep
  `SelectDsq` local.
- the cpumask is not held against the answer of `ops.select_cpu`, nor against an
  insertion into `SCX_DSQ_LOCAL`: with a scheduler that answers carelessly a task
  starts off its cpumask, and `safe/engine.rs` notices nothing
  (`safe/engine.rs:4186`, `unsafe_impl/kfuncs.rs:913`). The tests of
  `tests/cpu_affinity.rs` rely on the schedulers. `NoneStrays` says what the
  engine keeps by itself: from whatever queue, by whatever requeue, move or drain,
  a task runs off its mask only where the scheduler chose to put it. One task of
  `engine_queues` is put off its mask that way.
- kicks of a callback whose handler does not flush them stay staged and are
  delivered by a later handler (`unsafe_impl/kfuncs.rs:3030`).
- a CPU released and acquired within a tick interval has two chains of ticks from
  then on (`safe/engine.rs:3465`).
- a wake-up begins a phase of which nothing remains again
  (`safe/engine.rs:5651`), so a task that is stashed when nothing of its phase
  remains runs the phase twice (`NoOverrun` is not checked in `engine_full`).
- the observer of the library's re-enqueue, which is to drain `bw_blocked`, is
  called with cgroup 0 and drains nothing
  (`scx-sim/schedulers/lavd/wrapper.c:487`, `unsafe_impl/kfuncs.rs:1768`); it
  has no action.
- a task stashed in `bw_blocked` is Runnable and in no DSQ: a migration dequeues
  nothing and enqueues it (`safe/engine.rs:3653`), and the replenishment wakes it
  as well. `StashKeepsTasks` excludes it by hypothesis.
- the watchdog never sees a task that was preempted and waits
  (`safe/engine.rs:4065`): only wake-ups set `runnable_at_ns`.
- `end_interleaved_timer` does not wake the tasks of a replenished cgroup as
  `handle_timer_fired` does (`unsafe_impl/kfuncs.rs:2004`); a later timer does.

Worker pool: a pool dropped in the middle of a round stores Shutdown in a word
that the worker is about to set to Idle, and the join waits for ever
(`unsafe_impl/worker_pool.rs:532`). Rounds are not closed early in the run.

cgroups:

- with interleaved timers, a cgroup can be destroyed by a handler whose callback
  is then interrupted by a timer that walks the lists prepared before
  (`safe/engine.rs:3829`, `unsafe_impl/kfuncs.rs:1955`); `NoDangling` fails with
  `Interleaves = TRUE`.
- a cpuset change calls `cgroup_init` once more and no `cgroup_exit`: a scheduler
  that counts entries leaks one each time (`safe/engine.rs:3882`).
- a cgroup whose `cgroup_init` failed is still exited at the end of the run; a
  name given again hides the older cgroup; destruction of a cgroup with children
  or tasks is refused by no check.

repm: a cell that fails for a missing rt-app config leaves its scheduler loaded
(`repm/src/commands/run.rs:1000`); a kill between provenance and snapshot, and an
edit before the resumption, give a directory whose snapshot is not the
provenance's (`SnapshotSeals` says what holds where they agree); logs of a failed
attempt are merged
into the next; binaries are compared by size only.

schtest: `Context::wait` polls its processes in order, and a ping-pong child
whose partner has died blocks without a time-out, so the wait never ends
(`schtest/rust/src/workloads/context.rs:95`). `ContextEnds` is stated for
workloads whose children do not wait for each other.

layered: "an open layer does NOT hold a CPU some other layer was allocated"
(`scx-sim/schedulers/layered/wrapper.c:2492`), but in the static split only a
restricted layer skips CPUs that are taken, and what it skips does not move the
cursor for the layers after it (`wrapper.c:2572`); the first iteration of the loop
replaces the masks. It can also give two confined layers the same CPU or a share
that splits a core, on which that iteration panics ("overlapping non-open CPU
allocation is unsupported", "layer allocation split SMT core"): the sixth and the
seventh table of `units` do so. `NeverPanics` says the loop's own masks never do,
if no layer has LLCs beside its nodes (`LlcsOnNodes`). One that has can be given
an LLC that `core_order` never offers it; it keeps that LLC's cores for ever, and
an unrestricted layer can then hit "allocator target exceeds available cores"
(`layered_control.rs:640`): in the ninth table the loop gets there from masks of
its own. A layer whose only load is on open CPUs asks for a CPU while it has none
and needs none once it has one: without SMT it goes back and forth for ever, the
reason for `Torn` in `LayersSettle`.

## Proofs

What each module below proves holds for every value of the constants its
assumptions allow.

`EngineRingProofs`, for any workers, yields, rounds and clocks, from
`EngineRingAssumption` and `MinClock`'s assumption:

- `TypeCorrect`: `TypeOK` is inductive.
- `OwnershipInvariant`: control is with at most one of the workers and the
  engine. `TokenExclusive` is not inductive - between two holders the token is in
  a futex word - so `Ownership` counts a worker whose word says Running and an
  `engine_wake` that says Woken as owners, and ties the words to the places of
  the threads. `Exclusive` follows.
- `WakeupsArrive`: `NoLostWakeup` is inductive with `TypeOK`.
- `DecisionsFresh`: `Publication` follows the two words from the yield to the
  decision; with `Ownership` it is inductive and gives `DecisionMatchesYield`.
- `RingImplementsToken`: the refinement mapping reads the holder off the places
  of the threads and the words between them. It needs `Grants`, that a worker
  whose word says Running is still the one `pick_by_min_clock` picks until it
  takes its grant; then each atomic operation is a step of `TokenPassing` or a
  stutter.

`WorkerPoolProofs`, for any number of workers and rounds and either value of
`CloseMidRound`, from `WorkerPoolAssumption`: `PoolInv` says which workers are
at rest at each place of the owner's loops, that a busy worker's command is not
Idle, and that nobody exits before the pool closes. It is inductive;
`PoolTypeCorrect` and `DescNeverShared` follow. `PoolImplementsRounds` adds
`OnceInv`, which says of each round how often each worker has executed its
description, given how far the worker and the owner have come. It assumes
`~CloseMidRound`: an owner that unwinds in the middle of a round leaves workers
that execute after the call is over, and the refinement is indeed false then.

`PreemptProofs`, for any workers and number of kfuncs: `WorkerInv` says of each
worker what its control point implies - the inhibit count, the mutex, the token,
its identity in the state - and where a handler that has decided to yield can
be. None of the four properties is inductive alone: that no thread sleeps with
the mutex needs the count to be above zero at every place that holds it, and
that no signal reaches a thread that has handed over. `RollsAreFixed`: what a
worker has drawn follows from its own control point and yields.

`UnitsProofs`, three components that share nothing but the module:

- `Dsq`, for any number of tasks and insertions and any `Half`, `Window` with
  `Window < Half`: `DsqInv` says that the queue is of one kind, that the entries
  lie in the order the wrapped comparison gives, and that they are, with their
  unwrapped times, those of `arrived` (`DsqHoldsArrived`). Two times that differ by less than
  `Half` compare wrapped as they do unwrapped, so that within the window the order
  is the one of the integers, the search meets the place it looks for, and
  neither `panic` of the code is reached (`DsqNoPanic`). `DsqImplementsQueue`
  follows: a pop takes what `VtimeQueue` would.
- `LayeredControl`, for any topology, layers and utilisations:
  `LayersInv` says that the table has a mask and a list of cores for each
  layer, that a layer holds only CPUs it is allowed (`Allowance`), and `OwnCpus`. The loop
  visits the layers in a recursion; what holds of every stage of it is shown by a
  least counterexample, for lack of induction. `LayersOwnCpus` is the property;
  `ControlledMasks` says that the masks an iteration has computed never overlap and
  never split a core, two of the three assertions of `NeverPanics`.
- `Cgroups`, for any names, tasks and cgroups, with `~Interleaves`:
  `NothingDangles`.

For the last, the strengthening says that every name stands for a registered
cgroup of its own, that ids are fresh, that the scheduler knows every cgroup of
a run that goes on, and that the list of one that ends misses none it knows. The
last two are what makes "exited before freed" inductive.

`ExperimentProofs`, for any matrix, versions and any number of kills, failures
and edits: `DirInv` says what a directory vouches for and `RunInv` ties what a
run found when it opened the directory to what it measures there; together they
are inductive. `MarkersVouch` and `MarkedIsFinal` follow; `SealKept` assumes
that builds that differ differ in size, for that is all the code compares.

`ProcessProofs`, for any number of processes, rounds, deaths and values of the
semaphores' maxima that the context uses:

- `SemaphoreStep`, a lemma about `Semaphore` alone: a step of a call takes or
  gives one token, within the bounds, or moves none. `SemaphoresBounded` follows.
- `RoundsAreDelivered`: `Handshake` says of each child where its start token and
  its ready token are - not given, in the semaphore, taken - for each pair of
  places of parent and child, and how many rounds it has then served. With the
  types and `SemInv` it is inductive.
- `WakeUpsCome`: `WakeComes` is inductive with it. A waker wakes one sleeper
  and clears the bit for all, so the proof needs that no third thread uses a
  semaphore (`TwoUsers`): it holds of the context, not of the semaphore. It is
  stated for contexts none of whose children has died, as the property is.

`EngineProofs`, from `EngineAssumption`, for any number of tasks and CPUs, any
phases, times, context-switch costs, IPI delays and hotplug events, and every
scheduler that answers as the constants allow. Six inductive invariants, each
using some of those before it:

1. `Basic` has the types and the shape of `calls`, the rest of the running
   handler: a call that ends a handler is its last, a requeue is followed by the
   dispatch of its CPU, a drain leads to the CPU's end, a tick concerns the task
   that is on the CPU, a pick a CPU that is online and idle. The types alone are
   not inductive: an answer applied to a CPU that another callback of the same
   handler has changed would break them. `EngineTypes` is its consequence, and
   from `Basic` follow `OfflineIsIdle`, `TicksGoOn` and, with `RunsBegun`
   (no run starts after its CPU's clock), `ClocksGoOn`.
2. `Attended`: a CPU that is online, idle and has a waiting task has a kick in the
   queue or among the staged ones, or a dispatch in `calls`. `NotStranded` is
   only about the states between handlers; `NobodyStranded` follows.
3. `Accounted`: each task is in as many places as its state says, counting the
   call that holds it in its hand, and is Running just when a CPU has it. A run
   that has failed may lose a task but not double it. It gives
   `TasksConserved` and `OneCpuATask`.
4. `Timely`: the clock of a busy CPU is within the run, which lasts until the
   slice or the phase is over (`EndBy`), and an end event of that CPU is pending
   by then; a sleeper has its whole next phase before it; who is queued or runs
   has a slice; a task has at least as much to get as remains of its phase. It
   needs `Accounted`: that the task a stop takes off a CPU is on no other. It
   gives `EndsArePending` and `NobodyOverruns`.
5. `Exact`: each end event in the queue is the one of the run under way on its
   CPU (`OwnEnd`, as computed from the start of the run) and is there once, and
   what a task has not had is what remains of its phase. It holds when the
   constants are `Undisturbed`: no hotplug, no preempting kick and no preemption
   by `ops.tick`, the condition under which `RunsAreServed` proves `Served` (the
   first observation above is why it is needed; `engine_queues` is such an
   instance). `Served` alone is not inductive: with a stale or a doubled end
   event a run would be charged a slice it did not take. Slices, placements,
   queues, sleeps and wake-ups are as free as before.
6. `OnAllowed`: CPUs, local queues and the calls that lead to them hold tasks
   only where their cpumask allows or the scheduler chose. It gives
   `AffinityKept`, that is `NoneStrays`: where the scheduler's choices respect the
   cpumasks, no task ever runs off its own.

From `Basic` and `Accounted` follows `EngineImplementsMachine`: a handler's action
is one step of `Machine` or none.

`Accounted` and what rests on it assume `SelectsLocal`: `ops.select_cpu` inserts
into local DSQs only. That is a condition on schedulers which the code does not
check (second observation above); without it TLC finds a task queued twice in
five steps of `engine_queues`.

Events are kept in a bag. The library has no theorems on bags, so the module
begins with those it needs (`BagPlus`, `BagCount`, `BagLeft`, ...), on the domain
of a bag and on how often a member is in it; then come lemmas on the helpers (`Advance`,
`Resched`, `Flush`, dispatch and drain), on counting occurrences in a queue, and
one per action and invariant.

`EngineFullProofs`, from `FullAssumption`, for any cgroups, budgets, periods and
events. `FullCases` tells the steps of `Engine`, to which the lemmas above apply,
from those that stash, put aside, replenish, migrate, interrupt or watch:

1. `FullBasic`: `Basic` and the types of what is new. `FullTypes` is its
   consequence. A timer that fires inside a callback advances a clock between an
   answer and its use, and a watchdog may stop a tick half-way; neither breaks the
   shape of `calls`.
2. `Woken`: a task that sleeps before a phase in which it computes has a wake
   pending. It holds of failed runs too and of the tasks the library puts aside,
   which `SleeperWoken` leaves out; `NobodySleepsOn` needs no hypothesis about the
   scheduler. The hard steps are those that take an event out of the queue, for it
   may be the last wake of its task, and the replenishment, which makes sleepers.
3. `Booked`: what `Counted` says of a task in `Engine`, with as many copies
   elsewhere as it has in the stash. That is why the lemmas of `EngineProofs` are
   about `n` copies and not about none: `CountedStep` is used twice, with `n` = 0
   and with `n` = `Stashed(t)`. What is new is that a stash moves a copy, and
   that a replenishment takes a task that has one and makes it a sleeper that has
   none - so that it was stashed once, and nowhere else. `StashKeepsTasks` proves
   `StashConserved`; `OthersOnOneCpu` says that a task that is not put aside is
   never on two CPUs.

The last two assume, besides `SelectsLocal`, `MovesAside`: a task the gate
stashes is not migrated. `cgroup_migrate_dequeue` looks for the task in the DSQs
only, so a stashed task would be queued again (see the observations). The
instance migrates the task that is put aside.

Only model-checked:

- liveness (`RoundsEnd`, `RoundsReturn`, `ShutdownReturns`, `RoundEnds`,
  `MatrixCompletes`, `ContextEnds`, `LayersSettle`): with `ENABLED` out of the prover's reach.
- `EndsDespiteIrq` of `EngineFull`: an interleaved timer moves the clock of its
  CPU, at times past the end of a run that is on it, so `Timely`, which bounds
  clocks by ends, is not inductive there. Its run has neither preemption nor
  hotplug, so that stolen time meets no stale end event. `NoneStrays` is neither
  checked nor proved of `EngineFull`.
- the third assertion of `NeverPanics`, "allocator target exceeds available
  cores": it rests on sums over the nodes of what the allocator hands out, and on
  the precondition of `NeverPanics` (see the observations).

## Plan

1. Core: ring, pool, engine, dispatch queue; ring and pool proofs (done).
2. Extend: the engine's other events, preemption, cgroups, layered control, repm
   and schtest, with the proofs that came with them (done).
3. Prove: the safety of `Engine`, the bounds and the accounts of its runs and its refinement, the
   refinements of the ring and the pool, `RollsFixed`, rounds and wake-ups of schtest (done).
4. Prove: the comparison of `Dsq` within a window and its refinement; `OwnCpus` (done);
   types, wakes and places of `EngineFull` (done); the ends of its runs (left).

## Not modelled

- Upstream policy files of layered and the BPF sources of the schedulers: in
  submodules that are empty here, or C programs under test; environment.
- Parsing of scenarios, workloads and rt-app files: its result is the constants
  of `Engine`. Loading and FFI glue, topology tables, clock modes, the
  deterministic maps: no behaviour of their own.
- Tracing, statistics, probes, the starvation watch: they observe.
- The token ring of `unsafe_impl/interleave.rs`, predecessor of the engine ring:
  compiled, but dormant (`unsafe_impl/mod.rs:39-43`); the simulator never reaches
  it.
- Replay of recorded signals: its handlers follow a recording and have no
  interleaving left to check.
- The cgroup tree crate: generates trees for tests.
- `DsqManager`, a map from ids to queues; lookups of cgroups by pointer.
- The other commands of `repm`, the other cases and helpers of `schtest`,
  calibration and build tools, scripts: files read or written once, or
  measurements of a real machine.

The list with reasons is in `PROJECT.json`.
