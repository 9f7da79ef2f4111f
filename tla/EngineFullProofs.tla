-------------------------- MODULE EngineFullProofs --------------------------
(***************************************************************************)
(* Theorems about the engine with all its events, for any tasks, CPUs,     *)
(* cgroups, budgets and events of the scenario.                            *)
(*                                                                         *)
(* Most steps are steps of the engine that leave the new variables alone:  *)
(* the lemmas of EngineProofs apply to them.  FullCases names the other    *)
(* steps, and each invariant has one step per kind.                        *)
(***************************************************************************)
EXTENDS EngineFull, EngineProofs

(* Every variable the proofs are about has its type.                       *)
FullBasic ==
    /\ Basic
    /\ group \in [Task -> Group]
    /\ throttled \in SUBSET Group
    /\ blocked \in [Group -> Seq(Task)]
    /\ owed \in [Cpu -> Nat]

(* What the proofs know of the constants.                                  *)
LEMMA GroupTypes ==
    /\ Limited \in SUBSET Group
    /\ MoveTo \in [Task -> Group]
    /\ Period \in Nat /\ IrqTime \in Nat
    /\ IsFiniteSet(Group)
    /\ \A g \in Group : Billing[g] # NoGroup => Billing[g] \in Group
BY FullAssumption DEF Limited

(* An event in the queue, and the clock its handler advances.              *)
LEMMA EventIs ==
    ASSUME Basic, NEW e \in DOMAIN events
    PROVE  /\ e \in Event /\ e.cpu \in Cpu /\ e.time \in Nat /\ e.kind \in EventKind
           /\ e.task \in Task \cup {NoTask}
           /\ e.kind = "TaskWake" => e.task \in Task
           /\ e.kind = "Migrate" => e.task \in Task
           /\ Now(e.cpu, e.time) \in Nat
           /\ Advance(e.cpu, e.time) \in [Cpu -> CpuRec]
<1>1. e \in Event /\ (e.kind = "TaskWake" => e.task \in Task)
      /\ (e.kind = "Migrate" => e \in Hotplug)
  BY DEF Basic, NewEvents, IsBagOf
<1>2. e.cpu \in Cpu /\ e.time \in Nat /\ e.kind \in EventKind /\ e.task \in Task \cup {NoTask}
  BY <1>1 DEF Event
<1>3. Now(e.cpu, e.time) \in Nat /\ Advance(e.cpu, e.time) \in [Cpu -> CpuRec]
  BY <1>2, NowTypes
<1> QED
  BY <1>1, <1>2, <1>3, FullAssumption

-----------------------------------------------------------------------------
(* The steps of the full engine.                                           *)

(* The events that are not the plain engine's.                             *)
Extra(e) ==
    \/ (e.kind = "Tick" /\ Fail(e) /\ UNCHANGED <<bwVars, owed>>)
    \/ Postpone(e) \/ TimerFired(e) \/ Migrate(e) \/ IrqStart(e) \/ Notify(e)

(* Every step of the full engine is one of the plain engine's, or one of   *)
(* the others.                                                             *)
LEMMA FullCases ==
    ASSUME FullBasic, FullNext
    PROVE  \/ Next /\ UNCHANGED <<bwVars, owed>>
           \/ \E e \in DOMAIN events : Extra(e)
           \/ \E g \in Group : Throttle(g)
           \/ \E c \in Cpu : StashThrottled(c)
           \/ \E c \in Cpu : \E pick \in Picks(c) : \E slice \in Nat :
                RunFor(c, pick, slice) /\ owed' = [owed EXCEPT ![c] = 0] /\ UNCHANGED bwVars
           \/ PutAside \/ InterleavedTimer
<1>1. CASE \E e \in DOMAIN events : FullHandle(e)
  <2>1. PICK e \in DOMAIN events : FullHandle(e)
    BY <1>1
  <2>2. CASE WatchedWake(e)
    <3>1. HandleEvent(e) /\ UNCHANGED <<bwVars, owed>>
      BY <2>2 DEF WatchedWake, HandleEvent, irqVars
    <3> QED
      BY <3>1 DEF Next
  <2>3. CASE EndOfRunFired(e)
    <3>1. HandleEvent(e) /\ UNCHANGED <<bwVars, owed>>
      BY <2>3 DEF EndOfRunFired, HandleEvent, irqVars
    <3> QED
      BY <3>1 DEF Next
  <2>4. CASE WatchedTick(e)
    <3>1. CASE TickOffline(e) \/ Tick(e)
      <4>1. HandleEvent(e) /\ UNCHANGED <<bwVars, owed>>
        BY <2>4, <3>1 DEF WatchedTick, HandleEvent, irqVars
      <4> QED
        BY <4>1 DEF Next
    <3>2. CASE Fail(e)
      BY <2>4, <3>2 DEF WatchedTick, Extra, irqVars
    <3> QED
      BY <2>4, <3>1, <3>2 DEF WatchedTick
  <2>5. CASE /\ KickPreempt(e) \/ KickDispatch(e) \/ AlreadyThere(e) \/ CpuLeaves(e) \/ CpuReturns(e)
             /\ UNCHANGED <<bwVars, irqVars, watchVars>>
    <3>1. HandleEvent(e) /\ UNCHANGED <<bwVars, owed>>
      BY <2>5 DEF HandleEvent, irqVars
    <3> QED
      BY <3>1 DEF Next
  <2>6. CASE Postpone(e) \/ TimerFired(e) \/ Migrate(e) \/ IrqStart(e) \/ Notify(e)
    BY <2>6 DEF Extra
  <2> QED
    BY <2>1, <2>2, <2>3, <2>4, <2>5, <2>6 DEF FullHandle
<1>2. CASE FullCallback
  <2>1. Next
    BY <1>2 DEF FullCallback, Next, DispatchAndRun
  <2>2. UNCHANGED <<bwVars, owed>>
    BY <1>2 DEF FullCallback, irqVars
  <2> QED
    BY <2>1, <2>2
<1>3. ASSUME NEW c \in Cpu, StartWithin(c)
      PROVE  \/ Next /\ UNCHANGED <<bwVars, owed>>
             \/ \E pick \in Picks(c) : \E slice \in Nat :
                  RunFor(c, pick, slice) /\ owed' = [owed EXCEPT ![c] = 0] /\ UNCHANGED bwVars
  <2>1. PICK pick \in Picks(c) :
          /\ UNCHANGED bwVars
          /\ \/ SkipExited(c, pick) /\ UNCHANGED irqVars
             \/ /\ \/ RunFor(c, pick, tasks[pick.task].slice)
                   \/ \E budget \in Budgets : RunFor(c, pick, Capped(tasks[pick.task].slice, budget))
                /\ owed' = [owed EXCEPT ![c] = 0]
    BY <1>3, Zenon DEF StartWithin
  <2>2. CASE SkipExited(c, pick) /\ UNCHANGED irqVars
    BY <2>1, <2>2 DEF Next, DispatchAndRun, StartRunning, irqVars
  <2>3. tasks[pick.task].slice \in Nat
    BY SliceTypes DEF FullBasic
  <2>4. \A budget \in Budgets : Capped(tasks[pick.task].slice, budget) \in Nat
    BY <2>3, FullAssumption DEF Capped
  <2> QED
    BY <2>1, <2>2, <2>3, <2>4
<1> QED
  BY <1>1, <1>2, <1>3 DEF FullNext

-----------------------------------------------------------------------------
(* Types.                                                                  *)

(* A handler that moves and wakes no task: time passes on a CPU, an event  *)
(* follows, and the run may end.                                           *)
Quiet(e) ==
    /\ \E pushed : NewEvents(pushed) /\ Pop(e, pushed)
    /\ cpus' \in [Cpu -> CpuRec]
    /\ \A k \in Cpu : cpus'[k].current = cpus[k].current /\ cpus'[k].local = cpus[k].local
    /\ KickBag(staged')
    /\ failed' \in {failed, TRUE}
    /\ UNCHANGED <<calls, tasks, dsqs, held, unserved>>

(* Whether an interrupt wakes a task.                                      *)
IrqWakes(e) == e.task # NoTask /\ tasks[e.task].state = "Sleeping"

(* The CPUs, with the clock of the one task t is on advanced.              *)
Touched(time, t) == [c \in Cpu |-> IF cpus[c].current = t THEN Advance(c, time)[c] ELSE cpus[c]]

(* They run and queue what they did.                                       *)
LEMMA TouchedTypes ==
    ASSUME Basic, NEW time \in Nat, NEW t
    PROVE  /\ Touched(time, t) \in [Cpu -> CpuRec]
           /\ \A k \in Cpu : /\ Touched(time, t)[k].current = cpus[k].current
                             /\ Touched(time, t)[k].local = cpus[k].local
<1> DEFINE f(c) == IF cpus[c].current = t THEN Advance(c, time)[c] ELSE cpus[c]
<1>1. ASSUME NEW c \in Cpu
      PROVE  f(c) \in CpuRec /\ f(c).current = cpus[c].current /\ f(c).local = cpus[c].local
  <2>1. /\ Advance(c, time)[c] \in CpuRec /\ Advance(c, time)[c].current = cpus[c].current
        /\ Advance(c, time)[c].local = cpus[c].local
    BY NowTypes
  <2>2. cpus[c] \in CpuRec
    BY DEF Basic
  <2> QED
    BY <2>1, <2>2
<1> HIDE DEF f
<1>2. [c \in Cpu |-> f(c)] \in [Cpu -> CpuRec]
  BY <1>1
<1>3. Touched(time, t) = [c \in Cpu |-> f(c)]
  BY DEF Touched, f
<1> QED
  BY <1>1, <1>2, <1>3

(* The handlers that move and wake no task.                                *)
LEMMA QuietEvent ==
    ASSUME FullBasic, NEW e \in DOMAIN events,
           (e.kind = "Tick" /\ Fail(e)) \/ Postpone(e) \/ Notify(e) \/ (IrqStart(e) /\ ~IrqWakes(e))
    PROVE  Quiet(e) /\ e.kind # "TaskWake"
<1> DEFINE A == Advance(e.cpu, e.time)
           now == Now(e.cpu, e.time)
<1>1. Basic /\ e.cpu \in Cpu /\ e.time \in Nat /\ now \in Nat /\ A \in [Cpu -> CpuRec]
      /\ KickBag(staged) /\ NewEvents(staged) /\ owed[e.cpu] \in Nat
  <2>1. Basic /\ KickBag(staged)
    BY DEF FullBasic, Basic
  <2>2. e.cpu \in Cpu /\ e.time \in Nat /\ now \in Nat /\ A \in [Cpu -> CpuRec]
    BY <2>1, EventIs
  <2> QED
    BY <2>1, <2>2, KickPlus DEF FullBasic
<1>2. \A k \in Cpu : A[k].current = cpus[k].current /\ A[k].local = cpus[k].local
  <2>1. Basic /\ e.cpu \in Cpu /\ e.time \in Nat
    BY <1>1
  <2>2. ASSUME NEW c \in Cpu, NEW time \in Nat, NEW k \in Cpu
        PROVE  /\ Advance(c, time)[k].current = cpus[k].current
               /\ Advance(c, time)[k].local = cpus[k].local
    BY <2>1, NowTypes
  <2> QED
    BY <2>1, <2>2
<1>3. \A n \in Nat : \A kind \in EventKind \ {"TaskWake", "Offline", "Release", "Migrate"} :
         NewEvents(SetToBag({EventAt(n, kind, e.cpu)}))
  <2> SUFFICES ASSUME NEW n \in Nat, NEW kind \in EventKind \ {"TaskWake", "Offline", "Release", "Migrate"}
               PROVE  NewEvents(SetToBag({EventAt(n, kind, e.cpu)}))
    OBVIOUS
  <2> DEFINE f == EventAt(n, kind, e.cpu)
  <2>1. f \in Event /\ f.kind = kind /\ f.flags = {}
    <3>1. e.cpu \in Cpu /\ kind \in EventKind
      BY <1>1
    <3> QED
      BY <3>1, EventTypes
  <2> HIDE DEF f
  <2>2. NewEvents(SetToBag({f}))
    BY <2>1, NewOne
  <2> QED
    BY <2>2 DEF f
<1>4. /\ \A n \in Nat : now + n \in Nat /\ e.time + n \in Nat
      /\ Period \in Nat /\ IrqTime \in Nat
  BY <1>1, GroupTypes
<1>5. KickBag(EmptyBag) /\ NewEvents(EmptyBag)
  BY KickNone, NewNothing
<1> HIDE DEF A, now
<1>6. CASE e.kind = "Tick" /\ Fail(e)
  BY <1>1, <1>2, <1>5, <1>6 DEF Fail, Quiet, A
<1>7. CASE Postpone(e)
  <2> DEFINE b == SetToBag({EventAt(now + owed[e.cpu], e.kind, e.cpu)})
  <2>1. NewEvents(b)
    BY <1>1, <1>3, <1>4, <1>7 DEF Postpone, EventKind
  <2>2. Pop(e, b) /\ failed' = failed /\ cpus' = A /\ UNCHANGED <<staged, calls, tasks, dsqs, held, unserved>>
    BY <1>7 DEF Postpone, Take, A, now
  <2> QED
    BY <1>1, <1>2, <1>7, <2>1, <2>2 DEF Quiet, Postpone
<1>8. CASE Notify(e)
  <2>1. CASE e.kind = "Control"
    <3> DEFINE b == SetToBag({EventAt(e.time + Period, "Control", e.cpu)})
    <3>1. NewEvents(b)
      BY <1>1, <1>3, <1>4 DEF EventKind
    <3>2. Pop(e, b) /\ failed' = failed /\ cpus' = A /\ UNCHANGED <<staged, calls, tasks, dsqs, held, unserved>>
      BY <1>8, <2>1 DEF Notify, Take, A
    <3> QED
      BY <1>1, <1>2, <2>1, <3>1, <3>2 DEF Quiet
  <2>2. CASE e.kind = "Rename"
    <3>1. /\ Pop(e, staged) /\ failed' = failed /\ cpus' = A /\ staged' = EmptyBag
          /\ UNCHANGED <<calls, tasks, dsqs, held, unserved>>
      BY <1>8, <2>2 DEF Notify, Take, A
    <3> QED
      BY <1>1, <1>2, <1>5, <2>2, <3>1 DEF Quiet
  <2>3. CASE e.kind = "IrqEnd"
    <3>1. /\ Pop(e, EmptyBag) /\ failed' = failed /\ cpus' = A
          /\ UNCHANGED <<staged, calls, tasks, dsqs, held, unserved>>
      BY <1>8, <2>3 DEF Notify, Take, A
    <3> QED
      BY <1>1, <1>2, <1>5, <2>3, <3>1 DEF Quiet
  <2>4. CASE e.kind = "Futex"
    <3>1. /\ Pop(e, EmptyBag) /\ failed' = failed /\ e.kind # "TaskWake"
          /\ cpus' = Touched(e.time, e.task)
          /\ UNCHANGED <<staged, calls, tasks, dsqs, held, unserved>>
      BY <1>8, <2>4 DEF Notify, Take, Touched
    <3>2. /\ cpus' \in [Cpu -> CpuRec]
          /\ \A k \in Cpu : cpus'[k].current = cpus[k].current /\ cpus'[k].local = cpus[k].local
      BY <1>1, <3>1, TouchedTypes
    <3> QED
      BY <1>1, <1>5, <2>4, <3>1, <3>2 DEF Quiet
  <2> QED
    BY <1>8, <2>1, <2>2, <2>3, <2>4 DEF Notify
<1>9. CASE IrqStart(e) /\ ~IrqWakes(e)
  <2> DEFINE b == SetToBag({EventAt(now + IrqTime, "IrqEnd", e.cpu)})
  <2>1. NewEvents(b)
    BY <1>1, <1>3, <1>4 DEF EventKind
  <2>2. Pop(e, b) /\ failed' = failed /\ cpus' = A /\ UNCHANGED <<staged, calls, tasks, dsqs, held, unserved>>
    BY <1>9 DEF IrqStart, IrqWakes, Take, A, now
  <2> QED
    BY <1>1, <1>2, <1>9, <2>1, <2>2 DEF Quiet, IrqStart
<1> QED
  BY <1>6, <1>7, <1>8, <1>9

(* They keep the types.                                                    *)
LEMMA QuietBasic ==
    ASSUME Basic, NEW e \in DOMAIN events, Quiet(e)
    PROVE  Basic'
<1>1. PICK pushed : NewEvents(pushed) /\ Pop(e, pushed)
  BY DEF Quiet
<1>2. calls' = <<>>
  BY <1>1 DEF Quiet, Pop
<1>3. Shaped(calls', cpus')
  BY <1>2, ShapedNothing
<1>4. /\ failed' \in BOOLEAN /\ tasks' \in [Task -> TaskRec] /\ held' \in SUBSET Task
      /\ unserved' \in [Task -> Int]
  BY DEF Quiet, Basic
<1> QED
  BY <1>1, <1>3, <1>4, PassBasic DEF Quiet

(* A waking interrupt is the wake of its task, with an end event.          *)
LEMMA IrqWoken ==
    ASSUME FullBasic, NEW e \in DOMAIN events, IrqStart(e), IrqWakes(e)
    PROVE  /\ WokenAs(e, SetToBag({EventAt(Now(e.cpu, e.time) + IrqTime, "IrqEnd", e.cpu)}))
           /\ e.kind # "TaskWake"
<1> DEFINE n == Now(e.cpu, e.time) + IrqTime
           ends == SetToBag({EventAt(n, "IrqEnd", e.cpu)})
<1>1. Basic /\ e.cpu \in Cpu /\ n \in Nat /\ e.task \in Task
  BY EventIs, GroupTypes DEF FullBasic, IrqWakes
<1>2. WakeSleeper(e, e.task, ends) /\ e.kind = "IrqStart"
  BY DEF IrqStart, IrqWakes
<1> HIDE DEF n
<1>3. NewEvents(ends)
  <2> DEFINE f == EventAt(n, "IrqEnd", e.cpu)
  <2>1. "IrqEnd" \in EventKind
    BY DEF EventKind
  <2>2. f \in Event /\ f.kind = "IrqEnd" /\ f.flags = {}
    BY <1>1, <2>1, EventTypes
  <2> HIDE DEF f
  <2>3. NewEvents(SetToBag({f}))
    BY <2>2, NewOne
  <2> QED
    BY <2>3 DEF f
<1> HIDE DEF ends
<1>4. WokenAs(e, ends)
  BY <1>1, <1>2, <1>3, SleeperWoke
<1> QED
  BY <1>2, <1>4 DEF n, ends

(* Where the queues bs of some cgroups hold a task: StashedAt, of any bs.  *)
Stash(bs, groups, t) == UNION {{g} \X Positions(bs[g], t) : g \in groups}

(* A task is stashed finitely often.                                       *)
LEMMA StashFinite ==
    ASSUME NEW bs \in [Group -> Seq(Task)], NEW groups \in SUBSET Group, NEW t
    PROVE  IsFiniteSet(Stash(bs, groups, t)) /\ Cardinality(Stash(bs, groups, t)) \in Nat
<1> DEFINE F == {{g} \X Positions(bs[g], t) : g \in groups}
<1>1. IsFiniteSet(groups)
  BY GroupTypes, FS_Subset
<1>2. IsFiniteSet(F)
  <2> DEFINE f == [g \in groups |-> {g} \X Positions(bs[g], t)]
  <2>1. f \in [groups -> F] /\ \A X \in F : \E g \in groups : f[g] = X
    OBVIOUS
  <2> HIDE DEF f, F
  <2>2. f \in Surjection(groups, F)
    BY <2>1 DEF Surjection
  <2> QED
    BY <1>1, <2>2, FS_Surjection
<1>3. \A X \in F : IsFiniteSet(X)
  <2> SUFFICES ASSUME NEW g \in groups
               PROVE  IsFiniteSet({g} \X Positions(bs[g], t))
    OBVIOUS
  <2>1. IsFiniteSet(Positions(bs[g], t)) /\ IsFiniteSet({g})
    BY PositionsFinite, FS_Singleton
  <2> QED
    BY <2>1, FS_Product
<1> HIDE DEF F
<1>4. IsFiniteSet(UNION F)
  BY <1>2, <1>3, FS_UNION
<1> QED
  BY <1>4, FS_CardinalityType DEF Stash, F

(* Whether a task is stashed for one of some cgroups.                      *)
In(t, groups) == \E g \in groups : t \in Range(blocked[g])

(* A replenishment schedules a wake of every task it finds stashed.        *)
LEMMA ReplenishWakes ==
    ASSUME FullBasic, NEW released \in SUBSET Group, NEW time \in Nat, NEW c \in Cpu
    PROVE  /\ NewEvents(WakesOf(released, time, c))
           /\ \A t \in Task : In(t, released) =>
                 \E f \in DOMAIN WakesOf(released, time, c) : f.kind = "TaskWake" /\ f.task = t
<1> DEFINE drained == UNION {Range(blocked[g]) : g \in released}
           D == {WakeAt(time, t, c) : t \in drained}
           W == WakesOf(released, time, c)
<1>1. blocked \in [Group -> Seq(Task)]
  BY DEF FullBasic
<1>2. \A t \in drained : /\ t \in Task
                         /\ \E g \in released : \E i \in DOMAIN blocked[g] : blocked[g][i] = t
  BY <1>1 DEF Range
<1>3. ASSUME NEW t \in drained
      PROVE  Cardinality(StashedAt(t, released)) \in Nat \ {0}
  <2>1. PICK g \in released : \E i \in DOMAIN blocked[g] : blocked[g][i] = t
    BY <1>2
  <2>2. PICK i \in DOMAIN blocked[g] : blocked[g][i] = t
    BY <2>1
  <2>3. <<g, i>> \in StashedAt(t, released)
    BY <2>2 DEF StashedAt, Positions
  <2>4. IsFiniteSet(StashedAt(t, released))
    <3>1. StashedAt(t, released) = Stash(blocked, released, t)
      BY DEF StashedAt, Stash
    <3> QED
      BY <1>1, <3>1, StashFinite
  <2> QED
    BY <2>3, <2>4, FS_CardinalityType, FS_EmptySet
<1>4. \A t \in drained : /\ WakeAt(time, t, c) \in Event /\ WakeAt(time, t, c).kind = "TaskWake"
                         /\ WakeAt(time, t, c).task = t /\ WakeAt(time, t, c).flags = {}
  BY <1>2, WakeTypes
<1>5. W = [e \in D |-> Cardinality(StashedAt(e.task, released))]
  BY DEF WakesOf
<1>6. \A t \in Task : In(t, released) => t \in drained
  BY DEF In
<1> HIDE DEF drained, W
<1>7. \A f \in D : f \in Event /\ f.kind = "TaskWake" /\ f.task \in drained /\ f.flags = {}
  BY <1>4
<1>8. \A t \in drained : WakeAt(time, t, c) \in D
  OBVIOUS
<1> HIDE DEF D
<1>9. DOMAIN W = D /\ \A f \in D : W[f] \in Nat \ {0}
  BY <1>3, <1>5, <1>7
<1>10. IsBagOf(W, Event)
  BY <1>7, <1>9 DEF IsBagOf
<1>11. NewEvents(W)
  <2>1. \A f \in DOMAIN W : f.kind = "TaskWake" /\ f.task \in Task /\ f.flags = {}
    BY <1>2, <1>7, <1>9
  <2> QED
    BY <1>10, <2>1, NewWakes
<1>12. \A t \in Task : In(t, released) => \E f \in DOMAIN W : f.kind = "TaskWake" /\ f.task = t
  BY <1>4, <1>6, <1>8, <1>9
<1> QED
  BY <1>11, <1>12 DEF W

(* A timer callback may re-arm its timer.                                  *)
LEMMA RearmTypes ==
    ASSUME NEW now \in Nat, NEW c \in Cpu, NEW rearm \in Rearms(now, c)
    PROVE  NewEvents(SetToBag(rearm))
<1> DEFINE f == EventAt(now + Period, "Timer", c)
<1>1. rearm = {} \/ rearm = {f}
  BY DEF Rearms
<1>2. f \in Event /\ f.kind = "Timer" /\ f.flags = {}
  <2>1. now + Period \in Nat
    BY GroupTypes
  <2> QED
    BY <2>1, EventTypes DEF EventKind
<1> HIDE DEF f
<1>3. NewEvents(SetToBag({f}))
  BY <1>2, NewOne
<1>4. SetToBag({}) = EmptyBag
  BY DEF EmptyBag
<1> QED
  BY <1>1, <1>3, <1>4, NewNothing

(* handle_timer_fired in the facts the proofs use.                         *)
Fires(e, released) ==
    /\ \E pushed :
         /\ NewEvents(pushed) /\ Pop(e, pushed)
         /\ \A t \in Task : In(t, released) =>
               \E f \in DOMAIN pushed : f.kind = "TaskWake" /\ f.task = t
    /\ released \in SUBSET Group
    /\ tasks' = Drained(released)
    /\ tasks' \in [Task -> TaskRec]
    /\ \A t \in Task : tasks'[t] = IF In(t, released)
                                   THEN [tasks[t] EXCEPT !.state = "Sleeping"] ELSE tasks[t]
    /\ blocked' = [g \in Group |-> IF g \in released THEN <<>> ELSE blocked[g]]
    /\ throttled' \in SUBSET Group
    /\ staged' = EmptyBag
    /\ cpus' = Advance(e.cpu, e.time)
    /\ UNCHANGED <<calls, failed, dsqs, held, unserved, group, owed>>

(* They hold of it.                                                        *)
LEMMA TimerFires ==
    ASSUME FullBasic, NEW e \in DOMAIN events, TimerFired(e)
    PROVE  e.kind = "Timer" /\ \E released : Fires(e, released)
<1> DEFINE now == Now(e.cpu, e.time)
<1>1. PICK released \in SUBSET Limited, rearm \in Rearms(now, e.cpu) :
         /\ Take(e, staged (+) SetToBag(rearm) (+) WakesOf(released, now, e.cpu))
         /\ throttled' = throttled \ released
         /\ tasks' = Drained(released)
         /\ blocked' = [g \in Group |-> IF g \in released THEN <<>> ELSE blocked[g]]
  BY Zenon DEF TimerFired
<1>2. /\ e.kind = "Timer" /\ cpus' = Advance(e.cpu, e.time) /\ staged' = EmptyBag
      /\ UNCHANGED <<calls, dsqs, held, unserved, group, owed>>
  BY DEF TimerFired, irqVars
<1>3. Basic /\ e.cpu \in Cpu /\ now \in Nat /\ released \in SUBSET Group
  BY EventIs, GroupTypes DEF FullBasic
<1> DEFINE W == WakesOf(released, now, e.cpu)
           R == SetToBag(rearm)
<1>4. NewEvents(W) /\ \A t \in Task : In(t, released) =>
                         \E f \in DOMAIN W : f.kind = "TaskWake" /\ f.task = t
  BY <1>3, ReplenishWakes
<1>5. NewEvents(R)
  BY <1>3, RearmTypes
<1>6. NewEvents(staged)
  <2>1. KickBag(staged)
    BY <1>3 DEF Basic
  <2> QED
    BY <2>1, KickPlus
<1>7. Pop(e, staged (+) R (+) W) /\ failed' = failed
  BY <1>1 DEF Take
<1> HIDE DEF W, R
<1> DEFINE K == staged (+) R
<1>8. NewEvents(K)
  BY <1>5, <1>6, NewBoth
<1>9. Pop(e, K (+) W)
  BY <1>7
<1> HIDE DEF K
<1>10. NewEvents(K (+) W) /\ DOMAIN (K (+) W) = DOMAIN K \cup DOMAIN W
  BY <1>4, <1>8, NewBoth
<1>11. /\ \A t \in Task : tasks'[t] = IF In(t, released)
                                     THEN [tasks[t] EXCEPT !.state = "Sleeping"] ELSE tasks[t]
       /\ tasks' \in [Task -> TaskRec]
  <2>1. tasks \in [Task -> TaskRec]
    BY <1>3 DEF Basic
  <2>2. \A t \in Task : [tasks[t] EXCEPT !.state = "Sleeping"] \in TaskRec
    BY <2>1 DEF TaskRec, TaskState
  <2>3. tasks' = [t \in Task |-> IF In(t, released)
                                 THEN [tasks[t] EXCEPT !.state = "Sleeping"] ELSE tasks[t]]
    BY <1>1 DEF Drained, In
  <2> QED
    BY <2>1, <2>2, <2>3
<1>12. throttled' \in SUBSET Group
  BY <1>1 DEF FullBasic
<1> DEFINE sent == K (+) W
<1>13. /\ NewEvents(sent) /\ Pop(e, sent)
       /\ \A t \in Task : In(t, released) => \E f \in DOMAIN sent : f.kind = "TaskWake" /\ f.task = t
  BY <1>4, <1>9, <1>10
<1> HIDE DEF sent
<1>14. Fires(e, released)
  BY <1>1, <1>2, <1>3, <1>7, <1>11, <1>12, <1>13 DEF Fires
<1> QED
  BY <1>2, <1>14

(* handle_cgroup_migrate of a queued task in the facts the proofs use: the *)
(* task leaves a queue, a local queue and the scheduler, and is in hand.   *)
Requeued(e) ==
    LET t == e.task IN
    /\ NewEvents(EmptyBag) /\ Pop(e, EmptyBag)
    /\ tasks[t].state = "Runnable"
    /\ tasks' \in [Task -> TaskRec]
    /\ \A u \in Task : tasks'[u].state = tasks[u].state /\ tasks'[u].pos = tasks[u].pos
    /\ held' \in {held, held \ {t}}
    /\ dsqs' \in [global : Seq(Task), shared : Seq(Task)]
    /\ \/ UNCHANGED dsqs
       \/ \E d \in {"global", "shared"} : \E i \in 1 .. Len(dsqs[d]) :
            /\ dsqs[d][i] = t /\ dsqs'[d] = RemoveAt(dsqs[d], i)
            /\ \A k \in {"global", "shared"} \ {d} : dsqs'[k] = dsqs[k]
    /\ cpus' \in [Cpu -> CpuRec]
    /\ \A k \in Cpu : cpus'[k].current = cpus[k].current
    /\ \/ \A k \in Cpu : cpus'[k].local = cpus[k].local
       \/ \E c \in Cpu : \E i \in 1 .. Len(cpus[c].local) :
            /\ cpus[c].local[i] = t /\ cpus'[c].local = RemoveAt(cpus[c].local, i)
            /\ \A k \in Cpu \ {c} : cpus'[k].local = cpus[k].local
    /\ \E c \in Cpu : calls' = <<Call("requeue", c, t)>>
    /\ UNCHANGED <<staged, failed, unserved>>

(* A task taken out of the local queue of a CPU leaves the rest alone.     *)
LEMMA LocalLess ==
    ASSUME NEW A \in [Cpu -> CpuRec], NEW c \in Cpu, NEW i \in 1 .. Len(A[c].local)
    PROVE  LET B == [A EXCEPT ![c].local = RemoveAt(@, i)] IN
           /\ B \in [Cpu -> CpuRec]
           /\ \A k \in Cpu : B[k].current = A[k].current /\ (k # c => B[k].local = A[k].local)
           /\ B[c].local = RemoveAt(A[c].local, i)
<1> DEFINE r == RemoveAt(A[c].local, i)
           x == [A[c] EXCEPT !.local = r]
<1>1. A[c] \in CpuRec /\ A[c].local \in Seq(Task)
  BY DEF CpuRec
<1>2. r \in Seq(Task)
  BY <1>1, RemoveAtTypes
<1> HIDE DEF r
<1>3. x \in CpuRec /\ x.local = r /\ x.current = A[c].current
  BY <1>1, <1>2 DEF CpuRec
<1>4. [A EXCEPT ![c].local = RemoveAt(@, i)] = [A EXCEPT ![c] = x]
  BY DEF r
<1> HIDE DEF x
<1>5. /\ [A EXCEPT ![c] = x] \in [Cpu -> CpuRec]
      /\ \A k \in Cpu : [A EXCEPT ![c] = x][k] = IF k = c THEN x ELSE A[k]
  BY <1>3
<1> QED
  BY <1>3, <1>4, <1>5 DEF r

(* A migration requeues its task, or is quiet.                             *)
LEMMA MigrateIs ==
    ASSUME FullBasic, NEW e \in DOMAIN events, Migrate(e)
    PROVE  /\ e.kind = "Migrate" /\ e.task \in Task
           /\ Requeued(e) \/ Quiet(e)
           /\ group' \in [Task -> Group] /\ UNCHANGED <<throttled, blocked, owed>>
<1> DEFINE t == e.task
           A == Advance(e.cpu, e.time)
<1>1. Basic /\ e.kind = "Migrate" /\ t \in Task /\ e.cpu \in Cpu /\ e.time \in Nat /\ A \in [Cpu -> CpuRec]
  BY EventIs DEF FullBasic, Migrate
<1>2. \A k \in Cpu : A[k].current = cpus[k].current /\ A[k].local = cpus[k].local
  BY <1>1, NowTypes
<1>3. /\ UNCHANGED <<unserved, throttled, blocked, owed>>
      /\ group' = [group EXCEPT ![t] = MoveTo[t]]
  BY DEF Migrate, irqVars
<1>4. group' \in [Task -> Group]
  BY <1>1, <1>3, GroupTypes DEF FullBasic
<1>5. CASE tasks[t].state = "Runnable"
  <2>1. /\ Take(e, EmptyBag) /\ MigrateDequeue(e) /\ staged' = staged
        /\ \E c \in Cpu : calls' = <<Call("requeue", c, t)>>
    BY <1>5, Zenon DEF Migrate
  <2>2. Pop(e, EmptyBag) /\ failed' = failed
    BY <2>1 DEF Take
  <2>3. /\ tasks' = [tasks EXCEPT ![t].ops = "Queued"]
        /\ held' \in {held, held \ {t}}
    BY <2>1, Zenon DEF MigrateDequeue
  <2>4. \/ UNCHANGED dsqs
        \/ \E d \in DOMAIN dsqs : \E i \in DOMAIN dsqs[d] :
             dsqs[d][i] = t /\ dsqs' = [dsqs EXCEPT ![d] = RemoveAt(@, i)]
    BY <2>1, Zenon DEF MigrateDequeue, FirstOf
  <2>5. \/ cpus' = A
        \/ \E c \in Cpu : \E i \in DOMAIN cpus[c].local :
             cpus[c].local[i] = t /\ cpus' = [A EXCEPT ![c].local = RemoveAt(@, i)]
    BY <2>1, Zenon DEF MigrateDequeue, FirstOf
  <2> HIDE DEF A
  <2>6. /\ tasks' \in [Task -> TaskRec]
        /\ \A u \in Task : tasks'[u].state = tasks[u].state /\ tasks'[u].pos = tasks[u].pos
    <3> DEFINE x == [tasks[t] EXCEPT !.ops = "Queued"]
    <3>1. tasks \in [Task -> TaskRec] /\ tasks' = [tasks EXCEPT ![t] = x]
      BY <1>1, <2>3 DEF Basic
    <3>2. x \in TaskRec /\ x.state = tasks[t].state /\ x.pos = tasks[t].pos
      BY <1>1, <3>1 DEF TaskRec
    <3> HIDE DEF x, t
    <3> QED
      BY <1>1, <3>1, <3>2
  <2>7. dsqs \in [global : Seq(Task), shared : Seq(Task)]
    BY <1>1 DEF Basic
  <2>8. /\ dsqs' \in [global : Seq(Task), shared : Seq(Task)]
        /\ \/ UNCHANGED dsqs
           \/ \E d \in {"global", "shared"} : \E i \in 1 .. Len(dsqs[d]) :
                /\ dsqs[d][i] = t /\ dsqs'[d] = RemoveAt(dsqs[d], i)
                /\ \A k \in {"global", "shared"} \ {d} : dsqs'[k] = dsqs[k]
    <3>1. CASE UNCHANGED dsqs
      BY <2>7, <3>1
    <3>2. ASSUME NEW d \in DOMAIN dsqs, NEW i \in DOMAIN dsqs[d], dsqs[d][i] = t,
                 dsqs' = [dsqs EXCEPT ![d] = RemoveAt(@, i)]
          PROVE  /\ dsqs' \in [global : Seq(Task), shared : Seq(Task)]
                 /\ d \in {"global", "shared"} /\ i \in 1 .. Len(dsqs[d])
                 /\ dsqs'[d] = RemoveAt(dsqs[d], i)
                 /\ \A k \in {"global", "shared"} \ {d} : dsqs'[k] = dsqs[k]
      <4>1. d \in {"global", "shared"} /\ DOMAIN dsqs = {"global", "shared"}
        BY <2>7
      <4>2. dsqs[d] \in Seq(Task) /\ i \in 1 .. Len(dsqs[d])
        BY <2>7, <4>1
      <4> DEFINE r == RemoveAt(dsqs[d], i)
      <4>3. r \in Seq(Task)
        BY <4>2, RemoveAtTypes
      <4>4. dsqs' = [dsqs EXCEPT ![d] = r]
        BY <3>2
      <4> HIDE DEF r
      <4>5. dsqs' \in [global : Seq(Task), shared : Seq(Task)] /\ dsqs'[d] = r
            /\ \A k \in {"global", "shared"} \ {d} : dsqs'[k] = dsqs[k]
        BY <2>7, <4>1, <4>3, <4>4
      <4> QED
        BY <4>1, <4>2, <4>5 DEF r
    <3> QED
      BY <2>4, <3>1, <3>2
  <2>9. /\ cpus' \in [Cpu -> CpuRec]
        /\ \A k \in Cpu : cpus'[k].current = cpus[k].current
        /\ \/ \A k \in Cpu : cpus'[k].local = cpus[k].local
           \/ \E c \in Cpu : \E i \in 1 .. Len(cpus[c].local) :
                /\ cpus[c].local[i] = t /\ cpus'[c].local = RemoveAt(cpus[c].local, i)
                /\ \A k \in Cpu \ {c} : cpus'[k].local = cpus[k].local
    <3>1. CASE cpus' = A
      BY <1>1, <1>2, <3>1
    <3>2. ASSUME NEW c \in Cpu, NEW i \in DOMAIN cpus[c].local, cpus[c].local[i] = t,
                 cpus' = [A EXCEPT ![c].local = RemoveAt(@, i)]
          PROVE  /\ cpus' \in [Cpu -> CpuRec]
                 /\ \A k \in Cpu : cpus'[k].current = cpus[k].current
                 /\ i \in 1 .. Len(cpus[c].local)
                 /\ cpus'[c].local = RemoveAt(cpus[c].local, i)
                 /\ \A k \in Cpu \ {c} : cpus'[k].local = cpus[k].local
      <4>1. cpus[c].local \in Seq(Task)
        BY <1>1 DEF Basic, CpuRec
      <4>2. i \in 1 .. Len(cpus[c].local) /\ A[c].local = cpus[c].local
        BY <1>2, <4>1
      <4> DEFINE B == [A EXCEPT ![c].local = RemoveAt(@, i)]
      <4>3. /\ B \in [Cpu -> CpuRec]
            /\ \A k \in Cpu : B[k].current = A[k].current /\ (k # c => B[k].local = A[k].local)
            /\ B[c].local = RemoveAt(A[c].local, i)
        BY <1>1, <4>2, LocalLess
      <4>4. cpus' = B
        BY <3>2
      <4> HIDE DEF B
      <4> QED
        BY <1>2, <4>2, <4>3, <4>4
    <3> QED
      BY <2>5, <3>1, <3>2
  <2>10. Requeued(e)
    BY <1>3, <1>5, <2>1, <2>2, <2>3, <2>6, <2>8, <2>9, NewNothing DEF Requeued
  <2> QED
    BY <1>1, <1>3, <1>4, <2>10
<1>6. CASE tasks[t].state # "Runnable"
  <2>1. /\ Take(e, staged) /\ staged' = EmptyBag /\ cpus' = A
        /\ UNCHANGED <<calls, tasks, dsqs, held>>
    BY <1>6 DEF Migrate
  <2>2. NewEvents(staged) /\ KickBag(EmptyBag)
    <3>1. KickBag(staged)
      BY <1>1 DEF Basic
    <3> QED
      BY <3>1, KickPlus, KickNone
  <2>3. Pop(e, staged) /\ failed' = failed
    BY <2>1 DEF Take
  <2> HIDE DEF A
  <2>4. Quiet(e)
    BY <1>1, <1>2, <1>3, <2>1, <2>2, <2>3 DEF Quiet
  <2> QED
    BY <1>1, <1>3, <1>4, <2>4
<1> QED
  BY <1>5, <1>6


-----------------------------------------------------------------------------
(* Each step keeps the types.                                              *)

(* The end of a callback replenished by its timer.                         *)
LEMMA FiresBasic ==
    ASSUME Basic, NEW e \in DOMAIN events, NEW released, Fires(e, released)
    PROVE  Basic'
<1>1. PICK pushed : NewEvents(pushed) /\ Pop(e, pushed)
  BY DEF Fires
<1>2. calls' = <<>>
  BY <1>1 DEF Fires, Pop
<1>3. Advance(e.cpu, e.time) \in [Cpu -> CpuRec] /\ cpus' = Advance(e.cpu, e.time)
  BY EventIs DEF Fires
<1>4. Shaped(calls', Advance(e.cpu, e.time))
  BY <1>2, ShapedNothing
<1>5. /\ failed' \in BOOLEAN /\ tasks' \in [Task -> TaskRec] /\ held' \in SUBSET Task
      /\ unserved' \in [Task -> Int] /\ dsqs' = dsqs /\ KickBag(staged')
  BY KickNone DEF Fires, Basic
<1> QED
  BY <1>1, <1>3, <1>4, <1>5, PassBasic

(* A task in hand that nothing follows.                                    *)
LEMMA ShapedAlone ==
    ASSUME NEW c \in Cpu, NEW t \in Task, NEW ds
    PROVE  Shaped(<<Call("requeue", c, t)>>, ds)
<1> DEFINE x == Call("requeue", c, t)
<1>1. x \in CallRec /\ x.op = "requeue" /\ x.task = t
  BY CallTypes DEF CallOp
<1> HIDE DEF x
<1>2. <<x>> \in Seq(CallRec) /\ Len(<<x>>) = 1 /\ <<x>>[1] = x
  BY <1>1
<1>3. Fits(x, 1, 1, ds)
  BY <1>1 DEF Fits, Carries, Closing
<1>4. Followed(<<x>>, 1)
  BY <1>1, <1>2 DEF Followed
<1>5. Shaped(<<x>>, ds)
  BY <1>2, <1>3, <1>4 DEF Shaped
<1> QED
  BY <1>5 DEF x

(* A migrated task.                                                        *)
LEMMA RequeuedBasic ==
    ASSUME Basic, NEW e \in DOMAIN events, e.task \in Task, Requeued(e)
    PROVE  Basic'
<1>1. NewEvents(events') /\ clock' \in Nat
  <2>1. NewEvents(EmptyBag) /\ Pop(e, EmptyBag)
    BY DEF Requeued
  <2> QED
    BY <2>1, Popped
<1>2. Shaped(calls', cpus')
  <2>1. PICK c \in Cpu : calls' = <<Call("requeue", c, e.task)>>
    BY DEF Requeued
  <2> QED
    BY <2>1, ShapedAlone
<1>3. /\ KickBag(staged') /\ failed' \in BOOLEAN /\ tasks' \in [Task -> TaskRec]
      /\ cpus' \in [Cpu -> CpuRec] /\ dsqs' \in [global : Seq(Task), shared : Seq(Task)]
      /\ held' \in SUBSET Task /\ unserved' \in [Task -> Int]
  BY DEF Requeued, Basic
<1> QED
  BY <1>1, <1>2, <1>3 DEF Basic

(* What the handler has to do fits any CPUs that run the same tasks.       *)
LEMMA ShapedSame ==
    ASSUME NEW todo, NEW cs, NEW ds, Shaped(todo, cs),
           \A k \in Cpu : ds[k].current = cs[k].current /\ ds[k].online = cs[k].online
    PROVE  Shaped(todo, ds)
<1>1. ASSUME NEW i \in 1 .. Len(todo)
      PROVE  Fits(todo[i], i, Len(todo), ds)
  <2>1. todo[i].cpu \in Cpu
    <3>1. todo \in Seq(CallRec)
      BY DEF Shaped
    <3>2. todo[i] \in CallRec
      BY <3>1
    <3> QED
      BY <3>2 DEF CallRec
  <2>2. Fits(todo[i], i, Len(todo), cs)
    BY DEF Shaped
  <2> QED
    BY <2>1, <2>2 DEF Fits
<1> QED
  BY <1>1 DEF Shaped

(* A timer inside a callback: what of it the proofs use.                   *)
LEMMA TimerInside ==
    ASSUME FullBasic, InterleavedTimer
    PROVE  /\ NewEvents(events')
           /\ \A f \in DOMAIN events : f.kind # "Timer" => f \in DOMAIN events'
           /\ cpus' \in [Cpu -> CpuRec]
           /\ \A k \in Cpu : /\ cpus'[k].current = cpus[k].current
                             /\ cpus'[k].local = cpus[k].local
                             /\ cpus'[k].online = cpus[k].online
           /\ staged' = EmptyBag
           /\ throttled' \in SUBSET Group
           /\ UNCHANGED <<clock, calls, failed, tasks, dsqs, held, unserved, group, blocked, owed>>
<1>1. PICK e \in DOMAIN events, released \in SUBSET Limited :
         /\ e.kind = "Timer"
         /\ \E rearm \in Rearms(Now(e.cpu, e.time), e.cpu) :
              events' = (events (-) SetToBag({e})) (+) SetToBag(rearm) (+) staged
         /\ throttled' = throttled \ released
         /\ cpus' = TimerClock(e)
  BY DEF InterleavedTimer
<1>2. PICK rearm \in Rearms(Now(e.cpu, e.time), e.cpu) :
         events' = (events (-) SetToBag({e})) (+) SetToBag(rearm) (+) staged
  BY <1>1
<1>3. /\ staged' = EmptyBag
      /\ UNCHANGED <<clock, calls, failed, tasks, dsqs, held, unserved, group, blocked, owed>>
  BY DEF InterleavedTimer, irqVars
<1>4. Basic /\ e.cpu \in Cpu /\ e.time \in Nat /\ Now(e.cpu, e.time) \in Nat
  BY EventIs DEF FullBasic
<1> DEFINE B == events (-) SetToBag({e})
           R == SetToBag(rearm)
<1>5. IsBagOf(events, Event) /\ NewEvents(events) /\ KickBag(staged)
  BY <1>4 DEF Basic, NewEvents
<1>6. IsBagOf(B, Event) /\ DOMAIN B \subseteq DOMAIN events /\ DOMAIN events \ {e} \subseteq DOMAIN B
  BY <1>5, BagLeft DEF LeftOver
<1>7. NewEvents(R) /\ NewEvents(staged)
  BY <1>4, <1>5, RearmTypes, KickPlus
<1> HIDE DEF B, R
<1>8. NewEvents(B)
  BY <1>5, <1>6 DEF NewEvents
<1> DEFINE C == B (+) R
<1>9. NewEvents(C) /\ DOMAIN C = DOMAIN B \cup DOMAIN R
  BY <1>7, <1>8, NewBoth
<1>10. events' = C (+) staged
  BY <1>2 DEF B, R
<1> HIDE DEF C
<1>11. NewEvents(events') /\ DOMAIN events' = DOMAIN C \cup DOMAIN staged
  BY <1>7, <1>9, <1>10, NewBoth
<1>12. \A f \in DOMAIN events : f.kind # "Timer" => f \in DOMAIN events'
  BY <1>1, <1>6, <1>9, <1>11
<1>13. /\ cpus' \in [Cpu -> CpuRec]
       /\ \A k \in Cpu : /\ cpus'[k].current = cpus[k].current
                         /\ cpus'[k].local = cpus[k].local
                         /\ cpus'[k].online = cpus[k].online
  BY <1>1, <1>4, NowTypes, SMTT(30) DEF TimerClock
<1>14. throttled' \in SUBSET Group
  BY <1>1 DEF FullBasic
<1> QED
  BY <1>3, <1>11, <1>12, <1>13, <1>14

(* It keeps the types.                                                     *)
LEMMA InsideBasic ==
    ASSUME FullBasic, InterleavedTimer
    PROVE  Basic'
<1>1. /\ NewEvents(events') /\ cpus' \in [Cpu -> CpuRec] /\ staged' = EmptyBag
      /\ \A k \in Cpu : cpus'[k].current = cpus[k].current /\ cpus'[k].online = cpus[k].online
      /\ UNCHANGED <<clock, calls, failed, tasks, dsqs, held, unserved>>
  BY TimerInside
<1>2. Basic /\ Shaped(calls, cpus)
  BY DEF FullBasic, Basic
<1>3. Shaped(calls', cpus')
  BY <1>1, <1>2, ShapedSame
<1>4. KickBag(staged')
  BY <1>1, KickNone
<1> QED
  BY <1>1, <1>2, <1>3, <1>4 DEF Basic

(* A stashed task: it leaves the queue it was picked from.                 *)
LEMMA Stashes ==
    ASSUME FullBasic, NEW c \in Cpu, StashThrottled(c)
    PROVE  \E pick \in Picks(c) : \E g \in Group :
             /\ Calling("pick") /\ calls # <<>> /\ calls' = Tail(calls)
             /\ pick.task \in Task
             /\ dsqs' \in [global : Seq(Task), shared : Seq(Task)]
             /\ dsqs'.global = pick.global /\ dsqs'.shared = dsqs.shared
             /\ cpus' \in [Cpu -> CpuRec]
             /\ cpus'[c].local = pick.local
             /\ \A k \in Cpu : /\ cpus'[k].current = cpus[k].current
                               /\ k # c => cpus'[k].local = cpus[k].local
             /\ blocked' = [blocked EXCEPT ![g] = Append(@, pick.task)]
             /\ UNCHANGED <<clock, events, staged, failed, tasks, held, unserved, group, throttled, owed>>
<1>1. PICK pick \in Picks(c) :
        /\ Picked(c, pick)
        /\ ThrottledBy(pick.task) # NoGroup
        /\ cpus' = [cpus EXCEPT ![c].local = pick.local]
        /\ calls' = Tail(calls)
        /\ blocked' = [blocked EXCEPT ![ThrottledBy(pick.task)] = Append(@, pick.task)]
        /\ UNCHANGED <<events, tasks, group, throttled, irqVars, watchVars>>
  BY Zenon DEF StashThrottled
<1>2. Basic /\ throttled \in SUBSET Group
  BY DEF FullBasic
<1>3. /\ Calling("pick") /\ UNCHANGED <<clock, staged, failed, held, unserved>>
      /\ dsqs' = [dsqs EXCEPT !.global = pick.global]
  BY <1>1 DEF Picked
<1>4. calls # <<>>
  BY <1>3 DEF Calling
<1>5. pick.task \in Task /\ pick.local \in Seq(Task) /\ pick.global \in Seq(Task)
  BY <1>2, PickTypes
<1>6. ThrottledBy(pick.task) \in Group
  BY <1>1, <1>2 DEF ThrottledBy
<1>7. /\ dsqs' \in [global : Seq(Task), shared : Seq(Task)]
      /\ dsqs'.global = pick.global /\ dsqs'.shared = dsqs.shared
  BY <1>2, <1>3, <1>5 DEF Basic
<1>8. /\ cpus' \in [Cpu -> CpuRec]
      /\ cpus'[c].local = pick.local
      /\ \A k \in Cpu : /\ cpus'[k].current = cpus[k].current
                        /\ k # c => cpus'[k].local = cpus[k].local
  <2> DEFINE x == [cpus[c] EXCEPT !.local = pick.local]
  <2>1. cpus \in [Cpu -> CpuRec] /\ cpus' = [cpus EXCEPT ![c] = x]
    BY <1>1, <1>2 DEF Basic
  <2>2. x \in CpuRec /\ x.local = pick.local /\ x.current = cpus[c].current
    BY <1>5, <2>1 DEF CpuRec
  <2> HIDE DEF x
  <2> QED
    BY <2>1, <2>2
<1>9. UNCHANGED <<events, tasks, group, throttled, owed>>
  BY <1>1 DEF irqVars
<1> QED
  BY <1>1, <1>3, <1>4, <1>5, <1>6, <1>7, <1>8, <1>9

(* It keeps the types.                                                     *)
LEMMA StashBasic ==
    ASSUME FullBasic, NEW c \in Cpu, StashThrottled(c)
    PROVE  FullBasic'
<1>1. PICK pick \in Picks(c), g \in Group :
        /\ calls # <<>> /\ calls' = Tail(calls)
        /\ pick.task \in Task
        /\ dsqs' \in [global : Seq(Task), shared : Seq(Task)]
        /\ cpus' \in [Cpu -> CpuRec]
        /\ blocked' = [blocked EXCEPT ![g] = Append(@, pick.task)]
        /\ UNCHANGED <<clock, events, staged, failed, tasks, held, unserved, group, throttled, owed>>
  BY Stashes
<1>2. Basic /\ Shaped(calls, cpus) /\ blocked \in [Group -> Seq(Task)]
  BY DEF FullBasic, Basic
<1>3. Shaped(calls', cpus')
  BY <1>1, <1>2, ShapedTail
<1>4. Basic'
  BY <1>1, <1>2, <1>3 DEF Basic
<1>5. blocked' \in [Group -> Seq(Task)]
  <2> DEFINE r == Append(blocked[g], pick.task)
  <2>1. r \in Seq(Task)
    BY <1>1, <1>2
  <2>2. blocked' = [blocked EXCEPT ![g] = r]
    BY <1>1
  <2> HIDE DEF r
  <2> QED
    BY <1>2, <2>1, <2>2
<1> QED
  BY <1>1, <1>4, <1>5 DEF FullBasic

(* A task put aside is in the scheduler's hands and stashed.               *)
LEMMA Asides ==
    ASSUME FullBasic, PutAside
    PROVE  /\ Calling("enqueue") \/ Calling("requeue") \/ Calling("drain")
           /\ Head(calls).task \in PutsAside
           /\ KickBag(EmptyBag) /\ AfterEnqueue(EmptyBag)
           /\ held' = held \cup {Head(calls).task}
           /\ \E g \in Group : blocked' = [blocked EXCEPT ![g] = Append(@, Head(calls).task)]
           /\ UNCHANGED <<tasks, cpus, dsqs, failed, group, throttled, owed>>
<1> DEFINE t == Head(calls).task
<1>1. /\ Calling("enqueue") \/ Calling("requeue") \/ Calling("drain")
      /\ t \in PutsAside /\ ThrottledBy(t) # NoGroup
      /\ held' = held \cup {t}
      /\ blocked' = [blocked EXCEPT ![ThrottledBy(t)] = Append(@, t)]
      /\ AfterEnqueue(EmptyBag)
      /\ UNCHANGED <<tasks, cpus, dsqs, failed, group, throttled, owed>>
  BY Zenon DEF PutAside, irqVars
<1>2. ThrottledBy(t) \in Group
  BY <1>1 DEF ThrottledBy, FullBasic
<1> QED
  BY <1>1, <1>2, KickNone

(* It keeps the types.                                                     *)
LEMMA AsideBasic ==
    ASSUME FullBasic, PutAside
    PROVE  FullBasic'
<1> DEFINE t == Head(calls).task
<1>1. /\ Calling("enqueue") \/ Calling("requeue") \/ Calling("drain")
      /\ KickBag(EmptyBag) /\ AfterEnqueue(EmptyBag)
      /\ held' = held \cup {t}
      /\ UNCHANGED <<tasks, cpus, dsqs, failed, group, throttled, owed>>
  BY Asides
<1>2. Basic /\ blocked \in [Group -> Seq(Task)]
  BY DEF FullBasic
<1>3. NewEvents(events') /\ KickBag(staged') /\ Shaped(calls', cpus') /\ clock' = clock /\ unserved' = unserved
      /\ t \in Task
  BY <1>1, <1>2, AfterEnqueued
<1> HIDE DEF t
<1>4. Basic'
  BY <1>1, <1>2, <1>3 DEF Basic
<1>5. blocked' \in [Group -> Seq(Task)]
  <2>1. PICK g \in Group : blocked' = [blocked EXCEPT ![g] = Append(@, t)]
    BY Asides DEF t
  <2> DEFINE r == Append(blocked[g], t)
  <2>2. r \in Seq(Task)
    BY <1>2, <1>3
  <2>3. blocked' = [blocked EXCEPT ![g] = r]
    BY <2>1
  <2> HIDE DEF r
  <2> QED
    BY <1>2, <2>2, <2>3
<1> QED
  BY <1>1, <1>4, <1>5 DEF FullBasic


(* The handlers keep the types of the new variables.                       *)
LEMMA ExtraTypes ==
    ASSUME FullBasic, NEW e \in DOMAIN events, Extra(e)
    PROVE  /\ group' \in [Task -> Group] /\ throttled' \in SUBSET Group
           /\ blocked' \in [Group -> Seq(Task)] /\ owed' \in [Cpu -> Nat]
<1>1. /\ group \in [Task -> Group] /\ throttled \in SUBSET Group
      /\ blocked \in [Group -> Seq(Task)] /\ owed \in [Cpu -> Nat] /\ e.cpu \in Cpu
  BY EventIs DEF FullBasic
<1>2. CASE e.kind = "Tick" /\ Fail(e) /\ UNCHANGED <<bwVars, owed>>
  BY <1>1, <1>2 DEF bwVars
<1>3. CASE Postpone(e)
  <2>1. owed' = [owed EXCEPT ![e.cpu] = 0] /\ UNCHANGED bwVars
    BY <1>3 DEF Postpone
  <2> QED
    BY <1>1, <2>1 DEF bwVars
<1>4. CASE Notify(e)
  <2>1. UNCHANGED <<bwVars, irqVars>>
    BY <1>4 DEF Notify
  <2> QED
    BY <1>1, <2>1 DEF bwVars, irqVars
<1>5. CASE IrqStart(e)
  <2>1. UNCHANGED bwVars
        /\ owed' = [owed EXCEPT ![e.cpu] = @ + (IF cpus[e.cpu].current = NoTask THEN 0 ELSE IrqTime)]
    BY <1>5 DEF IrqStart
  <2> DEFINE n == owed[e.cpu] + (IF cpus[e.cpu].current = NoTask THEN 0 ELSE IrqTime)
  <2>2. n \in Nat
    BY <1>1, GroupTypes
  <2>3. owed' = [owed EXCEPT ![e.cpu] = n]
    BY <2>1
  <2> HIDE DEF n
  <2> QED
    BY <1>1, <2>1, <2>2, <2>3 DEF bwVars
<1>6. CASE TimerFired(e)
  <2>1. PICK released : Fires(e, released)
    BY <1>6, TimerFires
  <2>2. blocked' \in [Group -> Seq(Task)]
    <3>1. blocked' = [g \in Group |-> IF g \in released THEN <<>> ELSE blocked[g]]
      BY <2>1 DEF Fires
    <3> QED
      BY <1>1, <3>1
  <2> QED
    BY <1>1, <2>1, <2>2 DEF Fires
<1>7. CASE Migrate(e)
  BY <1>1, <1>7, MigrateIs
<1> QED
  BY <1>2, <1>3, <1>4, <1>5, <1>6, <1>7 DEF Extra

(* The handlers keep the types of the engine's variables.                  *)
LEMMA ExtraBasic ==
    ASSUME FullBasic, NEW e \in DOMAIN events, Extra(e)
    PROVE  FullBasic'
<1>1. Basic
  BY DEF FullBasic
<1>2. CASE Quiet(e)
  <2>1. Basic'
    BY <1>1, <1>2, QuietBasic
  <2> QED
    BY <2>1, ExtraTypes DEF FullBasic
<1>3. CASE IrqStart(e) /\ IrqWakes(e)
  <2>1. PICK ends : WokenAs(e, ends)
    BY <1>3, IrqWoken
  <2>2. Basic'
    BY <1>1, <2>1, WakeBasic
  <2> QED
    BY <2>2, ExtraTypes DEF FullBasic
<1>4. CASE TimerFired(e)
  <2>1. PICK released : Fires(e, released)
    BY <1>4, TimerFires
  <2>2. Basic'
    BY <1>1, <2>1, FiresBasic
  <2> QED
    BY <2>2, ExtraTypes DEF FullBasic
<1>5. CASE Migrate(e)
  <2>1. Basic'
    BY <1>1, <1>5, MigrateIs, RequeuedBasic, QuietBasic
  <2> QED
    BY <2>1, ExtraTypes DEF FullBasic
<1> QED
  BY <1>2, <1>3, <1>4, <1>5, QuietEvent DEF Extra

(* Every step keeps every type.                                            *)
LEMMA FullBasicStep ==
    ASSUME FullBasic, [FullNext]_fullVars
    PROVE  FullBasic'
<1>1. /\ Basic /\ group \in [Task -> Group] /\ throttled \in SUBSET Group
      /\ blocked \in [Group -> Seq(Task)] /\ owed \in [Cpu -> Nat]
  BY DEF FullBasic
<1>2. CASE UNCHANGED fullVars
  <2>1. UNCHANGED <<vars, bwVars, owed>>
    BY <1>2 DEF fullVars, irqVars
  <2>2. Basic'
    BY <1>1, <2>1, BasicStep
  <2> QED
    BY <1>1, <2>1, <2>2 DEF bwVars, FullBasic
<1>3. CASE Next /\ UNCHANGED <<bwVars, owed>>
  <2>1. Basic'
    BY <1>1, <1>3, BasicStep
  <2> QED
    BY <1>1, <1>3, <2>1 DEF bwVars, FullBasic
<1>4. CASE \E e \in DOMAIN events : Extra(e)
  BY <1>4, ExtraBasic
<1>5. CASE \E g \in Group : Throttle(g)
  <2>1. UNCHANGED <<vars, group, blocked, owed>> /\ throttled' \in SUBSET Group
    BY <1>1, <1>5 DEF Throttle, irqVars
  <2>2. Basic'
    BY <1>1, <2>1, BasicStep
  <2> QED
    BY <1>1, <2>1, <2>2 DEF FullBasic
<1>6. CASE \E c \in Cpu : StashThrottled(c)
  BY <1>6, StashBasic
<1>7. ASSUME NEW c \in Cpu, NEW pick \in Picks(c), NEW slice \in Nat,
             RunFor(c, pick, slice), owed' = [owed EXCEPT ![c] = 0], UNCHANGED bwVars
      PROVE  FullBasic'
  <2>1. Basic'
    BY <1>1, <1>7, StartBasic
  <2>2. owed' \in [Cpu -> Nat]
    BY <1>1, <1>7
  <2> QED
    BY <1>1, <1>7, <2>1, <2>2 DEF bwVars, FullBasic
<1>8. CASE PutAside
  BY <1>8, AsideBasic
<1>9. CASE InterleavedTimer
  <2>1. Basic' /\ throttled' \in SUBSET Group /\ UNCHANGED <<group, blocked, owed>>
    BY <1>9, InsideBasic, TimerInside
  <2> QED
    BY <1>1, <2>1 DEF FullBasic
<1> QED
  BY <1>2, <1>3, <1>4, <1>5, <1>6, <1>7, <1>8, <1>9, FullCases

(* The types hold at the start.                                            *)
LEMMA FullBasicInit ==
    ASSUME FullInit
    PROVE  FullBasic
<1>1. Basic
  BY BasicInit DEF FullInit
<1>2. /\ group \in [Task -> Group] /\ throttled \in SUBSET Group
      /\ blocked \in [Group -> Seq(Task)] /\ owed \in [Cpu -> Nat]
  BY FullAssumption, EmptySeq DEF FullInit
<1> QED
  BY <1>1, <1>2 DEF FullBasic

(* TypeOK is an invariant of the engine with all its events, too: timers,  *)
(* replenishments, interrupts and migrations put nothing out of its type.  *)
THEOREM FullTypes == FullSpec => []TypeOK
<1>1. FullInit => FullBasic
  BY FullBasicInit
<1>2. FullBasic /\ [FullNext]_fullVars => FullBasic'
  BY FullBasicStep
<1>3. FullBasic => TypeOK
  BY BasicTypes DEF FullBasic
<1> QED
  BY <1>1, <1>2, <1>3, PTL DEF FullSpec


-----------------------------------------------------------------------------
(* Nobody is left asleep.                                                  *)

(* A sleeper whose phase is a computation, and the wake it waits for.      *)
Sleeps(t) == tasks[t].state = "Sleeping" /\ PhaseAt(t, tasks[t].pos).kind = "Run"
Awaited(t) == \E e \in DOMAIN events : e.kind = "TaskWake" /\ e.task = t

(* The inductive invariant: SleeperWoken of every task, in every run.      *)
Woken == \A t \in Task : Sleeps(t) => Awaited(t)

(* A wake ends the sleep of its task.                                      *)
LEMMA WokenSleeps ==
    ASSUME Basic, NEW e \in DOMAIN events, NEW ends, WokenAs(e, ends), NEW t \in Task, Sleeps(t)'
    PROVE  Sleeps(t) /\ t # e.task /\ PopsOnly(e)
<1>1. PICK q, pushed :
        /\ q \in Nat
        /\ NewEvents(pushed) /\ Pop(e, pushed)
        /\ tasks'[e.task].state = StateIn(PhaseAt(e.task, q)) /\ tasks'[e.task].pos = q
        /\ StateIn(PhaseAt(e.task, q)) = "Runnable" <=> PhaseAt(e.task, q).kind = "Run"
  BY Zenon DEF WokenAs
<1>2. PopsOnly(e)
  BY <1>1, PopsEvent
<1>3. \A u \in Task : u # e.task => tasks'[u] = tasks[u]
  BY DEF WokenAs
<1>4. t # e.task
  BY <1>1 DEF Sleeps
<1> QED
  BY <1>2, <1>3, <1>4 DEF Sleeps

(* No handler of the engine puts a task to sleep in a phase that computes, *)
(* and none takes the wake of one that sleeps without waking it.           *)
LEMMA EventSleeps ==
    ASSUME Basic, NEW e \in DOMAIN events, HandleEvent(e), NEW t \in Task, Sleeps(t)'
    PROVE  Sleeps(t) /\ (e.kind = "TaskWake" => e.task # t)
<1>1. CASE WakeIgnored(e)
  <2>1. tasks' = tasks /\ tasks[e.task].state # "Sleeping"
    BY <1>1 DEF WakeIgnored, Ignore
  <2> QED
    BY <2>1 DEF Sleeps
<1>2. CASE EndIgnored(e) \/ TickOffline(e) \/ AlreadyThere(e)
  BY <1>2 DEF EndIgnored, TickOffline, AlreadyThere, Ignore, Sleeps
<1>3. CASE TaskWake(e)
  BY <1>3, WokenUp, WokenSleeps
<1>4. CASE SliceExpired(e) \/ KickPreempt(e) \/ (CpuLeaves(e) /\ cpus[e.cpu].current # NoTask)
  <2> DEFINE u == cpus[e.cpu].current
             now == Now(e.cpu, e.time)
  <2>1. e.cpu \in Cpu /\ u \in Task /\ now \in Nat /\ tasks'[u].state = "Runnable"
    BY <1>4, EventStops
  <2>2. e.kind # "TaskWake" /\ u # NoTask
    BY <1>4, <2>1, EngineAssumption DEF SliceExpired, KickPreempt, CpuLeaves
  <2>3. CASE SliceExpired(e)
    <3>1. StopAndReenqueue(e.cpu, now, tasks[u].slice, 0)
      BY <2>3 DEF SliceExpired
    <3>2. \A v \in Task : v # u => tasks'[v] = tasks[v]
      <4>1. tasks \in [Task -> TaskRec]
        BY DEF Basic
      <4>2. tasks[u].slice \in Int
        BY <2>1, <4>1 DEF TaskRec
      <4> HIDE DEF now
      <4> QED
        BY <2>1, <3>1, <4>2, RequeueTypes
    <3> QED
      BY <2>1, <2>2, <3>2 DEF Sleeps
  <2>4. CASE KickPreempt(e) \/ (CpuLeaves(e) /\ u # NoTask)
    <3>1. PreemptCurrent(e.cpu, now)
      BY <2>4 DEF KickPreempt, CpuLeaves
    <3>2. \A v \in Task : v # u => tasks'[v] = tasks[v]
      <4> HIDE DEF now
      <4>1. PICK left \in Nat : StopAndReenqueue(e.cpu, now, Ran(e.cpu, now), left)
        BY <2>1, <3>1, PreemptTypes
      <4>2. Ran(e.cpu, now) \in Int
        BY <2>1, StopTypes
      <4> QED
        BY <2>1, <4>1, <4>2, RequeueTypes
    <3> QED
      BY <2>1, <2>2, <3>2 DEF Sleeps
  <2> QED
    BY <1>4, <2>3, <2>4
<1>5. CASE KickDispatch(e) \/ Tick(e) \/ CpuReturns(e) \/ (CpuLeaves(e) /\ cpus[e.cpu].current = NoTask)
  <2>1. tasks' = tasks /\ e.kind # "TaskWake"
    BY <1>5 DEF KickDispatch, Tick, CpuReturns, CpuLeaves
  <2> QED
    BY <2>1 DEF Sleeps
<1>6. CASE PhaseComplete(e)
  <2> DEFINE u == cpus[e.cpu].current
  <2>1. e.kind = "PhaseComplete" /\ u \in Task
    BY <1>6, Completed
  <2>2. PICK q \in Nat :
          /\ \A v \in Task : v # u => tasks'[v] = tasks[v]
          /\ tasks'[u].state = StateIn(PhaseAt(u, q)) /\ tasks'[u].pos = q
          /\ StateIn(PhaseAt(u, q)) = "Runnable" <=> PhaseAt(u, q).kind = "Run"
    BY <1>6, Completed
  <2> HIDE DEF u
  <2>3. t # u
    BY <2>2 DEF Sleeps
  <2> QED
    BY <2>1, <2>2, <2>3 DEF Sleeps
<1> QED
  BY <1>1, <1>2, <1>3, <1>4, <1>5, <1>6 DEF HandleEvent

(* No answer of the scheduler does.                                        *)
LEMMA CallSleeps ==
    ASSUME Basic, \/ SelectCpu \/ EnqueueInsert \/ EnqueueHold \/ OpsTick \/ DispatchRefused
                  \/ DrainLocal \/ TakeDown \/ \E c \in Cpu : DispatchAndRun(c),
           NEW t \in Task, Sleeps(t)'
    PROVE  Sleeps(t)
<1>1. CASE SelectCpu
  <2>1. /\ \A u \in Task : u # Head(calls).task => tasks'[u] = tasks[u]
        /\ tasks'[Head(calls).task].state = tasks[Head(calls).task].state
        /\ tasks'[Head(calls).task].pos = tasks[Head(calls).task].pos
    BY <1>1, Selected
  <2> QED
    BY <2>1 DEF Sleeps
<1>2. CASE EnqueueInsert
  <2>1. /\ \A u \in Task : u # Head(calls).task => tasks'[u] = tasks[u]
        /\ tasks'[Head(calls).task].state = tasks[Head(calls).task].state
        /\ tasks'[Head(calls).task].pos = tasks[Head(calls).task].pos
    BY <1>2, Enqueued
  <2> QED
    BY <2>1 DEF Sleeps
<1>3. CASE EnqueueHold \/ DispatchRefused \/ DrainLocal \/ TakeDown
  <2>1. tasks' = tasks
    BY <1>3, Zenon DEF EnqueueHold, DispatchRefused, DrainLocal, TakeDown
  <2> QED
    BY <2>1 DEF Sleeps
<1>4. CASE OpsTick
  <2> DEFINE c == Head(calls).cpu
             u == cpus[c].current
             now == cpus[c].clock
  <2>1. c \in Cpu /\ u \in Task /\ now \in Nat
    BY <1>4, Ticked
  <2>2. CASE \E left \in Nat : StopAndReenqueue(c, now, Ran(c, now), left)
    <3>1. PICK left \in Nat : StopAndReenqueue(c, now, Ran(c, now), left)
      BY <2>2
    <3>2. Ran(c, now) \in Int
      BY <2>1, StopTypes
    <3>3. tasks'[u].state = "Runnable" /\ \A v \in Task : v # u => tasks'[v] = tasks[v]
      BY <2>1, <3>1, <3>2, RequeueTypes
    <3> QED
      BY <3>3 DEF Sleeps
  <2>3. CASE UNCHANGED tasks
    BY <2>3 DEF Sleeps
  <2> QED
    BY <1>4, <2>2, <2>3, Ticked
<1>5. ASSUME NEW c \in Cpu, DispatchAndRun(c)
      PROVE  Sleeps(t)
  <2>1. CASE DispatchLocal(c) \/ DispatchNothing(c) \/ DispatchMove(c) \/ GoIdle(c)
    <3>1. tasks' = tasks
      BY <2>1, Zenon DEF DispatchLocal, DispatchNothing, DispatchMove, GoIdle
    <3> QED
      BY <3>1 DEF Sleeps
  <2>2. CASE DispatchHeld(c)
    <3>1. PICK u \in held :
            /\ \A v \in Task : v # u => tasks'[v] = tasks[v]
            /\ tasks'[u].state = tasks[u].state /\ tasks'[u].pos = tasks[u].pos
      BY <2>2, Offered
    <3> QED
      BY <3>1 DEF Sleeps
  <2>3. CASE StartRunning(c)
    <3>1. PICK pick \in Picks(c) : SkipExited(c, pick) \/ RunFor(c, pick, tasks[pick.task].slice)
      BY <2>3 DEF StartRunning
    <3>2. CASE SkipExited(c, pick)
      <4>1. tasks' = tasks
        BY <3>2 DEF SkipExited
      <4> QED
        BY <4>1 DEF Sleeps
    <3>3. CASE RunFor(c, pick, tasks[pick.task].slice)
      <4>1. tasks'[pick.task].state = "Running" /\ \A v \in Task : v # pick.task => tasks'[v] = tasks[v]
        BY <3>3, StartedTask
      <4> QED
        BY <4>1 DEF Sleeps
    <3> QED
      BY <3>1, <3>2, <3>3
  <2> QED
    BY <1>5, <2>1, <2>2, <2>3 DEF DispatchAndRun
<1> QED
  BY <1>1, <1>2, <1>3, <1>4, <1>5

(* The engine's own steps leave nobody asleep.                             *)
LEMMA WokenNext ==
    ASSUME Basic, Woken, Next
    PROVE  Woken'
<1> SUFFICES ASSUME NEW t \in Task, Sleeps(t)'
             PROVE  Awaited(t)'
  BY DEF Woken
<1>1. CASE \E e \in DOMAIN events : HandleEvent(e)
  <2>1. PICK e \in DOMAIN events : HandleEvent(e)
    BY <1>1
  <2>2. Sleeps(t) /\ (e.kind = "TaskWake" => e.task # t)
    BY <2>1, EventSleeps
  <2>3. DOMAIN events \ {e} \subseteq DOMAIN events'
    BY <2>1, EventPops DEF PopsOnly
  <2>4. PICK f \in DOMAIN events : f.kind = "TaskWake" /\ f.task = t
    BY <2>2 DEF Woken, Awaited
  <2>5. f \in DOMAIN events'
    BY <2>2, <2>3, <2>4
  <2> QED
    BY <2>4, <2>5 DEF Awaited
<1>2. CASE \A e \in DOMAIN events : ~HandleEvent(e)
  <2>1. DOMAIN events \subseteq DOMAIN events'
    BY <1>2, CallPops
  <2>2. Sleeps(t)
    BY <1>2, CallSleeps, Zenon DEF Next
  <2>3. PICK f \in DOMAIN events : f.kind = "TaskWake" /\ f.task = t
    BY <2>2 DEF Woken, Awaited
  <2> QED
    BY <2>1, <2>3 DEF Awaited
<1> QED
  BY <1>1, <1>2

(* A step that sends nobody to sleep and takes no wake leaves nobody       *)
(* asleep.                                                                 *)
LEMMA WokenKept ==
    ASSUME Woken, \A t \in Task : Sleeps(t)' => Sleeps(t),
           \A f \in DOMAIN events : f.kind = "TaskWake" => f \in DOMAIN events'
    PROVE  Woken'
<1> SUFFICES ASSUME NEW t \in Task, Sleeps(t)'
             PROVE  Awaited(t)'
  BY DEF Woken
<1>1. PICK f \in DOMAIN events : f.kind = "TaskWake" /\ f.task = t
  BY DEF Woken, Awaited
<1> QED
  BY <1>1 DEF Awaited


(* The other handlers leave nobody asleep: a replenishment wakes every     *)
(* task it puts to sleep.                                                  *)
LEMMA WokenExtra ==
    ASSUME FullBasic, Woken, NEW e \in DOMAIN events, Extra(e)
    PROVE  Woken'
<1>1. Basic
  BY DEF FullBasic
<1>2. CASE Quiet(e) /\ e.kind # "TaskWake"
  <2>1. PICK pushed : NewEvents(pushed) /\ Pop(e, pushed)
    BY <1>2 DEF Quiet
  <2>2. DOMAIN events \ {e} \subseteq DOMAIN events'
    BY <1>1, <2>1, PopsEvent DEF PopsOnly
  <2>3. \A t \in Task : Sleeps(t)' => Sleeps(t)
    <3>1. tasks' = tasks
      BY <1>2 DEF Quiet
    <3> QED
      BY <3>1 DEF Sleeps
  <2> QED
    BY <1>2, <2>2, <2>3, WokenKept
<1>3. CASE IrqStart(e) /\ IrqWakes(e)
  <2>1. PICK ends : WokenAs(e, ends) /\ e.kind # "TaskWake"
    BY <1>3, IrqWoken
  <2>2. \A t \in Task : Sleeps(t)' => Sleeps(t) /\ PopsOnly(e)
    BY <1>1, <2>1, WokenSleeps
  <2>3. PopsOnly(e)
    <3>1. PICK q, pushed : q \in Nat /\ NewEvents(pushed) /\ Pop(e, pushed)
      BY <2>1, Zenon DEF WokenAs
    <3> QED
      BY <1>1, <3>1, PopsEvent
  <2> QED
    BY <2>1, <2>2, <2>3, WokenKept DEF PopsOnly
<1>4. CASE TimerFired(e)
  <2>1. PICK released : Fires(e, released)
    BY <1>4, TimerFires
  <2>2. e.kind = "Timer"
    BY <1>4, TimerFires
  <2>3. PICK pushed :
          /\ NewEvents(pushed) /\ Pop(e, pushed)
          /\ \A t \in Task : In(t, released) =>
                \E f \in DOMAIN pushed : f.kind = "TaskWake" /\ f.task = t
    BY <2>1, Zenon DEF Fires
  <2>4. (DOMAIN events \ {e}) \cup DOMAIN pushed \subseteq DOMAIN events'
    BY <1>1, <2>3, Popped
  <2>5. \A t \in Task : tasks'[t] = IF In(t, released)
                                    THEN [tasks[t] EXCEPT !.state = "Sleeping"] ELSE tasks[t]
    BY <2>1 DEF Fires
  <2> SUFFICES ASSUME NEW t \in Task, Sleeps(t)'
               PROVE  Awaited(t)'
    BY DEF Woken
  <2>6. CASE In(t, released)
    BY <2>3, <2>4, <2>6 DEF Awaited
  <2>7. CASE ~In(t, released)
    <3>1. Sleeps(t)
      BY <2>5, <2>7 DEF Sleeps
    <3>2. PICK f \in DOMAIN events : f.kind = "TaskWake" /\ f.task = t
      BY <3>1 DEF Woken, Awaited
    <3> QED
      BY <2>2, <2>4, <3>2 DEF Awaited
  <2> QED
    BY <2>6, <2>7
<1>5. CASE Requeued(e) /\ e.kind = "Migrate"
  <2>1. NewEvents(EmptyBag) /\ Pop(e, EmptyBag)
        /\ \A u \in Task : tasks'[u].state = tasks[u].state /\ tasks'[u].pos = tasks[u].pos
    BY <1>5 DEF Requeued
  <2>2. DOMAIN events \ {e} \subseteq DOMAIN events'
    BY <1>1, <2>1, PopsEvent DEF PopsOnly
  <2>3. \A t \in Task : Sleeps(t)' => Sleeps(t)
    BY <2>1 DEF Sleeps
  <2> QED
    BY <1>5, <2>2, <2>3, WokenKept
<1>6. CASE Migrate(e)
  BY <1>2, <1>5, <1>6, MigrateIs
<1> QED
  BY <1>2, <1>3, <1>4, <1>6, QuietEvent DEF Extra

(* Every step leaves nobody asleep.                                        *)
LEMMA WokenStep ==
    ASSUME FullBasic, Woken, [FullNext]_fullVars
    PROVE  Woken'
<1>1. Basic
  BY DEF FullBasic
<1>2. ASSUME tasks' = tasks, \A f \in DOMAIN events : f.kind = "TaskWake" => f \in DOMAIN events'
      PROVE  Woken'
  <2>1. \A t \in Task : Sleeps(t)' => Sleeps(t)
    BY <1>2 DEF Sleeps
  <2> QED
    BY <1>2, <2>1, WokenKept
<1>3. CASE UNCHANGED fullVars
  BY <1>2, <1>3 DEF fullVars, vars
<1>4. CASE Next
  BY <1>1, <1>4, WokenNext
<1>5. CASE \E e \in DOMAIN events : Extra(e)
  BY <1>5, WokenExtra
<1>6. CASE \E g \in Group : Throttle(g)
  BY <1>2, <1>6 DEF Throttle, vars
<1>7. CASE \E c \in Cpu : StashThrottled(c)
  BY <1>2, <1>7, Zenon DEF StashThrottled
<1>8. ASSUME NEW c \in Cpu, NEW pick \in Picks(c), NEW slice \in Nat, RunFor(c, pick, slice)
      PROVE  Woken'
  <2>1. DOMAIN events \subseteq DOMAIN events'
    BY <1>1, <1>8, StartedEvent
  <2>2. tasks'[pick.task].state = "Running" /\ \A v \in Task : v # pick.task => tasks'[v] = tasks[v]
    BY <1>1, <1>8, StartedTask
  <2>3. \A t \in Task : Sleeps(t)' => Sleeps(t)
    BY <2>2 DEF Sleeps
  <2> QED
    BY <2>1, <2>3, WokenKept
<1>9. CASE PutAside
  <2>1. DOMAIN events \subseteq DOMAIN events' /\ tasks' = tasks
    BY <1>1, <1>9, Asides, AfterEnqueued
  <2> QED
    BY <1>2, <2>1
<1>10. CASE InterleavedTimer
  <2>1. tasks' = tasks /\ \A f \in DOMAIN events : f.kind = "TaskWake" => f \in DOMAIN events'
    BY <1>10, TimerInside
  <2> QED
    BY <1>2, <2>1
<1> QED
  BY <1>3, <1>4, <1>5, <1>6, <1>7, <1>8, <1>9, <1>10, FullCases

(* Every task waits for the wake it starts with.                           *)
LEMMA WokenInit ==
    ASSUME FullInit
    PROVE  Woken
<1> SUFFICES ASSUME NEW t \in Task
             PROVE  Awaited(t)
  BY DEF Woken
<1> DEFINE W == {WakeAt(Start[u], u, InitialCpu[u]) : u \in Task}
           K == {EventAt(TickInterval, "Tick", c) : c \in Cpu}
           w == WakeAt(Start[t], t, InitialCpu[t])
<1>1. events = SetToBag(W \cup K \cup Hotplug)
  BY DEF FullInit, Init
<1>2. w \in W \cup K \cup Hotplug
  OBVIOUS
<1>3. Start[t] \in Nat /\ InitialCpu[t] \in Cpu
  BY EngineAssumption
<1>4. w.kind = "TaskWake" /\ w.task = t
  BY <1>3, WakeTypes
<1>5. DOMAIN events = W \cup K \cup Hotplug
  BY <1>1 DEF SetToBag
<1> HIDE DEF w, W, K
<1> QED
  BY <1>2, <1>4, <1>5 DEF Awaited

(* SleeperWoken is an invariant, whatever the library answers and however  *)
(* timers, interrupts and migrations fall: nobody makes a task that has to *)
(* compute a sleeper and leaves it to sleep.  (A task in the stash is     *)
(* Runnable: StashKeepsTasks is about it.)                                 *)
THEOREM NobodySleepsOn == FullSpec => []SleeperWoken
<1> DEFINE Inv == FullBasic /\ Woken
<1>1. FullInit => Inv
  BY FullBasicInit, WokenInit
<1>2. Inv /\ [FullNext]_fullVars => Inv'
  BY FullBasicStep, WokenStep
<1>3. Inv => SleeperWoken
  BY DEF Woken, Sleeps, Awaited, SleeperWoken
<1> QED
  BY <1>1, <1>2, <1>3, PTL DEF FullSpec


-----------------------------------------------------------------------------
(* The stash loses no task and doubles none.                               *)

(* A set paired with one value. *)
LEMMA OneRow ==
    ASSUME NEW g, NEW S, IsFiniteSet(S)
    PROVE  IsFiniteSet({g} \X S) /\ Cardinality({g} \X S) = Cardinality(S)
<1>1. IsFiniteSet({g}) /\ Cardinality({g}) = 1 /\ Cardinality(S) \in Nat
  BY FS_Singleton, FS_CardinalityType
<1>2. IsFiniteSet({g} \X S) /\ Cardinality({g} \X S) = Cardinality({g}) * Cardinality(S)
  BY <1>1, FS_Product
<1> QED
  BY <1>1, <1>2

(* One queue of the stash changes, and the others stay.                    *)
LEMMA StashChange ==
    ASSUME NEW bs \in [Group -> Seq(Task)], NEW ds \in [Group -> Seq(Task)], NEW g \in Group, NEW t,
           \A h \in Group : h # g => ds[h] = bs[h]
    PROVE  Cardinality(Stash(ds, Group, t)) + Copies(bs[g], t)
             = Cardinality(Stash(bs, Group, t)) + Copies(ds[g], t)
<1> DEFINE R == UNION {{h} \X Positions(bs[h], t) : h \in Group \ {g}}
           P == {g} \X Positions(bs[g], t)
           Q == {g} \X Positions(ds[g], t)
<1>1. R = UNION {{h} \X Positions(ds[h], t) : h \in Group \ {g}}
  OBVIOUS
<1>2. Stash(bs, Group, t) = R \cup P
  BY DEF Stash
<1>3. Stash(ds, Group, t) = R \cup Q
  BY <1>1 DEF Stash
<1>4. R \cap P = {} /\ R \cap Q = {}
  OBVIOUS
<1>5. bs[g] \in Seq(Task) /\ ds[g] \in Seq(Task)
  OBVIOUS
<1>6. /\ IsFiniteSet(Positions(bs[g], t)) /\ IsFiniteSet(Positions(ds[g], t))
      /\ Copies(bs[g], t) \in Nat /\ Copies(ds[g], t) \in Nat
  BY <1>5, PositionsFinite
<1>7. IsFiniteSet(P) /\ Cardinality(P) = Copies(bs[g], t)
  <2>1. IsFiniteSet(P) /\ Cardinality(P) = Cardinality(Positions(bs[g], t))
    BY <1>6, OneRow
  <2>2. Cardinality(Positions(bs[g], t)) = Copies(bs[g], t)
    BY DEF Copies
  <2> QED
    BY <2>1, <2>2
<1>8. IsFiniteSet(Q) /\ Cardinality(Q) = Copies(ds[g], t)
  <2>1. IsFiniteSet(Q) /\ Cardinality(Q) = Cardinality(Positions(ds[g], t))
    BY <1>6, OneRow
  <2>2. Cardinality(Positions(ds[g], t)) = Copies(ds[g], t)
    BY DEF Copies
  <2> QED
    BY <2>1, <2>2
<1> HIDE DEF P, Q, R
<1>9. IsFiniteSet(R)
  <2>1. IsFiniteSet(Stash(bs, Group, t)) /\ R \in SUBSET Stash(bs, Group, t)
    BY <1>2, StashFinite
  <2> QED
    BY <2>1, FS_Subset
<1>10. Cardinality(R \cup P) = Cardinality(R) + Cardinality(P)
  <2>1. Cardinality(R \cup P) = Cardinality(R) + Cardinality(P) - Cardinality(R \cap P)
    BY <1>7, <1>9, FS_Union
  <2>2. Cardinality(R \cap P) = 0 /\ Cardinality(R) \in Nat
    BY <1>4, <1>9, FS_EmptySet, FS_CardinalityType
  <2> QED
    BY <2>1, <2>2, <1>6, <1>7
<1>11. Cardinality(R \cup Q) = Cardinality(R) + Cardinality(Q)
  <2>1. Cardinality(R \cup Q) = Cardinality(R) + Cardinality(Q) - Cardinality(R \cap Q)
    BY <1>8, <1>9, FS_Union
  <2>2. Cardinality(R \cap Q) = 0 /\ Cardinality(R) \in Nat
    BY <1>4, <1>9, FS_EmptySet, FS_CardinalityType
  <2> QED
    BY <2>1, <2>2, <1>6, <1>8
<1>12. Cardinality(R) \in Nat
  BY <1>9, FS_CardinalityType
<1> QED
  BY <1>2, <1>3, <1>6, <1>7, <1>8, <1>10, <1>11, <1>12

(* The same, of any two stashes.                                           *)
LEMMA StashAny ==
    ASSUME NEW g \in Group, NEW t
    PROVE  \A bs \in [Group -> Seq(Task)] : \A ds \in [Group -> Seq(Task)] :
             (\A h \in Group : h # g => ds[h] = bs[h]) =>
               Cardinality(Stash(ds, Group, t)) + Copies(bs[g], t)
                 = Cardinality(Stash(bs, Group, t)) + Copies(ds[g], t)
<1> SUFFICES ASSUME NEW bs \in [Group -> Seq(Task)], NEW ds \in [Group -> Seq(Task)],
                    \A h \in Group : h # g => ds[h] = bs[h]
             PROVE  Cardinality(Stash(ds, Group, t)) + Copies(bs[g], t)
                      = Cardinality(Stash(bs, Group, t)) + Copies(ds[g], t)
  OBVIOUS
<1> QED
  BY StashChange, ZenonT(30)

(* How often a task is stashed.                                            *)
LEMMA StashedIs ==
    ASSUME FullBasic, NEW t
    PROVE  /\ Stashed(t) = Cardinality(Stash(blocked, Group, t))
           /\ IsFiniteSet(Stash(blocked, Group, t)) /\ Stashed(t) \in Nat
<1>1. blocked \in [Group -> Seq(Task)]
  BY DEF FullBasic
<1>2. Stashed(t) = Cardinality(Stash(blocked, Group, t))
  BY DEF Stashed, StashedAt, Stash
<1> QED
  BY <1>1, <1>2, StashFinite

(* A task more in the stash.                                               *)
LEMMA StashedMore ==
    ASSUME FullBasic, FullBasic', NEW g \in Group, NEW x \in Task,
           blocked' = [blocked EXCEPT ![g] = Append(@, x)], NEW t
    PROVE  Stashed(t)' = Stashed(t) + One(x, t)
<1>1. blocked \in [Group -> Seq(Task)] /\ blocked' \in [Group -> Seq(Task)]
  BY DEF FullBasic
<1> DEFINE ds == blocked'
<1>2. ds \in [Group -> Seq(Task)] /\ (\A h \in Group : h # g => ds[h] = blocked[h])
      /\ ds[g] = Append(blocked[g], x)
  BY <1>1
<1>3. Stashed(t)' = Cardinality(Stash(ds, Group, t))
  BY DEF Stashed, StashedAt, Stash
<1>4. Stashed(t) = Cardinality(Stash(blocked, Group, t)) /\ Stashed(t) \in Nat
  BY StashedIs
<1> HIDE DEF ds
<1>5. Cardinality(Stash(ds, Group, t)) \in Nat
  BY <1>2, StashFinite
<1>6. Cardinality(Stash(ds, Group, t)) + Copies(blocked[g], t)
        = Cardinality(Stash(blocked, Group, t)) + Copies(ds[g], t)
  <2>1. \A h \in Group : h # g => ds[h] = blocked[h]
    BY <1>2
  <2> QED
    BY <1>1, <1>2, <2>1, StashAny, ZenonT(30)
<1>7. Copies(ds[g], t) = Copies(blocked[g], t) + One(x, t) /\ Copies(blocked[g], t) \in Nat
  <2>1. blocked[g] \in Seq(Task)
    BY <1>1
  <2> QED
    BY <1>2, <2>1, CopiesAppend, PositionsFinite
<1>8. One(x, t) \in Nat
  BY DEF One
<1> QED
  BY <1>3, <1>4, <1>5, <1>6, <1>7, <1>8

(* The stash after a replenishment: the released queues are empty.         *)
LEMMA StashedLess ==
    ASSUME FullBasic, FullBasic', NEW released \in SUBSET Group,
           blocked' = [g \in Group |-> IF g \in released THEN <<>> ELSE blocked[g]], NEW t \in Task
    PROVE  /\ ~In(t, released) => Stashed(t)' = Stashed(t)
           /\ In(t, released) => Stashed(t) >= 1 /\ Stashed(t)' <= Stashed(t) - 1
<1>1. blocked \in [Group -> Seq(Task)] /\ blocked' \in [Group -> Seq(Task)]
  BY DEF FullBasic
<1> DEFINE ds == blocked'
           A == Stash(blocked, Group, t)
           B == Stash(ds, Group, t)
<1>2. Stashed(t)' = Cardinality(B)
  BY DEF Stashed, StashedAt, Stash
<1>3. Stashed(t) = Cardinality(A) /\ IsFiniteSet(A) /\ Stashed(t) \in Nat
  BY StashedIs
<1>4. \A g \in Group : ds[g] = IF g \in released THEN <<>> ELSE blocked[g]
  OBVIOUS
<1> HIDE DEF ds
<1>5. Positions(<<>>, t) = {}
  BY DEF Positions
<1>6. CASE ~In(t, released)
  <2>1. \A g \in released : Positions(blocked[g], t) = {}
    BY <1>6 DEF In, Range, Positions
  <2>2. \A g \in Group : Positions(ds[g], t) = Positions(blocked[g], t)
    BY <1>4, <1>5, <2>1
  <2>3. A = B
    BY <2>2 DEF Stash
  <2> QED
    BY <1>2, <1>3, <1>6, <2>3
<1>7. CASE In(t, released)
  <2>1. PICK g \in released : t \in Range(blocked[g])
    BY <1>7 DEF In
  <2>2. PICK i \in DOMAIN blocked[g] : blocked[g][i] = t
    BY <2>1 DEF Range
  <2>3. <<g, i>> \in A
    BY <2>2 DEF Stash, Positions
  <2>4. Positions(ds[g], t) = {}
    BY <1>4, <1>5
  <2>5. <<g, i>> \notin B
    BY <2>4 DEF Stash
  <2>6. \A h \in Group : Positions(ds[h], t) \subseteq Positions(blocked[h], t)
    BY <1>4, <1>5
  <2>7. B \subseteq A
    BY <2>6 DEF Stash
  <2> HIDE DEF A, B
  <2>8. B \in SUBSET (A \ {<<g, i>>})
    BY <2>5, <2>7
  <2>9. IsFiniteSet(A \ {<<g, i>>}) /\ Cardinality(A \ {<<g, i>>}) = Cardinality(A) - 1
    BY <1>3, <2>3, FS_RemoveElement
  <2>10. IsFiniteSet(B) /\ Cardinality(B) <= Cardinality(A) - 1
    BY <2>8, <2>9, FS_Subset
  <2>11. Cardinality(B) \in Nat
    BY <2>10, FS_CardinalityType
  <2> QED
    BY <1>2, <1>3, <1>7, <2>10, <2>11
<1> QED
  BY <1>6, <1>7


(* The migrations of the scenario are of tasks that ops.enqueue puts aside *)
(* when their cgroup is throttled: the head of a local DSQ is stashed      *)
(* without a word to the scheduler, and a migration of a task so stashed   *)
(* would queue it a second time.                                           *)
MovesAside == \A e \in Hotplug : e.kind = "Migrate" => e.task \in PutsAside

(* The inductive invariant, of a task: it is counted with what is stashed. *)
Booked(t) == Counted(t, Stashed(t))

(* A step that leaves the stash keeps a task booked if it keeps its count. *)
LEMMA BookedSame ==
    ASSUME FullBasic, NEW t \in Task, Booked(t), blocked' = blocked,
           \A n \in Nat : Counted(t, n) => Counted(t, n)'
    PROVE  Booked(t)'
<1>1. PICK n \in Nat : n = Stashed(t)
  BY StashedIs
<1>2. Counted(t, n)
  BY <1>1 DEF Booked
<1>3. Counted(t, n)'
  BY <1>2
<1>4. Stashed(t)' = n
  BY <1>1 DEF Stashed, StashedAt
<1> QED
  BY <1>3, <1>4 DEF Booked, Counted

(* A handler that moves and wakes no task.                                 *)
LEMMA QuietCounts ==
    ASSUME Basic, Basic', NEW e \in DOMAIN events, Quiet(e), NEW u \in Task, NEW n \in Nat, Counted(u, n)
    PROVE  Counted(u, n)'
<1>1. /\ \A k \in Cpu : cpus'[k].current = cpus[k].current /\ cpus'[k].local = cpus[k].local
      /\ failed' \in {failed, TRUE}
      /\ UNCHANGED <<calls, tasks, dsqs, held>>
  BY DEF Quiet
<1>2. OnCpus(cpus', u) = OnCpus(cpus, u)
  BY <1>1, OnCpuSame DEF OnCpus
<1>3. OnLocal(cpus', u) = OnLocal(cpus, u)
  BY <1>1, OnLocalSame
<1>4. Waiting(u)' = Waiting(u) /\ Waiting(u) \in Nat
  BY <1>1, <1>3, WaitingTypes DEF Waiting, InQueues
<1>5. Waiting(u)' <= Waiting(u)
  BY <1>4
<1> QED
  BY <1>1, <1>2, <1>4, <1>5, Shifted

(* A migration of another task.                                            *)
LEMMA RequeuedCounts ==
    ASSUME Basic, Basic', NEW e \in DOMAIN events, e.task \in Task, Requeued(e),
           NEW u \in Task, u # e.task, NEW n \in Nat, Counted(u, n)
    PROVE  Counted(u, n)'
<1> DEFINE t == e.task
<1>1. /\ Pop(e, EmptyBag)
      /\ tasks'[u].state = tasks[u].state
      /\ held' \in {held, held \ {t}}
      /\ \A k \in Cpu : cpus'[k].current = cpus[k].current
      /\ failed' = failed
  BY DEF Requeued
<1>2. calls = <<>> /\ \E c \in Cpu : calls' = <<Call("requeue", c, t)>>
  BY <1>1 DEF Pop, Requeued
<1>3. /\ cpus \in [Cpu -> CpuRec] /\ cpus' \in [Cpu -> CpuRec]
      /\ dsqs \in [global : Seq(Task), shared : Seq(Task)]
      /\ dsqs' \in [global : Seq(Task), shared : Seq(Task)]
  BY DEF Basic
<1>4. One(t, u) = 0
  BY DEF One
<1>5. Copies(dsqs'.global, u) = Copies(dsqs.global, u) /\ Copies(dsqs'.shared, u) = Copies(dsqs.shared, u)
  <2>1. CASE UNCHANGED dsqs
    BY <2>1
  <2>2. ASSUME NEW d \in {"global", "shared"}, NEW i \in 1 .. Len(dsqs[d]), dsqs[d][i] = t,
               dsqs'[d] = RemoveAt(dsqs[d], i),
               \A k \in {"global", "shared"} \ {d} : dsqs'[k] = dsqs[k]
        PROVE  Copies(dsqs'.global, u) = Copies(dsqs.global, u)
               /\ Copies(dsqs'.shared, u) = Copies(dsqs.shared, u)
    <3>1. dsqs[d] \in Seq(Task) /\ dsqs'[d] \in Seq(Task)
      BY <1>3
    <3>2. Copies(dsqs[d], u) = Copies(dsqs'[d], u) + One(t, u) /\ Copies(dsqs'[d], u) \in Nat
      BY <2>2, <3>1, CopiesRemoveAt, PositionsFinite
    <3>3. Copies(dsqs[d], u) = Copies(dsqs'[d], u)
      BY <1>4, <3>2
    <3> QED
      BY <2>2, <3>3
  <2> QED
    BY <2>1, <2>2 DEF Requeued
<1>6. Cardinality(OnLocal(cpus', u)) = Cardinality(OnLocal(cpus, u))
  <2>1. CASE \A k \in Cpu : cpus'[k].local = cpus[k].local
    <3>1. OnLocal(cpus', u) = OnLocal(cpus, u)
      BY <2>1, OnLocalSame
    <3> QED
      BY <3>1
  <2>2. ASSUME NEW c \in Cpu, NEW i \in 1 .. Len(cpus[c].local), cpus[c].local[i] = t,
               cpus'[c].local = RemoveAt(cpus[c].local, i),
               \A k \in Cpu \ {c} : cpus'[k].local = cpus[k].local
        PROVE  Cardinality(OnLocal(cpus', u)) = Cardinality(OnLocal(cpus, u))
    <3> DEFINE ds == cpus'
    <3>1. ds \in [Cpu -> CpuRec] /\ (\A k \in Cpu : k # c => ds[k].local = cpus[k].local)
          /\ ds[c].local = RemoveAt(cpus[c].local, i)
      BY <1>3, <2>2
    <3>2. cpus[c].local \in Seq(Task) /\ ds[c].local \in Seq(Task)
      BY <1>3 DEF CpuRec
    <3> HIDE DEF ds
    <3>3. Copies(cpus[c].local, u) = Copies(ds[c].local, u) + One(t, u) /\ Copies(ds[c].local, u) \in Nat
      BY <2>2, <3>1, <3>2, CopiesRemoveAt, PositionsFinite
    <3>4. Cardinality(OnLocal(ds, u)) + Copies(cpus[c].local, u)
            = Cardinality(OnLocal(cpus, u)) + Copies(ds[c].local, u)
      <4>1. cpus \in [Cpu -> CpuRec] /\ ds \in [Cpu -> CpuRec]
            /\ \A k \in Cpu : k # c => ds[k].local = cpus[k].local
        BY <1>3, <3>1
      <4> QED
        BY <4>1, OnLocalChange, ZenonT(30)
    <3>5. Cardinality(OnLocal(ds, u)) \in Nat /\ Cardinality(OnLocal(cpus, u)) \in Nat
      BY <1>3, <3>1, OnLocalFinite
    <3>6. Cardinality(OnLocal(ds, u)) = Cardinality(OnLocal(cpus, u))
      BY <1>4, <3>3, <3>4, <3>5
    <3> QED
      BY <3>6 DEF ds
  <2> QED
    BY <2>1, <2>2 DEF Requeued
<1>7. InQueues(cpus', dsqs', u) = InQueues(cpus, dsqs, u)
  BY <1>5, <1>6 DEF InQueues
<1>8. AtHold(held', u) = AtHold(held, u)
  BY <1>1, AtHoldIs
<1>9. Hands(calls, u) = 0 /\ Hands(calls', u) = 0
  <2>1. PICK c \in Cpu : calls' = <<Call("requeue", c, t)>>
    BY <1>2
  <2>2. Call("requeue", c, t) \in CallRec /\ Carried(Call("requeue", c, t)) = t
    BY DEF Call, CallRec, CallOp, Carried
  <2> HIDE DEF t
  <2>3. Hands(calls', u) = One(t, u)
    BY <2>1, <2>2, HandsOne
  <2> QED
    BY <1>2, <1>4, <2>3, HandsEmpty
<1>10. Waiting(u)' = Waiting(u)
  BY <1>7, <1>8, <1>9 DEF Waiting
<1>11. OnCpus(cpus', u) = OnCpus(cpus, u)
  BY <1>1, OnCpuSame DEF OnCpus
<1> QED
  BY <1>1, <1>10, <1>11, Shifted


(* The gate takes the task from its queue into the stash.                  *)
LEMMA StashBooks ==
    ASSUME FullBasic, FullBasic', NEW c \in Cpu, StashThrottled(c), NEW u \in Task, Booked(u)
    PROVE  Booked(u)'
<1>1. PICK pick \in Picks(c), g \in Group :
        /\ Calling("pick") /\ calls # <<>> /\ calls' = Tail(calls)
        /\ pick.task \in Task
        /\ dsqs'.global = pick.global /\ dsqs'.shared = dsqs.shared
        /\ cpus'[c].local = pick.local
        /\ \A k \in Cpu : /\ cpus'[k].current = cpus[k].current
                          /\ k # c => cpus'[k].local = cpus[k].local
        /\ blocked' = [blocked EXCEPT ![g] = Append(@, pick.task)]
        /\ UNCHANGED <<failed, tasks, held>>
  BY Stashes
<1>2. Basic /\ Basic'
  BY DEF FullBasic
<1>3. InQueues(cpus', dsqs', u) + One(pick.task, u) = InQueues(cpus, dsqs, u)
  BY <1>1, <1>2, PickCounts
<1>4. Hands(calls', u) = Hands(calls, u)
  <2>1. "pick" \notin Carries \cup {"tick"}
    BY DEF Carries
  <2>2. Head(calls).task = NoTask
    BY <1>1, <1>2, <2>1, Called
  <2>3. Hands(calls, u) = Hands(Tail(calls), u) + One(Carried(Head(calls)), u) /\ Hands(Tail(calls), u) \in Nat
    BY <1>1, <1>2, HandsTail
  <2>4. One(Carried(Head(calls)), u) = 0
    BY <2>2, EngineAssumption DEF One, Carried
  <2> QED
    BY <1>1, <2>3, <2>4
<1>5. Stashed(u)' = Stashed(u) + One(pick.task, u)
  BY <1>1, StashedMore
<1>6. AtHold(held', u) = AtHold(held, u) /\ OnCpus(cpus', u) = OnCpus(cpus, u)
  BY <1>1, OnCpuSame DEF OnCpus
<1>7. /\ InQueues(cpus, dsqs, u) \in Nat /\ AtHold(held, u) \in Nat /\ Hands(calls, u) \in Nat
      /\ OnCpus(cpus, u) \in Nat
      /\ One(pick.task, u) \in Nat /\ Stashed(u) \in Nat
      /\ InQueues(cpus', dsqs', u) \in Nat
  <2>1. InQueues(cpus', dsqs', u) \in Nat
    <3>1. cpus' \in [Cpu -> CpuRec] /\ dsqs' \in [global : Seq(Task), shared : Seq(Task)]
      BY <1>2 DEF Basic
    <3> QED
      BY <3>1, InQueuesTypes
  <2> QED
    BY <1>2, <2>1, WaitingTypes, StashedIs DEF One
<1>8. /\ Waiting(u) = InQueues(cpus, dsqs, u) + AtHold(held, u) + Hands(calls, u)
      /\ Waiting(u)' = InQueues(cpus', dsqs', u) + AtHold(held', u) + Hands(calls', u)
  BY DEF Waiting
<1>9. OnCpus(cpus', u) + Waiting(u)' + Stashed(u)' = OnCpus(cpus, u) + Waiting(u) + Stashed(u)
  BY <1>3, <1>4, <1>5, <1>6, <1>7, <1>8
<1>10. Due(u)' = Due(u) /\ failed' = failed /\ tasks'[u].state = tasks[u].state
  BY <1>1 DEF Due
<1>11. /\ OnCpus(cpus, u) + Waiting(u) + Stashed(u) <= Due(u)
       /\ ~failed => OnCpus(cpus, u) + Waiting(u) + Stashed(u) = Due(u)
       /\ tasks[u].state = "Running" <=> OnCpus(cpus, u) = 1
  BY DEF Booked, Counted
<1>12. /\ OnCpus(cpus', u) + Waiting(u)' + Stashed(u)' <= Due(u)'
       /\ ~failed' => OnCpus(cpus', u) + Waiting(u)' + Stashed(u)' = Due(u)'
       /\ tasks'[u].state = "Running" <=> OnCpus(cpus', u) = 1
  BY <1>6, <1>9, <1>10, <1>11
<1> QED
  BY <1>12 DEF Booked, Counted

(* A task is put aside: no other is touched.                               *)
LEMMA AsideBooks ==
    ASSUME FullBasic, FullBasic', PutAside, NEW u \in Task \ PutsAside, Booked(u)
    PROVE  Booked(u)'
<1> DEFINE t == Head(calls).task
<1>1. /\ Calling("enqueue") \/ Calling("requeue") \/ Calling("drain")
      /\ t \in PutsAside
      /\ KickBag(EmptyBag) /\ AfterEnqueue(EmptyBag)
      /\ held' = held \cup {t}
      /\ UNCHANGED <<tasks, cpus, dsqs, failed>>
  BY Asides
<1>2. Basic /\ Basic' /\ u # t /\ t \in Task
  BY <1>1, FullAssumption DEF FullBasic
<1>3. PICK g \in Group : blocked' = [blocked EXCEPT ![g] = Append(@, t)]
  BY Asides
<1>4. Hands(calls, u) = Hands(calls', u) + One(t, u) /\ Hands(calls', u) \in Nat
  BY <1>1, <1>2, HandsAfter
<1> HIDE DEF t
<1>5. One(t, u) = 0
  BY <1>2 DEF One
<1>6. PICK n \in Nat : n = Stashed(u)
  BY StashedIs
<1>7. Stashed(u)' = n
  <2>1. Stashed(u)' = Stashed(u) + One(t, u)
    BY <1>2, <1>3, StashedMore
  <2> QED
    BY <1>5, <1>6, <2>1
<1>8. AtHold(held', u) = AtHold(held, u)
  BY <1>1, <1>2, AtHoldIs
<1>9. Hands(calls', u) = Hands(calls, u)
  BY <1>4, <1>5
<1>10. OnCpus(cpus', u) = OnCpus(cpus, u) /\ InQueues(cpus', dsqs', u) = InQueues(cpus, dsqs, u)
       /\ tasks'[u].state = tasks[u].state /\ failed' = failed
  BY <1>1
<1>11. Waiting(u)' = Waiting(u)
  BY <1>8, <1>9, <1>10 DEF Waiting
<1>12. Counted(u, n)
  BY <1>6 DEF Booked
<1>13. Counted(u, n)'
  BY <1>2, <1>10, <1>11, <1>12, Shifted
<1> QED
  BY <1>7, <1>13 DEF Booked, Counted

(* A replenishment takes a task out of the stash and makes it a sleeper.   *)
LEMMA FiresBooks ==
    ASSUME FullBasic, FullBasic', NEW e \in DOMAIN events, NEW released, Fires(e, released),
           NEW u \in Task, Booked(u)
    PROVE  Booked(u)'
<1>1. /\ released \in SUBSET Group
      /\ tasks'[u] = IF In(u, released) THEN [tasks[u] EXCEPT !.state = "Sleeping"] ELSE tasks[u]
      /\ blocked' = [g \in Group |-> IF g \in released THEN <<>> ELSE blocked[g]]
      /\ cpus' = Advance(e.cpu, e.time)
      /\ UNCHANGED <<calls, failed, dsqs, held>>
  BY DEF Fires
<1>2. Basic /\ Basic' /\ e.cpu \in Cpu /\ e.time \in Nat
  BY EventIs DEF FullBasic
<1>3. \A k \in Cpu : cpus'[k].current = cpus[k].current /\ cpus'[k].local = cpus[k].local
  BY <1>1, <1>2, NowTypes
<1>4. PICK n \in Nat : n = Stashed(u)
  BY StashedIs
<1>5. Counted(u, n)
  BY <1>4 DEF Booked
<1>6. CASE ~In(u, released)
  <2>1. Stashed(u)' = n
    BY <1>1, <1>4, <1>6, StashedLess
  <2>2. tasks'[u].state = tasks[u].state /\ Hands(calls', u) = Hands(calls, u)
        /\ UNCHANGED <<dsqs, held, failed>>
    BY <1>1, <1>6
  <2>3. Counted(u, n)'
    BY <1>3, <1>5, <2>2, Unmoved
  <2> QED
    BY <2>1, <2>3 DEF Booked, Counted
<1>7. CASE In(u, released)
  <2>1. Stashed(u) >= 1 /\ Stashed(u)' <= Stashed(u) - 1
    BY <1>1, <1>7, StashedLess
  <2>2. OnCpus(cpus, u) \in Nat /\ Waiting(u) \in Nat /\ Due(u) \in {0, 1}
    BY <1>2, WaitingTypes DEF Due
  <2>3. OnCpus(cpus, u) + Waiting(u) + n <= Due(u)
    BY <1>5 DEF Counted
  <2>4. OnCpus(cpus, u) = 0 /\ Waiting(u) = 0 /\ n = 1
    BY <1>4, <2>1, <2>2, <2>3
  <2>5. Stashed(u)' \in Nat
    <3>1. blocked' \in [Group -> Seq(Task)]
      BY DEF FullBasic
    <3>2. Stashed(u)' = Cardinality(Stash(blocked', Group, u))
      BY DEF Stashed, StashedAt, Stash
    <3> QED
      BY <3>1, <3>2, StashFinite
  <2>6. Stashed(u)' = 0
    BY <1>4, <2>1, <2>4, <2>5
  <2>7. OnCpus(cpus', u) = OnCpus(cpus, u)
    BY <1>3, OnCpuSame DEF OnCpus
  <2>8. OnLocal(cpus', u) = OnLocal(cpus, u)
    BY <1>3, OnLocalSame
  <2>9. Waiting(u)' = Waiting(u)
    BY <1>1, <2>8 DEF Waiting, InQueues
  <2>10. tasks'[u].state = "Sleeping"
    <3>1. tasks[u] \in TaskRec
      BY <1>2 DEF Basic
    <3> QED
      BY <1>1, <1>7, <3>1 DEF TaskRec
  <2>11. Due(u)' = 0
    BY <2>10 DEF Due
  <2> QED
    BY <2>4, <2>6, <2>7, <2>9, <2>10, <2>11 DEF Booked, Counted
<1> QED
  BY <1>6, <1>7

(* The other handlers keep every task booked.                              *)
LEMMA ExtraBooks ==
    ASSUME MovesAside, FullBasic, FullBasic', NEW e \in DOMAIN events, Extra(e),
           NEW u \in Task \ PutsAside, Booked(u)
    PROVE  Booked(u)'
<1>1. Basic /\ Basic' /\ u \in Task
  BY DEF FullBasic
<1>2. CASE Quiet(e) /\ blocked' = blocked
  <2>1. \A n \in Nat : Counted(u, n) => Counted(u, n)'
    BY <1>1, <1>2, QuietCounts
  <2> QED
    BY <1>1, <1>2, <2>1, BookedSame
<1>3. CASE IrqStart(e) /\ IrqWakes(e)
  <2>1. PICK ends : WokenAs(e, ends)
    BY <1>3, IrqWoken
  <2>2. blocked' = blocked
    BY <1>3 DEF IrqStart, bwVars
  <2>3. \A n \in Nat : Counted(u, n) => Counted(u, n)'
    BY <1>1, <2>1, WakeAccounts
  <2> QED
    BY <1>1, <2>2, <2>3, BookedSame
<1>4. CASE TimerFired(e)
  BY <1>1, <1>4, TimerFires, FiresBooks
<1>5. CASE Migrate(e)
  <2>1. /\ e.kind = "Migrate" /\ e.task \in Task /\ (Requeued(e) \/ Quiet(e))
        /\ blocked' = blocked
    BY <1>5, MigrateIs
  <2>2. e \in Hotplug
    BY <1>1, <2>1 DEF Basic, NewEvents
  <2>3. u # e.task
    BY <2>1, <2>2 DEF MovesAside
  <2>4. CASE Requeued(e)
    <3>1. \A n \in Nat : Counted(u, n) => Counted(u, n)'
      BY <1>1, <2>1, <2>3, <2>4, RequeuedCounts
    <3> QED
      BY <1>1, <2>1, <3>1, BookedSame
  <2> QED
    BY <1>2, <2>1, <2>4
<1>6. CASE Postpone(e) \/ Notify(e) \/ (e.kind = "Tick" /\ Fail(e) /\ UNCHANGED <<bwVars, owed>>)
             \/ (IrqStart(e) /\ ~IrqWakes(e))
  <2>1. Quiet(e)
    BY <1>6, QuietEvent
  <2>2. blocked' = blocked
    BY <1>6 DEF Postpone, Notify, IrqStart, bwVars
  <2> QED
    BY <1>2, <2>1, <2>2
<1> QED
  BY <1>3, <1>4, <1>5, <1>6 DEF Extra

(* Every step does.                                                        *)
LEMMA BookedStep ==
    ASSUME SelectsLocal, MovesAside, FullBasic, [FullNext]_fullVars,
           NEW u \in Task \ PutsAside, Booked(u)
    PROVE  Booked(u)'
<1>1. FullBasic' /\ Basic /\ Basic' /\ u \in Task
  <2>1. FullBasic'
    BY FullBasicStep
  <2> QED
    BY <2>1 DEF FullBasic
<1>2. CASE [Next]_vars /\ blocked' = blocked
  <2>1. \A n \in Nat : Counted(u, n) => Counted(u, n)'
    BY <1>1, <1>2, CountedStep
  <2> QED
    BY <1>1, <1>2, <2>1, BookedSame
<1>3. CASE UNCHANGED fullVars
  BY <1>2, <1>3 DEF fullVars, bwVars
<1>4. CASE Next /\ UNCHANGED <<bwVars, owed>>
  BY <1>2, <1>4 DEF bwVars
<1>5. CASE \E e \in DOMAIN events : Extra(e)
  BY <1>1, <1>5, ExtraBooks
<1>6. CASE \E g \in Group : Throttle(g)
  BY <1>2, <1>6 DEF Throttle
<1>7. CASE \E c \in Cpu : StashThrottled(c)
  BY <1>1, <1>7, StashBooks
<1>8. ASSUME NEW c \in Cpu, NEW pick \in Picks(c), NEW slice \in Nat, RunFor(c, pick, slice), UNCHANGED bwVars
      PROVE  Booked(u)'
  <2>1. \A n \in Nat : Counted(u, n) => Counted(u, n)'
    BY <1>1, <1>8, StartAccounts
  <2> QED
    BY <1>1, <1>8, <2>1, BookedSame DEF bwVars
<1>9. CASE PutAside
  BY <1>1, <1>9, AsideBooks
<1>10. CASE InterleavedTimer
  <2>1. /\ \A k \in Cpu : cpus'[k].current = cpus[k].current /\ cpus'[k].local = cpus[k].local
        /\ UNCHANGED <<dsqs, held, failed, tasks, calls, blocked>>
    BY <1>10, TimerInside
  <2>2. \A n \in Nat : Counted(u, n) => Counted(u, n)'
    <3>1. UNCHANGED <<dsqs, held, failed>> /\ tasks'[u].state = tasks[u].state /\ Hands(calls', u) = Hands(calls, u)
      BY <2>1
    <3> QED
      BY <1>1, <2>1, <3>1, Unmoved
  <2> QED
    BY <1>1, <2>1, <2>2, BookedSame
<1> QED
  BY <1>3, <1>4, <1>5, <1>6, <1>7, <1>8, <1>9, <1>10, FullCases

(* At the start nothing is stashed.                                        *)
LEMMA BookedInit ==
    ASSUME FullInit, NEW u \in Task
    PROVE  Booked(u)
<1>1. Counted(u, 0)
  BY AccountedInit DEF FullInit, Accounted
<1>2. StashedAt(u, Group) = {}
  BY DEF FullInit, StashedAt, Positions
<1>3. Stashed(u) = 0
  BY <1>2, FS_EmptySet DEF Stashed
<1> QED
  BY <1>1, <1>3 DEF Booked

(* The types hold and every task the library does not put aside is booked, *)
(* in every state.                                                         *)
LEMMA AlwaysBooked ==
    ASSUME SelectsLocal, MovesAside
    PROVE  FullSpec => [](FullBasic /\ \A t \in Task \ PutsAside : Booked(t))
<1> DEFINE I == \A t \in Task \ PutsAside : Booked(t)
<1>1. FullInit => FullBasic /\ I
  BY FullBasicInit, BookedInit
<1>2. (FullBasic /\ I) /\ [FullNext]_fullVars => (FullBasic /\ I)'
  BY FullBasicStep, BookedStep
<1> HIDE DEF I
<1>3. FullSpec => [](FullBasic /\ I)
  BY <1>1, <1>2, PTL DEF FullSpec
<1> QED
  BY <1>3 DEF I

(* cpu.max loses no task and doubles none: of the tasks the library does   *)
(* not put aside, a runnable or running one is stashed for its cgroup or   *)
(* in exactly one of the engine's places, never both and never neither -   *)
(* if ops.select_cpu inserts into local DSQs only, and no task that the    *)
(* gate stashes is migrated. TaskOnOneCpu fails without the first          *)
(* hypothesis; without the second a migration queues what is stashed.      *)
THEOREM StashKeepsTasks ==
    ASSUME SelectsLocal, MovesAside
    PROVE  FullSpec => []StashConserved
<1>1. (FullBasic /\ \A t \in Task \ PutsAside : Booked(t)) => StashConserved
  <2> SUFFICES ASSUME FullBasic, ~failed, NEW t \in Task \ PutsAside, Booked(t)
               PROVE  Places(t) + Stashed(t) = IF tasks[t].state \in {"Runnable", "Running"} THEN 1 ELSE 0
    BY DEF StashConserved
  <2>1. OnCpus(cpus, t) + Waiting(t) + Stashed(t) = Due(t)
    BY DEF Booked, Counted
  <2>2. Basic /\ t \in Task
    BY DEF FullBasic
  <2>3. /\ OnCpus(cpus, t) \in Nat /\ Cardinality(OnLocal(cpus, t)) \in Nat
        /\ Copies(dsqs.global, t) \in Nat /\ Copies(dsqs.shared, t) \in Nat
        /\ AtHold(held, t) \in Nat /\ Hands(calls, t) \in Nat /\ Stashed(t) \in Nat
    BY <2>2, WaitingTypes, InQueuesTypes, StashedIs DEF Basic
  <2>4. Waiting(t) = Cardinality(OnLocal(cpus, t)) + Copies(dsqs.global, t) + Copies(dsqs.shared, t)
                       + AtHold(held, t) + Hands(calls, t)
    BY DEF Waiting, InQueues
  <2>5. Places(t) = OnCpus(cpus, t) + Cardinality(OnLocal(cpus, t)) + Copies(dsqs.global, t)
                      + Copies(dsqs.shared, t) + AtHold(held, t) + Hands(calls, t)
    BY DEF Places, OnCpus, AtHold, Hands
  <2>6. Places(t) + Stashed(t) = Due(t)
    BY <2>1, <2>3, <2>4, <2>5
  <2> QED
    BY <2>6 DEF Due
<1> QED
  BY <1>1, AlwaysBooked, PTL

(* A task the library does not put aside runs on one CPU at a time, failed *)
(* run or not, with the gate, the replenishments and the interrupts, under *)
(* the hypotheses of StashKeepsTasks. Of the tasks it does put aside,      *)
(* MCEngineTwice.cfg runs one on two CPUs.                                 *)
THEOREM OthersOnOneCpu ==
    ASSUME SelectsLocal, MovesAside
    PROVE  FullSpec => [](\A c, d \in Cpu :
                            cpus[c].current = cpus[d].current /\ cpus[c].current \in Task \ PutsAside
                              => c = d)
<1>1. (FullBasic /\ \A t \in Task \ PutsAside : Booked(t)) =>
        \A c, d \in Cpu : cpus[c].current = cpus[d].current /\ cpus[c].current \in Task \ PutsAside
                             => c = d
  <2> SUFFICES ASSUME FullBasic, NEW c \in Cpu, NEW d \in Cpu, NEW t \in Task \ PutsAside,
                      Booked(t), cpus[c].current = t, cpus[d].current = t, c # d
               PROVE  FALSE
    OBVIOUS
  <2>1. OnCpus(cpus, t) + Waiting(t) + Stashed(t) <= 1
    <3>1. OnCpus(cpus, t) + Waiting(t) + Stashed(t) <= Due(t)
      BY DEF Booked, Counted
    <3>2. Due(t) \in {0, 1}
      BY DEF Due
    <3>3. OnCpus(cpus, t) \in Nat /\ Waiting(t) \in Nat /\ Stashed(t) \in Nat
      BY WaitingTypes, StashedIs DEF FullBasic
    <3> QED
      BY <3>1, <3>2, <3>3
  <2>2. OnCpus(cpus, t) \in Nat /\ Waiting(t) \in Nat /\ Stashed(t) \in Nat
    BY WaitingTypes, StashedIs DEF FullBasic
  <2>3. OnCpus(cpus, t) <= 1
    BY <2>1, <2>2
  <2>4. OnCpu(cpus, t) \in SUBSET Cpu /\ c \in OnCpu(cpus, t) /\ d \in OnCpu(cpus, t)
    BY DEF OnCpu
  <2>5. IsFiniteSet(OnCpu(cpus, t))
    <3>1. IsFiniteSet(Cpu)
      BY FS_Interval, EngineAssumption DEF Cpu
    <3> QED
      BY <2>4, <3>1, FS_Subset
  <2>6. Cardinality(OnCpu(cpus, t) \ {c}) = Cardinality(OnCpu(cpus, t)) - 1
        /\ IsFiniteSet(OnCpu(cpus, t) \ {c})
    BY <2>4, <2>5, FS_RemoveElement
  <2>7. Cardinality(OnCpu(cpus, t) \ {c}) = 0
    BY <2>2, <2>3, <2>5, <2>6, FS_CardinalityType DEF OnCpus
  <2>8. OnCpu(cpus, t) \ {c} = {}
    BY <2>6, <2>7, FS_EmptySet
  <2> QED
    BY <2>4, <2>8
<1> QED
  BY <1>1, AlwaysBooked, PTL

=============================================================================
