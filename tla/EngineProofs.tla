---------------------------- MODULE EngineProofs ----------------------------
(***************************************************************************)
(* Theorems about the event engine, for any number of tasks and CPUs, any  *)
(* phases, times and hotplug events, and any scheduler that keeps to its   *)
(* capabilities.                                                           *)
(*                                                                         *)
(* The proofs rest on six inductive invariants, each using some of those   *)
(* before: Basic, the types with the shape of what the handler has still   *)
(* to do; Attended, a CPU with a waiting task will be dispatched to;       *)
(* Accounted, each task is in one place; Timely, a run ends with its slice *)
(* and its phase; Exact, a run that nothing disturbs has one end event and *)
(* is charged what it took; OnAllowed, tasks are on CPUs of their cpumask  *)
(* or on those the scheduler chose.                                        *)
(***************************************************************************)
EXTENDS Engine, FiniteSetTheorems, SequenceTheorems, TLAPS

(* The records of tasks, of CPUs and of calls, as in TypeOK.               *)
TaskRec == [state : TaskState, pos : Nat, remaining : Nat, slice : Nat,
            prevCpu : Cpu, ops : {"None", "Queued"}]
CpuRec == [current : Task \cup {NoTask}, local : Seq(Task), clock : Nat,
           startedAt : Nat, slice : Nat, online : BOOLEAN]
CallRec == [op : CallOp, cpu : Cpu, task : Task \cup {NoTask}]

(* The calls that carry a task, and those that leave nothing more to do.   *)
Carries == {"selectCpu", "enqueue", "requeue", "drain"}
Closing == {"selectCpu", "enqueue", "tick", "drainLocal"}

(* What a handler may have still to do: a call that closes it is its last; *)
(* a tick is for the task on its CPU, a pick for a CPU that is online and  *)
(* idle; a dispatch follows the requeue of a CPU, unless that is all there *)
(* is to do, and the CPU's end its drain.                                  *)
Fits(x, i, n, cs) ==
    /\ x.op \in Carries => x.task \in Task
    /\ x.op \notin Carries \cup {"tick"} => x.task = NoTask
    /\ x.op \in Closing => i = n
    /\ x.op = "tick" => i = 1 /\ x.task \in Task /\ cs[x.cpu].current = x.task
    /\ x.op = "pick" => i = 1 /\ cs[x.cpu].current = NoTask /\ cs[x.cpu].online

(* What must come later in the handler because call i was made.            *)
Followed(todo, i) ==
    /\ todo[i].op = "requeue" => \/ Len(todo) = 1
                                 \/ i < Len(todo) /\ todo[i + 1] = Dispatch(todo[i].cpu)
    /\ todo[i].op = "drain" => todo[Len(todo)] = Call("takeDown", todo[i].cpu, NoTask)

(* The calls todo are what a handler may have still to do on CPUs cs.      *)
Shaped(todo, cs) ==
    /\ todo \in Seq(CallRec)
    /\ \A i \in 1 .. Len(todo) : Fits(todo[i], i, Len(todo), cs) /\ Followed(todo, i)

-----------------------------------------------------------------------------
(* Bags of events. *)

(* Adding bags of members of S gives one, with the members of both. *)
LEMMA BagPlus ==
    ASSUME NEW A, NEW B, IsBagOf(A, Event), IsBagOf(B, Event)
    PROVE  IsBagOf(A (+) B, Event) /\ DOMAIN (A (+) B) = DOMAIN A \cup DOMAIN B
BY DEF IsBagOf, (+)

(* A member of one of two bags only is in their sum as often as there. *)
LEMMA BagCount ==
    ASSUME NEW A, NEW B, IsBagOf(A, Event), NEW f \in DOMAIN A, f \notin DOMAIN B
    PROVE  (A (+) B)[f] = A[f]
BY DEF IsBagOf, (+)

(* A finite set of members of S is a bag of them, each once. *)
LEMMA SetBag ==
    ASSUME NEW T \in SUBSET Event
    PROVE  IsBagOf(SetToBag(T), Event) /\ DOMAIN SetToBag(T) = T
BY DEF IsBagOf, SetToBag

(* The empty bag holds no event. *)
LEMMA NoBag == IsBagOf(EmptyBag, Event) /\ DOMAIN EmptyBag = {}
BY SetBag DEF EmptyBag

(* A bag without one copy of a member keeps the other members, each as     *)
(* often, and the member itself only when it was there more than once.     *)
LeftOver(B, A, e) ==
    /\ IsBagOf(B, Event)
    /\ DOMAIN B \subseteq DOMAIN A
    /\ DOMAIN A \ {e} \subseteq DOMAIN B
    /\ \A f \in DOMAIN B : (f = e => A[e] # 1) /\ (f # e => B[f] = A[f])

(* (-) takes one copy of a member out of a bag of events. *)
LEMMA BagLeft ==
    ASSUME NEW A, IsBagOf(A, Event), NEW e \in DOMAIN A
    PROVE  LeftOver(A (-) SetToBag({e}), A, e)
<1> DEFINE B == A (-) SetToBag({e})
<1>1. e \in Event /\ DOMAIN SetToBag({e}) = {e} /\ SetToBag({e})[e] = 1
  BY DEF IsBagOf, SetToBag
<1>2. \A f \in DOMAIN A : f \in Event /\ A[f] \in Nat \ {0}
  BY DEF IsBagOf
<1>3. /\ DOMAIN B = {f \in DOMAIN A : A[f] - (IF f = e THEN 1 ELSE 0) > 0}
      /\ \A f \in DOMAIN B : B[f] = A[f] - (IF f = e THEN 1 ELSE 0)
  <2> DEFINE T == SetToBag({e})
             D == [f \in DOMAIN A |-> IF f \in DOMAIN T THEN A[f] - T[f] ELSE A[f]]
  <2>1. B = [f \in {d \in DOMAIN D : D[d] > 0} |-> D[f]]
    BY DEF (-)
  <2>2. DOMAIN D = DOMAIN A /\ \A f \in DOMAIN A : D[f] = A[f] - (IF f = e THEN 1 ELSE 0)
    BY <1>1, <1>2
  <2> HIDE DEF D
  <2> QED
    BY <2>1, <2>2
<1> HIDE DEF B
<1>4. /\ DOMAIN B \subseteq DOMAIN A
      /\ DOMAIN A \ {e} \subseteq DOMAIN B
      /\ \A f \in DOMAIN B : (f = e => A[e] # 1) /\ (f # e => B[f] = A[f])
  BY <1>2, <1>3
<1>5. IsBagOf(B, Event)
  BY <1>2, <1>3 DEF IsBagOf
<1> QED
  BY <1>4, <1>5 DEF LeftOver, B

(* EventAt builds an event of its kind and CPU, of no task. *)
LEMMA EventTypes ==
    ASSUME NEW time \in Nat, NEW c \in Cpu, NEW kind \in EventKind
    PROVE  /\ EventAt(time, kind, c) \in Event
           /\ EventAt(time, kind, c).kind = kind
           /\ EventAt(time, kind, c).cpu = c
           /\ EventAt(time, kind, c).time <= time
           /\ EventAt(time, kind, c).flags = {}
BY EngineAssumption DEF EventAt, Event, KickFlags

(* WakeAt builds a TaskWake of its task. *)
LEMMA WakeTypes ==
    ASSUME NEW time \in Nat, NEW c \in Cpu, NEW t \in Task
    PROVE  /\ WakeAt(time, t, c) \in Event
           /\ WakeAt(time, t, c).kind = "TaskWake"
           /\ WakeAt(time, t, c).task = t
           /\ WakeAt(time, t, c).flags = {}
<1>1. /\ EventAt(time, "TaskWake", c) \in Event
      /\ EventAt(time, "TaskWake", c).kind = "TaskWake"
      /\ EventAt(time, "TaskWake", c).flags = {}
  BY EventTypes DEF EventKind
<1> QED
  BY <1>1 DEF WakeAt, Event

(* KickAt builds a Kick of its CPU. *)
LEMMA KickTypes ==
    ASSUME NEW time \in Nat, NEW c \in Cpu, NEW flags \in KickFlags
    PROVE  /\ KickAt(time, c, flags) \in Event
           /\ KickAt(time, c, flags).kind = "Kick"
           /\ KickAt(time, c, flags).cpu = c
           /\ KickAt(time, c, flags).flags = flags
<1>1. /\ EventAt(time, "Kick", c) \in Event
      /\ EventAt(time, "Kick", c).kind = "Kick"
      /\ EventAt(time, "Kick", c).cpu = c
  BY EventTypes DEF EventKind
<1> QED
  BY <1>1 DEF KickAt, Event

(* The end of a handler's search through the phases. *)
LEMMA PhaseTypes ==
    ASSUME NEW t \in Task, NEW p \in Nat
    PROVE  /\ RunTime(PhaseAt(t, p)) \in Nat
           /\ StateIn(PhaseAt(t, p)) \in {"Runnable", "Sleeping", "Exited"}
           /\ StateIn(PhaseAt(t, p)) = "Runnable" <=> PhaseAt(t, p).kind = "Run"
           /\ PhaseAt(t, p).kind = "Sleep" => PhaseAt(t, p).ns \in Nat
           /\ PhaseAt(t, p).kind = "Wake" => PhaseAt(t, p).task \in Task /\ PhaseAt(t, p) = Phases[t][p]
           /\ PhaseAt(t, p).kind # "Run" => RunTime(PhaseAt(t, p)) = 0
           /\ Len(Phases[t]) \in Nat
<1>1. Phases[t] \in Seq(Phase)
  BY EngineAssumption
<1>2. PhaseAt(t, p) \in Phase \/ PhaseAt(t, p) = [kind |-> "None"]
  BY <1>1 DEF PhaseAt
<1> QED
  BY <1>1, <1>2 DEF RunTime, StateIn, Phase, Yield, Park, PhaseAt

(* The wakes of passed phases are TaskWake events of tasks. *)
LEMMA WakesBag ==
    ASSUME NEW t \in Task, NEW p \in Nat, NEW q \in Nat, NEW time \in Nat, NEW c \in Cpu
    PROVE  /\ IsBagOf(Wakes(t, p, q, time, c), Event)
           /\ \A e \in DOMAIN Wakes(t, p, q, time, c) :
                 e.kind = "TaskWake" /\ e.task \in Task /\ e.flags = {}
<1> DEFINE at == {k \in p .. q - 1 : PhaseAt(t, k).kind = "Wake"}
           Woken(k) == WakeAt(time, Phases[t][k].task, c)
<1>1. \A k \in at : /\ Woken(k) \in Event /\ Woken(k).kind = "TaskWake"
                   /\ Woken(k).task \in Task /\ Woken(k).flags = {}
  <2> TAKE k \in at
  <2>1. k \in Nat /\ PhaseAt(t, k).kind = "Wake"
    OBVIOUS
  <2>2. Phases[t][k].task \in Task
    BY <2>1, PhaseTypes
  <2> QED
    BY <2>2, WakeTypes
<1>2. ASSUME NEW e \in {Woken(k) : k \in at}
      PROVE  Cardinality({k \in at : Woken(k) = e}) \in Nat \ {0}
  <2> DEFINE K == {k \in at : Woken(k) = e}
  <2>1. IsFiniteSet(p .. q - 1)
    BY FS_Interval
  <2>2. IsFiniteSet(K)
    BY <2>1, FS_Subset
  <2>3. K # {}
    BY <1>2
  <2> HIDE DEF K
  <2>4. Cardinality(K) \in Nat \ {0}
    BY <2>2, <2>3, FS_CardinalityType, FS_EmptySet
  <2> QED
    BY <2>4 DEF K
<1>3. Wakes(t, p, q, time, c) =
        [e \in {Woken(k) : k \in at} |-> Cardinality({k \in at : Woken(k) = e})]
  BY DEF Wakes
<1> HIDE DEF at, Woken
<1> QED
  BY <1>1, <1>2, <1>3 DEF IsBagOf

-----------------------------------------------------------------------------
(* What a handler has still to do. *)

(* A call of an operation is well typed. *)
LEMMA CallTypes ==
    ASSUME NEW op \in CallOp, NEW c \in Cpu, NEW t \in Task \cup {NoTask}
    PROVE  /\ Call(op, c, t) \in CallRec
           /\ Call(op, c, t).op = op /\ Call(op, c, t).cpu = c /\ Call(op, c, t).task = t
BY DEF Call, CallRec

(* A dispatch is a call, of its CPU and of no task. *)
LEMMA DispatchTypes ==
    ASSUME NEW c \in Cpu
    PROVE  /\ Dispatch(c) \in CallRec
           /\ Dispatch(c).op = "dispatch" /\ Dispatch(c).cpu = c /\ Dispatch(c).task = NoTask
BY CallTypes DEF Dispatch, CallOp

(* A handler that has nothing to do fits any CPUs. *)
LEMMA ShapedNothing == \A cs : Shaped(<<>>, cs)
BY DEF Shaped

(* A handler with one call left fits if that call does. *)
LEMMA ShapedOne ==
    ASSUME NEW x \in CallRec, NEW cs, Fits(x, 1, 1, cs), x.op \notin {"requeue", "drain"}
    PROVE  Shaped(<<x>>, cs)
BY DEF Shaped, Followed

(* What is left after the first call fits whatever that call did to the    *)
(* CPUs: tick and pick, which look at them, come first only.               *)
LEMMA ShapedTail ==
    ASSUME NEW todo, NEW cs, NEW ds, Shaped(todo, cs), todo # <<>>
    PROVE  /\ Shaped(Tail(todo), ds)
           /\ \A i \in 1 .. Len(Tail(todo)) : Tail(todo)[i] = todo[i + 1]
           /\ \A i \in 1 .. Len(Tail(todo)) : Tail(todo)[i].op \notin {"pick", "tick"}
           /\ \A i \in 1 .. Len(Tail(todo)) : Tail(todo)[i].op = "requeue" =>
                 i < Len(Tail(todo)) /\ Tail(todo)[i + 1] = Dispatch(Tail(todo)[i].cpu)
           /\ Head(todo) = todo[1] /\ 1 \in 1 .. Len(todo) /\ Head(todo) \in CallRec
           /\ Fits(Head(todo), 1, Len(todo), cs)
           /\ Head(todo).op \in Closing => Tail(todo) = <<>>
           /\ Len(todo) = Len(Tail(todo)) + 1 /\ Len(Tail(todo)) \in Nat
<1> DEFINE r == Tail(todo)
           n == Len(todo)
<1>1. /\ todo \in Seq(CallRec) /\ r \in Seq(CallRec)
      /\ n \in Nat \ {0} /\ Len(r) = n - 1
      /\ \A i \in 1 .. Len(r) : r[i] = todo[i + 1]
  BY HeadTailProperties, EmptySeq DEF Shaped
<1>2. Head(todo) = todo[1] /\ todo[1] \in CallRec
  BY <1>1
<1> HIDE DEF r, n
<1>3. \A i \in 1 .. Len(r) : i + 1 \in 1 .. n /\ i + 1 # 1 /\ i \in Nat
  BY <1>1
<1>4. \A i \in 1 .. n : Fits(todo[i], i, n, cs) /\ Followed(todo, i)
  BY DEF Shaped, n
<1>5. \A i \in 1 .. Len(r) : r[i].op \notin {"pick", "tick"}
  <2> TAKE i \in 1 .. Len(r)
  <2>1. Fits(todo[i + 1], i + 1, n, cs)
    BY <1>3, <1>4
  <2> QED
    BY <2>1, <1>1, <1>3 DEF Fits
<1>6. ASSUME NEW i \in 1 .. Len(r)
      PROVE  /\ Fits(r[i], i, Len(r), ds) /\ Followed(r, i)
             /\ r[i].op = "requeue" => i < Len(r) /\ r[i + 1] = Dispatch(r[i].cpu)
  <2>1. Fits(todo[i + 1], i + 1, n, cs) /\ Followed(todo, i + 1) /\ r[i] = todo[i + 1]
    BY <1>1, <1>3, <1>4
  <2>2. Fits(r[i], i, Len(r), ds)
    BY <2>1, <1>1, <1>3, <1>5 DEF Fits
  <2>3. r[i].op = "requeue" => i < Len(r) /\ r[i + 1] = Dispatch(r[i].cpu)
    <3> SUFFICES ASSUME r[i].op = "requeue" PROVE i < Len(r) /\ r[i + 1] = Dispatch(r[i].cpu)
      OBVIOUS
    <3>0. n # 1
      BY <1>1, SMTT(30)
    <3>1. i + 1 < n /\ todo[i + 1 + 1] = Dispatch(r[i].cpu)
      BY <2>1, <3>0 DEF Followed, n
    <3>2. i < Len(r) /\ i + 1 \in 1 .. Len(r)
      BY <3>1, <1>1, <1>3
    <3> QED
      BY <3>1, <3>2, <1>1
  <2>4. r[Len(r)] = todo[n]
    <3>1. Len(r) \in 1 .. Len(r) /\ Len(r) + 1 = n
      BY <1>1
    <3> QED
      BY <3>1, <1>1
  <2> QED
    BY <2>1, <2>2, <2>3, <2>4 DEF Followed, n
<1>7. Shaped(r, ds)
  BY <1>1, <1>6 DEF Shaped
<1>8. 1 \in 1 .. n /\ Fits(Head(todo), 1, n, cs)
  BY <1>1, <1>2, <1>4
<1>9. ASSUME Head(todo).op \in Closing
      PROVE  r = <<>>
  <2>1. n = 1
    BY <1>8, <1>9 DEF Fits
  <2> QED
    BY <2>1, <1>1
<1>10. \A i \in 1 .. Len(r) : r[i].op = "requeue" => i < Len(r) /\ r[i + 1] = Dispatch(r[i].cpu)
  BY <1>6
<1> QED
  <2>1. Len(todo) = Len(r) + 1 /\ Len(r) \in Nat
    BY <1>1 DEF n
  <2> QED
    BY <1>1, <1>2, <1>5, <1>7, <1>8, <1>9, <1>10, <2>1 DEF r, n

(* The first call may be replaced by a pick or a dispatch. *)
LEMMA ShapedThen ==
    ASSUME NEW todo, NEW cs, NEW ds, Shaped(todo, cs), todo # <<>>,
           NEW x \in CallRec, x.task = NoTask, x.op \in {"dispatch", "pick"},
           x.op = "pick" => ds[x.cpu].current = NoTask /\ ds[x.cpu].online
    PROVE  /\ Shaped(<<x>> \o Tail(todo), ds)
           /\ Len(<<x>> \o Tail(todo)) = Len(Tail(todo)) + 1
           /\ (<<x>> \o Tail(todo))[1] = x
           /\ \A i \in 1 .. Len(Tail(todo)) : (<<x>> \o Tail(todo))[i + 1] = Tail(todo)[i]
<1> DEFINE r == Tail(todo)
           s == <<x>> \o r
<1>1. /\ Shaped(r, ds) /\ r \in Seq(CallRec) /\ Len(r) \in Nat
      /\ \A i \in 1 .. Len(r) : r[i].op \notin {"pick", "tick"}
      /\ \A i \in 1 .. Len(r) : r[i].op = "requeue" =>
            i < Len(r) /\ r[i + 1] = Dispatch(r[i].cpu)
  BY ShapedTail DEF Shaped
<1>2. <<x>> \in Seq(CallRec) /\ Len(<<x>>) = 1 /\ <<x>>[1] = x
  OBVIOUS
<1> HIDE DEF r
<1>3. /\ s \in Seq(CallRec) /\ Len(s) = 1 + Len(r)
      /\ \A i \in 1 .. 1 + Len(r) : s[i] = IF i <= 1 THEN <<x>>[i] ELSE r[i - 1]
  BY <1>1, <1>2, ConcatProperties
<1> HIDE DEF s
<1>4. s[1] = x /\ \A i \in 1 .. Len(r) : s[i + 1] = r[i]
  <2>1. s[1] = x
    BY <1>1, <1>2, <1>3
  <2>2. ASSUME NEW i \in 1 .. Len(r) PROVE s[i + 1] = r[i]
    <3>1. i + 1 \in 1 .. 1 + Len(r) /\ ~(i + 1 <= 1) /\ i + 1 - 1 = i
      BY <1>1
    <3> QED
      BY <3>1, <1>3
  <2> QED
    BY <2>1, <2>2
<1>5. \A i \in 1 .. Len(s) : i = 1 \/ \E j \in 1 .. Len(r) : i = j + 1
  <2> TAKE i \in 1 .. Len(s)
  <2>1. i # 1 => i - 1 \in 1 .. Len(r) /\ i = (i - 1) + 1
    BY <1>1, <1>3
  <2> QED
    BY <2>1
<1>6. ASSUME NEW i \in 1 .. Len(s)
      PROVE  Fits(s[i], i, Len(s), ds) /\ Followed(s, i)
  <2>1. CASE i = 1
    BY <2>1, <1>4 DEF Carries, Closing, Fits, Followed
  <2>2. ASSUME NEW j \in 1 .. Len(r), i = j + 1
        PROVE  Fits(s[i], i, Len(s), ds) /\ Followed(s, i)
    <3>1. Fits(r[j], j, Len(r), ds) /\ Followed(r, j) /\ s[i] = r[j]
      BY <2>2, <1>1, <1>4 DEF Shaped
    <3>2. Fits(s[i], i, Len(s), ds)
      BY <3>1, <2>2, <1>1, <1>3 DEF Fits
    <3>3. s[Len(s)] = r[Len(r)]
      <4>1. Len(r) \in 1 .. Len(r) /\ Len(s) = Len(r) + 1
        BY <1>1, <1>3, <2>2
      <4> QED
        BY <4>1, <1>4
    <3>4. j < Len(r) => s[i + 1] = r[j + 1]
      <4> SUFFICES ASSUME j < Len(r) PROVE s[i + 1] = r[j + 1]
        OBVIOUS
      <4>1. j + 1 \in 1 .. Len(r)
        BY <1>1
      <4> QED
        BY <4>1, <2>2, <1>4
    <3>5. j < Len(r) => i < Len(s)
      BY <2>2, <1>1, <1>3
    <3>6. r[j].op = "requeue" => i < Len(s) /\ s[i + 1] = Dispatch(s[i].cpu)
      BY <1>1, <3>1, <3>4, <3>5
    <3> QED
      BY <3>1, <3>2, <3>3, <3>6 DEF Followed
  <2> QED
    BY <2>1, <2>2, <1>5
<1> QED
  BY <1>3, <1>4, <1>6 DEF s, r, Shaped

(* Nothing is left after the only call. *)
LEMMA ThenOne ==
    ASSUME NEW S, NEW r \in Seq(S), NEW x \in S
    PROVE  /\ r \o <<x>> \in Seq(S)
           /\ Len(r \o <<x>>) = Len(r) + 1
           /\ \A i \in 1 .. Len(r) : (r \o <<x>>)[i] = r[i]
           /\ (r \o <<x>>)[Len(r) + 1] = x
BY AppendIsConcat, AppendProperties

(* stop_and_reenqueue followed by a dispatch, with or without the end of a *)
(* CPU after them, fits.                                                   *)
LEMMA ShapedRequeue ==
    ASSUME NEW c \in Cpu, NEW t \in Task, NEW ds
    PROVE  /\ Shaped(<<Call("requeue", c, t), Dispatch(c)>>, ds)
           /\ \A op \in {"drainLocal", "takeDown"} :
                 LET s == <<Call("requeue", c, t), Dispatch(c)>> \o <<Call(op, c, NoTask)>> IN
                 /\ Shaped(s, ds)
                 /\ Len(s) = 3
                 /\ s[1] = Call("requeue", c, t) /\ s[2] = Dispatch(c) /\ s[3] = Call(op, c, NoTask)
<1> DEFINE a == Call("requeue", c, t)
           b == Dispatch(c)
<1>1. /\ a \in CallRec /\ a.op = "requeue" /\ a.cpu = c /\ a.task = t
      /\ b \in CallRec /\ b.op = "dispatch" /\ b.task = NoTask
  BY CallTypes, DispatchTypes DEF CallOp
<1> HIDE DEF a
<1>2. Shaped(<<a, b>>, ds)
  BY <1>1 DEF Shaped, Fits, Followed, Carries, Closing
<1>3. ASSUME NEW op \in {"drainLocal", "takeDown"}
      PROVE  LET s == <<a, b>> \o <<Call(op, c, NoTask)>> IN
                 /\ Shaped(s, ds)
                 /\ Len(s) = 3
                 /\ s[1] = a /\ s[2] = b /\ s[3] = Call(op, c, NoTask)
  <2> DEFINE x == Call(op, c, NoTask)
  <2>1. x \in CallRec /\ x.op = op /\ x.task = NoTask
    BY CallTypes DEF CallOp
  <2> HIDE DEF x
  <2> DEFINE s == <<a, b>> \o <<x>>
  <2>2. <<a, b>> \in Seq(CallRec) /\ Len(<<a, b>>) = 2 /\ <<a, b>>[1] = a /\ <<a, b>>[2] = b
    BY <1>1
  <2>3. s \in Seq(CallRec) /\ Len(s) = 3 /\ s[1] = a /\ s[2] = b /\ s[3] = x
    BY <2>1, <2>2, ThenOne
  <2> HIDE DEF s
  <2>4. Shaped(s, ds)
    BY <1>1, <2>1, <2>3 DEF Shaped, Fits, Followed, Carries, Closing
  <2> QED
    BY <2>3, <2>4 DEF x, s
<1> QED
  BY <1>2, <1>3 DEF a

(* A dispatch on each idle CPU fits. *)
LEMMA ShapedDispatches ==
    ASSUME NEW todo, NEW S \in SUBSET Cpu, IsDispatchOf(todo, S), NEW ds
    PROVE  /\ Shaped(todo, ds)
           /\ \A i \in 1 .. Len(todo) : todo[i] \in CallRec /\ todo[i].op = "dispatch" /\ todo[i].task = NoTask
           /\ \A c \in S : \E i \in 1 .. Len(todo) : todo[i] = Dispatch(c)
<1>1. PICK order \in Bijection(1 .. Cardinality(S), S) :
          todo = [i \in DOMAIN order |-> Dispatch(order[i])]
  BY DEF IsDispatchOf
<1>2. Cardinality(S) \in Nat
  <2>1. IsFiniteSet(Cpu)
    BY FS_Interval, EngineAssumption DEF Cpu
  <2> QED
    BY <2>1, FS_Subset, FS_CardinalityType
<1> DEFINE n == Cardinality(S)
<1>3. order \in [1 .. n -> S] /\ \A c \in S : \E i \in 1 .. n : order[i] = c
  BY <1>1 DEF Bijection, Surjection
<1> HIDE DEF n
<1>4. todo = [i \in 1 .. n |-> Dispatch(order[i])]
  BY <1>1, <1>3
<1>5. \A i \in 1 .. n : Dispatch(order[i]) \in CallRec
  BY <1>3, DispatchTypes
<1>6. n \in Nat
  BY <1>2 DEF n
<1>7. todo \in Seq(CallRec) /\ Len(todo) = n
  BY <1>4, <1>5, <1>6
<1>8. \A i \in 1 .. Len(todo) : todo[i] \in CallRec /\ todo[i].op = "dispatch" /\ todo[i].task = NoTask
  BY <1>3, <1>4, <1>7, DispatchTypes
<1>9. Shaped(todo, ds)
  BY <1>7, <1>8 DEF Shaped, Fits, Followed, Carries, Closing
<1> QED
  BY <1>3, <1>4, <1>7, <1>8, <1>9

(* The drain of a local DSQ followed by the end of its CPU fits. *)
LEMMA ShapedDrain ==
    ASSUME NEW c \in Cpu, NEW queue \in Seq(Task), NEW ds
    PROVE  LET s == [i \in DOMAIN queue |-> Call("drain", c, queue[i])] \o <<Call("takeDown", c, NoTask)>>
           IN  /\ Shaped(s, ds)
               /\ Len(s) = Len(queue) + 1
               /\ \A i \in 1 .. Len(queue) : s[i] = Call("drain", c, queue[i])
               /\ s[Len(queue) + 1] = Call("takeDown", c, NoTask)
<1> DEFINE n == Len(queue)
           r == [i \in DOMAIN queue |-> Call("drain", c, queue[i])]
           x == Call("takeDown", c, NoTask)
           s == r \o <<x>>
<1>1. n \in Nat /\ DOMAIN queue = 1 .. n /\ \A i \in 1 .. n : queue[i] \in Task
  OBVIOUS
<1>2. x \in CallRec /\ x.op = "takeDown" /\ x.cpu = c /\ x.task = NoTask
  BY CallTypes DEF CallOp
<1>3. \A i \in 1 .. n : /\ Call("drain", c, queue[i]) \in CallRec
                        /\ Call("drain", c, queue[i]).op = "drain"
                        /\ Call("drain", c, queue[i]).cpu = c
                        /\ Call("drain", c, queue[i]).task = queue[i]
  BY <1>1, CallTypes DEF CallOp
<1> HIDE DEF n
<1>4. r \in Seq(CallRec) /\ Len(r) = n /\ \A i \in 1 .. n : r[i] = Call("drain", c, queue[i])
  BY <1>1, <1>3
<1> HIDE DEF r, x
<1>6. /\ s \in Seq(CallRec) /\ Len(s) = n + 1
      /\ \A i \in 1 .. n : s[i] = r[i]
      /\ s[n + 1] = x
  BY <1>2, <1>4, ThenOne
<1> HIDE DEF s
<1>7. \A i \in 1 .. n : s[i] = Call("drain", c, queue[i])
  BY <1>4, <1>6
<1>9. ASSUME NEW i \in 1 .. Len(s)
      PROVE  Fits(s[i], i, Len(s), ds) /\ Followed(s, i)
  <2>1. CASE i \in 1 .. n
    BY <2>1, <1>1, <1>3, <1>6, <1>7 DEF Fits, Followed, Carries, Closing, x
  <2>2. CASE i = n + 1
    BY <2>2, <1>2, <1>6 DEF Fits, Followed, Carries, Closing
  <2> QED
    BY <2>1, <2>2, <1>1, <1>6
<1> QED
  BY <1>6, <1>7, <1>9 DEF s, r, x, n, Shaped

(* RemoveAt takes position i out and moves the later ones up. *)
LEMMA RemoveAtTypes ==
    ASSUME NEW S, NEW s \in Seq(S), NEW j \in 1 .. Len(s)
    PROVE  /\ RemoveAt(s, j) \in Seq(S)
           /\ Len(RemoveAt(s, j)) = Len(s) - 1
           /\ \A k \in 1 .. Len(s) - 1 : RemoveAt(s, j)[k] = IF k < j THEN s[k] ELSE s[k + 1]
<1> DEFINE a == SubSeq(s, 1, j - 1)
           b == SubSeq(s, j + 1, Len(s))
<1>1. Len(s) \in Nat /\ j \in Nat /\ j >= 1 /\ j <= Len(s)
  OBVIOUS
<1>2. \A i \in 1 .. Len(s) : s[i] \in S
  OBVIOUS
<1>3. /\ a \in Seq(S) /\ Len(a) = j - 1
      /\ \A i \in 1 .. j - 1 : a[i] = s[i]
  <2>1. \A i \in 1 .. j - 1 : s[i] \in S
    BY <1>1, <1>2
  <2>2. /\ a \in Seq(S) /\ Len(a) = IF 1 <= j - 1 THEN j - 1 - 1 + 1 ELSE 0
        /\ \A i \in 1 .. j - 1 - 1 + 1 : a[i] = s[1 + i - 1]
    BY <1>1, <2>1, SubSeqProperties
  <2>3. Len(a) = j - 1
    BY <2>2, <1>1
  <2>4. ASSUME NEW i \in 1 .. j - 1 PROVE a[i] = s[i]
    <3>1. i \in 1 .. j - 1 - 1 + 1 /\ 1 + i - 1 = i
      BY <1>1
    <3> QED
      BY <3>1, <2>2
  <2> QED
    BY <2>2, <2>3, <2>4
<1>4. /\ b \in Seq(S) /\ Len(b) = Len(s) - j
      /\ \A i \in 1 .. Len(s) - j : b[i] = s[j + i]
  <2>1. \A i \in j + 1 .. Len(s) : s[i] \in S
    BY <1>1, <1>2
  <2>2. /\ b \in Seq(S) /\ Len(b) = IF j + 1 <= Len(s) THEN Len(s) - (j + 1) + 1 ELSE 0
        /\ \A i \in 1 .. Len(s) - (j + 1) + 1 : b[i] = s[j + 1 + i - 1]
    BY <1>1, <2>1, SubSeqProperties
  <2>3. Len(b) = Len(s) - j
    BY <2>2, <1>1
  <2>4. ASSUME NEW i \in 1 .. Len(s) - j PROVE b[i] = s[j + i]
    <3>1. i \in 1 .. Len(s) - (j + 1) + 1 /\ j + 1 + i - 1 = j + i
      BY <1>1
    <3> QED
      BY <3>1, <2>2
  <2> QED
    BY <2>2, <2>3, <2>4
<1>5. RemoveAt(s, j) = a \o b
  BY DEF RemoveAt
<1> HIDE DEF a, b
<1>6. /\ a \o b \in Seq(S) /\ Len(a \o b) = Len(a) + Len(b)
      /\ \A i \in 1 .. Len(a) + Len(b) : (a \o b)[i] = IF i <= Len(a) THEN a[i] ELSE b[i - Len(a)]
  BY <1>3, <1>4, ConcatProperties
<1>7. ASSUME NEW k \in 1 .. Len(s) - 1
      PROVE  (a \o b)[k] = IF k < j THEN s[k] ELSE s[k + 1]
  <2>1. k \in 1 .. Len(a) + Len(b)
    BY <1>1, <1>3, <1>4
  <2>2. CASE k < j
    <3>1. k <= Len(a) /\ k \in 1 .. j - 1
      BY <1>1, <1>3, <2>2
    <3> QED
      BY <3>1, <2>1, <2>2, <1>3, <1>6
  <2>3. CASE ~(k < j)
    <3>1. ~(k <= Len(a)) /\ k - Len(a) \in 1 .. Len(s) - j /\ j + (k - Len(a)) = k + 1
      BY <1>1, <1>3, <2>3
    <3>2. (a \o b)[k] = b[k - Len(a)]
      BY <3>1, <2>1, <1>6
    <3> QED
      BY <3>1, <3>2, <2>3, <1>4
  <2> QED
    BY <2>2, <2>3
<1>8. Len(a) + Len(b) = Len(s) - 1
  BY <1>1, <1>3, <1>4
<1> QED
  BY <1>5, <1>6, <1>7, <1>8

-----------------------------------------------------------------------------
(* Types. *)

(* Whether nothing preempts a run: the scheduler does not ask for it and   *)
(* no CPU leaves.  Then no event does either.                              *)
Undisturbed == Hotplug = {} /\ ~TickKicks /\ \A k \in Kicks : "PREEMPT" \notin k.flags

Calm(f) == Undisturbed => f.kind \notin {"Offline", "Release"} /\ "PREEMPT" \notin f.flags

(* Bags of events, of kicks: a TaskWake is of a task, and all migrations   *)
(* are the scenario's.                                                     *)
NewEvents(B) ==
    /\ IsBagOf(B, Event)
    /\ \A f \in DOMAIN B : /\ Calm(f)
                           /\ f.kind = "TaskWake" => f.task \in Task
                           /\ f.kind = "Migrate" => f \in Hotplug

KickBag(B) == IsBagOf(B, Event) /\ \A f \in DOMAIN B : Calm(f) /\ f.kind = "Kick"

(* Every variable has its type, wakes name a task, only kicks are staged.  *)
Basic ==
    /\ clock \in Nat
    /\ NewEvents(events)
    /\ KickBag(staged)
    /\ Shaped(calls, cpus)
    /\ failed \in BOOLEAN
    /\ tasks \in [Task -> TaskRec]
    /\ cpus \in [Cpu -> CpuRec]
    /\ dsqs \in [global : Seq(Task), shared : Seq(Task)]
    /\ held \in SUBSET Task
    /\ unserved \in [Task -> Int]

(* The inductive invariant gives the types. *)
LEMMA BasicTypes == Basic => TypeOK
BY DEF Basic, TypeOK, NewEvents, KickBag, Shaped, TaskRec, CpuRec, CallRec

(* Wakes may be scheduled. *)
LEMMA NewWakes ==
    ASSUME NEW B, IsBagOf(B, Event),
           \A f \in DOMAIN B : f.kind = "TaskWake" /\ f.task \in Task /\ f.flags = {}
    PROVE  NewEvents(B)
BY DEF NewEvents, Calm

(* What popping event e leaves: every other event is still there. *)
LEMMA Popped ==
    ASSUME Basic, NEW e \in DOMAIN events, NEW pushed, NewEvents(pushed), Pop(e, pushed)
    PROVE  /\ e \in Event /\ (e.kind = "TaskWake" => e.task \in Task)
           /\ NewEvents(events')
           /\ DOMAIN events' \subseteq DOMAIN events \cup DOMAIN pushed
           /\ (DOMAIN events \ {e}) \cup DOMAIN pushed \subseteq DOMAIN events'
           /\ clock' = e.time /\ clock' \in Nat
           /\ calls = <<>> /\ ~failed
<1>1. e \in Event /\ (e.kind = "TaskWake" => e.task \in Task) /\ IsBagOf(events, Event) /\ NewEvents(events)
  BY DEF Basic, IsBagOf, NewEvents
<1> DEFINE B == events (-) SetToBag({e})
<1>2. IsBagOf(B, Event) /\ DOMAIN B \subseteq DOMAIN events /\ DOMAIN events \ {e} \subseteq DOMAIN B
  BY <1>1, BagLeft DEF LeftOver
<1>3. events' = B (+) pushed /\ clock' = e.time /\ calls = <<>> /\ ~failed
  BY DEF Pop
<1> HIDE DEF B
<1>4. IsBagOf(events', Event) /\ DOMAIN events' = DOMAIN B \cup DOMAIN pushed
  <2>1. IsBagOf(pushed, Event)
    BY DEF NewEvents
  <2> QED
    BY <2>1, <1>2, <1>3, BagPlus
<1> QED
  BY <1>1, <1>2, <1>3, <1>4 DEF NewEvents, Event

(* A handler may schedule nothing. *)
LEMMA NewNothing == NewEvents(EmptyBag)
BY NoBag DEF NewEvents

(* One event whose TaskWake is of a task may be scheduled. *)
LEMMA NewOne ==
    ASSUME NEW e \in Event, e.flags = {},
           e.kind \notin {"TaskWake", "Offline", "Release", "Migrate"}
    PROVE  NewEvents(SetToBag({e})) /\ DOMAIN SetToBag({e}) = {e}
BY SetBag DEF NewEvents, Calm

(* What two parts of a handler schedule may be scheduled. *)
LEMMA NewBoth ==
    ASSUME NEW A, NEW B, NewEvents(A), NewEvents(B)
    PROVE  NewEvents(A (+) B) /\ DOMAIN (A (+) B) = DOMAIN A \cup DOMAIN B
<1>1. IsBagOf(A, Event) /\ IsBagOf(B, Event)
  BY DEF NewEvents
<1>2. IsBagOf(A (+) B, Event) /\ DOMAIN (A (+) B) = DOMAIN A \cup DOMAIN B
  BY <1>1, BagPlus
<1> QED
  BY <1>2 DEF NewEvents

(* A CPU's clock. *)
LEMMA NowTypes ==
    ASSUME Basic, NEW c \in Cpu, NEW time \in Nat
    PROVE  /\ Now(c, time) \in Nat /\ Now(c, time) >= time /\ Now(c, time) >= cpus[c].clock
           /\ Now(c, time) = time \/ Now(c, time) = cpus[c].clock
           /\ Advance(c, time) \in [Cpu -> CpuRec]
           /\ \A d \in Cpu : /\ Advance(c, time)[d].current = cpus[d].current
                             /\ Advance(c, time)[d].local = cpus[d].local
                             /\ Advance(c, time)[d].startedAt = cpus[d].startedAt
                             /\ Advance(c, time)[d].slice = cpus[d].slice
                             /\ Advance(c, time)[d].online = cpus[d].online
                             /\ Advance(c, time)[d].clock = IF d = c THEN Now(c, time) ELSE cpus[d].clock
<1>1. cpus \in [Cpu -> CpuRec]
  BY DEF Basic
<1>2. cpus[c].clock \in Nat
  BY <1>1 DEF CpuRec
<1>3. Now(c, time) \in Nat /\ Now(c, time) >= time /\ Now(c, time) >= cpus[c].clock
      /\ (Now(c, time) = time \/ Now(c, time) = cpus[c].clock)
  BY <1>2 DEF Now
<1> QED
  BY <1>1, <1>3 DEF Advance, CpuRec

(* Kicks staged by two callbacks are kicks. *)
LEMMA KickPlus ==
    ASSUME NEW A, NEW B, KickBag(A), KickBag(B)
    PROVE  /\ KickBag(A (+) B) /\ DOMAIN (A (+) B) = DOMAIN A \cup DOMAIN B
           /\ NewEvents(A)
<1>1. IsBagOf(A, Event) /\ IsBagOf(B, Event)
  BY DEF KickBag
<1>2. IsBagOf(A (+) B, Event) /\ DOMAIN (A (+) B) = DOMAIN A \cup DOMAIN B
  BY <1>1, BagPlus
<1> QED
  BY <1>2 DEF KickBag, NewEvents

(* A callback may stage no kick. *)
LEMMA KickNone == KickBag(EmptyBag) /\ DOMAIN EmptyBag = {}
BY NoBag DEF KickBag

(* A callback may stage a kick. *)
LEMMA KickOne ==
    ASSUME NEW time \in Nat, NEW c \in Cpu, NEW flags \in KickFlags,
           Undisturbed => "PREEMPT" \notin flags
    PROVE  /\ KickBag(SetToBag({KickAt(time, c, flags)}))
           /\ DOMAIN SetToBag({KickAt(time, c, flags)}) = {KickAt(time, c, flags)}
<1> DEFINE k == KickAt(time, c, flags)
<1>1. k \in Event /\ k.kind = "Kick" /\ Calm(k)
  BY KickTypes DEF Calm
<1> HIDE DEF k
<1>2. IsBagOf(SetToBag({k}), Event) /\ DOMAIN SetToBag({k}) = {k}
  BY <1>1, SetBag
<1>3. KickBag(SetToBag({k}))
  BY <1>1, <1>2 DEF KickBag
<1> QED
  BY <1>2, <1>3 DEF k

(* A handler that only lets time pass on its CPU. *)
LEMMA PassBasic ==
    ASSUME Basic, NEW e \in DOMAIN events, NEW pushed, NewEvents(pushed), Pop(e, pushed),
           NEW cs \in [Cpu -> CpuRec], cpus' = cs, Shaped(calls', cs), failed' \in BOOLEAN,
           KickBag(staged'), tasks' \in [Task -> TaskRec], held' \in SUBSET Task,
           unserved' \in [Task -> Int], UNCHANGED dsqs
    PROVE  Basic'
<1>1. NewEvents(events') /\ clock' \in Nat
  BY Popped
<1> QED
  BY <1>1 DEF Basic

(* A handler that returns early keeps the invariant. *)
LEMMA IgnoreBasic ==
    ASSUME Basic, NEW e \in DOMAIN events, Ignore(e)
    PROVE  Basic'
<1>1. e \in Event /\ calls = <<>> /\ Take(e, EmptyBag)
  BY Popped, NewNothing DEF Ignore, Take
<1>2. e.cpu \in Cpu /\ e.time \in Nat
  BY <1>1 DEF Event
<1>3. cpus' \in [Cpu -> CpuRec]
  BY <1>2, NowTypes DEF Ignore
<1>4. Shaped(calls', cpus')
  BY <1>1, ShapedNothing DEF Ignore
<1> QED
  BY <1>1, <1>3, <1>4, NewNothing, PassBasic DEF Ignore, Take, Basic

(* The wake of a sleeper, which schedules the events "ends" as well, in    *)
(* the facts the proofs use ...                                            *)
WokenAs(e, ends) ==
    LET t == e.task
        p == tasks[t].pos
    IN  /\ e.cpu \in Cpu /\ e.time \in Nat /\ t \in Task
        /\ tasks[t].state = "Sleeping"
        /\ cpus' = Advance(e.cpu, e.time)
        /\ UNCHANGED <<staged, dsqs, held, failed>>
        /\ tasks' \in [Task -> TaskRec]
        /\ unserved' \in [Task -> Int]
        /\ \A u \in Task : u # t => tasks'[u] = tasks[u] /\ unserved'[u] = unserved[u]
        /\ \E q \in Nat : \E pushed :
             LET ph == PhaseAt(t, q) IN
             /\ NewEvents(pushed) /\ DOMAIN ends \subseteq DOMAIN pushed
             /\ \A f \in DOMAIN pushed : f.kind = "TaskWake" \/ f \in DOMAIN ends
             /\ Pop(e, pushed)
             /\ tasks'[t].state = StateIn(ph) /\ tasks'[t].pos = q
             /\ tasks'[t].remaining = IF q = p /\ tasks[t].remaining > 0
                                      THEN tasks[t].remaining ELSE RunTime(ph)
             /\ unserved'[t] = IF q = p THEN unserved[t] ELSE unserved[t] + RunTime(ph)
             /\ calls' = IF ph.kind = "Run" THEN <<Call("selectCpu", e.cpu, t)>> ELSE <<>>
             /\ RunTime(ph) \in Nat
             /\ StateIn(ph) \in {"Runnable", "Sleeping", "Exited"}
             /\ StateIn(ph) = "Runnable" <=> ph.kind = "Run"
             /\ q # p => PhaseAt(t, p).kind # "Run"

(* ... which hold of it ...                                                *)
LEMMA SleeperWoke ==
    ASSUME Basic, NEW e \in DOMAIN events, e.task \in Task, NEW ends, NewEvents(ends),
           WakeSleeper(e, e.task, ends)
    PROVE  WokenAs(e, ends)
<1> DEFINE t == e.task
           p == tasks[t].pos
<1>2. PICK q \in p .. Len(Phases[t]) + 1 :
            /\ Reaches(t, p, q, {"Sleep", "Yield", "Wake"})
            /\ Take(e, ends (+) Wakes(t, p, q, e.time, tasks[t].prevCpu))
            /\ tasks' = [tasks EXCEPT
                  ![t].state = StateIn(PhaseAt(t, q)), ![t].pos = q,
                  ![t].remaining = IF q = p /\ @ > 0 THEN @ ELSE RunTime(PhaseAt(t, q))]
            /\ unserved' = IF q = p THEN unserved
                           ELSE [unserved EXCEPT ![t] = @ + RunTime(PhaseAt(t, q))]
            /\ calls' = IF PhaseAt(t, q).kind = "Run"
                        THEN <<Call("selectCpu", e.cpu, t)>> ELSE <<>>
            /\ cpus' = Advance(e.cpu, e.time)
            /\ UNCHANGED <<staged, dsqs, held>>
  BY Zenon DEF WakeSleeper
<1>3. e \in Event /\ t \in Task /\ tasks[t].state = "Sleeping"
  BY DEF Basic, NewEvents, IsBagOf, WakeSleeper
<1>4. /\ e.cpu \in Cpu /\ e.time \in Nat /\ tasks[t] \in TaskRec /\ p \in Nat
      /\ tasks[t].prevCpu \in Cpu /\ tasks \in [Task -> TaskRec] /\ tasks[t].remaining \in Nat
  BY <1>3 DEF Event, Basic, TaskRec
<1>5. q \in Nat
  BY <1>2, <1>3, <1>4, PhaseTypes
<1>17. q # p => PhaseAt(t, p).kind # "Run"
  <2>1. SUFFICES ASSUME q # p PROVE PhaseAt(t, p).kind # "Run"
    OBVIOUS
  <2>2. p \in p .. q - 1
    BY <1>2, <1>3, <1>4, <1>5, <2>1, PhaseTypes
  <2>3. PhaseAt(t, p).kind \in {"Sleep", "Yield", "Wake"}
    BY <1>2, <2>2 DEF Reaches
  <2> QED
    BY <2>3
<1> DEFINE ph == PhaseAt(t, q)
           W == Wakes(t, p, q, e.time, tasks[t].prevCpu)
           s == StateIn(ph)
           r == RunTime(ph)
           x == [tasks[t] EXCEPT !.state = s, !.pos = q,
                    !.remaining = IF q = p /\ tasks[t].remaining > 0 THEN tasks[t].remaining ELSE r]
<1>6. r \in Nat /\ s \in {"Runnable", "Sleeping", "Exited"} /\ (s = "Runnable" <=> ph.kind = "Run")
  BY <1>3, <1>5, PhaseTypes
<1>7. NewEvents(W) /\ \A f \in DOMAIN W : f.kind = "TaskWake"
  <2>1. /\ IsBagOf(W, Event)
        /\ \A f \in DOMAIN W : f.kind = "TaskWake" /\ f.task \in Task /\ f.flags = {}
    BY <1>3, <1>4, <1>5, WakesBag
  <2> QED
    BY <2>1, NewWakes
<1>8. NewEvents(ends (+) W) /\ DOMAIN (ends (+) W) = DOMAIN ends \cup DOMAIN W
  BY <1>7, NewBoth
<1>9. Pop(e, ends (+) W) /\ UNCHANGED <<staged, dsqs, held, failed>>
      /\ cpus' = Advance(e.cpu, e.time)
  BY <1>2 DEF Take
<1>10. tasks' = [tasks EXCEPT ![t].state = s, ![t].pos = q,
                              ![t].remaining = IF q = p /\ @ > 0 THEN @ ELSE r]
  BY <1>2
<1>11. unserved' = IF q = p THEN unserved ELSE [unserved EXCEPT ![t] = @ + r]
  BY <1>2
<1>12. calls' = IF ph.kind = "Run" THEN <<Call("selectCpu", e.cpu, t)>> ELSE <<>>
  BY <1>2
<1> HIDE DEF W, s, r, p
<1>13. /\ x \in TaskRec /\ x.state = s /\ x.pos = q
       /\ x.remaining = IF q = p /\ tasks[t].remaining > 0 THEN tasks[t].remaining ELSE r
  BY <1>4, <1>5, <1>6 DEF TaskRec, TaskState
<1>14. tasks' = [tasks EXCEPT ![t] = x]
  BY <1>4, <1>10
<1> HIDE DEF x
<1>15. tasks' \in [Task -> TaskRec] /\ tasks'[t] = x /\ \A u \in Task : u # t => tasks'[u] = tasks[u]
  BY <1>3, <1>4, <1>13, <1>14
<1>16. /\ unserved' \in [Task -> Int]
       /\ \A u \in Task : u # t => unserved'[u] = unserved[u]
       /\ unserved'[t] = IF q = p THEN unserved[t] ELSE unserved[t] + r
  <2>1. r \in Int /\ unserved \in [Task -> Int]
    BY <1>6 DEF Basic
  <2> QED
    BY <2>1, <1>3, <1>11
<1> DEFINE sent == ends (+) W
<1>18. /\ NewEvents(sent) /\ DOMAIN ends \subseteq DOMAIN sent /\ Pop(e, sent)
       /\ \A f \in DOMAIN sent : f.kind = "TaskWake" \/ f \in DOMAIN ends
  BY <1>7, <1>8, <1>9
<1> HIDE DEF sent
<1> QED
  BY <1>3, <1>4, <1>5, <1>6, <1>9, <1>12, <1>13, <1>15, <1>16, <1>17, <1>18 DEF s, r, p, WokenAs

(* ... and of handle_task_wake, which schedules nothing else.              *)
LEMMA WokenUp ==
    ASSUME Basic, NEW e \in DOMAIN events, TaskWake(e)
    PROVE  /\ e.kind = "TaskWake" /\ e.task \in Task /\ WakeSleeper(e, e.task, EmptyBag)
           /\ WokenAs(e, EmptyBag)
           /\ NewEvents(EmptyBag) /\ DOMAIN EmptyBag = {}
<1>1. e.kind = "TaskWake" /\ WakeSleeper(e, e.task, EmptyBag)
  BY DEF TaskWake
<1>2. e.task \in Task
  BY <1>1 DEF Basic, NewEvents
<1> QED
  BY <1>1, <1>2, SleeperWoke, NewNothing, NoBag

(* A wake keeps the invariant. *)
LEMMA WakeBasic ==
    ASSUME Basic, NEW e \in DOMAIN events, NEW ends, WokenAs(e, ends)
    PROVE  Basic'
<1> DEFINE t == e.task
           x == Call("selectCpu", e.cpu, t)
<1>1. /\ e.cpu \in Cpu /\ e.time \in Nat /\ t \in Task /\ cpus' = Advance(e.cpu, e.time)
      /\ UNCHANGED <<staged, dsqs, held, failed>>
      /\ tasks' \in [Task -> TaskRec] /\ unserved' \in [Task -> Int]
  BY DEF WokenAs
<1>2. PICK pushed : NewEvents(pushed) /\ Pop(e, pushed) /\ calls' \in {<<x>>, <<>>}
  BY DEF WokenAs
<1>3. cpus' \in [Cpu -> CpuRec]
  BY <1>1, NowTypes
<1>4. Shaped(calls', cpus')
  <2>1. x \in CallRec /\ Fits(x, 1, 1, cpus') /\ x.op = "selectCpu"
    BY <1>1, CallTypes DEF CallOp, Fits, Carries, Closing
  <2> QED
    BY <2>1, <1>2, ShapedOne, ShapedNothing
<1> HIDE DEF x
<1> QED
  BY <1>1, <1>2, <1>3, <1>4, PassBasic DEF Basic

(* A saturating subtraction gives a natural number. *)
LEMMA MonusTypes ==
    ASSUME NEW m \in Nat, NEW n \in Int
    PROVE  Monus(m, n) \in Nat /\ Monus(m, n) >= m - n
BY DEF Monus

(* Stopping a CPU leaves it idle with its local DSQ, and leaves the other  *)
(* CPUs alone.                                                             *)
LEMMA StopTypes ==
    ASSUME Basic, NEW c \in Cpu, NEW now \in Nat
    PROVE  /\ Stop(c, now) \in [Cpu -> CpuRec]
           /\ \A d \in Cpu : d # c => Stop(c, now)[d] = cpus[d]
           /\ Stop(c, now)[c].current = NoTask
           /\ Stop(c, now)[c].local = cpus[c].local
           /\ Stop(c, now)[c].clock = now + Csw
           /\ Stop(c, now)[c].startedAt = 0
           /\ Stop(c, now)[c].online = cpus[c].online
           /\ Ran(c, now) \in Int /\ Ran(c, now) = now - cpus[c].startedAt
<1>1. cpus \in [Cpu -> CpuRec] /\ Csw \in Nat
  BY EngineAssumption DEF Basic
<1>2. cpus[c] \in CpuRec /\ now + Csw \in Nat
  BY <1>1
<1> DEFINE x == [cpus[c] EXCEPT !.current = NoTask, !.clock = now + Csw, !.startedAt = 0, !.slice = 0]
<1>3. Stop(c, now) = [cpus EXCEPT ![c] = x]
  BY <1>1 DEF Stop
<1>4. /\ x \in CpuRec /\ x.current = NoTask /\ x.local = cpus[c].local
      /\ x.clock = now + Csw /\ x.startedAt = 0 /\ x.online = cpus[c].online
  BY <1>2 DEF CpuRec
<1>5. Ran(c, now) \in Int /\ Ran(c, now) = now - cpus[c].startedAt
  BY <1>2 DEF CpuRec, Ran
<1> HIDE DEF x
<1> QED
  BY <1>1, <1>3, <1>4, <1>5

(* stop_and_reenqueue makes the task of its CPU runnable and changes no    *)
(* other.                                                                  *)
LEMMA RequeueTypes ==
    ASSUME Basic, NEW c \in Cpu, NEW now \in Nat, NEW consumed \in Int, NEW left \in Nat,
           cpus[c].current \in Task, StopAndReenqueue(c, now, consumed, left)
    PROVE  /\ cpus' \in [Cpu -> CpuRec]
           /\ tasks' \in [Task -> TaskRec]
           /\ unserved' \in [Task -> Int]
           /\ held' = held /\ dsqs' = dsqs
           /\ \A u \in Task : u # cpus[c].current => tasks'[u] = tasks[u] /\ unserved'[u] = unserved[u]
           /\ LET t == cpus[c].current IN
              /\ tasks'[t].state = "Runnable" /\ tasks'[t].slice = left /\ tasks'[t].pos = tasks[t].pos
              /\ tasks'[t].remaining = Monus(tasks[t].remaining, consumed)
              /\ unserved'[t] = unserved[t] - Ran(c, now)
<1> DEFINE t == cpus[c].current
           m == Monus(tasks[t].remaining, consumed)
           ran == Ran(c, now)
<1>1. tasks \in [Task -> TaskRec] /\ unserved \in [Task -> Int] /\ tasks[t] \in TaskRec
  BY DEF Basic
<1>2. m \in Nat /\ ran \in Int
  BY <1>1, MonusTypes, StopTypes DEF TaskRec
<1>3. /\ cpus' = Stop(c, now)
      /\ tasks' = [tasks EXCEPT ![t].state = "Runnable", ![t].slice = left,
                                ![t].remaining = Monus(@, consumed), ![t].ops = "Queued"]
      /\ unserved' = [unserved EXCEPT ![t] = @ - ran]
      /\ dsqs' = dsqs /\ held' = held
  BY DEF StopAndReenqueue
<1>4. tasks' = [tasks EXCEPT ![t].state = "Runnable", ![t].slice = left,
                             ![t].remaining = m, ![t].ops = "Queued"]
  BY <1>1, <1>3 DEF TaskRec
<1> HIDE DEF m, ran
<1>5. unserved' \in [Task -> Int] /\ unserved'[t] = unserved[t] - ran
      /\ \A u \in Task : u # t => unserved'[u] = unserved[u]
  BY <1>1, <1>2, <1>3, SMTT(30)
<1>6. tasks' \in [Task -> TaskRec] /\ \A u \in Task : u # t => tasks'[u] = tasks[u]
  BY <1>1, <1>2, <1>4 DEF TaskRec, TaskState
<1>7. tasks'[t].state = "Runnable" /\ tasks'[t].slice = left /\ tasks'[t].remaining = m
      /\ tasks'[t].pos = tasks[t].pos
  BY <1>1, <1>4 DEF TaskRec
<1> QED
  BY <1>3, <1>5, <1>6, <1>7, StopTypes, Zenon DEF m, ran

(* The task that runs on a CPU, when it is preempted there. *)
LEMMA PreemptTypes ==
    ASSUME Basic, NEW c \in Cpu, NEW now \in Nat, cpus[c].current \in Task, PreemptCurrent(c, now)
    PROVE  \E left \in Nat : StopAndReenqueue(c, now, Ran(c, now), left)
<1>1. cpus[c].slice \in Nat /\ Ran(c, now) \in Int
  BY StopTypes DEF Basic, CpuRec
<1>2. Monus(cpus[c].slice, Ran(c, now)) \in Nat
  BY <1>1, MonusTypes
<1> QED
  BY <1>2 DEF PreemptCurrent

(* A CPU that is not idle runs a task. *)
LEMMA OnTask ==
    ASSUME Basic, NEW c \in Cpu, cpus[c].current # NoTask
    PROVE  cpus[c].current \in Task
BY DEF Basic, CpuRec

(* A slice that expires, a preempting kick and a CPU that leaves keep the  *)
(* invariant.                                                              *)
LEMMA StopEventBasic ==
    ASSUME Basic, NEW e \in DOMAIN events, SliceExpired(e) \/ KickPreempt(e) \/ CpuLeaves(e)
    PROVE  Basic'
<1>1. Take(e, EmptyBag) /\ UNCHANGED staged
  BY DEF SliceExpired, KickPreempt, CpuLeaves
<1>2. Pop(e, EmptyBag) /\ UNCHANGED failed
  BY <1>1 DEF Take
<1>3. e \in Event
  BY <1>2, Popped, NewNothing
<1> DEFINE c == e.cpu
           now == Now(c, e.time)
           t == cpus[c].current
<1>4. c \in Cpu /\ e.time \in Nat
  BY <1>3 DEF Event
<1>5. now \in Nat
  BY <1>4, NowTypes
<1>6. ASSUME t \in Task, NEW consumed \in Int, NEW left \in Nat,
             StopAndReenqueue(c, now, consumed, left),
             \/ calls' = Reenqueue(c)
             \/ calls' = Reenqueue(c) \o Leaving(e)
      PROVE  Basic'
  <2>1. Shaped(calls', cpus')
    <3> DEFINE a == <<Call("requeue", c, t), Dispatch(c)>>
    <3>1. /\ Shaped(a, cpus')
          /\ Shaped(a \o <<Call("drainLocal", c, NoTask)>>, cpus')
          /\ Shaped(a \o <<Call("takeDown", c, NoTask)>>, cpus')
      BY <1>4, <1>6, ShapedRequeue
    <3> QED
      BY <3>1, <1>6 DEF Reenqueue, Leaving
  <2>2. /\ cpus' \in [Cpu -> CpuRec] /\ tasks' \in [Task -> TaskRec]
        /\ unserved' \in [Task -> Int] /\ held' = held /\ dsqs' = dsqs
    BY <1>4, <1>5, <1>6, RequeueTypes
  <2> QED
    BY <1>1, <1>2, <2>1, <2>2, NewNothing, PassBasic DEF Basic
<1>7. CASE SliceExpired(e)
  <2>1. t \in Task
    BY <1>4, <1>7, OnTask DEF SliceExpired
  <2>2. tasks[t].slice \in Int
    BY <2>1 DEF Basic, TaskRec
  <2> QED
    BY <1>6, <1>7, <2>1, <2>2 DEF SliceExpired
<1>8. CASE KickPreempt(e)
  <2>1. t \in Task
    BY <1>4, <1>8, OnTask DEF KickPreempt
  <2>2. Ran(c, now) \in Int
    BY <1>4, <1>5, StopTypes
  <2>3. PICK left \in Nat : StopAndReenqueue(c, now, Ran(c, now), left)
    BY <1>4, <1>5, <1>8, <2>1, PreemptTypes DEF KickPreempt
  <2> QED
    BY <1>6, <1>8, <2>1, <2>2, <2>3 DEF KickPreempt
<1>9. CASE CpuLeaves(e) /\ t # NoTask
  <2>1. t \in Task
    BY <1>4, <1>9, OnTask
  <2>2. Ran(c, now) \in Int
    BY <1>4, <1>5, StopTypes
  <2>3. PreemptCurrent(c, now) /\ calls' = Reenqueue(c) \o Leaving(e)
    BY <1>9 DEF CpuLeaves
  <2>4. PICK left \in Nat : StopAndReenqueue(c, now, Ran(c, now), left)
    BY <1>4, <1>5, <2>1, <2>3, PreemptTypes
  <2> QED
    BY <1>6, <2>1, <2>2, <2>3, <2>4
<1>10. CASE CpuLeaves(e) /\ t = NoTask
  <2>1. calls' = Leaving(e) /\ cpus' = Advance(c, e.time) /\ UNCHANGED <<tasks, dsqs, held, unserved>>
    BY <1>10 DEF CpuLeaves
  <2>2. cpus' \in [Cpu -> CpuRec]
    BY <1>4, <2>1, NowTypes
  <2>3. Shaped(calls', cpus')
    <3>1. ASSUME NEW op \in {"drainLocal", "takeDown"}
          PROVE  Shaped(<<Call(op, c, NoTask)>>, cpus')
      <4>1. Call(op, c, NoTask) \in CallRec /\ Call(op, c, NoTask).op = op /\ Call(op, c, NoTask).task = NoTask
        BY <1>4, CallTypes DEF CallOp
      <4>2. Fits(Call(op, c, NoTask), 1, 1, cpus')
        BY <4>1 DEF Fits, Carries, Closing
      <4> QED
        BY <4>1, <4>2, ShapedOne
    <3> QED
      BY <2>1, <3>1 DEF Leaving
  <2> QED
    BY <1>1, <1>2, <2>1, <2>2, <2>3, NewNothing, PassBasic DEF Basic
<1> QED
  BY <1>7, <1>8, <1>9, <1>10

(* A tick schedules the next one. *)
LEMMA TickTypes ==
    ASSUME Basic, NEW c \in Cpu, NEW time \in Nat
    PROVE  /\ NewEvents(SetToBag({EventAt(Now(c, time) + TickInterval, "Tick", c)}))
           /\ DOMAIN SetToBag({EventAt(Now(c, time) + TickInterval, "Tick", c)})
                = {EventAt(Now(c, time) + TickInterval, "Tick", c)}
<1>1. Now(c, time) + TickInterval \in Nat
  BY NowTypes, EngineAssumption
<1> DEFINE x == EventAt(Now(c, time) + TickInterval, "Tick", c)
<1>2. x \in Event /\ x.kind = "Tick" /\ x.flags = {}
  BY <1>1, EventTypes DEF EventKind
<1> HIDE DEF x
<1>3. NewEvents(SetToBag({x})) /\ DOMAIN SetToBag({x}) = {x}
  BY <1>2, NewOne
<1> QED
  BY <1>3 DEF x

(* A tick, a kick that preempts nobody and a CPU that returns keep the     *)
(* invariant.                                                              *)
LEMMA PassEventBasic ==
    ASSUME Basic, NEW e \in DOMAIN events, KickDispatch(e) \/ Tick(e) \/ CpuReturns(e)
    PROVE  Basic'
<1> DEFINE c == e.cpu
           tick == SetToBag({EventAt(Now(c, e.time) + TickInterval, "Tick", c)})
<1>1. e \in Event
  BY DEF Basic, NewEvents, IsBagOf
<1>2. c \in Cpu /\ e.time \in Nat
  BY <1>1 DEF Event
<1>3. NewEvents(tick) /\ NewEvents(EmptyBag)
  BY <1>2, TickTypes, NewNothing
<1> HIDE DEF tick
<1>4. /\ UNCHANGED <<staged, tasks, dsqs, held, unserved, failed>>
      /\ Pop(e, EmptyBag) \/ Pop(e, tick)
  BY DEF KickDispatch, Tick, CpuReturns, Take, tick
<1>5. /\ Advance(c, e.time) \in [Cpu -> CpuRec]
      /\ [Advance(c, e.time) EXCEPT ![c].online = TRUE] \in [Cpu -> CpuRec]
      /\ Advance(c, e.time)[c].current = cpus[c].current
  <2> DEFINE A == Advance(c, e.time)
  <2>1. A \in [Cpu -> CpuRec] /\ A[c].current = cpus[c].current
    BY <1>2, NowTypes
  <2> HIDE DEF A
  <2>2. [A EXCEPT ![c].online = TRUE] \in [Cpu -> CpuRec]
    BY <2>1 DEF CpuRec
  <2> QED
    BY <2>1, <2>2 DEF A
<1>6. cpus' \in [Cpu -> CpuRec]
  BY <1>5 DEF KickDispatch, Tick, CpuReturns
<1>7. Shaped(<<>>, cpus') /\ Shaped(<<Dispatch(c)>>, cpus')
  <2>1. Fits(Dispatch(c), 1, 1, cpus') /\ Dispatch(c) \in CallRec /\ Dispatch(c).op = "dispatch"
    BY <1>2, DispatchTypes DEF Fits, Carries, Closing
  <2> QED
    BY <2>1, ShapedOne, ShapedNothing
<1>8. ASSUME Tick(e), cpus[c].current # NoTask
      PROVE  Shaped(<<Call("tick", c, cpus[c].current)>>, cpus')
  <2> DEFINE t == cpus[c].current
             x == Call("tick", c, t)
  <2>1. t \in Task
    BY <1>2, <1>8, OnTask
  <2>2. x \in CallRec /\ x.op = "tick" /\ x.cpu = c /\ x.task = t
    BY <1>2, <2>1, CallTypes DEF CallOp
  <2>3. cpus'[c].current = t
    BY <1>5, <1>8 DEF Tick
  <2>4. Fits(x, 1, 1, cpus')
    BY <2>1, <2>2, <2>3 DEF Fits, Carries, Closing
  <2> HIDE DEF x
  <2>5. Shaped(<<x>>, cpus')
    BY <2>2, <2>4, ShapedOne
  <2> QED
    BY <2>5 DEF x
<1>9. Shaped(calls', cpus')
  BY <1>7, <1>8 DEF KickDispatch, Tick, CpuReturns
<1> QED
  BY <1>3, <1>4, <1>6, <1>9, PassBasic DEF Basic

(* The completed phase, in the facts its proofs use. *)
LEMMA Completed ==
    ASSUME Basic, NEW e \in DOMAIN events, PhaseComplete(e)
    PROVE  /\ e \in Event /\ e.cpu \in Cpu /\ e.time \in Nat /\ e.kind = "PhaseComplete"
           /\ Now(e.cpu, e.time) \in Nat
           /\ cpus[e.cpu].current \in Task
           /\ \E q \in Nat : \E pushed :
                LET c == e.cpu
                    t == cpus[c].current
                    now == Now(c, e.time)
                    run == PhaseAt(t, q).kind = "Run"
                IN
                /\ NewEvents(pushed) /\ \A f \in DOMAIN pushed : f.kind \in {"TaskWake", "Kick"}
                /\ Pop(e, pushed)
                /\ IF run THEN calls' = Reenqueue(c) /\ staged' = staged
                   ELSE calls' = <<Dispatch(c)>> /\ staged' = EmptyBag /\ DOMAIN staged \subseteq DOMAIN pushed
                /\ failed' = failed /\ dsqs' = dsqs
                /\ cpus' = Stop(c, now)
                /\ tasks' \in [Task -> TaskRec]
                /\ unserved' \in [Task -> Int]
                /\ \A u \in Task : u # t => tasks'[u] = tasks[u] /\ unserved'[u] = unserved[u]
                /\ tasks'[t].state = StateIn(PhaseAt(t, q)) /\ tasks'[t].pos = q
                /\ tasks'[t].remaining = RunTime(PhaseAt(t, q))
                /\ unserved'[t] = unserved[t] - Ran(c, now) + RunTime(PhaseAt(t, q))
                /\ held' \in {held, held \ {t}}
                /\ RunTime(PhaseAt(t, q)) \in Nat
                /\ StateIn(PhaseAt(t, q)) \in {"Runnable", "Sleeping", "Exited"}
                /\ StateIn(PhaseAt(t, q)) = "Runnable" <=> run
<1> DEFINE c == e.cpu
           t == cpus[c].current
           now == Now(c, e.time)
           p == tasks[t].pos + 1
<1>1. e \in Event
  BY DEF Basic, NewEvents, IsBagOf
<1>2. c \in Cpu /\ e.time \in Nat
  BY <1>1 DEF Event
<1>3. now \in Nat
  BY <1>2, NowTypes
<1>4. e.kind = "PhaseComplete" /\ t # NoTask
  BY DEF PhaseComplete
<1>5. t \in Task
  BY <1>2, <1>4, OnTask
<1>6. tasks[t] \in TaskRec /\ p \in Nat /\ tasks[t].prevCpu \in Cpu /\ tasks[t].slice \in Nat
      /\ tasks[t].remaining \in Int /\ tasks \in [Task -> TaskRec] /\ unserved \in [Task -> Int]
  <2>1. tasks \in [Task -> TaskRec] /\ unserved \in [Task -> Int]
    BY DEF Basic
  <2>2. tasks[t] \in TaskRec
    BY <1>5, <2>1
  <2> QED
    BY <2>1, <2>2 DEF TaskRec
<1>7. PICK q \in p .. Len(Phases[t]) + 1 : Completes(e, c, t, now, q)
  BY Zenon DEF PhaseComplete
<1> DEFINE next == PhaseAt(t, q)
           r == RunTime(next)
           s == StateIn(next)
<1>8. q \in Nat /\ r \in Nat /\ s \in {"Runnable", "Sleeping", "Exited"}
      /\ (s = "Runnable" <=> next.kind = "Run") /\ (next.kind = "Sleep" => next.ns \in Nat)
  <2>1. Len(Phases[t]) \in Nat
    BY <1>5, <1>6, PhaseTypes
  <2>2. q \in Nat
    BY <1>6, <2>1
  <2> QED
    BY <1>5, <2>2, PhaseTypes
<1> DEFINE W == Wakes(t, p, q, now + Csw, c)
           wakeUp == IF next.kind = "Sleep" /\ now + Csw + next.ns <= Duration
                     THEN {WakeAt(now + Csw + next.ns, t, tasks[t].prevCpu)} ELSE {}
<1>9. now + Csw \in Nat
  BY <1>3, EngineAssumption
<1>10. NewEvents(W) /\ \A f \in DOMAIN W : f.kind = "TaskWake"
  <2>1. /\ IsBagOf(W, Event)
        /\ \A f \in DOMAIN W : f.kind = "TaskWake" /\ f.task \in Task /\ f.flags = {}
    BY <1>2, <1>5, <1>6, <1>8, <1>9, WakesBag
  <2> QED
    BY <2>1, NewWakes
<1>11. NewEvents(SetToBag(wakeUp)) /\ \A f \in DOMAIN SetToBag(wakeUp) : f.kind = "TaskWake"
  <2>1. CASE next.kind = "Sleep" /\ now + Csw + next.ns <= Duration
    <3> DEFINE x == WakeAt(now + Csw + next.ns, t, tasks[t].prevCpu)
    <3>1. now + Csw + next.ns \in Nat
      BY <1>8, <1>9, <2>1
    <3>2. x \in Event /\ x.task \in Task /\ x.kind = "TaskWake" /\ x.flags = {}
      BY <3>1, <1>5, <1>6, WakeTypes
    <3> HIDE DEF x
    <3>3. IsBagOf(SetToBag({x}), Event) /\ DOMAIN SetToBag({x}) = {x}
      BY <3>2, SetBag
    <3>4. NewEvents(SetToBag({x})) /\ \A f \in DOMAIN SetToBag({x}) : f.kind = "TaskWake"
      BY <3>2, <3>3, NewWakes
    <3>5. wakeUp = {x}
      BY <2>1 DEF x
    <3> HIDE DEF wakeUp
    <3> QED
      BY <3>4, <3>5
  <2>2. CASE ~(next.kind = "Sleep" /\ now + Csw + next.ns <= Duration)
    <3>1. wakeUp = {}
      BY <2>2
    <3> QED
      BY <3>1, NewNothing, NoBag DEF EmptyBag
  <2> QED
    BY <2>1, <2>2
<1> HIDE DEF W, wakeUp, next
<1> DEFINE pushed == W (+) SetToBag(wakeUp)
<1>12. NewEvents(pushed) /\ \A f \in DOMAIN pushed : f.kind = "TaskWake"
  <2>1. NewEvents(pushed) /\ DOMAIN pushed = DOMAIN W \cup DOMAIN SetToBag(wakeUp)
    BY <1>10, <1>11, NewBoth, Zenon
  <2> QED
    BY <1>10, <1>11, <2>1
<1>13. NewEvents(staged) /\ \A f \in DOMAIN staged : f.kind = "Kick"
  BY DEF Basic, KickBag, NewEvents
<1>14. NewEvents(pushed (+) staged) /\ DOMAIN (pushed (+) staged) = DOMAIN pushed \cup DOMAIN staged
  BY <1>12, <1>13, NewBoth, Zenon
<1>15. /\ IF next.kind = "Run"
          THEN Take(e, pushed) /\ calls' = Reenqueue(c) /\ UNCHANGED staged
          ELSE Take(e, pushed (+) staged) /\ calls' = <<Dispatch(c)>> /\ staged' = EmptyBag
       /\ cpus' = Stop(c, now)
       /\ tasks' = [tasks EXCEPT
             ![t].state = StateIn(next), ![t].pos = q, ![t].remaining = RunTime(next),
             ![t].slice = Monus(@, tasks[t].remaining),
             ![t].ops = IF next.kind = "Run" THEN "Queued" ELSE "None"]
       /\ held' \in {held, held \ {t}}
       /\ unserved' = [unserved EXCEPT ![t] = @ - Ran(c, now) + RunTime(next)]
       /\ UNCHANGED dsqs
  BY <1>7, Zenon DEF Completes, W, wakeUp, next
<1> DEFINE m == Monus(tasks[t].slice, tasks[t].remaining)
           ran == Ran(c, now)
           o == IF next.kind = "Run" THEN "Queued" ELSE "None"
<1>16. m \in Nat /\ ran \in Int /\ o \in {"None", "Queued"}
  BY <1>2, <1>3, <1>6, MonusTypes, StopTypes, ZenonT(30)
<1>17. tasks' = [tasks EXCEPT ![t].state = s, ![t].pos = q, ![t].remaining = r, ![t].slice = m, ![t].ops = o]
  BY <1>6, <1>15, Zenon DEF TaskRec
<1>18. unserved' = [unserved EXCEPT ![t] = @ - ran + r]
  BY <1>15, ZenonT(30)
<1> HIDE DEF m, ran, o, r, s
<1>19. /\ tasks' \in [Task -> TaskRec]
       /\ \A u \in Task : u # t => tasks'[u] = tasks[u]
       /\ tasks'[t].state = s /\ tasks'[t].pos = q /\ tasks'[t].remaining = r
  BY <1>5, <1>6, <1>8, <1>16, <1>17, ZenonT(30) DEF TaskRec, TaskState
<1>20. /\ unserved' \in [Task -> Int]
       /\ \A u \in Task : u # t => unserved'[u] = unserved[u]
       /\ unserved'[t] = unserved[t] - ran + r
  BY <1>5, <1>6, <1>8, <1>16, <1>18
<1> DEFINE all == IF next.kind = "Run" THEN pushed ELSE pushed (+) staged
<1>21. NewEvents(all) /\ Pop(e, all) /\ failed' = failed
       /\ (next.kind # "Run" => DOMAIN staged \subseteq DOMAIN all)
  BY <1>12, <1>14, <1>15, ZenonT(30) DEF Take
<1>23. \A f \in DOMAIN all : f.kind \in {"TaskWake", "Kick"}
  BY <1>12, <1>13, <1>14
<1> HIDE DEF all
<1>22. IF next.kind = "Run" THEN calls' = Reenqueue(c) /\ staged' = staged
       ELSE calls' = <<Dispatch(c)>> /\ staged' = EmptyBag /\ DOMAIN staged \subseteq DOMAIN all
  BY <1>15, <1>21, Zenon
<1> QED
  BY <1>1, <1>2, <1>3, <1>4, <1>5, <1>8, <1>15, <1>19, <1>20, <1>21, <1>22, <1>23, Zenon
  DEF next, r, s, ran

(* handle_task_phase_complete keeps the invariant. *)
LEMMA PhaseBasic ==
    ASSUME Basic, NEW e \in DOMAIN events, PhaseComplete(e)
    PROVE  Basic'
<1> DEFINE c == e.cpu
           t == cpus[c].current
           now == Now(c, e.time)
<1>1. c \in Cpu /\ t \in Task /\ now \in Nat
  BY Completed
<1>2. PICK pushed :
        /\ NewEvents(pushed) /\ Pop(e, pushed)
        /\ \/ calls' = Reenqueue(c) /\ staged' = staged
           \/ calls' = <<Dispatch(c)>> /\ staged' = EmptyBag
        /\ failed' = failed /\ dsqs' = dsqs /\ cpus' = Stop(c, now)
        /\ tasks' \in [Task -> TaskRec] /\ unserved' \in [Task -> Int]
        /\ held' \in {held, held \ {t}}
  BY Completed
<1>3. cpus' \in [Cpu -> CpuRec]
  BY <1>1, <1>2, StopTypes
<1>4. Shaped(Reenqueue(c), cpus') /\ Shaped(<<Dispatch(c)>>, cpus')
  <2>1. Fits(Dispatch(c), 1, 1, cpus') /\ Dispatch(c) \in CallRec /\ Dispatch(c).op = "dispatch"
    BY <1>1, DispatchTypes DEF Fits, Carries, Closing
  <2>2. Shaped(<<Dispatch(c)>>, cpus')
    BY <2>1, ShapedOne
  <2> QED
    BY <2>2, <1>1, ShapedRequeue DEF Reenqueue
<1>5. KickBag(staged') /\ held' \in SUBSET Task
  BY <1>2, KickNone DEF Basic
<1>6. failed' \in BOOLEAN
  BY <1>2 DEF Basic
<1> QED
  BY <1>2, <1>3, <1>4, <1>5, <1>6, PassBasic

(* The call that is made next. *)
LEMMA Called ==
    ASSUME Basic, NEW op, Calling(op)
    PROVE  /\ calls # <<>> /\ Head(calls) = calls[1] /\ 1 \in 1 .. Len(calls)
           /\ Head(calls) \in CallRec /\ Head(calls).op = op
           /\ Head(calls).cpu \in Cpu
           /\ op \in Carries => Head(calls).task \in Task
           /\ op \notin Carries \cup {"tick"} => Head(calls).task = NoTask
           /\ op = "tick" => /\ Head(calls).task \in Task
                             /\ cpus[Head(calls).cpu].current = Head(calls).task
           /\ op = "pick" => cpus[Head(calls).cpu].current = NoTask /\ cpus[Head(calls).cpu].online
           /\ op \in Closing => Tail(calls) = <<>>
           /\ \A ds : Shaped(Tail(calls), ds)
<1>1. calls # <<>> /\ Head(calls).op = op /\ Shaped(calls, cpus)
  BY DEF Calling, Basic
<1>2. /\ Head(calls) = calls[1] /\ 1 \in 1 .. Len(calls) /\ Head(calls) \in CallRec
      /\ Fits(Head(calls), 1, Len(calls), cpus) /\ (op \in Closing => Tail(calls) = <<>>)
  BY <1>1, ShapedTail
<1>3. \A ds : Shaped(Tail(calls), ds)
  BY <1>1, ShapedTail
<1>4. Head(calls).cpu \in Cpu
  BY <1>2 DEF CallRec
<1> HIDE DEF Basic
<1> QED
  BY <1>1, <1>2, <1>3, <1>4 DEF Fits

(* ops.tick: the running task is stopped, or nothing but kicks moves.      *)
LEMMA Ticked ==
    ASSUME Basic, OpsTick
    PROVE  LET c == Head(calls).cpu
               t == cpus[c].current
           IN  /\ Calling("tick")
               /\ c \in Cpu /\ t \in Task /\ cpus[c].clock \in Nat /\ Tail(calls) = <<>> /\ calls # <<>>
               /\ NewEvents(events') /\ DOMAIN events \subseteq DOMAIN events'
               /\ \A e \in DOMAIN staged : e.cpu # c => e \in DOMAIN events'
               /\ \A e \in DOMAIN events' : e \notin DOMAIN events => e.kind = "Kick"
               /\ \A e \in DOMAIN events : e.kind # "Kick" => events'[e] = events[e]
               /\ staged' = EmptyBag /\ clock' = clock /\ failed' = failed
               /\ \/ /\ ~Undisturbed
                     /\ \E left \in Nat : StopAndReenqueue(c, cpus[c].clock, Ran(c, cpus[c].clock), left)
                     /\ calls' = Reenqueue(c)
                  \/ calls' = <<>> /\ UNCHANGED <<tasks, cpus, dsqs, held, unserved>>
<1> DEFINE c == Head(calls).cpu
           t == cpus[c].current
           own == {e \in DOMAIN staged : e.cpu = c}
           rest == [e \in DOMAIN staged \ own |-> staged[e]]
<1>1. Calling("tick")
  BY DEF OpsTick
<1>2. c \in Cpu /\ t \in Task /\ Tail(calls) = <<>> /\ calls # <<>>
  BY <1>1, Called DEF Closing
<1>3. cpus[c].clock \in Nat
  <2>1. cpus[c] \in CpuRec
    BY <1>2 DEF Basic
  <2> QED
    BY <2>1 DEF CpuRec
<1>4. /\ events' = events (+) rest
      /\ staged' = EmptyBag /\ clock' = clock /\ failed' = failed
      /\ \/ PreemptCurrent(c, cpus[c].clock) /\ calls' = Reenqueue(c) /\ ~Undisturbed
         \/ calls' = <<>> /\ UNCHANGED <<tasks, cpus, dsqs, held, unserved>>
  <2>1. Undisturbed => ~TickKicks /\ \A e \in DOMAIN staged : "PREEMPT" \notin e.flags
    BY DEF Basic, KickBag, Calm, Undisturbed
  <2>2. PICK asked \in {FALSE, TickKicks} :
          IF asked \/ \E e \in {f \in DOMAIN staged : f.cpu = c} : "PREEMPT" \in e.flags
          THEN PreemptCurrent(c, cpus[c].clock) /\ calls' = Reenqueue(c)
          ELSE calls' = <<>> /\ UNCHANGED <<tasks, cpus, dsqs, held, unserved>>
    BY DEF OpsTick
  <2>3. events' = events (+) rest /\ staged' = EmptyBag /\ clock' = clock /\ failed' = failed
    BY DEF OpsTick
  <2>4. CASE asked \/ \E e \in {f \in DOMAIN staged : f.cpu = c} : "PREEMPT" \in e.flags
    <3>1. PreemptCurrent(c, cpus[c].clock) /\ calls' = Reenqueue(c)
      BY <2>2, <2>4, Zenon
    <3>2. asked => TickKicks
      BY <2>2, EngineAssumption
    <3>3. ~Undisturbed
      BY <2>1, <2>4, <3>2, Zenon
    <3> QED
      BY <2>3, <3>1, <3>3
  <2>5. CASE ~(asked \/ \E e \in {f \in DOMAIN staged : f.cpu = c} : "PREEMPT" \in e.flags)
    BY <2>2, <2>3, <2>5
  <2> QED
    BY <2>4, <2>5
<1>5. KickBag(staged) /\ NewEvents(events)
  BY DEF Basic
<1>6. NewEvents(rest) /\ DOMAIN rest = {e \in DOMAIN staged : e.cpu # c}
  BY <1>5 DEF KickBag, NewEvents, IsBagOf
<1> HIDE DEF rest
<1>7. NewEvents(events') /\ DOMAIN events' = DOMAIN events \cup DOMAIN rest
  BY <1>4, <1>5, <1>6, NewBoth
<1>8. \A e \in DOMAIN rest : e.kind = "Kick"
  BY <1>5, <1>6 DEF KickBag
<1>10. ASSUME NEW e \in DOMAIN events, e.kind # "Kick"
       PROVE  events'[e] = events[e]
  <2>1. e \notin DOMAIN rest /\ IsBagOf(events, Event) /\ IsBagOf(rest, Event)
    BY <1>5, <1>6, <1>8, <1>10 DEF NewEvents
  <2> QED
    BY <1>4, <2>1, BagCount
<1>9. \/ /\ ~Undisturbed
         /\ \E left \in Nat : StopAndReenqueue(c, cpus[c].clock, Ran(c, cpus[c].clock), left)
         /\ calls' = Reenqueue(c)
      \/ calls' = <<>> /\ UNCHANGED <<tasks, cpus, dsqs, held, unserved>>
  BY <1>2, <1>3, <1>4, PreemptTypes
<1> QED
  BY <1>1, <1>2, <1>3, <1>4, <1>6, <1>7, <1>8, <1>9, <1>10

(* What follows ops.tick keeps the invariant. *)
LEMMA TickedBasic ==
    ASSUME Basic, OpsTick
    PROVE  Basic'
<1> DEFINE c == Head(calls).cpu
           t == cpus[c].current
           now == cpus[c].clock
<1>1. /\ c \in Cpu /\ t \in Task /\ now \in Nat /\ NewEvents(events')
      /\ staged' = EmptyBag /\ clock' = clock /\ failed' = failed
  BY Ticked
<1>2. CASE calls' = <<>> /\ UNCHANGED <<tasks, cpus, dsqs, held, unserved>>
  BY <1>1, <1>2, KickNone, ShapedNothing DEF Basic
<1>3. ASSUME NEW left \in Nat, StopAndReenqueue(c, now, Ran(c, now), left), calls' = Reenqueue(c)
      PROVE  Basic'
  <2>1. Ran(c, now) \in Int
    BY <1>1, StopTypes
  <2>2. /\ cpus' \in [Cpu -> CpuRec] /\ tasks' \in [Task -> TaskRec]
        /\ unserved' \in [Task -> Int] /\ held' = held /\ dsqs' = dsqs
    BY <1>1, <1>3, <2>1, RequeueTypes
  <2>3. Shaped(calls', cpus')
    BY <1>1, <1>3, ShapedRequeue DEF Reenqueue
  <2> QED
    BY <1>1, <2>2, <2>3, KickNone DEF Basic
<1> QED
  BY <1>2, <1>3, Ticked

-----------------------------------------------------------------------------
(* Where an inserted task goes. *)

(* A DSQ is a CPU's, the global or the shared one. *)
LEMMA DsqTypes ==
    ASSUME NEW d \in DsqId
    PROVE  /\ d.kind \in {"local", "localOn", "global", "shared"}
           /\ d.kind = "local" <=> d = Local
           /\ d.kind = "localOn" => d.cpu \in Cpu
BY DEF DsqId, Local, LocalOn, Global, Shared

(* A queue is one task longer, or the run has failed. *)
LEMMA Delivered ==
    ASSUME Basic, NEW cs \in [Cpu -> CpuRec], NEW t \in Task, NEW d \in DsqId, NEW c \in Cpu,
           Deliver(cs, t, d, c)
    PROVE  /\ cpus' \in [Cpu -> CpuRec]
           /\ dsqs' \in [global : Seq(Task), shared : Seq(Task)]
           /\ failed' \in BOOLEAN
           /\ \A k \in Cpu : /\ cpus'[k].current = cs[k].current
                             /\ cpus'[k].clock = cs[k].clock
                             /\ cpus'[k].startedAt = cs[k].startedAt
                             /\ cpus'[k].slice = cs[k].slice
                             /\ cpus'[k].online = cs[k].online
           /\ \/ LET l == LandsOn(d, c) IN
                 /\ Direct(t, d) /\ l \in Cpu /\ dsqs' = dsqs /\ failed' = failed
                 /\ cpus'[l].local = Append(cs[l].local, t)
                 /\ \A k \in Cpu : k # l => cpus'[k].local = cs[k].local
              \/ Rejected(t, d) /\ failed' = TRUE /\ cpus' = cs /\ dsqs' = dsqs
              \/ /\ ~Direct(t, d) /\ cpus' = cs /\ failed' = failed
                 /\ \/ d = Global /\ dsqs'.global = Append(dsqs.global, t) /\ dsqs'.shared = dsqs.shared
                    \/ d = Shared /\ dsqs'.shared = Append(dsqs.shared, t) /\ dsqs'.global = dsqs.global
<1>1. d.kind \in {"local", "localOn", "global", "shared"} /\ (d.kind = "local" <=> d = Local)
      /\ (d.kind = "localOn" => d.cpu \in Cpu)
  BY DsqTypes
<1>2. dsqs \in [global : Seq(Task), shared : Seq(Task)] /\ failed \in BOOLEAN
  BY DEF Basic
<1>3. CASE /\ Direct(t, d)
           /\ cpus' = [cs EXCEPT ![LandsOn(d, c)].local = Append(@, t)]
           /\ UNCHANGED <<dsqs, failed>>
  <2> DEFINE l == LandsOn(d, c)
             x == [cs[l] EXCEPT !.local = Append(cs[l].local, t)]
  <2>1. l \in Cpu
    BY <1>1, <1>3 DEF LandsOn, Direct
  <2>2. cs[l] \in CpuRec /\ cs[l].local \in Seq(Task)
    BY <2>1 DEF CpuRec
  <2>3. Append(cs[l].local, t) \in Seq(Task)
    BY <2>2
  <2>4. /\ x \in CpuRec /\ x.local = Append(cs[l].local, t) /\ x.current = cs[l].current
        /\ x.clock = cs[l].clock /\ x.startedAt = cs[l].startedAt /\ x.slice = cs[l].slice
        /\ x.online = cs[l].online
    BY <2>2, <2>3 DEF CpuRec
  <2>5. cpus' = [cs EXCEPT ![l] = x]
    BY <1>3, <2>1
  <2> HIDE DEF x, l
  <2>6. cpus' \in [Cpu -> CpuRec] /\ cpus'[l] = x /\ \A k \in Cpu : k # l => cpus'[k] = cs[k]
    BY <2>1, <2>4, <2>5
  <2> QED
    BY <1>2, <1>3, <2>1, <2>4, <2>6 DEF l
<1>4. CASE Rejected(t, d) /\ failed' = TRUE /\ cpus' = cs /\ UNCHANGED dsqs
  BY <1>2, <1>4
<1>5. CASE /\ d.kind \in {"global", "shared"}
           /\ dsqs' = [dsqs EXCEPT ![d.kind] = Append(@, t)]
           /\ cpus' = cs
           /\ UNCHANGED failed
  <2>1. ~Direct(t, d) /\ (d.kind = "global" => d = Global) /\ (d.kind = "shared" => d = Shared)
    BY <1>5 DEF Direct, DsqId, Local, LocalOn, Global, Shared
  <2>2. Append(dsqs.global, t) \in Seq(Task) /\ Append(dsqs.shared, t) \in Seq(Task)
    BY <1>2
  <2>3. CASE d.kind = "global"
    BY <1>2, <1>5, <2>1, <2>2, <2>3
  <2>4. CASE d.kind = "shared"
    BY <1>2, <1>5, <2>1, <2>2, <2>4
  <2> QED
    BY <1>5, <2>3, <2>4
<1> QED
  BY <1>3, <1>4, <1>5 DEF Deliver

(* resched_if_remote_idle stages an IDLE kick of the CPU that got the      *)
(* task, or nothing.                                                       *)
LEMMA ReschedTypes ==
    ASSUME NEW cs \in [Cpu -> CpuRec], NEW t \in Task, NEW d \in DsqId, NEW c \in Cpu
    PROVE  /\ KickBag(Resched(cs, t, d, c))
           /\ (d.kind = "localOn" /\ Direct(t, d) /\ d.cpu # c /\ cs[d.cpu].current = NoTask)
                 => \E e \in DOMAIN Resched(cs, t, d, c) : e.kind = "Kick" /\ e.cpu = d.cpu
<1>1. CASE d.kind = "localOn" /\ Direct(t, d) /\ d.cpu # c /\ cs[d.cpu].current = NoTask
  <2> DEFINE time == cs[c].clock + Ipi
             k == KickAt(time, d.cpu, {"IDLE"})
  <2>1. time \in Nat /\ d.cpu \in Cpu /\ {"IDLE"} \in KickFlags /\ "PREEMPT" \notin {"IDLE"}
    <3>1. cs[c].clock \in Nat
      BY DEF CpuRec
    <3>2. time \in Nat
      BY <3>1, EngineAssumption
    <3> QED
      BY <1>1, <3>2, DsqTypes DEF KickFlags
  <2>2. KickBag(SetToBag({k})) /\ DOMAIN SetToBag({k}) = {k} /\ k.kind = "Kick" /\ k.cpu = d.cpu
    <3>1. PICK flags \in KickFlags : flags = {"IDLE"} /\ "PREEMPT" \notin flags
      BY <2>1
    <3>2. PICK tt \in Nat : tt = time
      BY <2>1
    <3>3. PICK cc \in Cpu : cc = d.cpu
      BY <2>1
    <3> DEFINE kk == KickAt(tt, cc, flags)
    <3>4. KickBag(SetToBag({kk})) /\ DOMAIN SetToBag({kk}) = {kk}
      BY <3>1, KickOne
    <3>5. kk.kind = "Kick" /\ kk.cpu = cc
      BY KickTypes
    <3>6. k = kk
      BY <3>1, <3>2, <3>3
    <3> HIDE DEF k, kk
    <3> QED
      BY <3>3, <3>4, <3>5, <3>6
  <2>3. Resched(cs, t, d, c) = SetToBag({k})
    BY <1>1 DEF Resched
  <2> HIDE DEF k
  <2> QED
    BY <2>2, <2>3
<1>2. CASE ~(d.kind = "localOn" /\ Direct(t, d) /\ d.cpu # c /\ cs[d.cpu].current = NoTask)
  BY <1>2, KickNone DEF Resched
<1> QED
  BY <1>1, <1>2

(* ops.enqueue stages kicks only. *)
LEMMA KicksTypes ==
    ASSUME Basic, NEW c \in Cpu, NEW kick \in KicksFrom(c)
    PROVE  KickBag(kick)
<1>1. cpus[c].clock + Ipi \in Nat
  BY EngineAssumption DEF Basic, CpuRec
<1>2. CASE kick = EmptyBag
  BY <1>2, KickNone
<1>3. ASSUME NEW k \in Kicks, kick = SetToBag({KickAt(cpus[c].clock + Ipi, k.cpu, k.flags)})
      PROVE  KickBag(kick)
  <2>1. k.cpu \in Cpu /\ k.flags \in KickFlags /\ (Undisturbed => "PREEMPT" \notin k.flags)
    BY EngineAssumption DEF Undisturbed
  <2> QED
    BY <1>1, <1>3, <2>1, KickOne
<1> QED
  BY <1>2, <1>3 DEF KicksFrom

(* An insertion changes the slice and the queued flag of its task only. *)
LEMMA InsertedTypes ==
    ASSUME Basic, NEW t \in Task, NEW sl \in Slices
    PROVE  /\ Inserted(t, sl) \in [Task -> TaskRec]
           /\ \A u \in Task : u # t => Inserted(t, sl)[u] = tasks[u]
           /\ Inserted(t, sl)[t].slice = sl /\ sl \in Nat \ {0}
           /\ Inserted(t, sl)[t].state = tasks[t].state
           /\ Inserted(t, sl)[t].pos = tasks[t].pos
           /\ Inserted(t, sl)[t].remaining = tasks[t].remaining
<1>1. tasks \in [Task -> TaskRec] /\ sl \in Nat \ {0}
  BY EngineAssumption DEF Basic
<1>2. tasks[t] \in TaskRec
  BY <1>1
<1> DEFINE x == [tasks[t] EXCEPT !.slice = sl, !.ops = "None"]
<1>3. Inserted(t, sl) = [tasks EXCEPT ![t] = x]
  BY <1>1 DEF Inserted
<1>4. x \in TaskRec /\ x.slice = sl /\ x.state = tasks[t].state /\ x.pos = tasks[t].pos
      /\ x.remaining = tasks[t].remaining
  BY <1>1, <1>2, Zenon DEF TaskRec
<1> HIDE DEF x
<1> QED
  BY <1>1, <1>3, <1>4

(* ops.select_cpu: the wake goes on with ops.enqueue, or with a dispatch   *)
(* on the CPU that got the task.                                           *)
LEMMA Selected ==
    ASSUME Basic, SelectCpu
    PROVE  LET t == Head(calls).task IN
           /\ Calling("selectCpu") /\ t \in Task /\ Tail(calls) = <<>> /\ calls # <<>>
           /\ UNCHANGED <<clock, events, held, unserved>>
           /\ tasks' \in [Task -> TaskRec]
           /\ \A u \in Task : u # t => tasks'[u] = tasks[u]
           /\ tasks'[t].state = tasks[t].state /\ tasks'[t].pos = tasks[t].pos
           /\ tasks'[t].remaining = tasks[t].remaining
           /\ \E c \in Chosen[t] :
                /\ c \in Cpu
                /\ \/ /\ calls' = <<Call("enqueue", c, t)>>
                      /\ UNCHANGED <<cpus, dsqs, staged, failed>>
                   \/ \E d \in SelectDsq :
                        /\ d \in DsqId
                        /\ Deliver(cpus, t, d, c)
                        /\ tasks'[t].slice \in Nat \ {0}
                        /\ staged' = staged (+) Resched(cpus, t, d, c)
                        /\ calls' = IF Direct(t, d) THEN <<Dispatch(LandsOn(d, c))>>
                                    ELSE <<Call("enqueue", c, t)>>
<1> DEFINE t == Head(calls).task
<1>1. Calling("selectCpu") /\ UNCHANGED <<clock, events, held, unserved>>
  BY DEF SelectCpu
<1>2. t \in Task /\ Tail(calls) = <<>> /\ calls # <<>>
  BY <1>1, Called DEF Carries, Closing
<1>3. tasks \in [Task -> TaskRec] /\ tasks[t] \in TaskRec
  BY <1>2 DEF Basic
<1>4. PICK c \in Chosen[t] :
         \/ /\ tasks' = [tasks EXCEPT ![t].prevCpu = c, ![t].ops = "Queued"]
            /\ calls' = <<Call("enqueue", c, t)>>
            /\ UNCHANGED <<cpus, dsqs, staged, failed>>
         \/ \E d \in SelectDsq, sl \in Slices :
              /\ Deliver(cpus, t, d, c)
              /\ tasks' = [Inserted(t, sl) EXCEPT ![t].prevCpu = c]
              /\ staged' = staged (+) Resched(cpus, t, d, c)
              /\ calls' = IF Direct(t, d) THEN <<Dispatch(LandsOn(d, c))>>
                          ELSE <<Call("enqueue", c, t)>>
  BY Zenon DEF SelectCpu
<1>5. c \in Cpu
  BY SMTT(30), <1>2, EngineAssumption
<1> HIDE DEF t
<1>6. CASE /\ tasks' = [tasks EXCEPT ![t].prevCpu = c, ![t].ops = "Queued"]
           /\ calls' = <<Call("enqueue", c, t)>>
           /\ UNCHANGED <<cpus, dsqs, staged, failed>>
  <2>1. /\ tasks' \in [Task -> TaskRec]
        /\ \A u \in Task : u # t => tasks'[u] = tasks[u]
        /\ tasks'[t].state = tasks[t].state /\ tasks'[t].pos = tasks[t].pos
        /\ tasks'[t].remaining = tasks[t].remaining
    BY <1>2, <1>3, <1>5, <1>6 DEF TaskRec
  <2> QED
    BY <1>1, <1>2, <1>5, <1>6, <2>1 DEF t
<1>7. ASSUME NEW d \in SelectDsq, NEW sl \in Slices,
             Deliver(cpus, t, d, c), tasks' = [Inserted(t, sl) EXCEPT ![t].prevCpu = c],
             staged' = staged (+) Resched(cpus, t, d, c),
             calls' = IF Direct(t, d) THEN <<Dispatch(LandsOn(d, c))>> ELSE <<Call("enqueue", c, t)>>
      PROVE  /\ tasks' \in [Task -> TaskRec]
             /\ \A u \in Task : u # t => tasks'[u] = tasks[u]
             /\ tasks'[t].state = tasks[t].state /\ tasks'[t].pos = tasks[t].pos
             /\ tasks'[t].remaining = tasks[t].remaining
             /\ tasks'[t].slice \in Nat \ {0}
             /\ d \in DsqId
  <2> DEFINE I == Inserted(t, sl)
  <2>1. /\ I \in [Task -> TaskRec] /\ \A u \in Task : u # t => I[u] = tasks[u]
        /\ I[t].slice \in Nat \ {0} /\ I[t].state = tasks[t].state /\ I[t].pos = tasks[t].pos
        /\ I[t].remaining = tasks[t].remaining
    BY <1>2, InsertedTypes
  <2> HIDE DEF I
  <2> DEFINE x == [I[t] EXCEPT !.prevCpu = c]
  <2>2. tasks' = [I EXCEPT ![t] = x]
    BY <1>7 DEF I
  <2>3. /\ x \in TaskRec /\ x.slice = I[t].slice /\ x.state = I[t].state
        /\ x.pos = I[t].pos /\ x.remaining = I[t].remaining
    BY <1>2, <1>5, <2>1 DEF TaskRec
  <2> HIDE DEF x
  <2>4. tasks'[t] = x /\ \A u \in Task : u # t => tasks'[u] = I[u]
    BY <1>2, <2>1, <2>2
  <2>5. tasks' \in [Task -> TaskRec]
    BY <1>2, <2>1, <2>2, <2>3
  <2>6. d \in DsqId
    BY EngineAssumption
  <2> QED
    BY <2>1, <2>3, <2>4, <2>5, <2>6
<1> QED
  BY <1>1, <1>2, <1>4, <1>5, <1>6, <1>7, Zenon DEF t

(* The call of ops.enqueue after ops.select_cpu fits. *)
LEMMA EnqueueCall ==
    ASSUME NEW c \in Cpu, NEW t \in Task, NEW cs
    PROVE  Shaped(<<Call("enqueue", c, t)>>, cs) /\ Shaped(<<Dispatch(c)>>, cs)
<1> DEFINE x == Call("enqueue", c, t)
<1>1. x \in CallRec /\ x.op = "enqueue" /\ x.task = t
  BY CallTypes DEF CallOp
<1>2. Dispatch(c) \in CallRec /\ Dispatch(c).op = "dispatch" /\ Dispatch(c).task = NoTask
  BY DispatchTypes
<1>3. Fits(x, 1, 1, cs) /\ Fits(Dispatch(c), 1, 1, cs)
  BY <1>1, <1>2 DEF Fits, Carries, Closing
<1> HIDE DEF x
<1>4. Shaped(<<x>>, cs)
  BY <1>1, <1>3, ShapedOne
<1>5. Shaped(<<Dispatch(c)>>, cs)
  BY <1>2, <1>3, ShapedOne
<1> QED
  BY <1>4, <1>5 DEF x

(* What follows ops.select_cpu keeps the invariant. *)
LEMMA SelectBasic ==
    ASSUME Basic, SelectCpu
    PROVE  Basic'
<1> DEFINE t == Head(calls).task
<1>1. /\ t \in Task /\ UNCHANGED <<clock, events, held, unserved>> /\ tasks' \in [Task -> TaskRec]
  BY Selected
<1>2. PICK c \in Chosen[t] :
        /\ c \in Cpu
        /\ \/ /\ calls' = <<Call("enqueue", c, t)>>
              /\ UNCHANGED <<cpus, dsqs, staged, failed>>
           \/ \E d \in SelectDsq :
                /\ d \in DsqId
                /\ Deliver(cpus, t, d, c)
                /\ staged' = staged (+) Resched(cpus, t, d, c)
                /\ calls' = IF Direct(t, d) THEN <<Dispatch(LandsOn(d, c))>>
                            ELSE <<Call("enqueue", c, t)>>
  BY Selected
<1> HIDE DEF t
<1>3. CASE /\ calls' = <<Call("enqueue", c, t)>>
           /\ UNCHANGED <<cpus, dsqs, staged, failed>>
  BY <1>1, <1>2, <1>3, EnqueueCall DEF Basic
<1>4. ASSUME NEW d \in DsqId, Deliver(cpus, t, d, c),
             staged' = staged (+) Resched(cpus, t, d, c),
             calls' = IF Direct(t, d) THEN <<Dispatch(LandsOn(d, c))>> ELSE <<Call("enqueue", c, t)>>
      PROVE  Basic'
  <2>1. cpus \in [Cpu -> CpuRec]
    BY DEF Basic
  <2>2. cpus' \in [Cpu -> CpuRec] /\ dsqs' \in [global : Seq(Task), shared : Seq(Task)]
        /\ failed' \in BOOLEAN
    BY <1>1, <1>2, <1>4, <2>1, Delivered
  <2>3. Direct(t, d) => LandsOn(d, c) \in Cpu
    BY <1>2, DsqTypes DEF LandsOn, Direct
  <2>4. Shaped(calls', cpus')
    BY <1>1, <1>2, <1>4, <2>3, EnqueueCall
  <2>5. KickBag(staged')
    BY <1>1, <1>2, <1>4, <2>1, ReschedTypes, KickPlus DEF Basic
  <2> QED
    BY <1>1, <2>2, <2>4, <2>5 DEF Basic
<1> QED
  BY <1>2, <1>3, <1>4

(* The kicks are in the event queue or staged, the calls go on. *)
LEMMA Flushed ==
    ASSUME Basic, NEW kicks, KickBag(kicks), Flush(kicks)
    PROVE  /\ NewEvents(events') /\ KickBag(staged')
           /\ DOMAIN events' = DOMAIN events \cup DOMAIN staged \cup DOMAIN kicks
           /\ staged' = EmptyBag
           /\ \A e \in DOMAIN events' : e \notin DOMAIN events => e.kind = "Kick"
           /\ \A e \in DOMAIN events : e.kind # "Kick" => events'[e] = events[e]
<1>1. NewEvents(events) /\ KickBag(staged) /\ NewEvents(staged) /\ NewEvents(kicks)
  BY DEF Basic, KickBag, NewEvents
<1> DEFINE B == events (+) staged
<1>2. NewEvents(B) /\ DOMAIN B = DOMAIN events \cup DOMAIN staged
  BY <1>1, NewBoth
<1> HIDE DEF B
<1>3. NewEvents(B (+) kicks) /\ DOMAIN (B (+) kicks) = DOMAIN B \cup DOMAIN kicks
  BY <1>1, <1>2, NewBoth
<1>4. events' = B (+) kicks /\ staged' = EmptyBag
  BY DEF Flush, B
<1>5. ASSUME NEW e \in DOMAIN events, e.kind # "Kick"
      PROVE  events'[e] = events[e]
  <2>1. e \notin DOMAIN staged /\ e \notin DOMAIN kicks /\ IsBagOf(events, Event) /\ IsBagOf(staged, Event)
        /\ IsBagOf(kicks, Event) /\ IsBagOf(B, Event) /\ e \in DOMAIN B
    BY <1>1, <1>2, <1>5 DEF KickBag, NewEvents
  <2>2. B[e] = events[e]
    BY <2>1, BagCount DEF B
  <2>3. (B (+) kicks)[e] = B[e]
    BY <2>1, BagCount
  <2> QED
    BY <1>4, <2>2, <2>3
<1> QED
  BY <1>1, <1>2, <1>3, <1>4, <1>5, KickNone DEF KickBag

(* What follows ops.enqueue: its kicks are staged or flushed, and the      *)
(* handler goes on.                                                        *)
LEMMA AfterEnqueued ==
    ASSUME Basic, NEW kicks, KickBag(kicks), AfterEnqueue(kicks),
           Calling("enqueue") \/ Calling("requeue") \/ Calling("drain")
    PROVE  /\ NewEvents(events') /\ KickBag(staged')
           /\ DOMAIN events \subseteq DOMAIN events'
           /\ DOMAIN staged \cup DOMAIN kicks \subseteq DOMAIN events' \cup DOMAIN staged'
           /\ \A e \in DOMAIN events' : e \notin DOMAIN events => e.kind = "Kick"
           /\ \A e \in DOMAIN events : e.kind # "Kick" => events'[e] = events[e]
           /\ clock' = clock /\ unserved' = unserved
           /\ \/ Calling("enqueue") /\ IsDispatchOf(calls', IdleCpus)
              \/ ~Calling("enqueue") /\ calls' = Tail(calls)
           /\ \A ds : Shaped(calls', ds)
           /\ Head(calls).task \in Task /\ Head(calls).cpu \in Cpu /\ calls # <<>>
<1>1. NewEvents(events) /\ KickBag(staged)
  BY DEF Basic
<1>2. /\ NewEvents(events') /\ KickBag(staged')
      /\ DOMAIN events \subseteq DOMAIN events'
      /\ DOMAIN staged \cup DOMAIN kicks \subseteq DOMAIN events' \cup DOMAIN staged'
      /\ \A e \in DOMAIN events' : e \notin DOMAIN events => e.kind = "Kick"
      /\ \A e \in DOMAIN events : e.kind # "Kick" => events'[e] = events[e]
  <2>1. CASE Calling("requeue")
    <3>1. Flush(kicks)
      BY <2>1 DEF AfterEnqueue
    <3> QED
      BY <3>1, Flushed
  <2>2. CASE ~Calling("requeue")
    <3>1. staged' = staged (+) kicks /\ events' = events
      BY <2>2 DEF AfterEnqueue
    <3>2. KickBag(staged (+) kicks) /\ DOMAIN (staged (+) kicks) = DOMAIN staged \cup DOMAIN kicks
      BY <1>1, KickPlus
    <3> QED
      BY <1>1, <3>1, <3>2
  <2> QED
    BY <2>1, <2>2
<1>3. \/ Calling("enqueue") /\ IsDispatchOf(calls', IdleCpus)
      \/ ~Calling("enqueue") /\ calls' = Tail(calls)
  BY DEF AfterEnqueue
<1>4. IdleCpus \in SUBSET Cpu
  BY DEF IdleCpus
<1>5. \A ds : Shaped(calls', ds)
  <2>1. CASE IsDispatchOf(calls', IdleCpus)
    BY <1>4, <2>1, ShapedDispatches
  <2>2. CASE calls' = Tail(calls)
    BY <2>2, Called
  <2> QED
    BY <1>3, <2>1, <2>2
<1>6. Head(calls).task \in Task /\ Head(calls).cpu \in Cpu /\ calls # <<>>
  BY Called DEF Carries
<1>7. clock' = clock /\ unserved' = unserved
  BY DEF AfterEnqueue
<1> QED
  BY <1>2, <1>3, <1>5, <1>6, <1>7

(* What an insertion by ops.enqueue does to the tasks and the queues. *)
LEMMA Enqueued ==
    ASSUME Basic, EnqueueInsert
    PROVE  LET c == Head(calls).cpu
               t == Head(calls).task
           IN  /\ Calling("enqueue") \/ Calling("requeue") \/ Calling("drain")
               /\ c \in Cpu /\ t \in Task /\ held' = held
               /\ tasks' \in [Task -> TaskRec]
               /\ \A u \in Task : u # t => tasks'[u] = tasks[u]
               /\ tasks'[t].state = tasks[t].state /\ tasks'[t].pos = tasks[t].pos
               /\ tasks'[t].remaining = tasks[t].remaining /\ tasks'[t].slice \in Nat \ {0}
               /\ \E d \in EnqueueDsq : \E kicks :
                    /\ d \in DsqId
                    /\ Deliver(cpus, t, d, c)
                    /\ KickBag(kicks) /\ DOMAIN Resched(cpus, t, d, c) \subseteq DOMAIN kicks
                    /\ AfterEnqueue(kicks)
<1> DEFINE c == Head(calls).cpu
           t == Head(calls).task
<1>1. (Calling("enqueue") \/ Calling("requeue") \/ Calling("drain")) /\ held' = held
  BY DEF EnqueueInsert
<1>2. c \in Cpu /\ t \in Task
  BY <1>1, Called DEF Carries
<1>3. PICK d \in EnqueueDsq, sl \in Slices, kick \in KicksFrom(c) :
            /\ Deliver(cpus, t, d, c)
            /\ tasks' = Inserted(t, sl)
            /\ AfterEnqueue(kick (+) Resched(cpus, t, d, c))
  BY Zenon DEF EnqueueInsert
<1>4. d \in DsqId /\ cpus \in [Cpu -> CpuRec]
  BY EngineAssumption DEF Basic
<1> HIDE DEF t, c
<1>5. KickBag(kick)
  BY <1>2, KicksTypes
<1>6. KickBag(Resched(cpus, t, d, c))
  BY <1>2, <1>4, ReschedTypes
<1> DEFINE kicks == kick (+) Resched(cpus, t, d, c)
<1>7. KickBag(kicks) /\ DOMAIN Resched(cpus, t, d, c) \subseteq DOMAIN kicks
  BY <1>5, <1>6, KickPlus
<1> HIDE DEF kicks
<1>8. /\ tasks' \in [Task -> TaskRec]
      /\ \A u \in Task : u # t => tasks'[u] = tasks[u]
      /\ tasks'[t].state = tasks[t].state /\ tasks'[t].pos = tasks[t].pos
      /\ tasks'[t].remaining = tasks[t].remaining /\ tasks'[t].slice \in Nat \ {0}
  BY <1>2, <1>3, InsertedTypes
<1>9. AfterEnqueue(kicks)
  BY <1>3 DEF kicks
<1> QED
  BY <1>1, <1>2, <1>3, <1>4, <1>7, <1>8, <1>9 DEF t, c

(* An insertion by ops.enqueue keeps the invariant. *)
LEMMA EnqueueBasic ==
    ASSUME Basic, EnqueueInsert
    PROVE  Basic'
<1> DEFINE c == Head(calls).cpu
           t == Head(calls).task
<1>1. /\ Calling("enqueue") \/ Calling("requeue") \/ Calling("drain")
      /\ c \in Cpu /\ t \in Task /\ held' = held /\ tasks' \in [Task -> TaskRec]
  BY Enqueued
<1>2. PICK d \in DsqId : /\ Deliver(cpus, t, d, c)
                         /\ \E kicks : KickBag(kicks) /\ AfterEnqueue(kicks)
  BY Enqueued
<1>3. NewEvents(events') /\ KickBag(staged') /\ Shaped(calls', cpus') /\ clock' = clock /\ unserved' = unserved
  BY <1>1, <1>2, AfterEnqueued
<1>4. cpus \in [Cpu -> CpuRec]
  BY DEF Basic
<1>5. /\ cpus' \in [Cpu -> CpuRec] /\ dsqs' \in [global : Seq(Task), shared : Seq(Task)]
      /\ failed' \in BOOLEAN
  BY <1>1, <1>2, <1>4, Delivered
<1> QED
  BY <1>1, <1>3, <1>5 DEF Basic

(* ops.enqueue keeps the task. *)
LEMMA Kept ==
    ASSUME Basic, EnqueueHold
    PROVE  /\ Calling("enqueue") \/ Calling("requeue") \/ Calling("drain")
           /\ held' = held \cup {Head(calls).task}
           /\ UNCHANGED <<tasks, cpus, dsqs, failed>>
           /\ \E kicks : KickBag(kicks) /\ AfterEnqueue(kicks)
<1>1. /\ Calling("enqueue") \/ Calling("requeue") \/ Calling("drain")
      /\ held' = held \cup {Head(calls).task}
      /\ UNCHANGED <<tasks, cpus, dsqs, failed>>
      /\ \E kick \in KicksFrom(Head(calls).cpu) : AfterEnqueue(kick)
  BY DEF EnqueueHold
<1>2. Head(calls).cpu \in Cpu
  BY <1>1, Called DEF Carries
<1> QED
  BY <1>1, <1>2, KicksTypes

(* A task the scheduler keeps for itself keeps the invariant. *)
LEMMA KeepBasic ==
    ASSUME Basic, EnqueueHold
    PROVE  Basic'
<1>1. /\ Calling("enqueue") \/ Calling("requeue") \/ Calling("drain")
      /\ held' = held \cup {Head(calls).task}
      /\ UNCHANGED <<tasks, cpus, dsqs, failed>>
  BY Kept
<1>2. PICK kicks : KickBag(kicks) /\ AfterEnqueue(kicks)
  BY Kept
<1>3. NewEvents(events') /\ KickBag(staged') /\ Shaped(calls', cpus') /\ clock' = clock /\ unserved' = unserved
      /\ Head(calls).task \in Task
  BY <1>1, <1>2, AfterEnqueued
<1> QED
  BY <1>1, <1>3 DEF Basic

-----------------------------------------------------------------------------
(* Dispatching and running. *)

(* A dispatch that is not refused goes on with a pick on the same, idle    *)
(* and online, CPU.                                                        *)
LEMMA Dispatched ==
    ASSUME Basic, NEW c \in Cpu, Dispatching(c)
    PROVE  /\ Calling("dispatch") /\ calls # <<>> /\ Head(calls).cpu = c /\ Head(calls).task = NoTask
           /\ cpus[c].current = NoTask /\ cpus[c].online
           /\ calls' = <<Call("pick", c, NoTask)>> \o Tail(calls)
           /\ clock' = clock /\ unserved' = unserved
           /\ \A ds : ds[c].current = NoTask /\ ds[c].online => Shaped(calls', ds)
<1>1. /\ Calling("dispatch") /\ Head(calls).cpu = c
      /\ cpus[c].current = NoTask /\ cpus[c].online
      /\ calls' = <<Call("pick", c, NoTask)>> \o Tail(calls)
      /\ clock' = clock /\ unserved' = unserved
  BY DEF Dispatching
<1>2. calls # <<>> /\ Head(calls).task = NoTask /\ Shaped(calls, cpus)
  BY <1>1, Called DEF Carries, Basic
<1> DEFINE x == Call("pick", c, NoTask)
<1>3. x \in CallRec /\ x.op = "pick" /\ x.cpu = c /\ x.task = NoTask
  BY CallTypes DEF CallOp
<1> HIDE DEF x
<1>4. \A ds : ds[c].current = NoTask /\ ds[c].online => Shaped(<<x>> \o Tail(calls), ds)
  BY <1>2, <1>3, ShapedThen
<1> QED
  BY <1>1, <1>2, <1>4 DEF x

(* A dispatch that moves no task keeps the invariant. *)
LEMMA DispatchBasic ==
    ASSUME Basic, NEW c \in Cpu,
           DispatchLocal(c) \/ DispatchNothing(c)
    PROVE  Basic'
<1>1. Dispatching(c) /\ cpus' = Advance(c, clock) /\ UNCHANGED <<failed, tasks, dsqs, held>>
      /\ (UNCHANGED <<events, staged>> \/ Flush(EmptyBag))
  BY DEF DispatchLocal, DispatchNothing
<1>2. clock \in Nat
  BY DEF Basic
<1>3. cpus' \in [Cpu -> CpuRec] /\ cpus'[c].current = cpus[c].current /\ cpus'[c].online = cpus[c].online
  BY <1>1, <1>2, NowTypes
<1>4. Shaped(calls', cpus') /\ clock' = clock /\ unserved' = unserved
  BY <1>1, <1>3, Dispatched
<1>5. NewEvents(events') /\ KickBag(staged')
  BY <1>1, Flushed, KickNone DEF Basic
<1> QED
  BY <1>1, <1>3, <1>4, <1>5 DEF Basic

(* A task of the shared queue moves to the local one. *)
LEMMA Moved ==
    ASSUME Basic, NEW c \in Cpu, DispatchMove(c)
    PROVE  /\ Dispatching(c) /\ Flush(EmptyBag) /\ UNCHANGED <<failed, tasks, held>>
           /\ cpus' \in [Cpu -> CpuRec] /\ dsqs' \in [global : Seq(Task), shared : Seq(Task)]
           /\ \A k \in Cpu : /\ cpus'[k].current = cpus[k].current
                             /\ cpus'[k].clock = IF k = c THEN Now(c, clock) ELSE cpus[k].clock
                             /\ cpus'[k].startedAt = cpus[k].startedAt
                             /\ cpus'[k].slice = cpus[k].slice
                             /\ cpus'[k].online = cpus[k].online
                             /\ k # c => cpus'[k].local = cpus[k].local
           /\ \E i \in 1 .. Len(dsqs.shared) :
                /\ dsqs.shared[i] \in Task /\ c \in Allowed[dsqs.shared[i]]
                /\ cpus'[c].local = Append(cpus[c].local, dsqs.shared[i])
                /\ dsqs'.shared = RemoveAt(dsqs.shared, i)
                /\ dsqs'.global = dsqs.global
<1> DEFINE A == Advance(c, clock)
<1>1. Dispatching(c) /\ Flush(EmptyBag) /\ UNCHANGED <<failed, tasks, held>>
  BY DEF DispatchMove
<1>2. PICK i \in DOMAIN dsqs.shared :
         /\ FirstMatching(dsqs.shared, c, i)
         /\ cpus' = [A EXCEPT ![c].local = Append(@, dsqs.shared[i])]
         /\ dsqs' = [dsqs EXCEPT !.shared = RemoveAt(@, i)]
  BY DEF DispatchMove
<1>3. dsqs \in [global : Seq(Task), shared : Seq(Task)] /\ clock \in Nat
  BY DEF Basic
<1>4. i \in 1 .. Len(dsqs.shared) /\ dsqs.shared[i] \in Task /\ c \in Allowed[dsqs.shared[i]]
  BY <1>2, <1>3 DEF FirstMatching
<1>5. /\ A \in [Cpu -> CpuRec]
      /\ \A k \in Cpu : /\ A[k].current = cpus[k].current
                        /\ A[k].clock = IF k = c THEN Now(c, clock) ELSE cpus[k].clock
                        /\ A[k].startedAt = cpus[k].startedAt
                        /\ A[k].slice = cpus[k].slice
                        /\ A[k].online = cpus[k].online
                        /\ A[k].local = cpus[k].local
  <2>1. cpus \in [Cpu -> CpuRec] /\ Now(c, clock) \in Nat
    BY <1>3, NowTypes DEF Basic
  <2> DEFINE n == Now(c, clock)
             y == [cpus[c] EXCEPT !.clock = n]
  <2>2. A = [cpus EXCEPT ![c] = y]
    BY DEF Advance
  <2>3. /\ y \in CpuRec /\ y.clock = n /\ y.current = cpus[c].current
        /\ y.startedAt = cpus[c].startedAt /\ y.slice = cpus[c].slice
        /\ y.online = cpus[c].online /\ y.local = cpus[c].local
    <3> HIDE DEF n
    <3>1. n \in Nat
      BY <2>1 DEF n
    <3> QED
      BY <2>1, <3>1 DEF CpuRec
  <2> HIDE DEF A, y, n
  <2>4. A \in [Cpu -> CpuRec] /\ A[c] = y /\ \A k \in Cpu : k # c => A[k] = cpus[k]
    BY <2>1, <2>2, <2>3
  <2> QED
    BY <2>3, <2>4 DEF n
<1> HIDE DEF A
<1> DEFINE t == dsqs.shared[i]
           x == [A[c] EXCEPT !.local = Append(A[c].local, t)]
<1> HIDE DEF t
<1>6. A[c] \in CpuRec /\ A[c].local \in Seq(Task) /\ t \in Task
  BY <1>4, <1>5 DEF CpuRec, t
<1>7. Append(A[c].local, t) \in Seq(Task)
  BY <1>6
<1>8. /\ x \in CpuRec /\ x.local = Append(A[c].local, t) /\ x.current = A[c].current
      /\ x.clock = A[c].clock /\ x.startedAt = A[c].startedAt /\ x.slice = A[c].slice
      /\ x.online = A[c].online
  BY <1>6, <1>7 DEF CpuRec
<1>9. cpus' = [A EXCEPT ![c] = x]
  BY <1>2, <1>5 DEF t
<1> HIDE DEF x
<1>10. cpus' \in [Cpu -> CpuRec] /\ cpus'[c] = x /\ \A k \in Cpu : k # c => cpus'[k] = A[k]
  BY <1>5, <1>8, <1>9
<1>11. RemoveAt(dsqs.shared, i) \in Seq(Task)
  BY <1>3, <1>4, RemoveAtTypes
<1>12. /\ dsqs' \in [global : Seq(Task), shared : Seq(Task)]
       /\ dsqs'.shared = RemoveAt(dsqs.shared, i) /\ dsqs'.global = dsqs.global
  BY <1>2, <1>3, <1>11
<1>13. cpus'[c].local = Append(cpus[c].local, dsqs.shared[i])
  BY <1>5, <1>8, <1>10 DEF t
<1>14. ASSUME NEW k \in Cpu
       PROVE  /\ cpus'[k].current = cpus[k].current
              /\ cpus'[k].clock = IF k = c THEN Now(c, clock) ELSE cpus[k].clock
              /\ cpus'[k].startedAt = cpus[k].startedAt
              /\ cpus'[k].slice = cpus[k].slice
              /\ cpus'[k].online = cpus[k].online
              /\ k # c => cpus'[k].local = cpus[k].local
  <2>1. CASE k = c
    BY <2>1, <1>5, <1>8, <1>10
  <2>2. CASE k # c
    BY <2>2, <1>5, <1>10
  <2> QED
    BY <2>1, <2>2
<1>15. \E j \in 1 .. Len(dsqs.shared) :
          /\ dsqs.shared[j] \in Task /\ c \in Allowed[dsqs.shared[j]]
          /\ cpus'[c].local = Append(cpus[c].local, dsqs.shared[j])
          /\ dsqs'.shared = RemoveAt(dsqs.shared, j)
          /\ dsqs'.global = dsqs.global
  BY <1>4, <1>12, <1>13
<1> QED
  BY <1>1, <1>10, <1>12, <1>14, <1>15

(* scx_bpf_dsq_move_to_local keeps the invariant. *)
LEMMA MoveBasic ==
    ASSUME Basic, NEW c \in Cpu, DispatchMove(c)
    PROVE  Basic'
<1>1. /\ Dispatching(c) /\ Flush(EmptyBag) /\ UNCHANGED <<failed, tasks, held>>
      /\ cpus' \in [Cpu -> CpuRec] /\ dsqs' \in [global : Seq(Task), shared : Seq(Task)]
      /\ cpus'[c].current = cpus[c].current /\ cpus'[c].online = cpus[c].online
  BY Moved
<1>2. Shaped(calls', cpus') /\ clock' = clock /\ unserved' = unserved
  BY <1>1, Dispatched
<1>3. NewEvents(events') /\ KickBag(staged')
  BY <1>1, Flushed, KickNone
<1> QED
  BY <1>1, <1>2, <1>3 DEF Basic

(* A held task is inserted. *)
LEMMA Offered ==
    ASSUME Basic, NEW c \in Cpu, DispatchHeld(c)
    PROVE  /\ Dispatching(c) /\ cpus[c].local = <<>>
           /\ Advance(c, clock) \in [Cpu -> CpuRec]
           /\ \E t \in held, d \in DispatchDsq :
                /\ t \in Task /\ d \in DsqId
                /\ d = Local => c \in Chosen[t]
                /\ Deliver(Advance(c, clock), t, d, c)
                /\ held' = held \ {t}
                /\ KickBag(Resched(Advance(c, clock), t, d, c))
                /\ Flush(Resched(Advance(c, clock), t, d, c))
                /\ tasks' \in [Task -> TaskRec]
                /\ \A u \in Task : u # t => tasks'[u] = tasks[u]
                /\ tasks'[t].state = tasks[t].state /\ tasks'[t].pos = tasks[t].pos
                /\ tasks'[t].remaining = tasks[t].remaining /\ tasks'[t].slice \in Nat \ {0}
<1>1. Dispatching(c) /\ cpus[c].local = <<>>
  BY DEF DispatchHeld
<1>2. PICK t \in held, d \in DispatchDsq, sl \in Slices :
         /\ d = Local => c \in Chosen[t]
         /\ Deliver(Advance(c, clock), t, d, c)
         /\ tasks' = Inserted(t, sl)
         /\ held' = held \ {t}
         /\ Flush(Resched(Advance(c, clock), t, d, c))
  BY Zenon DEF DispatchHeld
<1>3. t \in Task /\ d \in DsqId /\ clock \in Nat
  BY EngineAssumption DEF Basic
<1>4. Advance(c, clock) \in [Cpu -> CpuRec]
  BY <1>3, NowTypes
<1>5. KickBag(Resched(Advance(c, clock), t, d, c))
  BY <1>3, <1>4, ReschedTypes
<1>6. /\ tasks' \in [Task -> TaskRec]
      /\ \A u \in Task : u # t => tasks'[u] = tasks[u]
      /\ tasks'[t].state = tasks[t].state /\ tasks'[t].pos = tasks[t].pos
      /\ tasks'[t].remaining = tasks[t].remaining /\ tasks'[t].slice \in Nat \ {0}
  BY <1>2, <1>3, InsertedTypes
<1> QED
  BY <1>1, <1>2, <1>3, <1>4, <1>5, <1>6

(* The dispatch of a held task keeps the invariant. *)
LEMMA OfferBasic ==
    ASSUME Basic, NEW c \in Cpu, DispatchHeld(c)
    PROVE  Basic'
<1> DEFINE A == Advance(c, clock)
<1>1. Dispatching(c) /\ A \in [Cpu -> CpuRec]
  BY Offered
<1>2. PICK t \in held, d \in DsqId :
        /\ t \in Task /\ Deliver(A, t, d, c) /\ held' = held \ {t}
        /\ KickBag(Resched(A, t, d, c)) /\ Flush(Resched(A, t, d, c))
        /\ tasks' \in [Task -> TaskRec]
  BY Offered
<1>3. clock \in Nat
  BY DEF Basic
<1>4. A[c].current = cpus[c].current /\ A[c].online = cpus[c].online
  BY <1>3, NowTypes
<1> HIDE DEF A
<1>5. /\ cpus' \in [Cpu -> CpuRec] /\ dsqs' \in [global : Seq(Task), shared : Seq(Task)]
      /\ failed' \in BOOLEAN
      /\ cpus'[c].current = cpus[c].current /\ cpus'[c].online = cpus[c].online
  BY <1>1, <1>2, <1>4, Delivered
<1>6. Shaped(calls', cpus') /\ clock' = clock /\ unserved' = unserved
  BY <1>1, <1>5, Dispatched
<1>7. NewEvents(events') /\ KickBag(staged')
  BY <1>2, Flushed
<1>8. held' \in SUBSET Task
  BY <1>2 DEF Basic
<1> QED
  BY <1>2, <1>5, <1>6, <1>7, <1>8 DEF Basic

(* What a pick takes: the head of the local queue, or the first task of    *)
(* the global one that may run here.                                       *)
LEMMA PickTypes ==
    ASSUME Basic, NEW c \in Cpu, NEW pick \in Picks(c)
    PROVE  /\ pick.task \in Task /\ pick.local \in Seq(Task) /\ pick.global \in Seq(Task)
           /\ \/ /\ cpus[c].local # <<>> /\ 1 \in 1 .. Len(cpus[c].local)
                 /\ pick.task = cpus[c].local[1] /\ pick.local = Tail(cpus[c].local)
                 /\ pick.global = dsqs.global
              \/ /\ pick.local = cpus[c].local /\ c \in Allowed[pick.task]
                 /\ \E i \in 1 .. Len(dsqs.global) :
                      pick.task = dsqs.global[i] /\ pick.global = RemoveAt(dsqs.global, i)
<1>1. cpus[c].local \in Seq(Task) /\ dsqs.global \in Seq(Task)
  BY DEF Basic, CpuRec
<1> DEFINE local == cpus[c].local
           global == dsqs.global
<1>2. CASE local # <<>>
  <2>1. pick = [task |-> Head(local), local |-> Tail(local), global |-> global]
    BY <1>2 DEF Picks
  <2>2. pick.task = Head(local) /\ pick.local = Tail(local) /\ pick.global = global
    BY <2>1
  <2> HIDE DEF local, global
  <2>3. Head(local) = local[1] /\ 1 \in 1 .. Len(local) /\ local[1] \in Task /\ Tail(local) \in Seq(Task)
        /\ global \in Seq(Task)
    BY <1>1, <1>2 DEF local, global
  <2> QED
    BY <1>2, <2>2, <2>3 DEF local, global
<1>3. CASE local = <<>>
  <2>1. PICK i \in DOMAIN global : /\ FirstMatching(global, c, i)
                                   /\ pick = [task |-> global[i], local |-> local, global |-> RemoveAt(global, i)]
    BY <1>3 DEF Picks
  <2>2. pick.task = global[i] /\ pick.local = local /\ pick.global = RemoveAt(global, i)
    BY <2>1
  <2>3. c \in Allowed[global[i]]
    BY <2>1 DEF FirstMatching
  <2>4. i \in 1 .. Len(global) /\ global[i] \in Task /\ RemoveAt(global, i) \in Seq(Task)
    BY <1>1, <2>1, RemoveAtTypes
  <2> QED
    BY <1>1, <2>2, <2>3, <2>4
<1> QED
  BY <1>2, <1>3

(* The slice of a picked task is a natural number. *)
LEMMA SliceTypes ==
    ASSUME Basic, NEW c \in Cpu, NEW pick \in Picks(c)
    PROVE  tasks[pick.task].slice \in Nat
<1>1. pick.task \in Task
  BY PickTypes
<1> QED
  BY <1>1 DEF Basic, TaskRec

(* start_running, on its CPU, ... *)
LEMMA StartedCpu ==
    ASSUME Basic, NEW c \in Cpu, NEW pick \in Picks(c), NEW slice \in Nat, RunFor(c, pick, slice)
    PROVE  /\ cpus' \in [Cpu -> CpuRec]
           /\ \A k \in Cpu : k # c => cpus'[k] = cpus[k]
           /\ cpus'[c].current = pick.task /\ cpus'[c].local = pick.local
           /\ cpus'[c].clock = cpus[c].clock /\ cpus'[c].startedAt = cpus[c].clock
           /\ cpus'[c].online = cpus[c].online
<1> DEFINE x == [cpus[c] EXCEPT !.local = pick.local, !.current = pick.task,
                                !.startedAt = cpus[c].clock, !.slice = slice]
<1>1. cpus' = [cpus EXCEPT ![c].local = pick.local, ![c].current = pick.task,
                           ![c].startedAt = cpus[c].clock, ![c].slice = slice]
  BY DEF RunFor
<1>2. pick.task \in Task /\ pick.local \in Seq(Task)
  BY PickTypes
<1>3. cpus \in [Cpu -> CpuRec] /\ cpus[c] \in CpuRec
  BY DEF Basic
<1>4. /\ x \in CpuRec /\ x.current = pick.task /\ x.local = pick.local /\ x.clock = cpus[c].clock
      /\ x.startedAt = cpus[c].clock /\ x.online = cpus[c].online
  BY <1>2, <1>3 DEF CpuRec
<1>5. cpus' = [cpus EXCEPT ![c] = x]
  BY <1>1, <1>3
<1> HIDE DEF x
<1> QED
  BY <1>3, <1>4, <1>5

(* ... on its task, ... *)
LEMMA StartedTask ==
    ASSUME Basic, NEW c \in Cpu, NEW pick \in Picks(c), NEW slice, RunFor(c, pick, slice)
    PROVE  /\ tasks' \in [Task -> TaskRec]
           /\ \A u \in Task : u # pick.task => tasks'[u] = tasks[u]
           /\ tasks'[pick.task].state = "Running"
           /\ tasks'[pick.task].pos = tasks[pick.task].pos
           /\ tasks'[pick.task].remaining = tasks[pick.task].remaining
           /\ tasks'[pick.task].slice = tasks[pick.task].slice
<1> DEFINE t == pick.task
           y == [tasks[t] EXCEPT !.state = "Running", !.prevCpu = c]
<1>1. tasks' = [tasks EXCEPT ![t].state = "Running", ![t].prevCpu = c]
  BY DEF RunFor
<1>2. t \in Task
  BY PickTypes
<1>3. tasks \in [Task -> TaskRec] /\ tasks[t] \in TaskRec
  BY <1>2 DEF Basic
<1> HIDE DEF t
<1>4. /\ y \in TaskRec /\ y.state = "Running" /\ y.pos = tasks[t].pos
      /\ y.remaining = tasks[t].remaining /\ y.slice = tasks[t].slice
  BY <1>3 DEF TaskRec, TaskState
<1>5. tasks' = [tasks EXCEPT ![t] = y]
  BY <1>1, <1>3
<1> HIDE DEF y
<1> QED
  BY <1>2, <1>3, <1>4, <1>5 DEF t

(* ... and the end event it schedules. *)
LEMMA StartedEvent ==
    ASSUME Basic, NEW c \in Cpu, NEW pick \in Picks(c), NEW slice \in Nat, RunFor(c, pick, slice)
    PROVE  /\ NewEvents(events')
           /\ \E e \in Event :
                /\ DOMAIN events' = DOMAIN events \cup {e}
                /\ e.cpu = c /\ e.kind \in {"SliceExpired", "PhaseComplete"}
                /\ e.time <= cpus[c].clock
                     + (IF tasks[pick.task].remaining > 0 /\ slice > 0 /\ slice <= tasks[pick.task].remaining
                        THEN slice ELSE tasks[pick.task].remaining)
<1> DEFINE t == pick.task
           e == EndOfRun(c, t, slice)
           now == cpus[c].clock
           rem == tasks[t].remaining
<1>1. events' = events (+) SetToBag({e})
  BY DEF RunFor
<1>2. t \in Task
  BY PickTypes
<1>3. now \in Nat /\ rem \in Nat /\ NewEvents(events)
  BY <1>2 DEF Basic, CpuRec, TaskRec
<1>4. now + slice \in Nat /\ now + rem \in Nat /\ "SliceExpired" \in EventKind /\ "PhaseComplete" \in EventKind
  BY <1>3 DEF EventKind
<1>5. /\ e \in Event /\ e.cpu = c /\ e.kind \in {"SliceExpired", "PhaseComplete"} /\ e.flags = {}
      /\ e.time <= now + (IF rem > 0 /\ slice > 0 /\ slice <= rem THEN slice ELSE rem)
  <2>1. CASE rem > 0 /\ slice > 0 /\ slice <= rem
    <3>1. e = EventAt(now + slice, "SliceExpired", c)
      BY <2>1 DEF EndOfRun
    <3> HIDE DEF e, now, rem
    <3> QED
      BY <1>4, <2>1, <3>1, EventTypes
  <2>2. CASE ~(rem > 0 /\ slice > 0 /\ slice <= rem)
    <3>1. e = EventAt(now + rem, "PhaseComplete", c)
      BY <2>2 DEF EndOfRun
    <3> HIDE DEF e, now, rem
    <3> QED
      BY <1>4, <2>2, <3>1, EventTypes
  <2> QED
    BY <2>1, <2>2
<1> HIDE DEF e, now, rem
<1>6. NewEvents(SetToBag({e})) /\ DOMAIN SetToBag({e}) = {e}
  BY <1>5, NewOne
<1>7. NewEvents(events') /\ DOMAIN events' = DOMAIN events \cup {e}
  BY <1>1, <1>3, <1>6, NewBoth
<1> QED
  BY <1>5, <1>7 DEF now, rem, t

(* start_running, in the rest of what it does. *)
LEMMA Started ==
    ASSUME Basic, NEW c \in Cpu, NEW pick \in Picks(c), NEW slice \in Nat, RunFor(c, pick, slice)
    PROVE  /\ Calling("pick") /\ calls # <<>> /\ Head(calls).cpu = c /\ calls' = Tail(calls)
           /\ cpus[c].current = NoTask /\ cpus[c].online
           /\ UNCHANGED <<clock, staged, failed, held, unserved>>
           /\ tasks[pick.task].state # "Exited" /\ pick.task \in Task
           /\ dsqs' \in [global : Seq(Task), shared : Seq(Task)]
           /\ dsqs'.global = pick.global /\ dsqs'.shared = dsqs.shared
           /\ cpus' \in [Cpu -> CpuRec]
           /\ tasks' \in [Task -> TaskRec]
<1>1. /\ Calling("pick") /\ Head(calls).cpu = c /\ calls' = Tail(calls)
      /\ UNCHANGED <<clock, staged, failed, held, unserved>>
      /\ tasks[pick.task].state # "Exited"
      /\ dsqs' = [dsqs EXCEPT !.global = pick.global]
      /\ tasks' = [tasks EXCEPT ![pick.task].state = "Running", ![pick.task].prevCpu = c]
  BY DEF RunFor, Picked
<1>2. calls # <<>> /\ cpus[c].current = NoTask /\ cpus[c].online
  BY <1>1, Called
<1>3. pick.task \in Task /\ pick.global \in Seq(Task)
  BY PickTypes
<1>4. dsqs \in [global : Seq(Task), shared : Seq(Task)]
  BY DEF Basic
<1>5. /\ dsqs' \in [global : Seq(Task), shared : Seq(Task)]
      /\ dsqs'.global = pick.global /\ dsqs'.shared = dsqs.shared
  BY <1>1, <1>3, <1>4
<1>6. cpus' \in [Cpu -> CpuRec] /\ tasks' \in [Task -> TaskRec]
  BY StartedCpu, StartedTask
<1> QED
  BY <1>1, <1>2, <1>3, <1>5, <1>6

(* start_running keeps the invariant. *)
LEMMA StartBasic ==
    ASSUME Basic, NEW c \in Cpu, NEW pick \in Picks(c), NEW slice \in Nat, RunFor(c, pick, slice)
    PROVE  Basic'
<1>1. /\ Calling("pick") /\ calls' = Tail(calls)
      /\ UNCHANGED <<clock, staged, failed, held, unserved>>
      /\ dsqs' \in [global : Seq(Task), shared : Seq(Task)]
      /\ cpus' \in [Cpu -> CpuRec] /\ tasks' \in [Task -> TaskRec]
  BY Started
<1>2. NewEvents(events')
  BY StartedEvent
<1>3. Shaped(calls', cpus')
  BY <1>1, Called
<1> QED
  BY <1>1, <1>2, <1>3 DEF Basic

(* Skipping an exited task keeps the invariant. *)
LEMMA SkipBasic ==
    ASSUME Basic, NEW c \in Cpu, NEW pick \in Picks(c), SkipExited(c, pick)
    PROVE  Basic'
<1>1. /\ Calling("pick") /\ Head(calls).cpu = c /\ calls' = <<Dispatch(c)>> \o Tail(calls)
      /\ UNCHANGED <<clock, staged, failed, held, unserved, tasks, events>>
      /\ dsqs' = [dsqs EXCEPT !.global = pick.global]
      /\ cpus' = [cpus EXCEPT ![c].local = pick.local]
  BY DEF SkipExited, Picked
<1>2. pick.local \in Seq(Task) /\ pick.global \in Seq(Task)
  BY PickTypes
<1>3. dsqs' \in [global : Seq(Task), shared : Seq(Task)]
  BY <1>1, <1>2 DEF Basic
<1>4. cpus' \in [Cpu -> CpuRec]
  <2> DEFINE x == [cpus[c] EXCEPT !.local = pick.local]
  <2>1. cpus \in [Cpu -> CpuRec] /\ cpus' = [cpus EXCEPT ![c] = x]
    BY <1>1 DEF Basic
  <2>2. x \in CpuRec
    BY <1>2, <2>1 DEF CpuRec
  <2> HIDE DEF x
  <2> QED
    BY <2>1, <2>2
<1>5. calls # <<>> /\ Shaped(calls, cpus)
  BY <1>1, Called DEF Basic
<1>6. Shaped(calls', cpus')
  BY <1>1, <1>5, ShapedThen, DispatchTypes
<1> QED
  BY <1>1, <1>3, <1>4, <1>6 DEF Basic

(* The steps that only shorten or replace what the handler has to do keep  *)
(* the invariant.                                                          *)
LEMMA ListBasic ==
    ASSUME Basic, DispatchRefused \/ TakeDown \/ DrainLocal \/ (\E c \in Cpu : GoIdle(c))
    PROVE  Basic'
<1>1. UNCHANGED <<clock, events, staged, failed, tasks, dsqs, held, unserved>>
  BY Zenon DEF DispatchRefused, TakeDown, DrainLocal, GoIdle
<1>2. CASE DispatchRefused \/ \E c \in Cpu : GoIdle(c)
  <2>1. (Calling("dispatch") \/ Calling("pick")) /\ calls' = Tail(calls) /\ cpus' = cpus
    BY <1>2 DEF DispatchRefused, GoIdle
  <2>2. Shaped(calls', cpus')
    BY <2>1, Called
  <2> QED
    BY <1>1, <2>1, <2>2 DEF Basic
<1>3. CASE TakeDown
  <2>1. Calling("takeDown") /\ calls' = Tail(calls)
        /\ cpus' = [cpus EXCEPT ![Head(calls).cpu].online = FALSE]
    BY <1>3 DEF TakeDown
  <2>2. Shaped(calls', cpus')
    BY <2>1, Called
  <2>3. cpus' \in [Cpu -> CpuRec]
    <3> DEFINE k == Head(calls).cpu
               x == [cpus[k] EXCEPT !.online = FALSE]
    <3>1. k \in Cpu /\ cpus \in [Cpu -> CpuRec] /\ cpus' = [cpus EXCEPT ![k] = x]
      BY <2>1, Called DEF Basic
    <3>2. x \in CpuRec
      BY <3>1 DEF CpuRec
    <3> HIDE DEF k, x
    <3> QED
      BY <3>1, <3>2
  <2> QED
    BY <1>1, <2>2, <2>3 DEF Basic
<1>4. CASE DrainLocal
  <2> DEFINE c == Head(calls).cpu
             queue == cpus[c].local
  <2>1. /\ Calling("drainLocal") /\ cpus' = [cpus EXCEPT ![c].local = <<>>]
        /\ calls' = [i \in DOMAIN queue |-> Call("drain", c, queue[i])] \o <<Call("takeDown", c, NoTask)>>
    BY <1>4, ZenonT(30) DEF DrainLocal
  <2>2. c \in Cpu
    BY ZenonT(30), <2>1, Called
  <2>3. cpus' \in [Cpu -> CpuRec]
    BY <2>1, EmptySeq, ZenonT(30) DEF Basic, CpuRec
  <2>4. queue \in Seq(Task)
    BY <2>2 DEF Basic, CpuRec
  <2> HIDE DEF c, queue
  <2>5. Shaped(calls', cpus')
    BY <2>1, <2>2, <2>4, ShapedDrain
  <2> QED
    BY <1>1, <2>3, <2>5 DEF Basic
<1> QED
  BY <1>2, <1>3, <1>4

-----------------------------------------------------------------------------
(* Type correctness. *)

(* Every step of a handler keeps the types. *)
LEMMA BasicStep ==
    ASSUME Basic, [Next]_vars
    PROVE  Basic'
<1>1. CASE UNCHANGED vars
  BY <1>1 DEF vars, Basic, Shaped, Fits, Followed, NewEvents, KickBag, IsBagOf
<1>2. ASSUME NEW e \in DOMAIN events, HandleEvent(e)
      PROVE  Basic'
  <2>1. CASE WakeIgnored(e) \/ EndIgnored(e) \/ TickOffline(e) \/ AlreadyThere(e)
    BY <2>1, IgnoreBasic DEF WakeIgnored, EndIgnored, TickOffline, AlreadyThere
  <2>2. CASE TaskWake(e)
    BY <2>2, WakeBasic, WokenUp
  <2>3. CASE SliceExpired(e) \/ KickPreempt(e) \/ CpuLeaves(e)
    BY <2>3, StopEventBasic
  <2>4. CASE KickDispatch(e) \/ Tick(e) \/ CpuReturns(e)
    BY <2>4, PassEventBasic
  <2>5. CASE PhaseComplete(e)
    BY <2>5, PhaseBasic
  <2> QED
    BY <1>2, <2>1, <2>2, <2>3, <2>4, <2>5 DEF HandleEvent
<1>3. ASSUME NEW c \in Cpu, DispatchAndRun(c)
      PROVE  Basic'
  <2>1. CASE DispatchLocal(c) \/ DispatchNothing(c)
    BY <2>1, DispatchBasic
  <2>2. CASE DispatchMove(c)
    BY <2>2, MoveBasic
  <2>3. CASE DispatchHeld(c)
    BY <2>3, OfferBasic
  <2>4. CASE StartRunning(c)
    BY <2>4, StartBasic, SliceTypes, SkipBasic DEF StartRunning
  <2>5. CASE GoIdle(c)
    BY <2>5, ListBasic
  <2> QED
    BY <1>3, <2>1, <2>2, <2>3, <2>4, <2>5 DEF DispatchAndRun
<1>4. CASE SelectCpu
  BY <1>4, SelectBasic
<1>5. CASE EnqueueInsert
  BY <1>5, EnqueueBasic
<1>6. CASE EnqueueHold
  BY <1>6, KeepBasic
<1>7. CASE OpsTick
  BY <1>7, TickedBasic
<1>8. CASE DispatchRefused \/ DrainLocal \/ TakeDown
  BY <1>8, ListBasic
<1> QED
  BY <1>1, <1>2, <1>3, <1>4, <1>5, <1>6, <1>7, <1>8 DEF Next

(* A run begins with a wake of every task, a tick of every CPU and the     *)
(* events of the scenario.                                                 *)
LEMMA BasicInit ==
    ASSUME Init
    PROVE  Basic /\ \A c \in Cpu : EventAt(TickInterval, "Tick", c) \in DOMAIN events
<1> DEFINE W == {WakeAt(Start[t], t, InitialCpu[t]) : t \in Task}
           K == {EventAt(TickInterval, "Tick", c) : c \in Cpu}
<1>1. W \subseteq Event /\ \A f \in W : f.kind = "TaskWake" /\ f.task \in Task /\ f.flags = {}
  <2> SUFFICES ASSUME NEW t \in Task
               PROVE  /\ WakeAt(Start[t], t, InitialCpu[t]) \in Event
                      /\ WakeAt(Start[t], t, InitialCpu[t]).kind = "TaskWake"
                      /\ WakeAt(Start[t], t, InitialCpu[t]).task \in Task
                      /\ WakeAt(Start[t], t, InitialCpu[t]).flags = {}
    OBVIOUS
  <2>1. Start[t] \in Nat /\ InitialCpu[t] \in Cpu
    BY EngineAssumption
  <2> QED
    BY <2>1, WakeTypes
<1>2. K \subseteq Event /\ \A f \in K : f.kind = "Tick" /\ f.flags = {}
  <2> SUFFICES ASSUME NEW c \in Cpu
               PROVE  /\ EventAt(TickInterval, "Tick", c) \in Event
                      /\ EventAt(TickInterval, "Tick", c).kind = "Tick"
                      /\ EventAt(TickInterval, "Tick", c).flags = {}
    OBVIOUS
  <2>1. TickInterval \in Nat /\ "Tick" \in EventKind
    BY EngineAssumption DEF EventKind
  <2> QED
    BY <2>1, EventTypes
<1>3. Hotplug \subseteq Event /\ (\A f \in Hotplug : f.kind # "TaskWake")
      /\ (Undisturbed => Hotplug = {})
  BY EngineAssumption DEF Undisturbed
<1>4. events = SetToBag(W \cup K \cup Hotplug)
  BY DEF Init
<1> HIDE DEF W, K
<1>5. NewEvents(events) /\ DOMAIN events = W \cup K \cup Hotplug
  BY <1>1, <1>2, <1>3, <1>4, SetBag DEF NewEvents, Calm
<1>6. KickBag(staged) /\ Shaped(calls, cpus) /\ clock \in Nat /\ failed \in BOOLEAN /\ held \in SUBSET Task
  BY KickNone, ShapedNothing DEF Init
<1>7. \A t \in Task : RunTime(PhaseAt(t, 1)) \in Nat
  BY PhaseTypes
<1>8. unserved \in [Task -> Int] /\ tasks \in [Task -> TaskRec]
  BY <1>7, EngineAssumption DEF Init, TaskRec, TaskState
<1>9. cpus \in [Cpu -> CpuRec]
  BY EmptySeq DEF Init, CpuRec
<1>10. dsqs \in [global : Seq(Task), shared : Seq(Task)]
  BY DEF Init
<1>11. \A c \in Cpu : EventAt(TickInterval, "Tick", c) \in DOMAIN events
  BY <1>5 DEF K
<1> QED
  BY <1>5, <1>6, <1>8, <1>9, <1>10, <1>11 DEF Basic

(* Basic always holds. *)
LEMMA AlwaysBasic == Spec => []Basic
<1>1. Init => Basic
  BY BasicInit
<1>2. Basic /\ [Next]_vars => Basic'
  BY BasicStep
<1> QED
  BY <1>1, <1>2, PTL DEF Spec

(* TypeOK is an invariant: whatever the scheduler answers, no handler puts *)
(* a queue, a task, a CPU or an event out of its type.                     *)
THEOREM EngineTypes == Spec => []TypeOK
BY AlwaysBasic, BasicTypes, PTL

(* The same, for one of the CPUs.                                          *)
LEMMA AdvanceTypes ==
    ASSUME Basic, NEW c \in Cpu, NEW k \in Cpu, NEW time \in Nat
    PROVE  LET A == Advance(k, time) IN
           /\ A \in [Cpu -> CpuRec]
           /\ A[c].clock = cpus[c].clock \/ A[c].clock = Now(c, time)
           /\ A[c].clock >= cpus[c].clock
           /\ A[c].current = cpus[c].current /\ A[c].local = cpus[c].local
           /\ A[c].startedAt = cpus[c].startedAt /\ A[c].online = cpus[c].online
<1> DEFINE A == Advance(k, time)
<1>1. /\ A \in [Cpu -> CpuRec] /\ Now(k, time) >= cpus[k].clock
      /\ A[c].current = cpus[c].current /\ A[c].local = cpus[c].local
      /\ A[c].startedAt = cpus[c].startedAt /\ A[c].online = cpus[c].online
      /\ A[c].clock = IF c = k THEN Now(k, time) ELSE cpus[c].clock
  BY NowTypes
<1>2. cpus[c].clock \in Nat
  BY DEF Basic, CpuRec
<1> HIDE DEF A
<1>3. A[c].clock = cpus[c].clock \/ A[c].clock = Now(c, time)
  BY <1>1
<1>4. A[c].clock >= cpus[c].clock
  BY <1>1, <1>2
<1> QED
  BY <1>1, <1>3, <1>4 DEF A

-----------------------------------------------------------------------------
(* What no step does to a CPU. *)

(* The clock of a CPU does not go back, a run begins at its clock, a task  *)
(* starts on an online CPU, and a CPU comes back by its own event.         *)
GoesOn(c) ==
    /\ cpus'[c].clock >= cpus[c].clock
    /\ cpus'[c].startedAt \in {cpus[c].startedAt, 0, cpus[c].clock}
    /\ cpus'[c].current \in {NoTask, cpus[c].current} \/ cpus[c].online
    /\ cpus'[c].online => cpus[c].online \/ \E e \in DOMAIN events : e.cpu = c /\ CpuReturns(e)

(* Only time has passed on the CPUs, or nothing has.                       *)
LEMMA SameGoesOn ==
    ASSUME Basic, NEW c \in Cpu, cpus' \in [Cpu -> CpuRec],
           cpus'[c].clock = cpus[c].clock \/ (\E time \in Nat : cpus'[c].clock = Now(c, time)),
           cpus'[c].startedAt = cpus[c].startedAt,
           cpus'[c].current = cpus[c].current,
           cpus'[c].online => cpus[c].online
    PROVE  GoesOn(c)
<1>1. cpus[c].clock \in Nat
  BY DEF Basic, CpuRec
<1>2. cpus'[c].clock >= cpus[c].clock
  BY <1>1, NowTypes
<1> QED
  BY <1>2 DEF GoesOn

(* The task of CPU k is stopped at a time its clock has reached.           *)
LEMMA StopGoesOn ==
    ASSUME Basic, NEW c \in Cpu, NEW k \in Cpu, NEW now \in Nat, now >= cpus[k].clock,
           cpus' = Stop(k, now)
    PROVE  GoesOn(c)
<1>1. cpus[c].clock \in Nat /\ Csw \in Nat
  BY EngineAssumption DEF Basic, CpuRec
<1>2. CASE c = k
  <2>1. now + Csw >= cpus[c].clock
    BY <1>1, <1>2
  <2> QED
    BY <1>2, <2>1, StopTypes DEF GoesOn
<1>3. CASE c # k
  BY <1>1, <1>3, StopTypes DEF GoesOn
<1> QED
  BY <1>2, <1>3

(* No handler turns a clock back, none starts a task, and an online CPU is *)
(* marked offline by none.                                                 *)
LEMMA EventGoesOn ==
    ASSUME Basic, NEW c \in Cpu, NEW e \in DOMAIN events, HandleEvent(e)
    PROVE  GoesOn(c)
<1>1. e \in Event
  BY DEF Basic, NewEvents, IsBagOf
<1>2. e.cpu \in Cpu /\ e.time \in Nat
  BY <1>1 DEF Event
<1> DEFINE now == Now(e.cpu, e.time)
<1>3. now \in Nat /\ now >= cpus[e.cpu].clock /\ cpus[c].clock \in Nat
  BY <1>2, NowTypes DEF Basic, CpuRec
<1>4. CASE cpus' = Advance(e.cpu, e.time)
  <2>1. cpus'[c].clock = cpus[c].clock \/ cpus'[c].clock = Now(c, e.time)
    BY <1>2, <1>4, AdvanceTypes
  <2> QED
    BY <1>2, <1>4, <2>1, AdvanceTypes, SameGoesOn
<1>5. CASE cpus' = Stop(e.cpu, now)
  BY <1>2, <1>3, <1>5, StopGoesOn
<1>6. CASE CpuReturns(e)
  <2> DEFINE A == Advance(e.cpu, e.time)
  <2>1. cpus' = [A EXCEPT ![e.cpu].online = TRUE]
    BY <1>6 DEF CpuReturns
  <2>2. A \in [Cpu -> CpuRec] /\ A[c].clock >= cpus[c].clock
        /\ A[c].startedAt = cpus[c].startedAt /\ A[c].current = cpus[c].current
        /\ A[c].online = cpus[c].online
    BY <1>2, AdvanceTypes
  <2> HIDE DEF A
  <2>3. A[c] \in CpuRec
    BY <2>2
  <2>4. /\ cpus'[c].clock = A[c].clock /\ cpus'[c].startedAt = A[c].startedAt
        /\ cpus'[c].current = A[c].current /\ (c # e.cpu => cpus'[c].online = A[c].online)
    BY <2>1, <2>2, <2>3, <1>2 DEF CpuRec
  <2> QED
    BY <1>6, <2>2, <2>4 DEF GoesOn
<1> HIDE DEF now
<1>7. CASE WakeIgnored(e) \/ EndIgnored(e) \/ TickOffline(e) \/ AlreadyThere(e)
  BY <1>4, <1>7 DEF WakeIgnored, EndIgnored, TickOffline, AlreadyThere, Ignore
<1>8. CASE TaskWake(e) \/ KickDispatch(e) \/ Tick(e)
  BY <1>4, <1>8, ZenonT(30) DEF TaskWake, WakeSleeper, KickDispatch, Tick
<1>9. CASE SliceExpired(e) \/ KickPreempt(e)
  BY <1>5, <1>9, ZenonT(30) DEF SliceExpired, KickPreempt, PreemptCurrent, StopAndReenqueue, now
<1>10. CASE CpuLeaves(e)
  BY <1>4, <1>5, <1>10, ZenonT(30) DEF CpuLeaves, PreemptCurrent, StopAndReenqueue, now
<1>11. CASE PhaseComplete(e)
  BY <1>5, <1>11, Zenon DEF PhaseComplete, Completes, now
<1> QED
  BY <1>6, <1>7, <1>8, <1>9, <1>10, <1>11 DEF HandleEvent

(* A dispatch turns no clock back and starts a task on an online CPU only. *)
LEMMA DispatchGoesOn ==
    ASSUME Basic, NEW c \in Cpu, NEW k \in Cpu, DispatchAndRun(k)
    PROVE  GoesOn(c)
<1>1. clock \in Nat /\ cpus[c] \in CpuRec /\ cpus \in [Cpu -> CpuRec]
  BY DEF Basic
<1>2. Now(c, clock) \in Nat
  BY <1>1, NowTypes
<1>3. CASE DispatchLocal(k) \/ DispatchNothing(k)
  <2>1. cpus' = Advance(k, clock)
    BY <1>3 DEF DispatchLocal, DispatchNothing
  <2>2. cpus'[c].clock = cpus[c].clock \/ cpus'[c].clock = Now(c, clock)
    BY <1>1, <2>1, NowTypes
  <2> QED
    BY SMTT(30), <1>1, <2>1, <2>2, AdvanceTypes, SameGoesOn
<1>4. CASE DispatchMove(k)
  BY <1>1, <1>4, Moved, SameGoesOn
<1>5. CASE DispatchHeld(k)
  <2> DEFINE A == Advance(k, clock)
  <2>1. PICK t \in Task, d \in DsqId : Deliver(A, t, d, k)
    BY <1>5, Offered
  <2>2. A \in [Cpu -> CpuRec] /\ (A[c].clock = cpus[c].clock \/ A[c].clock = Now(c, clock))
        /\ A[c].startedAt = cpus[c].startedAt /\ A[c].current = cpus[c].current
        /\ A[c].online = cpus[c].online
    BY <1>1, AdvanceTypes
  <2> HIDE DEF A
  <2>3. /\ cpus' \in [Cpu -> CpuRec] /\ cpus'[c].clock = A[c].clock
        /\ cpus'[c].startedAt = A[c].startedAt /\ cpus'[c].current = A[c].current
        /\ cpus'[c].online = A[c].online
    BY <2>1, <2>2, Delivered
  <2> QED
    BY <1>1, <2>2, <2>3, SameGoesOn
<1>6. ASSUME NEW pick \in Picks(k), SkipExited(k, pick)
      PROVE  GoesOn(c)
  <2>1. cpus' = [cpus EXCEPT ![k].local = pick.local] /\ pick.local \in Seq(Task)
    BY <1>6, PickTypes DEF SkipExited
  <2>2. cpus' \in [Cpu -> CpuRec]
    BY <1>1, <2>1 DEF CpuRec
  <2>3. /\ cpus'[c].clock = cpus[c].clock /\ cpus'[c].startedAt = cpus[c].startedAt
        /\ cpus'[c].current = cpus[c].current /\ cpus'[c].online = cpus[c].online
    BY <1>1, <2>1 DEF CpuRec
  <2> QED
    BY <2>2, <2>3, SameGoesOn
<1>7. ASSUME NEW pick \in Picks(k), RunFor(k, pick, tasks[pick.task].slice)
      PROVE  GoesOn(c)
  <2>1. /\ cpus[k].online /\ \A d \in Cpu : d # k => cpus'[d] = cpus[d]
        /\ cpus'[k].clock = cpus[k].clock /\ cpus'[k].startedAt = cpus[k].clock
        /\ cpus'[k].online = cpus[k].online
    BY <1>7, Started, StartedCpu, SliceTypes
  <2>2. cpus[c].clock \in Nat
    BY <1>1 DEF CpuRec
  <2> QED
    BY <2>1, <2>2 DEF GoesOn
<1>8. CASE GoIdle(k)
  BY <1>1, <1>8, SameGoesOn DEF GoIdle
<1> QED
  BY <1>3, <1>4, <1>5, <1>6, <1>7, <1>8 DEF DispatchAndRun, StartRunning

(* The same of every step. *)
LEMMA StepGoesOn ==
    ASSUME Basic, [Next]_vars, NEW c \in Cpu
    PROVE  GoesOn(c)
<1>1. cpus \in [Cpu -> CpuRec]
  BY DEF Basic
<1>2. CASE cpus' = cpus
  BY <1>1, <1>2, SameGoesOn
<1>3. ASSUME NEW t \in Task, NEW d \in DsqId, NEW k \in Cpu, Deliver(cpus, t, d, k)
      PROVE  GoesOn(c)
  BY <1>1, <1>3, Delivered, SameGoesOn, ZenonT(30)
<1>4. CASE SelectCpu
  BY <1>2, <1>3, <1>4, Selected
<1>5. CASE EnqueueInsert
  BY <1>3, <1>5, Enqueued
<1>6. CASE OpsTick
  <2> DEFINE k == Head(calls).cpu
  <2>1. k \in Cpu /\ cpus[k].clock \in Nat
    BY <1>6, Ticked
  <2>2. cpus' = cpus \/ cpus' = Stop(k, cpus[k].clock)
    BY <1>6, Ticked, Zenon DEF StopAndReenqueue
  <2> QED
    BY <1>2, <2>1, <2>2, StopGoesOn
<1>7. CASE DrainLocal
  <2>1. Calling("drainLocal") /\ cpus' = [cpus EXCEPT ![Head(calls).cpu].local = <<>>]
    BY <1>7, Zenon DEF DrainLocal
  <2>2. cpus' \in [Cpu -> CpuRec]
    BY <1>1, <2>1, EmptySeq DEF CpuRec
  <2>3. /\ cpus'[c].clock = cpus[c].clock /\ cpus'[c].startedAt = cpus[c].startedAt
        /\ cpus'[c].current = cpus[c].current /\ cpus'[c].online = cpus[c].online
    BY <1>1, <2>1 DEF CpuRec
  <2> QED
    BY <2>2, <2>3, SameGoesOn
<1>8. CASE TakeDown
  <2>1. cpus' = [cpus EXCEPT ![Head(calls).cpu].online = FALSE]
    BY <1>8 DEF TakeDown
  <2>2. cpus' \in [Cpu -> CpuRec]
    BY <1>1, <2>1 DEF CpuRec
  <2>4. GoesOn(c)
    <3>1. cpus'[c].clock = cpus[c].clock /\ cpus'[c].startedAt = cpus[c].startedAt
          /\ cpus'[c].current = cpus[c].current
      BY <1>1, <2>1 DEF CpuRec
    <3>2. cpus'[c].online => cpus[c].online
      BY <1>1, <2>1
    <3> QED
      BY <2>2, <3>1, <3>2, SameGoesOn
  <2> QED
    BY <2>4
<1>9. CASE UNCHANGED vars \/ EnqueueHold \/ DispatchRefused
  BY <1>2, <1>9 DEF vars, EnqueueHold, DispatchRefused
<1> QED
  BY <1>4, <1>5, <1>6, <1>7, <1>8, <1>9, EventGoesOn, DispatchGoesOn DEF Next

-----------------------------------------------------------------------------
(* What becomes of an event. *)

(* The event a step pops is the only one that can leave the queue.         *)
PopsOnly(e) ==
    /\ \E pushed : NewEvents(pushed) /\ Pop(e, pushed)
    /\ DOMAIN events \ {e} \subseteq DOMAIN events'

(* An event on whose handling the chain of ticks of CPU c goes on.         *)
Ticks(c) == \E f \in DOMAIN events' : f.kind = "Tick" /\ f.cpu = c

(* An event that is not popped stays in the queue. *)
LEMMA PopsEvent ==
    ASSUME Basic, NEW e \in DOMAIN events, NEW pushed, NewEvents(pushed), Pop(e, pushed)
    PROVE  PopsOnly(e)
BY Popped DEF PopsOnly

(* A tick a handler pushes is in the queue. *)
LEMMA TickPushed ==
    ASSUME Basic, NEW e \in DOMAIN events, Tick(e) \/ CpuReturns(e)
    PROVE  PopsOnly(e) /\ Ticks(e.cpu)
<1> DEFINE tick == EventAt(Now(e.cpu, e.time) + TickInterval, "Tick", e.cpu)
<1>1. e.cpu \in Cpu /\ e.time \in Nat
  BY DEF Basic, NewEvents, IsBagOf, Event
<1>2. Pop(e, SetToBag({tick}))
  BY DEF Tick, CpuReturns, Take
<1>3. NewEvents(SetToBag({tick})) /\ DOMAIN SetToBag({tick}) = {tick}
  BY <1>1, TickTypes
<1>4. tick.kind = "Tick" /\ tick.cpu = e.cpu
  <2>1. Now(e.cpu, e.time) + TickInterval \in Nat
    BY SMTT(30), <1>1, NowTypes, EngineAssumption
  <2> QED
    BY <1>1, <2>1, EventTypes DEF EventKind
<1> HIDE DEF tick
<1>5. tick \in DOMAIN events'
  BY <1>2, <1>3, Popped
<1> QED
  BY <1>2, <1>3, <1>4, <1>5, PopsEvent DEF Ticks

(* Of the events that are ticks of an online CPU, a handler takes none     *)
(* without pushing the next.                                               *)
LEMMA EventPops ==
    ASSUME Basic, NEW e \in DOMAIN events, HandleEvent(e)
    PROVE  /\ PopsOnly(e)
           /\ e.kind = "Tick" => ~cpus[e.cpu].online \/ Ticks(e.cpu)
           /\ CpuReturns(e) => Ticks(e.cpu)
<1>1. Pop(e, EmptyBag) => PopsOnly(e)
  BY NewNothing, PopsEvent
<1>2. CASE WakeIgnored(e) \/ EndIgnored(e) \/ TickOffline(e) \/ AlreadyThere(e)
  <2>1. Pop(e, EmptyBag) /\ (e.kind = "Tick" => ~cpus[e.cpu].online)
    BY <1>2 DEF WakeIgnored, EndIgnored, TickOffline, AlreadyThere, Ignore, Take
  <2> QED
    BY <1>1, <2>1, TickPushed
<1>3. CASE SliceExpired(e) \/ KickPreempt(e) \/ KickDispatch(e) \/ CpuLeaves(e)
  <2>1. Pop(e, EmptyBag) /\ e.kind # "Tick"
    BY <1>3 DEF SliceExpired, KickPreempt, KickDispatch, CpuLeaves, Take
  <2> QED
    BY <1>1, <2>1, TickPushed
<1>4. CASE Tick(e) \/ CpuReturns(e)
  BY <1>4, TickPushed
<1>5. CASE TaskWake(e)
  <2>1. e.kind = "TaskWake" /\ \E pushed : NewEvents(pushed) /\ Pop(e, pushed)
    BY <1>5, WokenUp DEF WokenAs
  <2> QED
    BY <2>1, PopsEvent, TickPushed
<1>6. CASE PhaseComplete(e)
  <2>1. e.kind = "PhaseComplete" /\ \E pushed : NewEvents(pushed) /\ Pop(e, pushed)
    BY <1>6, Completed
  <2> QED
    BY <2>1, PopsEvent, TickPushed
<1> QED
  BY <1>2, <1>3, <1>4, <1>5, <1>6 DEF HandleEvent

(* A callback adds kicks to the event queue, and takes nothing from it.    *)
LEMMA CallPops ==
    ASSUME Basic, Next, \A e \in DOMAIN events : ~HandleEvent(e)
    PROVE  DOMAIN events \subseteq DOMAIN events'
<1>2. CASE SelectCpu \/ DispatchRefused \/ DrainLocal \/ TakeDown
  BY <1>2, Zenon DEF SelectCpu, DispatchRefused, DrainLocal, TakeDown
<1>3. CASE EnqueueInsert
  BY <1>3, Enqueued, AfterEnqueued
<1>4. CASE EnqueueHold
  BY <1>4, Kept, AfterEnqueued
<1>5. CASE OpsTick
  BY <1>5, Ticked
<1>6. ASSUME NEW c \in Cpu, DispatchAndRun(c)
      PROVE  DOMAIN events \subseteq DOMAIN events'
  <2>1. CASE DispatchLocal(c) \/ GoIdle(c)
    BY <2>1 DEF DispatchLocal, GoIdle
  <2>2. CASE DispatchNothing(c) \/ DispatchMove(c)
    <3>1. Flush(EmptyBag)
      BY <2>2 DEF DispatchNothing, DispatchMove
    <3> QED
      BY <3>1, KickNone, Flushed
  <2>3. CASE DispatchHeld(c)
    BY <2>3, Offered, Flushed
  <2>4. CASE StartRunning(c)
    <3>1. PICK pick \in Picks(c) : SkipExited(c, pick) \/ RunFor(c, pick, tasks[pick.task].slice)
      BY <2>4 DEF StartRunning
    <3>2. CASE SkipExited(c, pick)
      BY <3>2 DEF SkipExited
    <3>3. CASE RunFor(c, pick, tasks[pick.task].slice)
      BY <3>3, StartedEvent, SliceTypes
    <3> QED
      BY <3>1, <3>2, <3>3
  <2> QED
    BY <1>6, <2>1, <2>2, <2>3, <2>4 DEF DispatchAndRun
<1> QED
  BY <1>2, <1>3, <1>4, <1>5, <1>6 DEF Next

-----------------------------------------------------------------------------
(* Ticks, starts and time. *)

(* Every step keeps the chain of ticks of every online CPU. *)
LEMMA TicksStep ==
    ASSUME Basic, TicksAlive, [Next]_vars
    PROVE  TicksAlive'
<1> SUFFICES ASSUME NEW c \in Cpu, cpus'[c].online
             PROVE  Ticks(c)
  BY DEF TicksAlive, Ticks
<1>1. cpus[c].online \/ \E e \in DOMAIN events : e.cpu = c /\ CpuReturns(e)
  BY StepGoesOn DEF GoesOn
<1>2. CASE \E e \in DOMAIN events : e.cpu = c /\ CpuReturns(e)
  BY <1>2, TickPushed
<1>3. CASE cpus[c].online
  <2>1. PICK f \in DOMAIN events : f.kind = "Tick" /\ f.cpu = c
    BY <1>3 DEF TicksAlive
  <2>2. CASE UNCHANGED vars
    BY <2>1, <2>2 DEF vars, Ticks
  <2>3. ASSUME NEW e \in DOMAIN events, HandleEvent(e)
        PROVE  Ticks(c)
    <3>1. CASE f = e
      BY <1>3, <2>1, <2>3, <3>1, EventPops
    <3>2. CASE f # e
      BY <2>1, <2>3, <3>2, EventPops DEF PopsOnly, Ticks
    <3> QED
      BY <3>1, <3>2
  <2>4. CASE Next /\ \A e \in DOMAIN events : ~HandleEvent(e)
    BY <2>1, <2>4, CallPops DEF Ticks
  <2> QED
    BY <2>2, <2>3, <2>4
<1> QED
  BY <1>1, <1>2, <1>3

(* The chain of ticks of an online CPU never breaks: handle_tick, and the  *)
(* handlers that bring a CPU back, schedule the next tick, and the one     *)
(* handler that ends a chain runs on an offline CPU only.                  *)
THEOREM TicksGoOn == Spec => []TicksAlive
<1>1. Init => TicksAlive
  <2> SUFFICES ASSUME Init, NEW c \in Cpu
               PROVE  \E e \in DOMAIN events : e.kind = "Tick" /\ e.cpu = c
    BY DEF TicksAlive
  <2>1. EventAt(TickInterval, "Tick", c) \in DOMAIN events
    BY BasicInit
  <2>2. TickInterval \in Nat /\ "Tick" \in EventKind
    BY EngineAssumption DEF EventKind
  <2> QED
    BY <2>1, <2>2, EventTypes
<1>2. Basic /\ TicksAlive /\ [Next]_vars => TicksAlive'
  BY TicksStep
<1> QED
  BY <1>1, <1>2, AlwaysBasic, PTL DEF Spec

(* No task is started on an offline CPU, although a kick, a wake or an     *)
(* enqueue may dispatch on it and its local queue may hold tasks.          *)
THEOREM OfflineIsIdle == Spec => OfflineStartsNothing
<1>1. Basic /\ [Next]_vars =>
        [\A c \in Cpu : ~cpus[c].online => cpus'[c].current \in {NoTask, cpus[c].current}]_vars
  BY StepGoesOn DEF GoesOn
<1> QED
  BY <1>1, AlwaysBasic, PTL DEF Spec, OfflineStartsNothing

(* A run on a CPU begins no later than its clock. *)
RunsBegun == \A c \in Cpu : cpus[c].startedAt <= cpus[c].clock

(* Every step keeps runs from beginning in the future. *)
LEMMA RunsBegunStep ==
    ASSUME Basic, RunsBegun, [Next]_vars, NEW c \in Cpu
    PROVE  cpus'[c].clock >= cpus[c].clock /\ cpus'[c].startedAt <= cpus'[c].clock
<1>1. cpus[c].clock \in Nat /\ cpus[c].startedAt \in Nat
  BY DEF Basic, CpuRec
<1>2. cpus'[c].clock \in Nat /\ cpus'[c].startedAt \in Nat
  BY BasicStep DEF Basic, CpuRec
<1>3. GoesOn(c) /\ cpus[c].startedAt <= cpus[c].clock
  BY StepGoesOn DEF RunsBegun
<1> QED
  BY <1>1, <1>2, <1>3 DEF GoesOn

(* At the start nothing runs. *)
LEMMA RunsBegunInit ==
    ASSUME Init
    PROVE  RunsBegun
BY DEF Init, RunsBegun

(* A CPU's clock never goes back and no run begins after it, whatever the  *)
(* order in which late kicks and old end events are popped.                *)
THEOREM ClocksGoOn == Spec => TimeForward
<1>1. Init => RunsBegun
  BY RunsBegunInit
<1>2. Basic /\ RunsBegun /\ [Next]_vars => RunsBegun'
  BY RunsBegunStep DEF RunsBegun
<1>3. Basic /\ RunsBegun /\ [Next]_vars =>
        [\A c \in Cpu : cpus'[c].clock >= cpus[c].clock /\ cpus'[c].startedAt <= cpus'[c].clock]_vars
  BY RunsBegunStep
<1> QED
  BY <1>1, <1>2, <1>3, AlwaysBasic, PTL DEF Spec, TimeForward

-----------------------------------------------------------------------------
(* A task that goes back to the scheduler in this engine's handlers is     *)
(* followed by a dispatch: only a migration enqueues and does no more.     *)

Linked(todo) == Len(todo) = 1 => todo[1].op # "requeue"

(* What is left after a call is linked. *)
LEMMA LinkedTail ==
    ASSUME NEW todo, NEW cs, Shaped(todo, cs), todo # <<>>
    PROVE  Linked(Tail(todo))
<1> SUFFICES ASSUME Len(Tail(todo)) = 1, Tail(todo)[1].op = "requeue"
             PROVE  FALSE
  BY DEF Linked
<1>1. \A i \in 1 .. Len(Tail(todo)) : Tail(todo)[i].op = "requeue" => i < Len(Tail(todo))
  BY ShapedTail
<1> DEFINE r == Tail(todo)
<1> HIDE DEF r
<1>2. Len(r) = 1 /\ r[1].op = "requeue" /\ \A i \in 1 .. Len(r) : r[i].op = "requeue" => i < Len(r)
  BY <1>1 DEF r
<1> QED
  BY <1>2

(* So is a list that begins with another call. *)
LEMMA LinkedOther ==
    ASSUME NEW todo, todo = <<>> \/ todo[1].op # "requeue"
    PROVE  Linked(todo)
BY DEF Linked

(* Every handler of an event begins with a linked list. *)
LEMMA EventLinked ==
    ASSUME Basic, NEW e \in DOMAIN events, HandleEvent(e)
    PROVE  Linked(calls')
<1>1. e.cpu \in Cpu
  BY DEF Basic, NewEvents, IsBagOf, Event
<1>2. ASSUME NEW c \in Cpu, NEW t \in Task
      PROVE  /\ Linked(<<Call("requeue", c, t), Dispatch(c)>>)
             /\ \A op \in {"drainLocal", "takeDown"} :
                   Linked(<<Call("requeue", c, t), Dispatch(c)>> \o <<Call(op, c, NoTask)>>)
  <2>1. Linked(<<Call("requeue", c, t), Dispatch(c)>>)
    BY DEF Linked
  <2>2. ASSUME NEW op \in {"drainLocal", "takeDown"}
        PROVE  Linked(<<Call("requeue", c, t), Dispatch(c)>> \o <<Call(op, c, NoTask)>>)
    <3>1. Len(<<Call("requeue", c, t), Dispatch(c)>> \o <<Call(op, c, NoTask)>>) = 3
      BY ShapedRequeue
    <3> QED
      BY <3>1 DEF Linked
  <2> QED
    BY <2>1, <2>2
<1>3. Linked(<<>>) /\ Linked(<<Dispatch(e.cpu)>>)
      /\ \A op \in {"selectCpu", "tick", "drainLocal", "takeDown"} : \A t : Linked(<<Call(op, e.cpu, t)>>)
  BY DEF Linked, Dispatch, Call
<1>4. CASE WakeIgnored(e) \/ EndIgnored(e) \/ TickOffline(e) \/ AlreadyThere(e)
  <2>1. calls' = <<>>
    BY <1>4 DEF WakeIgnored, EndIgnored, TickOffline, AlreadyThere, Ignore, Take, Pop
  <2> QED
    BY <1>3, <2>1
<1>5. CASE TaskWake(e)
  <2>1. calls' \in {<<>>, <<Call("selectCpu", e.cpu, e.task)>>}
    BY <1>5, WokenUp DEF WokenAs
  <2> QED
    BY <1>3, <2>1
<1>6. CASE Tick(e) \/ KickDispatch(e) \/ CpuReturns(e)
  <2>1. calls' \in {<<>>, <<Dispatch(e.cpu)>>, <<Call("tick", e.cpu, cpus[e.cpu].current)>>}
    BY <1>6 DEF Tick, KickDispatch, CpuReturns
  <2> QED
    BY <1>3, <2>1
<1>7. CASE SliceExpired(e) \/ KickPreempt(e)
  <2>1. calls' = Reenqueue(e.cpu) /\ cpus[e.cpu].current # NoTask
    BY <1>7, Zenon DEF SliceExpired, KickPreempt
  <2> QED
    BY <1>1, <1>2, <2>1, OnTask DEF Reenqueue
<1>8. CASE CpuLeaves(e)
  <2>1. PICK op \in {"drainLocal", "takeDown"} : Leaving(e) = <<Call(op, e.cpu, NoTask)>>
    BY DEF Leaving
  <2>2. CASE cpus[e.cpu].current = NoTask
    BY <1>3, <1>8, <2>1, <2>2 DEF CpuLeaves
  <2>3. CASE cpus[e.cpu].current # NoTask
    BY <1>1, <1>2, <1>8, <2>1, <2>3, OnTask DEF CpuLeaves, Reenqueue
  <2> QED
    BY <2>2, <2>3
<1>9. CASE PhaseComplete(e)
  <2>1. cpus[e.cpu].current \in Task
    BY <1>9, Completed
  <2>2. calls' \in {Reenqueue(e.cpu), <<Dispatch(e.cpu)>>}
    BY <1>9, Completed
  <2> QED
    BY <1>1, <1>2, <1>3, <2>1, <2>2 DEF Reenqueue
<1> QED
  BY <1>4, <1>5, <1>6, <1>7, <1>8, <1>9 DEF HandleEvent

(* So does every call go on with one. *)
LEMMA CallLinked ==
    ASSUME Basic, \/ SelectCpu \/ EnqueueInsert \/ EnqueueHold \/ OpsTick \/ DispatchRefused
                  \/ DrainLocal \/ TakeDown \/ \E c \in Cpu : DispatchAndRun(c)
    PROVE  Linked(calls')
<1>1. ASSUME NEW op, Calling(op), calls' = Tail(calls)
      PROVE  Linked(calls')
  BY <1>1, LinkedTail DEF Basic, Calling
<1>2. ASSUME NEW op, Calling(op), NEW x \in CallRec, x.task = NoTask,
             x.op \in {"dispatch", "pick"}, calls' = <<x>> \o Tail(calls)
      PROVE  Linked(calls')
  <2>1. (<<x>> \o Tail(calls))[1] = x
    <3> DEFINE ds == [c \in Cpu |-> [current |-> NoTask, online |-> TRUE]]
    <3>1. ds[x.cpu].current = NoTask /\ ds[x.cpu].online
      BY DEF CallRec
    <3> HIDE DEF ds
    <3> QED
      BY <1>2, <3>1, ShapedThen DEF Basic, Calling
  <2> DEFINE s == <<x>> \o Tail(calls)
  <2>2. s[1].op # "requeue" /\ calls' = s
    BY <1>2, <2>1
  <2> HIDE DEF s
  <2>3. Linked(s)
    BY <2>2 DEF Linked
  <2> QED
    BY <2>2, <2>3
<1>3. CASE SelectCpu
  <2>1. \E c : calls' \in {<<Dispatch(c)>>, <<Call("enqueue", c, Head(calls).task)>>}
    BY <1>3, Selected, Zenon
  <2> QED
    BY <2>1 DEF Linked, Dispatch, Call
<1>4. CASE EnqueueInsert \/ EnqueueHold
  <2>1. PICK kicks : AfterEnqueue(kicks)
    BY <1>4 DEF EnqueueInsert, EnqueueHold
  <2>2. Calling("enqueue") \/ Calling("requeue") \/ Calling("drain")
    BY <1>4 DEF EnqueueInsert, EnqueueHold
  <2>3. CASE Calling("enqueue")
    <3>1. IsDispatchOf(calls', IdleCpus) /\ IdleCpus \in SUBSET Cpu
      BY <2>1, <2>3 DEF AfterEnqueue, IdleCpus
    <3>2. \A i \in 1 .. Len(calls') : calls'[i].op = "dispatch"
      BY <3>1, ShapedDispatches
    <3> QED
      BY <3>2 DEF Linked
  <2>4. CASE ~Calling("enqueue")
    BY <1>1, <2>1, <2>2, <2>4 DEF AfterEnqueue
  <2> QED
    BY <2>3, <2>4
<1>5. CASE OpsTick
  <2>1. /\ Head(calls).cpu \in Cpu /\ cpus[Head(calls).cpu].current \in Task
        /\ calls' \in {<<>>, Reenqueue(Head(calls).cpu)}
    BY <1>5, Ticked
  <2>2. Len(<<>>) # 1 /\ \A x, y : Len(<<x, y>>) # 1
    OBVIOUS
  <2> QED
    BY <2>1, <2>2, Zenon DEF Linked, Reenqueue
<1>6. CASE DispatchRefused \/ TakeDown
  BY <1>1, <1>6 DEF DispatchRefused, TakeDown
<1>7. CASE DrainLocal
  <2> DEFINE c == Head(calls).cpu
             queue == cpus[c].local
             s == [i \in DOMAIN queue |-> Call("drain", c, queue[i])] \o <<Call("takeDown", c, NoTask)>>
  <2>1. Calling("drainLocal") /\ calls' = s
    BY <1>7 DEF DrainLocal
  <2>2. c \in Cpu
    BY <2>1, Called
  <2>3. queue \in Seq(Task)
    BY <2>2 DEF Basic, CpuRec
  <2>4. /\ Len(s) = Len(queue) + 1 /\ s[Len(queue) + 1] = Call("takeDown", c, NoTask)
        /\ Len(queue) \in Nat
    <3> HIDE DEF c, queue
    <3> QED
      BY <2>2, <2>3, ShapedDrain
  <2> HIDE DEF s, queue
  <2>5. Len(s) = 1 => s[1] = Call("takeDown", c, NoTask)
    BY <2>4
  <2> QED
    BY <2>1, <2>5 DEF Linked, Call
<1>8. ASSUME NEW c \in Cpu, DispatchAndRun(c)
      PROVE  Linked(calls')
  <2>1. CASE GoIdle(c)
    BY <1>1, <2>1 DEF GoIdle
  <2>2. CASE DispatchLocal(c) \/ DispatchNothing(c) \/ DispatchMove(c) \/ DispatchHeld(c)
    <3>1. Calling("dispatch") /\ calls' = <<Call("pick", c, NoTask)>> \o Tail(calls)
      BY <2>2 DEF DispatchLocal, DispatchNothing, DispatchMove, DispatchHeld, Dispatching
    <3>2. /\ Call("pick", c, NoTask) \in CallRec /\ Call("pick", c, NoTask).task = NoTask
          /\ Call("pick", c, NoTask).op = "pick"
      BY CallTypes DEF CallOp
    <3> QED
      BY <1>2, <3>1, <3>2
  <2>3. CASE StartRunning(c)
    <3>1. PICK pick \in Picks(c) : SkipExited(c, pick) \/ RunFor(c, pick, tasks[pick.task].slice)
      BY <2>3 DEF StartRunning
    <3>2. CASE SkipExited(c, pick)
      <4>1. Calling("pick") /\ calls' = <<Dispatch(c)>> \o Tail(calls)
        BY <3>2 DEF SkipExited, Picked
      <4> QED
        BY <1>2, <4>1, DispatchTypes
    <3>3. CASE RunFor(c, pick, tasks[pick.task].slice)
      BY <1>1, <3>3 DEF RunFor, Picked
    <3> QED
      BY <3>1, <3>2, <3>3
  <2> QED
    BY <1>8, <2>1, <2>2, <2>3 DEF DispatchAndRun
<1> QED
  BY <1>3, <1>4, <1>5, <1>6, <1>7, <1>8

(* What a handler has to do is always linked. *)
LEMMA LinkedStep ==
    ASSUME Basic, Linked(calls), [Next]_vars
    PROVE  Linked(calls')
<1>1. CASE UNCHANGED vars
  BY <1>1 DEF vars
<1> QED
  BY <1>1, EventLinked, CallLinked DEF Next

-----------------------------------------------------------------------------
(* The tasks that wait on the local queue of an idle CPU. *)

(* A task waits on the local DSQ of CPU c, which is idle.                  *)
Waits(c) == cpus[c].online /\ cpus[c].current = NoTask /\ cpus[c].local # <<>>

(* A kick of CPU c is on its way.                                          *)
Kicked(c) == \E e \in DOMAIN events \cup DOMAIN staged : e.kind = "Kick" /\ e.cpu = c

(* The handler has still to try a dispatch on CPU c, or to take it down.   *)
Listed(todo, c) ==
    \E i \in 1 .. Len(todo) :
        todo[i].cpu = c /\ todo[i].op \in {"dispatch", "pick", "drainLocal", "takeDown"}

(* Whoever waits will be dispatched to: by a kick or by this handler.      *)
Attended == \A c \in Cpu : Waits(c) => Kicked(c) \/ Listed(calls, c)

(* A call that is not for CPU c leaves the others where they are.          *)
LEMMA ListedTail ==
    ASSUME Basic, NEW c \in Cpu, calls # <<>>, Listed(calls, c),
           Head(calls).cpu # c \/ Head(calls).op \in Carries \cup {"tick"}
    PROVE  Listed(Tail(calls), c)
<1>1. /\ Shaped(calls, cpus) /\ calls \in Seq(CallRec)
      /\ \A i \in 1 .. Len(Tail(calls)) : Tail(calls)[i] = calls[i + 1]
      /\ Head(calls) = calls[1] /\ Len(calls) = Len(Tail(calls)) + 1 /\ Len(Tail(calls)) \in Nat
  BY ShapedTail DEF Basic, Shaped
<1>2. PICK i \in 1 .. Len(calls) :
        calls[i].cpu = c /\ calls[i].op \in {"dispatch", "pick", "drainLocal", "takeDown"}
  BY DEF Listed
<1>3. i # 1
  BY <1>1, <1>2 DEF Carries
<1>4. i - 1 \in 1 .. Len(Tail(calls)) /\ Tail(calls)[i - 1] = calls[i]
  <2>1. i - 1 \in 1 .. Len(Tail(calls)) /\ (i - 1) + 1 = i
    BY <1>1, <1>3
  <2> QED
    BY <2>1, <1>1
<1> QED
  BY <1>2, <1>4 DEF Listed

(* A dispatch listed in the handler stays so when its first call is        *)
(* replaced.                                                               *)
LEMMA ListedThen ==
    ASSUME Basic, NEW c \in Cpu, calls # <<>>,
           NEW x \in CallRec, x.task = NoTask, x.op = "dispatch",
           x.cpu = c \/ Listed(Tail(calls), c)
    PROVE  Listed(<<x>> \o Tail(calls), c)
<1> DEFINE r == Tail(calls)
           s == <<x>> \o r
<1>1. /\ Len(s) = Len(r) + 1 /\ s[1] = x /\ Len(r) \in Nat
      /\ \A i \in 1 .. Len(r) : s[i + 1] = r[i]
  BY ShapedThen, ShapedTail DEF Basic
<1> HIDE DEF s, r
<1>2. CASE x.cpu = c
  BY <1>1, <1>2 DEF Listed, s, r
<1>3. CASE Listed(r, c)
  <2>1. PICK i \in 1 .. Len(r) : r[i].cpu = c /\ r[i].op \in {"dispatch", "pick", "drainLocal", "takeDown"}
    BY <1>3 DEF Listed
  <2>2. i + 1 \in 1 .. Len(s) /\ s[i + 1] = r[i]
    BY <1>1
  <2> QED
    BY <2>1, <2>2 DEF Listed, s, r
<1> QED
  BY <1>2, <1>3 DEF r

(* The lists a handler begins with. *)
LEMMA ListedOne ==
    ASSUME NEW x \in CallRec, x.op \in {"dispatch", "pick", "drainLocal", "takeDown"}
    PROVE  Listed(<<x>>, x.cpu)
BY DEF Listed

(* The dispatch that follows a requeue is listed. *)
LEMMA ListedRequeue ==
    ASSUME NEW c \in Cpu, NEW t \in Task
    PROVE  /\ Listed(<<Call("requeue", c, t), Dispatch(c)>>, c)
           /\ \A op \in {"drainLocal", "takeDown"} :
                Listed(<<Call("requeue", c, t), Dispatch(c)>> \o <<Call(op, c, NoTask)>>, c)
<1>1. Dispatch(c).op = "dispatch" /\ Dispatch(c).cpu = c
  BY DispatchTypes
<1>2. Listed(<<Call("requeue", c, t), Dispatch(c)>>, c)
  <2> DEFINE s == <<Call("requeue", c, t), Dispatch(c)>>
  <2>1. Len(s) = 2 /\ s[2] = Dispatch(c)
    OBVIOUS
  <2> QED
    BY <2>1, <1>1 DEF Listed
<1>3. ASSUME NEW op \in {"drainLocal", "takeDown"}
      PROVE  Listed(<<Call("requeue", c, t), Dispatch(c)>> \o <<Call(op, c, NoTask)>>, c)
  <2> DEFINE s == <<Call("requeue", c, t), Dispatch(c)>> \o <<Call(op, c, NoTask)>>
  <2>1. Len(s) = 3 /\ s[2] = Dispatch(c)
    BY ShapedRequeue
  <2> HIDE DEF s
  <2>2. Listed(s, c)
    BY <2>1, <1>1 DEF Listed
  <2> QED
    BY <2>2 DEF s
<1> QED
  BY <1>2, <1>3

(* A CPU with a waiting task is attended before an event is handled: by a  *)
(* kick.                                                                   *)
LEMMA EventAttended ==
    ASSUME Basic, Attended, NEW e \in DOMAIN events, PopsOnly(e),
           DOMAIN staged \subseteq DOMAIN events' \cup DOMAIN staged',
           \A c \in Cpu : Waits(c)' => \/ Listed(calls', c)
                                       \/ Waits(c) /\ (e.kind = "Kick" => e.cpu # c)
    PROVE  Attended'
<1>1. calls = <<>>
  BY Popped DEF PopsOnly
<1> SUFFICES ASSUME NEW c \in Cpu, Waits(c)', ~Listed(calls', c)
             PROVE  Kicked(c)'
  BY DEF Attended
<1>2. Waits(c) /\ ~Listed(calls, c)
  BY <1>1 DEF Listed
<1>3. PICK f \in DOMAIN events \cup DOMAIN staged : f.kind = "Kick" /\ f.cpu = c
  BY <1>2 DEF Attended, Kicked
<1>4. f # e
  BY <1>3
<1>5. f \in DOMAIN events' \cup DOMAIN staged'
  BY <1>3, <1>4 DEF PopsOnly
<1> QED
  BY <1>3, <1>5 DEF Kicked

(* Time passes on a CPU, the task on it is stopped, or it comes back.      *)
LEMMA WaitsAfter ==
    ASSUME Basic, NEW c \in Cpu, NEW k \in Cpu, NEW time \in Nat
    PROVE  /\ cpus' = Advance(k, time) => (Waits(c)' <=> Waits(c))
           /\ cpus' = Stop(k, time) /\ c # k => (Waits(c)' <=> Waits(c))
<1>1. ASSUME cpus' = Advance(k, time)
      PROVE  Waits(c)' <=> Waits(c)
  BY <1>1, AdvanceTypes DEF Waits
<1>2. ASSUME cpus' = Stop(k, time), c # k
      PROVE  Waits(c)' <=> Waits(c)
  BY <1>2, StopTypes DEF Waits
<1> QED
  BY <1>1, <1>2

(* A handler leaves every CPU with a waiting task attended. *)
LEMMA EventAttends ==
    ASSUME Basic, Attended, NEW e \in DOMAIN events, HandleEvent(e)
    PROVE  Attended'
<1>1. e.cpu \in Cpu /\ e.time \in Nat
  BY DEF Basic, NewEvents, IsBagOf, Event
<1> DEFINE now == Now(e.cpu, e.time)
<1>2. now \in Nat
  BY <1>1, NowTypes
<1>3. PopsOnly(e)
  BY EventPops
<1> HIDE DEF now
<1>4. CASE /\ cpus' = Advance(e.cpu, e.time) /\ staged' = staged
           /\ (e.kind = "Kick" /\ cpus[e.cpu].current = NoTask) => calls' = <<Dispatch(e.cpu)>>
  <2>1. ASSUME NEW c \in Cpu, Waits(c)'
        PROVE  Listed(calls', c) \/ (Waits(c) /\ (e.kind = "Kick" => e.cpu # c))
    <3>1. Waits(c)
      BY <1>1, <1>4, <2>1, WaitsAfter
    <3>2. (e.kind = "Kick" /\ e.cpu = c) => Listed(<<Dispatch(c)>>, c) /\ calls' = <<Dispatch(c)>>
      BY <1>4, <3>1, DispatchTypes, ListedOne DEF Waits
    <3> QED
      BY <3>1, <3>2
  <2> QED
    BY <1>3, <1>4, <2>1, EventAttended
<1>5. CASE /\ cpus' = Stop(e.cpu, now) /\ Listed(calls', e.cpu)
           /\ DOMAIN staged \subseteq DOMAIN events' \cup DOMAIN staged'
  <2>1. ASSUME NEW c \in Cpu, Waits(c)'
        PROVE  Listed(calls', c) \/ (Waits(c) /\ (e.kind = "Kick" => e.cpu # c))
    <3>1. CASE c = e.cpu
      BY <1>5, <3>1
    <3>2. CASE c # e.cpu
      BY <1>1, <1>2, <1>5, <2>1, <3>2, WaitsAfter
    <3> QED
      BY <3>1, <3>2
  <2> QED
    BY <1>3, <1>5, <2>1, EventAttended
<1>6. CASE WakeIgnored(e) \/ EndIgnored(e) \/ TickOffline(e) \/ AlreadyThere(e)
  BY <1>4, <1>6 DEF WakeIgnored, EndIgnored, TickOffline, AlreadyThere, Ignore
<1>7. CASE TaskWake(e) \/ Tick(e) \/ KickDispatch(e)
  BY <1>4, <1>7, Zenon DEF TaskWake, WakeSleeper, Tick, KickDispatch
<1>8. CASE SliceExpired(e) \/ KickPreempt(e)
  <2>1. cpus' = Stop(e.cpu, now) /\ calls' = Reenqueue(e.cpu) /\ staged' = staged
        /\ cpus[e.cpu].current # NoTask
    BY <1>8, Zenon DEF SliceExpired, KickPreempt, PreemptCurrent, StopAndReenqueue, now
  <2>2. Listed(calls', e.cpu)
    BY <1>1, <2>1, OnTask, ListedRequeue DEF Reenqueue
  <2> QED
    BY <1>5, <2>1, <2>2
<1>9. CASE CpuLeaves(e)
  <2>1. staged' = staged /\ e.kind # "Kick"
    BY <1>9 DEF CpuLeaves
  <2>2. CASE cpus[e.cpu].current = NoTask
    BY <1>4, <1>9, <2>1, <2>2 DEF CpuLeaves
  <2>3. CASE cpus[e.cpu].current # NoTask
    <3>1. calls' = Reenqueue(e.cpu) \o Leaving(e) /\ cpus' = Stop(e.cpu, now)
      BY <1>9, <2>3, Zenon DEF CpuLeaves, PreemptCurrent, StopAndReenqueue, now
    <3>2. \E op \in {"drainLocal", "takeDown"} : Leaving(e) = <<Call(op, e.cpu, NoTask)>>
      BY DEF Leaving
    <3>3. Listed(calls', e.cpu)
      BY <1>1, <2>3, <3>1, <3>2, OnTask, ListedRequeue DEF Reenqueue
    <3> QED
      BY <1>5, <2>1, <3>1, <3>3
  <2> QED
    BY <2>2, <2>3
<1>10. CASE CpuReturns(e)
  <2>1. staged' = staged /\ e.kind # "Kick" /\ calls' = <<Dispatch(e.cpu)>>
        /\ cpus' = [Advance(e.cpu, e.time) EXCEPT ![e.cpu].online = TRUE]
    BY <1>10 DEF CpuReturns
  <2>2. ASSUME NEW c \in Cpu, Waits(c)', c # e.cpu
        PROVE  Waits(c)
    <3>1. cpus'[c] = Advance(e.cpu, e.time)[c]
      BY <1>1, <2>1, <2>2, AdvanceTypes
    <3>2. cpus'[c].current = cpus[c].current /\ cpus'[c].local = cpus[c].local
          /\ cpus'[c].online = cpus[c].online
      BY <1>1, <3>1, AdvanceTypes
    <3> QED
      BY <2>2, <3>2 DEF Waits
  <2>3. Listed(calls', e.cpu)
    BY <1>1, <2>1, DispatchTypes, ListedOne
  <2> QED
    BY <1>3, <2>1, <2>2, <2>3, EventAttended
<1>11. CASE PhaseComplete(e)
  <2>1. cpus' = Stop(e.cpu, now) /\ cpus[e.cpu].current \in Task
    BY <1>11, Completed DEF now
  <2>2. calls' = Reenqueue(e.cpu) \/ calls' = <<Dispatch(e.cpu)>>
    BY <1>11, Completed
  <2>3. Listed(calls', e.cpu)
    BY <1>1, <2>1, <2>2, ListedRequeue, ListedOne, DispatchTypes DEF Reenqueue
  <2>4. DOMAIN staged \subseteq DOMAIN events' \cup DOMAIN staged'
    <3>1. staged' = staged \/ \E pushed : NewEvents(pushed) /\ Pop(e, pushed)
                                 /\ DOMAIN staged \subseteq DOMAIN pushed
      BY <1>11, Completed
    <3> QED
      BY <3>1, Popped
  <2> QED
    BY <1>5, <2>1, <2>3, <2>4
<1> QED
  BY <1>6, <1>7, <1>8, <1>9, <1>10, <1>11 DEF HandleEvent

(* A callback that is the last of its handler leaves no dispatch to come.  *)
LEMMA NotListed ==
    ASSUME Basic, NEW c \in Cpu, calls # <<>>, Tail(calls) = <<>>, Listed(calls, c)
    PROVE  Head(calls).cpu = c /\ Head(calls).op \notin Carries \cup {"tick"}
<1> SUFFICES ASSUME Head(calls).cpu # c \/ Head(calls).op \in Carries \cup {"tick"}
             PROVE  FALSE
  OBVIOUS
<1>1. Listed(<<>>, c)
  BY ListedTail
<1> QED
  BY <1>1 DEF Listed

(* The CPU that gets a task is the one that waits for it. *)
LEMMA DeliverWaits ==
    ASSUME Basic, NEW c \in Cpu, NEW cs \in [Cpu -> CpuRec], NEW t \in Task, NEW d \in DsqId,
           NEW k \in Cpu, Deliver(cs, t, d, k),
           cs[c].current = cpus[c].current, cs[c].local = cpus[c].local, cs[c].online = cpus[c].online,
           Waits(c)'
    PROVE  \/ Waits(c)
           \/ /\ Direct(t, d) /\ cs[c].current = NoTask /\ c = LandsOn(d, k)
              /\ c # k => d.kind = "localOn" /\ d.cpu = c
<1>1. /\ cpus'[c].current = cs[c].current /\ cpus'[c].online = cs[c].online
      /\ \/ cpus'[c].local = cs[c].local
         \/ Direct(t, d) /\ c = LandsOn(d, k)
  <2>1. cpus'[c].current = cs[c].current /\ cpus'[c].online = cs[c].online
    BY Delivered
  <2>2. \/ /\ Direct(t, d)
           /\ cpus' = [cs EXCEPT ![LandsOn(d, k)].local = Append(@, t)]
        \/ cpus' = cs
    BY DEF Deliver
  <2> QED
    BY <2>1, <2>2
<1>2. Direct(t, d) /\ c = LandsOn(d, k) /\ c # k => d.kind = "localOn" /\ d.cpu = c
  BY DsqTypes DEF LandsOn, Direct, Local
<1> QED
  BY <1>1, <1>2 DEF Waits

(* ops.select_cpu leaves every CPU with a waiting task attended: by a      *)
(* dispatch or by a kick.                                                  *)
LEMMA SelectAttends ==
    ASSUME Basic, Attended, SelectCpu
    PROVE  Attended'
<1> DEFINE t == Head(calls).task
<1>1. /\ Calling("selectCpu") /\ t \in Task /\ Tail(calls) = <<>> /\ calls # <<>> /\ events' = events
  BY Selected
<1>2. Head(calls).op = "selectCpu"
  BY <1>1, Called
<1> SUFFICES ASSUME NEW c \in Cpu, Waits(c)'
             PROVE  (Kicked(c) \/ Listed(calls, c))'
  BY DEF Attended
<1>3. ~Listed(calls, c)
  BY <1>1, <1>2, NotListed DEF Carries
<1>4. CASE cpus' = cpus /\ staged' = staged
  BY <1>1, <1>3, <1>4 DEF Attended, Waits, Kicked
<1>5. ASSUME NEW k \in Cpu, NEW d \in DsqId, Deliver(cpus, t, d, k),
             staged' = staged (+) Resched(cpus, t, d, k),
             Direct(t, d) => calls' = <<Dispatch(LandsOn(d, k))>>
      PROVE  (Kicked(c) \/ Listed(calls, c))'
  <2>1. cpus \in [Cpu -> CpuRec] /\ KickBag(staged)
    BY DEF Basic
  <2>2. DOMAIN staged \subseteq DOMAIN staged'
    BY <1>1, <1>5, <2>1, ReschedTypes, KickPlus
  <2>3. CASE Waits(c)
    BY <1>1, <1>3, <2>2, <2>3 DEF Attended, Kicked
  <2>4. CASE ~Waits(c)
    <3>1. Direct(t, d) /\ c = LandsOn(d, k)
      BY <1>1, <1>5, <2>1, <2>4, DeliverWaits
    <3> QED
      BY <1>5, <3>1, DispatchTypes, ListedOne
  <2> QED
    BY <2>3, <2>4
<1>6. PICK k \in Chosen[t] :
        /\ k \in Cpu
        /\ \/ UNCHANGED <<cpus, staged>>
           \/ \E d \in SelectDsq : /\ d \in DsqId /\ Deliver(cpus, t, d, k)
                                   /\ staged' = staged (+) Resched(cpus, t, d, k)
                                   /\ Direct(t, d) => calls' = <<Dispatch(LandsOn(d, k))>>
  BY Selected
<1> QED
  BY <1>4, <1>5, <1>6

(* The wake ends with a dispatch on every idle CPU; after a requeue, and   *)
(* in the end of a drain, comes one for the CPU itself, or its take-down.  *)
LEMMA EnqueueLists ==
    ASSUME Basic, Linked(calls), NEW kicks, KickBag(kicks), AfterEnqueue(kicks), NEW c \in Cpu,
           cpus[c].current = NoTask,
           Calling("enqueue") \/ Calling("requeue") \/ Calling("drain"),
           c = Head(calls).cpu \/ Listed(calls, c) \/ Calling("enqueue")
    PROVE  Listed(calls', c)
<1>1. CASE Calling("enqueue")
  <2>1. IsDispatchOf(calls', IdleCpus)
    BY <1>1 DEF AfterEnqueue
  <2>2. IdleCpus \in SUBSET Cpu /\ c \in IdleCpus
    BY DEF IdleCpus
  <2>3. \E i \in 1 .. Len(calls') : calls'[i] = Dispatch(c)
    BY <2>1, <2>2, ShapedDispatches
  <2> QED
    BY <2>3, DispatchTypes DEF Listed
<1>2. CASE ~Calling("enqueue")
  <2> DEFINE r == Tail(calls)
  <2>1. calls' = r
    BY <1>2 DEF AfterEnqueue
  <2>2. calls # <<>> /\ Head(calls).op \in {"requeue", "drain"}
    BY <1>2 DEF Calling
  <2>3. CASE Listed(calls, c)
    BY <2>1, <2>2, <2>3, ListedTail DEF Carries
  <2>4. CASE c = Head(calls).cpu
    <3>1. /\ Head(calls) = calls[1] /\ 1 \in 1 .. Len(calls)
          /\ \A i \in 1 .. Len(r) : r[i] = calls[i + 1]
          /\ Len(calls) = Len(r) + 1 /\ Len(r) \in Nat
      BY <2>2, ShapedTail DEF Basic
    <3>2. Followed(calls, 1)
      BY <3>1 DEF Basic, Shaped
    <3> HIDE DEF r
    <3>3. CASE Head(calls).op = "requeue"
      <4>1. 1 < Len(calls) /\ calls[2] = Dispatch(c)
        BY <2>4, <3>1, <3>2, <3>3 DEF Followed, Linked
      <4>2. 1 \in 1 .. Len(r) /\ r[1] = Dispatch(c)
        BY <3>1, <4>1
      <4> QED
        BY <2>1, <4>2, DispatchTypes DEF Listed
    <3>4. CASE Head(calls).op = "drain"
      <4>1. calls[Len(calls)] = Call("takeDown", c, NoTask)
        BY <2>4, <3>1, <3>2, <3>4 DEF Followed
      <4>2. Call("takeDown", c, NoTask).op = "takeDown" /\ Call("takeDown", c, NoTask).cpu = c
        BY CallTypes DEF CallOp
      <4>3. Len(calls) # 1
        BY <3>1, <3>4, <4>1, <4>2
      <4>4. Len(r) \in 1 .. Len(r) /\ r[Len(r)] = Call("takeDown", c, NoTask)
        BY <3>1, <4>1, <4>3
      <4> QED
        BY <2>1, <4>2, <4>4 DEF Listed
    <3> QED
      BY <2>2, <3>3, <3>4
  <2> QED
    BY <1>2, <2>3, <2>4
<1> QED
  BY <1>1, <1>2

(* ops.enqueue leaves every CPU with a waiting task attended. *)
LEMMA EnqueueAttends ==
    ASSUME Basic, Linked(calls), Attended, EnqueueInsert \/ EnqueueHold
    PROVE  Attended'
<1> SUFFICES ASSUME NEW c \in Cpu, Waits(c)'
             PROVE  (Kicked(c) \/ Listed(calls, c))'
  BY DEF Attended
<1>1. ASSUME NEW kicks, KickBag(kicks), AfterEnqueue(kicks), Waits(c),
             Calling("enqueue") \/ Calling("requeue") \/ Calling("drain")
      PROVE  (Kicked(c) \/ Listed(calls, c))'
  <2>1. CASE Listed(calls, c)
    BY <1>1, <2>1, EnqueueLists DEF Waits
  <2>2. CASE Kicked(c)
    <3>1. /\ DOMAIN events \subseteq DOMAIN events'
          /\ DOMAIN staged \subseteq DOMAIN events' \cup DOMAIN staged'
      BY <1>1, AfterEnqueued
    <3> QED
      BY <2>2, <3>1 DEF Kicked
  <2> QED
    BY <1>1, <2>1, <2>2 DEF Attended
<1>2. CASE EnqueueHold
  <2>1. Waits(c)
    BY <1>2 DEF EnqueueHold, Waits
  <2> QED
    BY <1>1, <1>2, <2>1, Kept
<1>3. CASE EnqueueInsert
  <2> DEFINE k == Head(calls).cpu
             t == Head(calls).task
  <2>1. /\ Calling("enqueue") \/ Calling("requeue") \/ Calling("drain")
        /\ k \in Cpu /\ t \in Task
    BY <1>3, Enqueued
  <2>2. PICK d \in DsqId :
            /\ Deliver(cpus, t, d, k)
            /\ \E kicks : /\ KickBag(kicks) /\ AfterEnqueue(kicks)
                          /\ DOMAIN Resched(cpus, t, d, k) \subseteq DOMAIN kicks
    BY <1>3, Enqueued
  <2>3. PICK kicks : /\ KickBag(kicks) /\ AfterEnqueue(kicks)
                     /\ DOMAIN Resched(cpus, t, d, k) \subseteq DOMAIN kicks
    BY <2>2
  <2>4. cpus \in [Cpu -> CpuRec]
    BY DEF Basic
  <2>5. CASE Waits(c)
    BY <1>1, <2>1, <2>3, <2>5
  <2>6. CASE ~Waits(c)
    <3>1. /\ Direct(t, d) /\ cpus[c].current = NoTask
          /\ c # k => d.kind = "localOn" /\ d.cpu = c
      BY <2>1, <2>2, <2>4, <2>6, DeliverWaits
    <3>2. CASE c = k
      BY <2>1, <2>3, <3>1, <3>2, EnqueueLists
    <3>3. CASE c # k
      <4>1. \E e \in DOMAIN Resched(cpus, t, d, k) : e.kind = "Kick" /\ e.cpu = c
        BY <2>1, <2>4, <3>1, <3>3, ReschedTypes
      <4>2. DOMAIN kicks \subseteq DOMAIN events' \cup DOMAIN staged'
        BY <2>1, <2>3, AfterEnqueued
      <4> QED
        BY <2>3, <4>1, <4>2 DEF Kicked
    <3> QED
      BY <3>2, <3>3
  <2> QED
    BY <2>5, <2>6
<1> QED
  BY <1>2, <1>3

(* ops.tick leaves every CPU with a waiting task attended: its own is busy *)
(* or dispatched to, the kicks of the others are flushed.                  *)
LEMMA TickAttends ==
    ASSUME Basic, Attended, OpsTick
    PROVE  Attended'
<1> DEFINE k == Head(calls).cpu
<1>1. /\ Calling("tick") /\ k \in Cpu /\ cpus[k].current \in Task /\ cpus[k].clock \in Nat
      /\ Tail(calls) = <<>> /\ calls # <<>>
      /\ DOMAIN events \subseteq DOMAIN events'
      /\ \A e \in DOMAIN staged : e.cpu # k => e \in DOMAIN events'
  BY Ticked
<1>2. \/ cpus' = Stop(k, cpus[k].clock) /\ calls' = Reenqueue(k)
      \/ cpus' = cpus
  BY Ticked, Zenon DEF StopAndReenqueue
<1> SUFFICES ASSUME NEW c \in Cpu, Waits(c)'
             PROVE  (Kicked(c) \/ Listed(calls, c))'
  BY DEF Attended
<1>3. CASE Waits(c)
  <2>1. c # k
    BY <1>1, <1>3, EngineAssumption DEF Waits
  <2>2. ~Listed(calls, c)
    BY <1>1, <2>1, NotListed
  <2> QED
    BY <1>1, <1>3, <2>1, <2>2 DEF Attended, Kicked
<1>4. CASE ~Waits(c)
  <2>1. cpus' = Stop(k, cpus[k].clock) /\ calls' = Reenqueue(k)
    BY <1>2, <1>4 DEF Waits
  <2>2. c = k
    BY <1>1, <1>4, <2>1, WaitsAfter
  <2> QED
    BY <1>1, <2>1, <2>2, ListedRequeue DEF Reenqueue
<1> QED
  BY <1>3, <1>4

(* What is left to do, when the next call is not for CPU c. *)
LEMMA PickLists ==
    ASSUME Basic, NEW c \in Cpu, NEW k \in Cpu, Dispatching(k), c = k \/ Listed(calls, c)
    PROVE  Listed(calls', c)
<1> DEFINE x == Call("pick", k, NoTask)
           r == Tail(calls)
<1>1. /\ Calling("dispatch") /\ calls # <<>> /\ Head(calls).cpu = k
      /\ calls' = <<x>> \o r /\ cpus[k].current = NoTask /\ cpus[k].online
  BY Dispatched
<1>2. x \in CallRec /\ x.op = "pick" /\ x.cpu = k /\ x.task = NoTask
  BY CallTypes DEF CallOp
<1> HIDE DEF x
<1>3. /\ Len(calls') = Len(r) + 1 /\ calls'[1] = x /\ Len(r) \in Nat
      /\ \A i \in 1 .. Len(r) : calls'[i + 1] = r[i]
  BY <1>1, <1>2, ShapedThen, ShapedTail DEF Basic
<1>4. CASE c = k
  BY <1>2, <1>3, <1>4 DEF Listed
<1>5. CASE c # k
  <2>1. Listed(r, c)
    BY <1>1, <1>5, ListedTail
  <2> HIDE DEF r
  <2>2. PICK i \in 1 .. Len(r) : r[i].cpu = c /\ r[i].op \in {"dispatch", "pick", "drainLocal", "takeDown"}
    BY <2>1 DEF Listed
  <2>3. i + 1 \in 1 .. Len(calls') /\ calls'[i + 1] = r[i]
    BY <1>3
  <2> QED
    BY <2>2, <2>3 DEF Listed
<1> QED
  BY <1>4, <1>5

(* A start, for its CPU and the others. *)
LEMMA StartsThere ==
    ASSUME Basic, NEW c \in Cpu, NEW pick \in Picks(c), RunFor(c, pick, tasks[pick.task].slice)
    PROVE  /\ Calling("pick") /\ Head(calls).cpu = c /\ calls' = Tail(calls) /\ staged' = staged
           /\ DOMAIN events \subseteq DOMAIN events'
           /\ cpus'[c].current # NoTask
           /\ \A k \in Cpu : k # c => cpus'[k] = cpus[k]
<1>1. pick.task # NoTask /\ tasks[pick.task].slice \in Nat
  BY PickTypes, SliceTypes, EngineAssumption
<1>2. DOMAIN events \subseteq DOMAIN events'
  BY <1>1, StartedEvent
<1>3. Calling("pick") /\ Head(calls).cpu = c /\ calls' = Tail(calls) /\ staged' = staged
  BY Started, SliceTypes
<1>4. cpus'[c].current = pick.task /\ \A k \in Cpu : k # c => cpus'[k] = cpus[k]
  BY <1>1, StartedCpu
<1> QED
  BY <1>1, <1>2, <1>3, <1>4

(* A dispatch leaves every CPU with a waiting task attended. *)
LEMMA DispatchAttends ==
    ASSUME Basic, Attended, NEW k \in Cpu, DispatchAndRun(k)
    PROVE  Attended'
<1> SUFFICES ASSUME NEW c \in Cpu, Waits(c)'
             PROVE  (Kicked(c) \/ Listed(calls, c))'
  BY DEF Attended
<1>1. clock \in Nat /\ cpus \in [Cpu -> CpuRec]
  BY DEF Basic
<1>2. ASSUME Dispatching(k), c # k => Waits(c),
             DOMAIN events \cup DOMAIN staged \subseteq DOMAIN events' \cup DOMAIN staged'
      PROVE  (Kicked(c) \/ Listed(calls, c))'
  <2>1. CASE c = k \/ Listed(calls, c)
    BY <1>2, <2>1, PickLists
  <2>2. CASE c # k /\ Kicked(c)
    BY <1>2, <2>2 DEF Kicked
  <2> QED
    BY <1>2, <2>1, <2>2 DEF Attended
<1>3. CASE DispatchLocal(k) \/ DispatchNothing(k)
  <2>1. Dispatching(k) /\ cpus' = Advance(k, clock)
    BY <1>3 DEF DispatchLocal, DispatchNothing
  <2>2. UNCHANGED <<events, staged>> \/ Flush(EmptyBag)
    BY <1>3 DEF DispatchLocal, DispatchNothing
  <2>3. DOMAIN events \cup DOMAIN staged \subseteq DOMAIN events' \cup DOMAIN staged'
    BY <2>2, KickNone, Flushed
  <2> QED
    BY <1>1, <1>2, <2>1, <2>3, WaitsAfter
<1>4. CASE DispatchMove(k)
  <2>1. Dispatching(k) /\ Flush(EmptyBag)
    BY <1>4, Moved
  <2>2. c # k => /\ cpus'[c].current = cpus[c].current /\ cpus'[c].online = cpus[c].online
                 /\ cpus'[c].local = cpus[c].local
    BY <1>4, Moved
  <2>3. DOMAIN events \cup DOMAIN staged \subseteq DOMAIN events' \cup DOMAIN staged'
    BY <2>1, KickNone, Flushed
  <2> QED
    BY <1>2, <2>1, <2>2, <2>3 DEF Waits
<1>5. CASE DispatchHeld(k)
  <2> DEFINE A == Advance(k, clock)
  <2>1. Dispatching(k)
    BY <1>5, Offered
  <2>2. PICK t \in Task, d \in DsqId :
          Deliver(A, t, d, k) /\ KickBag(Resched(A, t, d, k)) /\ Flush(Resched(A, t, d, k))
    BY <1>5, Offered
  <2>3. /\ A \in [Cpu -> CpuRec]
        /\ A[c].current = cpus[c].current /\ A[c].local = cpus[c].local /\ A[c].online = cpus[c].online
    BY <1>1, AdvanceTypes
  <2> HIDE DEF A
  <2>4. DOMAIN events' = DOMAIN events \cup DOMAIN staged \cup DOMAIN Resched(A, t, d, k)
    BY <2>2, Flushed
  <2>5. CASE c # k => Waits(c)
    BY <1>2, <2>1, <2>4, <2>5
  <2>6. CASE c # k /\ ~Waits(c)
    <3>1. Direct(t, d) /\ A[c].current = NoTask /\ d.kind = "localOn" /\ d.cpu = c
      BY <2>2, <2>3, <2>6, DeliverWaits
    <3>2. \E e \in DOMAIN Resched(A, t, d, k) : e.kind = "Kick" /\ e.cpu = c
      BY <2>3, <2>6, <3>1, ReschedTypes
    <3> QED
      BY <2>4, <3>2 DEF Kicked
  <2> QED
    BY <2>5, <2>6
<1>6. ASSUME Calling("pick"), Head(calls).cpu = k, c # k, Waits(c),
             DOMAIN events \cup DOMAIN staged \subseteq DOMAIN events' \cup DOMAIN staged',
             calls' = Tail(calls) \/ calls' = <<Dispatch(k)>> \o Tail(calls)
      PROVE  (Kicked(c) \/ Listed(calls, c))'
  <2>1. CASE Kicked(c)
    BY <1>6, <2>1 DEF Kicked
  <2>2. CASE Listed(calls, c)
    <3>1. calls # <<>> /\ Listed(Tail(calls), c)
      BY <1>6, <2>2, ListedTail DEF Calling
    <3> QED
      BY <1>6, <3>1, ListedThen, DispatchTypes
  <2> QED
    BY <1>6, <2>1, <2>2 DEF Attended
<1>7. ASSUME NEW pick \in Picks(k), SkipExited(k, pick)
      PROVE  (Kicked(c) \/ Listed(calls, c))'
  <2>1. /\ Calling("pick") /\ Head(calls).cpu = k /\ UNCHANGED <<events, staged>>
        /\ calls' = <<Dispatch(k)>> \o Tail(calls)
        /\ cpus' = [cpus EXCEPT ![k].local = pick.local]
    BY <1>7 DEF SkipExited, Picked
  <2>2. CASE c = k
    BY <2>1, <2>2, ListedThen, DispatchTypes DEF Calling
  <2>3. CASE c # k
    <3>1. Waits(c)
      BY <1>1, <2>1, <2>3 DEF Waits
    <3> QED
      BY <1>6, <2>1, <2>3, <3>1
  <2> QED
    BY <2>2, <2>3
<1>8. ASSUME NEW pick \in Picks(k), RunFor(k, pick, tasks[pick.task].slice)
      PROVE  (Kicked(c) \/ Listed(calls, c))'
  <2>1. /\ Calling("pick") /\ Head(calls).cpu = k /\ calls' = Tail(calls) /\ staged' = staged
        /\ DOMAIN events \subseteq DOMAIN events'
        /\ cpus'[k].current # NoTask
        /\ \A l \in Cpu : l # k => cpus'[l] = cpus[l]
    BY <1>8, StartsThere
  <2>2. c # k
    BY <2>1 DEF Waits
  <2>3. Waits(c)
    BY <2>1, <2>2 DEF Waits
  <2>4. DOMAIN events \cup DOMAIN staged \subseteq DOMAIN events' \cup DOMAIN staged'
    BY <2>1
  <2> QED
    BY <1>6, <2>1, <2>2, <2>3, <2>4
<1>9. CASE GoIdle(k)
  <2>1. /\ Calling("pick") /\ Head(calls).cpu = k /\ calls' = Tail(calls)
        /\ UNCHANGED <<events, staged, cpus>> /\ Picks(k) = {}
    BY <1>9 DEF GoIdle
  <2>2. c # k
    BY <2>1 DEF Picks, Waits
  <2> QED
    BY <1>6, <2>1, <2>2 DEF Waits
<1> QED
  BY <1>3, <1>4, <1>5, <1>7, <1>8, <1>9 DEF DispatchAndRun, StartRunning

(* A refused dispatch, a drain and the end of a CPU leave every CPU with a *)
(* waiting task attended.                                                  *)
LEMMA ListAttends ==
    ASSUME Basic, Attended, DispatchRefused \/ DrainLocal \/ TakeDown
    PROVE  Attended'
<1> DEFINE k == Head(calls).cpu
<1>1. /\ UNCHANGED <<events, staged>> /\ calls # <<>>
  BY ZenonT(30) DEF DispatchRefused, DrainLocal, TakeDown, Calling
<1>2. cpus \in [Cpu -> CpuRec] /\ k \in Cpu
  BY Called, Zenon DEF Basic, DispatchRefused, DrainLocal, TakeDown
<1> SUFFICES ASSUME NEW c \in Cpu, Waits(c)'
             PROVE  (Kicked(c) \/ Listed(calls, c))'
  BY DEF Attended
<1>3. c # k /\ Waits(c)
  <2>1. CASE DispatchRefused
    BY <2>1 DEF DispatchRefused, Waits
  <2>2. CASE DrainLocal
    <3>1. cpus' = [cpus EXCEPT ![k].local = <<>>]
      BY <2>2, Zenon DEF DrainLocal
    <3> QED
      BY <1>2, <3>1 DEF Waits
  <2>3. CASE TakeDown
    <3>1. cpus' = [cpus EXCEPT ![k].online = FALSE]
      BY <2>3 DEF TakeDown
    <3> QED
      BY <1>2, <3>1 DEF Waits
  <2> QED
    BY <2>1, <2>2, <2>3
<1>4. CASE Kicked(c)
  BY <1>1, <1>4 DEF Kicked
<1>5. CASE Listed(calls, c)
  <2>1. Listed(Tail(calls), c)
    BY <1>1, <1>3, <1>5, ListedTail
  <2>2. CASE DispatchRefused \/ TakeDown
    BY <2>1, <2>2 DEF DispatchRefused, TakeDown
  <2>3. CASE DrainLocal
    <3>1. Tail(calls) = <<>>
      <4>1. Calling("drainLocal") /\ "drainLocal" \in Closing
        BY <2>3, Zenon DEF DrainLocal, Closing
      <4> QED
        BY <4>1, Called
    <3>2. Listed(<<>>, c)
      BY <2>1, <3>1
    <3> QED
      BY <3>2 DEF Listed
  <2> QED
    BY <2>2, <2>3
<1> QED
  BY <1>3, <1>4, <1>5 DEF Attended

(* Every step leaves every CPU with a waiting task attended. *)
LEMMA AttendedStep ==
    ASSUME Basic, Linked(calls), Attended, [Next]_vars
    PROVE  Attended'
<1>1. CASE UNCHANGED vars
  BY <1>1 DEF vars, Attended, Waits, Kicked, Listed
<1> QED
  BY <1>1, EventAttends, SelectAttends, EnqueueAttends, TickAttends, DispatchAttends, ListAttends DEF Next

(* No task is stranded: one on the local queue of an idle CPU is started   *)
(* by a kick that is on its way, so a task another CPU dispatched does not *)
(* wait for a tick or for luck.                                            *)
THEOREM NobodyStranded == Spec => []NotStranded
<1>1. Init => Attended
  BY DEF Init, Attended, Waits
<1>2. Init => Linked(calls)
  BY DEF Init, Linked
<1>3. Basic /\ Linked(calls) /\ [Next]_vars => Linked(calls)'
  BY LinkedStep
<1>4. Basic /\ Linked(calls) /\ Attended /\ [Next]_vars => Attended'
  BY AttendedStep
<1>5. Attended => NotStranded
  BY DEF Attended, NotStranded, Waits, Kicked, Listed
<1> QED
  BY <1>1, <1>2, <1>3, <1>4, <1>5, AlwaysBasic, PTL DEF Spec

-----------------------------------------------------------------------------
(* Counting the places of a task. *)

(* The copies of t in one place that holds x.                              *)
One(x, t) == IF x = t THEN 1 ELSE 0

(* A queue holds finitely many copies of a task. *)
LEMMA PositionsFinite ==
    ASSUME NEW S, NEW s \in Seq(S), NEW t
    PROVE  IsFiniteSet(Positions(s, t)) /\ Copies(s, t) \in Nat
<1>1. DOMAIN s = 1 .. Len(s) /\ Len(s) \in Nat
  OBVIOUS
<1>2. IsFiniteSet(1 .. Len(s))
  BY <1>1, FS_Interval
<1>3. Positions(s, t) \in SUBSET (1 .. Len(s))
  BY <1>1 DEF Positions
<1> QED
  BY <1>2, <1>3, FS_Subset, FS_CardinalityType DEF Copies

(* r is s without its position j.                                          *)
Without(s, j, r) ==
    /\ Len(s) = Len(r) + 1
    /\ j \in 1 .. Len(s)
    /\ \A k \in 1 .. Len(r) : r[k] = IF k < j THEN s[k] ELSE s[k + 1]

(* Taking position i out of a queue takes one copy of what was there. *)
LEMMA OneLess ==
    ASSUME NEW S, NEW s \in Seq(S), NEW r \in Seq(S), NEW j, Without(s, j, r), NEW t
    PROVE  Copies(s, t) = Copies(r, t) + One(s[j], t)
<1> DEFINE P == Positions(s, t) \ {j}
           R == Positions(r, t)
           f == [k \in R |-> IF k < j THEN k ELSE k + 1]
<1>1. /\ DOMAIN s = 1 .. Len(s) /\ DOMAIN r = 1 .. Len(r) /\ Len(r) \in Nat /\ Len(s) = Len(r) + 1
      /\ j \in 1 .. Len(s) /\ j \in Nat
      /\ \A k \in 1 .. Len(r) : r[k] = IF k < j THEN s[k] ELSE s[k + 1]
  BY DEF Without
<1>2. \A k \in R : k \in 1 .. Len(r) /\ r[k] = t
  BY <1>1 DEF Positions
<1>3. \A k \in P : k \in 1 .. Len(s) /\ s[k] = t /\ k # j
  BY <1>1 DEF Positions
<1>4. ASSUME NEW k \in R
      PROVE  f[k] \in P
  BY <1>1, <1>2 DEF Positions
<1>5. ASSUME NEW k \in R, NEW l \in R, f[k] = f[l]
      PROVE  k = l
  BY <1>1, <1>2, <1>5
<1>6. ASSUME NEW p \in P
      PROVE  \E k \in R : f[k] = p
  <2> DEFINE k == IF p < j THEN p ELSE p - 1
  <2>1. k \in 1 .. Len(r) /\ (k < j <=> p < j) /\ p = IF k < j THEN k ELSE k + 1
    BY <1>1, <1>3
  <2> HIDE DEF k
  <2>2. r[k] = t
    BY <1>1, <1>3, <2>1
  <2>3. k \in R
    BY <1>1, <2>1, <2>2 DEF Positions
  <2> QED
    BY <2>1, <2>3
<1>7. IsFiniteSet(R) /\ IsFiniteSet(Positions(s, t))
  BY PositionsFinite
<1> HIDE DEF P, R
<1>8. f \in Bijection(R, P)
  <2> HIDE DEF f
  <2>1. f \in [R -> P]
    BY <1>4 DEF f
  <2> QED
    BY <2>1, <1>5, <1>6 DEF Bijection, Injection, Surjection, IsInjective
<1>9. Cardinality(P) = Cardinality(R)
  BY <1>7, <1>8, FS_Bijection DEF ExistsBijection
<1>10. Cardinality(P) = IF j \in Positions(s, t) THEN Copies(s, t) - 1 ELSE Copies(s, t)
  BY <1>7, FS_RemoveElement DEF P, Copies
<1>11. j \in Positions(s, t) <=> s[j] = t
  BY <1>1 DEF Positions
<1>12. Copies(s, t) \in Nat
  BY PositionsFinite
<1>13. Copies(r, t) = Cardinality(R)
  BY DEF Copies, R
<1>14. CASE s[j] = t
  <2>1. Copies(r, t) = Copies(s, t) - 1 /\ One(s[j], t) = 1
    BY <1>9, <1>10, <1>11, <1>13, <1>14 DEF One
  <2> QED
    BY <2>1, <1>12
<1>15. CASE s[j] # t
  <2>1. Copies(r, t) = Copies(s, t) /\ One(s[j], t) = 0
    BY <1>9, <1>10, <1>11, <1>13, <1>15 DEF One
  <2> QED
    BY <2>1, <1>12
<1> QED
  BY <1>14, <1>15

(* An empty queue holds no task. *)
LEMMA CopiesNone == \A t : Copies(<<>>, t) = 0
BY FS_EmptySet DEF Copies, Positions

(* The tail of a queue holds one copy of its head less. *)
LEMMA CopiesTail ==
    ASSUME NEW S, NEW s \in Seq(S), s # <<>>, NEW t
    PROVE  Copies(s, t) = Copies(Tail(s), t) + One(s[1], t)
<1>1. /\ Tail(s) \in Seq(S) /\ Len(s) = Len(Tail(s)) + 1 /\ 1 \in 1 .. Len(s) /\ Len(Tail(s)) \in Nat
      /\ \A k \in 1 .. Len(Tail(s)) : Tail(s)[k] = s[k + 1]
  BY HeadTailProperties, EmptySeq
<1> DEFINE r == Tail(s)
<1> HIDE DEF r
<1>2. r \in Seq(S) /\ Without(s, 1, r)
  BY <1>1 DEF Without, r
<1>3. Copies(s, t) = Copies(r, t) + One(s[1], t)
  BY <1>2, OneLess
<1> QED
  BY <1>3 DEF r

(* RemoveAt takes one copy of the task it removes. *)
LEMMA CopiesRemoveAt ==
    ASSUME NEW S, NEW s \in Seq(S), NEW j \in 1 .. Len(s), NEW t
    PROVE  Copies(s, t) = Copies(RemoveAt(s, j), t) + One(s[j], t)
<1>1. /\ RemoveAt(s, j) \in Seq(S) /\ Len(RemoveAt(s, j)) = Len(s) - 1
      /\ \A k \in 1 .. Len(s) - 1 : RemoveAt(s, j)[k] = IF k < j THEN s[k] ELSE s[k + 1]
  BY RemoveAtTypes
<1> DEFINE r == RemoveAt(s, j)
<1> HIDE DEF r
<1>2. Len(s) \in Nat
  OBVIOUS
<1>3. Without(s, j, r)
  BY <1>1, <1>2 DEF Without, r
<1> QED
  BY <1>1, <1>3, OneLess DEF r

(* Append adds one copy of the task it adds. *)
LEMMA CopiesAppend ==
    ASSUME NEW S, NEW s \in Seq(S), NEW x \in S, NEW t
    PROVE  Copies(Append(s, x), t) = Copies(s, t) + One(x, t)
<1> DEFINE a == Append(s, x)
<1>1. /\ a \in Seq(S) /\ Len(a) = Len(s) + 1 /\ a[Len(s) + 1] = x /\ Len(s) \in Nat
      /\ \A k \in 1 .. Len(s) : a[k] = s[k]
  BY AppendProperties
<1> HIDE DEF a
<1>2. Without(a, Len(s) + 1, s)
  BY <1>1 DEF Without
<1>3. Copies(a, t) = Copies(s, t) + One(a[Len(s) + 1], t)
  BY <1>1, <1>2, OneLess
<1> QED
  BY <1>1, <1>3 DEF a

(* A CPU runs another task, and the rest run what they ran.                *)
LEMMA OnCpuChange ==
    ASSUME NEW cs, NEW ds, NEW c \in Cpu, NEW t,
           \A k \in Cpu : k # c => ds[k].current = cs[k].current
    PROVE  /\ Cardinality(OnCpu(cs, t)) \in Nat /\ Cardinality(OnCpu(ds, t)) \in Nat
           /\ Cardinality(OnCpu(ds, t)) + One(cs[c].current, t)
                = Cardinality(OnCpu(cs, t)) + One(ds[c].current, t)
<1> DEFINE R == OnCpu(cs, t) \ {c}
<1>1. IsFiniteSet(Cpu)
  BY FS_Interval, EngineAssumption DEF Cpu
<1>2. IsFiniteSet(OnCpu(cs, t)) /\ IsFiniteSet(OnCpu(ds, t))
  <2>1. OnCpu(cs, t) \in SUBSET Cpu /\ OnCpu(ds, t) \in SUBSET Cpu
    BY DEF OnCpu
  <2> QED
    BY <1>1, <2>1, FS_Subset
<1>3. R = OnCpu(ds, t) \ {c}
  BY DEF OnCpu
<1>4. Cardinality(R) = IF c \in OnCpu(cs, t) THEN Cardinality(OnCpu(cs, t)) - 1 ELSE Cardinality(OnCpu(cs, t))
  BY <1>2, FS_RemoveElement
<1>5. Cardinality(R) = IF c \in OnCpu(ds, t) THEN Cardinality(OnCpu(ds, t)) - 1 ELSE Cardinality(OnCpu(ds, t))
  BY <1>2, <1>3, FS_RemoveElement
<1>6. (c \in OnCpu(cs, t) <=> cs[c].current = t) /\ (c \in OnCpu(ds, t) <=> ds[c].current = t)
  BY DEF OnCpu
<1>7. Cardinality(OnCpu(cs, t)) \in Nat /\ Cardinality(OnCpu(ds, t)) \in Nat
  BY <1>2, FS_CardinalityType
<1> HIDE DEF R
<1>8. One(cs[c].current, t) = IF c \in OnCpu(cs, t) THEN 1 ELSE 0
  BY <1>6 DEF One
<1>9. One(ds[c].current, t) = IF c \in OnCpu(ds, t) THEN 1 ELSE 0
  BY <1>6 DEF One
<1> QED
  BY <1>4, <1>5, <1>7, <1>8, <1>9

(* The local DSQs hold finitely many copies of a task. *)
LEMMA OnLocalFinite ==
    ASSUME NEW cs \in [Cpu -> CpuRec], NEW t
    PROVE  IsFiniteSet(OnLocal(cs, t)) /\ Cardinality(OnLocal(cs, t)) \in Nat
<1> DEFINE F == {{c} \X Positions(cs[c].local, t) : c \in Cpu}
<1>1. IsFiniteSet(Cpu)
  BY FS_Interval, EngineAssumption DEF Cpu
<1>2. IsFiniteSet(F)
  <2> DEFINE f == [c \in Cpu |-> {c} \X Positions(cs[c].local, t)]
  <2>1. f \in [Cpu -> F] /\ \A X \in F : \E c \in Cpu : f[c] = X
    OBVIOUS
  <2> HIDE DEF f, F
  <2>2. f \in Surjection(Cpu, F)
    BY <2>1 DEF Surjection
  <2> QED
    BY <1>1, <2>2, FS_Surjection
<1>3. \A X \in F : IsFiniteSet(X)
  <2> SUFFICES ASSUME NEW c \in Cpu
               PROVE  IsFiniteSet({c} \X Positions(cs[c].local, t))
    OBVIOUS
  <2>1. cs[c].local \in Seq(Task)
    BY DEF CpuRec
  <2>2. IsFiniteSet(Positions(cs[c].local, t)) /\ IsFiniteSet({c})
    BY <2>1, PositionsFinite, FS_Singleton
  <2> QED
    BY <2>2, FS_Product
<1> HIDE DEF F
<1>4. IsFiniteSet(UNION F)
  BY <1>2, <1>3, FS_UNION
<1> QED
  BY <1>4, FS_CardinalityType DEF OnLocal, F

(* The local queue of one CPU changes, and the others stay.                *)
LEMMA OnLocalChange ==
    ASSUME NEW cs \in [Cpu -> CpuRec], NEW ds \in [Cpu -> CpuRec], NEW c \in Cpu, NEW t,
           \A k \in Cpu : k # c => ds[k].local = cs[k].local
    PROVE  Cardinality(OnLocal(ds, t)) + Copies(cs[c].local, t)
                = Cardinality(OnLocal(cs, t)) + Copies(ds[c].local, t)
<1> DEFINE R == UNION {{k} \X Positions(cs[k].local, t) : k \in Cpu \ {c}}
           P == {c} \X Positions(cs[c].local, t)
           Q == {c} \X Positions(ds[c].local, t)
<1>1. R = UNION {{k} \X Positions(ds[k].local, t) : k \in Cpu \ {c}}
  OBVIOUS
<1>2. OnLocal(cs, t) = R \cup P
  BY DEF OnLocal
<1>3. OnLocal(ds, t) = R \cup Q
  BY <1>1 DEF OnLocal
<1>4. R \cap P = {} /\ R \cap Q = {}
  OBVIOUS
<1>5. cs[c].local \in Seq(Task) /\ ds[c].local \in Seq(Task)
  BY DEF CpuRec
<1>6. /\ IsFiniteSet(Positions(cs[c].local, t)) /\ IsFiniteSet(Positions(ds[c].local, t))
      /\ Copies(cs[c].local, t) \in Nat /\ Copies(ds[c].local, t) \in Nat
  BY <1>5, PositionsFinite
<1>7. IsFiniteSet({c}) /\ Cardinality({c}) = 1
  BY FS_Singleton
<1>8. IsFiniteSet(P) /\ Cardinality(P) = Copies(cs[c].local, t)
  <2>1. IsFiniteSet(P) /\ Cardinality(P) = 1 * Cardinality(Positions(cs[c].local, t))
    BY <1>6, <1>7, FS_Product
  <2> QED
    BY <2>1, <1>6 DEF Copies
<1>9. IsFiniteSet(Q) /\ Cardinality(Q) = Copies(ds[c].local, t)
  <2>1. IsFiniteSet(Q) /\ Cardinality(Q) = 1 * Cardinality(Positions(ds[c].local, t))
    BY <1>6, <1>7, FS_Product
  <2> QED
    BY <2>1, <1>6 DEF Copies
<1> HIDE DEF P, Q, R
<1>10. IsFiniteSet(R)
  <2>1. IsFiniteSet(OnLocal(cs, t)) /\ R \in SUBSET OnLocal(cs, t)
    BY <1>2, OnLocalFinite
  <2> QED
    BY <2>1, FS_Subset
<1>11. Cardinality(R \cup P) = Cardinality(R) + Cardinality(P)
  <2>1. Cardinality(R \cup P) = Cardinality(R) + Cardinality(P) - 0 /\ Cardinality(R) \in Nat
    BY <1>4, <1>8, <1>10, FS_Union, FS_EmptySet, FS_CardinalityType
  <2> QED
    BY <2>1, <1>6, <1>8
<1>12. Cardinality(R \cup Q) = Cardinality(R) + Cardinality(Q)
  <2>1. Cardinality(R \cup Q) = Cardinality(R) + Cardinality(Q) - 0 /\ Cardinality(R) \in Nat
    BY <1>4, <1>9, <1>10, FS_Union, FS_EmptySet, FS_CardinalityType
  <2> QED
    BY <2>1, <1>6, <1>9
<1>13. Cardinality(R) \in Nat
  BY <1>10, FS_CardinalityType
<1> QED
  BY <1>2, <1>3, <1>6, <1>8, <1>9, <1>11, <1>12, <1>13

(* The local DSQs hold as many copies as before if they are the same. *)
LEMMA OnLocalSame ==
    ASSUME NEW cs, NEW ds, \A k \in Cpu : ds[k].local = cs[k].local, NEW t
    PROVE  OnLocal(ds, t) = OnLocal(cs, t)
BY DEF OnLocal

(* A task runs where it did if the CPUs run what they did. *)
LEMMA OnCpuSame ==
    ASSUME NEW cs, NEW ds, \A k \in Cpu : ds[k].current = cs[k].current, NEW t
    PROVE  OnCpu(ds, t) = OnCpu(cs, t)
BY DEF OnCpu

(* The task a call has in its hands. *)
Carried(x) == IF x.op = "tick" THEN NoTask ELSE x.task

(* The copies of t that the handler carries.                               *)
Hands(todo, t) == Cardinality(InHand(todo, t))

(* The tasks a handler carries, as a queue of tasks. *)
LEMMA HandsCopies ==
    ASSUME NEW todo \in Seq(CallRec), NEW t
    PROVE  LET s == [i \in 1 .. Len(todo) |-> Carried(todo[i])] IN
           /\ s \in Seq(Task \cup {NoTask})
           /\ Len(s) = Len(todo)
           /\ t \in Task => Hands(todo, t) = Copies(s, t)
           /\ Hands(todo, t) \in Nat
<1> DEFINE s == [i \in 1 .. Len(todo) |-> Carried(todo[i])]
<1>1. DOMAIN todo = 1 .. Len(todo) /\ Len(todo) \in Nat
  OBVIOUS
<1>2. \A i \in 1 .. Len(todo) : Carried(todo[i]) \in Task \cup {NoTask}
  <2> TAKE i \in 1 .. Len(todo)
  <2>1. todo[i] \in CallRec
    BY <1>1
  <2> QED
    BY <2>1 DEF Carried, CallRec
<1>3. s \in Seq(Task \cup {NoTask}) /\ Len(s) = Len(todo)
  BY <1>1, <1>2
<1>4. t \in Task => InHand(todo, t) = Positions(s, t)
  BY <1>1, <1>3, EngineAssumption DEF InHand, Positions, Carried
<1>5. IsFiniteSet(InHand(todo, t))
  <2>1. InHand(todo, t) \in SUBSET (1 .. Len(todo))
    BY <1>1 DEF InHand
  <2>2. IsFiniteSet(1 .. Len(todo))
    BY <1>1, FS_Interval
  <2> QED
    BY <2>1, <2>2, FS_Subset
<1>6. Hands(todo, t) \in Nat
  BY <1>5, FS_CardinalityType DEF Hands
<1> QED
  BY <1>3, <1>4, <1>6 DEF Hands, Copies

(* The first call carries its task unless it is a tick. *)
LEMMA HandsHead ==
    ASSUME NEW todo \in Seq(CallRec), NEW r \in Seq(CallRec), NEW t \in Task,
           Len(todo) = Len(r) + 1,
           \A i \in 1 .. Len(r) : todo[i + 1] = r[i]
    PROVE  Hands(todo, t) = Hands(r, t) + One(Carried(todo[1]), t)
<1> DEFINE a == [i \in 1 .. Len(todo) |-> Carried(todo[i])]
           b == [i \in 1 .. Len(r) |-> Carried(r[i])]
<1>1. /\ a \in Seq(Task \cup {NoTask}) /\ Len(a) = Len(todo) /\ Hands(todo, t) = Copies(a, t)
      /\ b \in Seq(Task \cup {NoTask}) /\ Len(b) = Len(r) /\ Hands(r, t) = Copies(b, t)
  BY HandsCopies
<1>2. Len(r) \in Nat /\ 1 \in 1 .. Len(todo) /\ a[1] = Carried(todo[1])
  OBVIOUS
<1>3. \A i \in 1 .. Len(r) : b[i] = a[i + 1]
  BY <1>2
<1> HIDE DEF a, b
<1>4. Without(a, 1, b)
  BY <1>1, <1>2, <1>3 DEF Without
<1>5. Copies(a, t) = Copies(b, t) + One(a[1], t)
  BY <1>1, <1>4, OneLess
<1> QED
  BY <1>1, <1>2, <1>5

(* Calls that carry no task carry no copy of one. *)
LEMMA HandsNone ==
    ASSUME NEW todo \in Seq(CallRec), NEW t \in Task,
           \A i \in 1 .. Len(todo) : Carried(todo[i]) = NoTask
    PROVE  Hands(todo, t) = 0
<1>1. DOMAIN todo = 1 .. Len(todo)
  OBVIOUS
<1>2. InHand(todo, t) = {}
  BY <1>1, EngineAssumption DEF InHand, Carried
<1> QED
  BY <1>2, FS_EmptySet DEF Hands

(* After its first call a handler carries one copy of that call's task     *)
(* less.                                                                   *)
LEMMA HandsTail ==
    ASSUME Basic, calls # <<>>, NEW t \in Task
    PROVE  /\ Hands(calls, t) = Hands(Tail(calls), t) + One(Carried(Head(calls)), t)
           /\ Hands(calls, t) \in Nat /\ Hands(Tail(calls), t) \in Nat
<1>1. /\ calls \in Seq(CallRec) /\ Tail(calls) \in Seq(CallRec) /\ Head(calls) = calls[1]
      /\ Len(calls) = Len(Tail(calls)) + 1
      /\ \A i \in 1 .. Len(Tail(calls)) : Tail(calls)[i] = calls[i + 1]
  BY ShapedTail DEF Basic, Shaped
<1> DEFINE r == Tail(calls)
<1> HIDE DEF r
<1>2. /\ r \in Seq(CallRec) /\ Len(calls) = Len(r) + 1
      /\ \A i \in 1 .. Len(r) : calls[i + 1] = r[i]
  BY <1>1 DEF r
<1>3. Hands(calls, t) = Hands(r, t) + One(Carried(calls[1]), t)
  BY <1>1, <1>2, HandsHead
<1>4. Hands(calls, t) \in Nat /\ Hands(r, t) \in Nat
  BY <1>1, <1>2, HandsCopies
<1> QED
  BY <1>1, <1>3, <1>4 DEF r

(* Replacing the first call by one of no task takes the copy of its task. *)
LEMMA HandsThen ==
    ASSUME Basic, calls # <<>>, NEW t \in Task, NEW x \in CallRec,
           x.task = NoTask, x.op \in {"dispatch", "pick"}
    PROVE  Hands(<<x>> \o Tail(calls), t) = Hands(Tail(calls), t)
<1> DEFINE r == Tail(calls)
           s == <<x>> \o r
<1>1. r \in Seq(CallRec) /\ s \in Seq(CallRec) /\ Len(s) = Len(r) + 1 /\ s[1] = x
      /\ \A i \in 1 .. Len(r) : s[i + 1] = r[i]
  <2>1. r \in Seq(CallRec) /\ Len(r) \in Nat
    BY ShapedTail DEF Basic, Shaped
  <2>2. <<x>> \in Seq(CallRec) /\ Len(<<x>>) = 1 /\ <<x>>[1] = x
    OBVIOUS
  <2> HIDE DEF r
  <2>3. s \in Seq(CallRec) /\ Len(s) = 1 + Len(r)
        /\ \A i \in 1 .. 1 + Len(r) : s[i] = IF i <= 1 THEN <<x>>[i] ELSE r[i - 1]
    BY <2>1, <2>2, ConcatProperties
  <2> HIDE DEF s
  <2>4. \A i \in 1 .. Len(r) : i + 1 \in 1 .. 1 + Len(r) /\ ~(i + 1 <= 1) /\ i + 1 - 1 = i
    BY <2>1
  <2>5. 1 \in 1 .. 1 + Len(r)
    BY <2>1
  <2>6. \A i \in 1 .. Len(r) : s[i + 1] = r[i]
    BY <2>3, <2>4
  <2> QED
    BY <2>1, <2>2, <2>3, <2>5, <2>6
<1> HIDE DEF r, s
<1>2. Hands(s, t) = Hands(r, t) + One(Carried(s[1]), t)
  BY <1>1, HandsHead
<1>3. One(Carried(x), t) = 0
  BY EngineAssumption DEF One, Carried
<1>4. Hands(r, t) \in Nat
  BY <1>1, HandsCopies
<1> QED
  BY <1>1, <1>2, <1>3, <1>4 DEF r, s

(* A handler that has nothing to do carries no task. *)
LEMMA HandsEmpty == \A t : Hands(<<>>, t) = 0
BY FS_EmptySet DEF Hands, InHand

(* A single call carries one copy of its task. *)
LEMMA HandsOne ==
    ASSUME NEW x \in CallRec, NEW t \in Task
    PROVE  Hands(<<x>>, t) = One(Carried(x), t)
<1> DEFINE s == <<x>>
           r == Tail(s)
<1>1. s \in Seq(CallRec) /\ Len(s) = 1 /\ s[1] = x /\ s # <<>>
  OBVIOUS
<1> HIDE DEF s
<1>2. Tail(s) \in Seq(CallRec) /\ Len(Tail(s)) = 0
  <2>1. Tail(s) \in Seq(CallRec) /\ Len(Tail(s)) = Len(s) - 1
    BY <1>1, HeadTailProperties
  <2> QED
    BY <1>1, <2>1
<1> HIDE DEF r
<1>3. r \in Seq(CallRec) /\ Len(r) = 0 /\ \A i \in 1 .. Len(r) : s[i + 1] = r[i]
  BY <1>2 DEF r
<1>4. Hands(s, t) = Hands(r, t) + One(Carried(s[1]), t)
  <2>1. Len(s) = Len(r) + 1
    BY <1>1, <1>3
  <2> QED
    BY <1>1, <1>3, <2>1, HandsHead
<1>5. r = <<>>
  BY <1>3, EmptySeq
<1>6. One(Carried(x), t) \in Nat
  BY DEF One
<1> QED
  BY <1>1, <1>4, <1>5, <1>6, HandsEmpty DEF s

(* stop_and_reenqueue carries one copy of the task it stopped. *)
LEMMA HandsRequeue ==
    ASSUME NEW c \in Cpu, NEW u \in Task, NEW t \in Task
    PROVE  /\ Hands(<<Call("requeue", c, u), Dispatch(c)>>, t) = One(u, t)
           /\ \A op \in {"drainLocal", "takeDown"} :
                Hands(<<Call("requeue", c, u), Dispatch(c)>> \o <<Call(op, c, NoTask)>>, t) = One(u, t)
<1>1. /\ Carried(Call("requeue", c, u)) = u /\ Carried(Dispatch(c)) = NoTask
      /\ \A op \in {"drainLocal", "takeDown"} : Carried(Call(op, c, NoTask)) = NoTask
  BY DEF Call, Dispatch, Carried
<1>2. ASSUME NEW s \in Seq(CallRec), Len(s) \in {2, 3}, s[1] = Call("requeue", c, u), s[2] = Dispatch(c),
             Len(s) = 3 => Carried(s[3]) = NoTask
      PROVE  Hands(s, t) = One(u, t)
  <2> DEFINE r == Tail(s)
  <2>1. /\ r \in Seq(CallRec) /\ Len(s) = Len(r) + 1 /\ Len(r) \in {1, 2}
        /\ \A i \in 1 .. Len(r) : s[i + 1] = r[i]
    BY <1>2, HeadTailProperties, EmptySeq
  <2> HIDE DEF r
  <2>2. Hands(s, t) = Hands(r, t) + One(Carried(s[1]), t)
    BY <2>1, HandsHead
  <2>3. \A i \in 1 .. Len(r) : Carried(r[i]) = NoTask
    <3>1. \A i \in 1 .. Len(r) : i = 1 \/ (i = 2 /\ Len(s) = 3)
      BY <1>2, <2>1
    <3> QED
      BY <1>1, <1>2, <2>1, <3>1
  <2>4. Hands(r, t) = 0
    BY <2>1, <2>3, HandsNone
  <2>5. One(u, t) \in Nat
    BY DEF One
  <2> QED
    BY <1>1, <1>2, <2>2, <2>4, <2>5
<1>3. Hands(<<Call("requeue", c, u), Dispatch(c)>>, t) = One(u, t)
  <2> DEFINE s == <<Call("requeue", c, u), Dispatch(c)>>
  <2>1. s \in Seq(CallRec)
    BY ShapedRequeue DEF Shaped
  <2>2. Len(s) = 2 /\ s[1] = Call("requeue", c, u) /\ s[2] = Dispatch(c)
    OBVIOUS
  <2> HIDE DEF s
  <2>3. Hands(s, t) = One(u, t)
    BY <2>1, <2>2, <1>2
  <2> QED
    BY <2>3 DEF s
<1>4. ASSUME NEW op \in {"drainLocal", "takeDown"}
      PROVE  Hands(<<Call("requeue", c, u), Dispatch(c)>> \o <<Call(op, c, NoTask)>>, t) = One(u, t)
  <2> DEFINE s == <<Call("requeue", c, u), Dispatch(c)>> \o <<Call(op, c, NoTask)>>
  <2>1. \A ds : Shaped(s, ds)
    BY ShapedRequeue
  <2>2. Len(s) = 3 /\ s[1] = Call("requeue", c, u) /\ s[2] = Dispatch(c) /\ s[3] = Call(op, c, NoTask)
    BY ShapedRequeue
  <2> HIDE DEF s
  <2>3. s \in Seq(CallRec)
    BY <2>1 DEF Shaped
  <2>4. Hands(s, t) = One(u, t)
    BY <2>2, <2>3, <1>1, <1>2
  <2> QED
    BY <2>4 DEF s
<1> QED
  BY <1>3, <1>4

(* Dispatches carry no task. *)
LEMMA HandsDispatches ==
    ASSUME NEW todo, IsDispatchOf(todo, IdleCpus), NEW t \in Task
    PROVE  Hands(todo, t) = 0
<1>1. IdleCpus \in SUBSET Cpu
  BY DEF IdleCpus
<1>2. \A ds : Shaped(todo, ds)
  BY <1>1, ShapedDispatches
<1>3. \A i \in 1 .. Len(todo) : todo[i].op = "dispatch" /\ todo[i].task = NoTask
  BY <1>1, ShapedDispatches
<1>4. todo \in Seq(CallRec) /\ \A i \in 1 .. Len(todo) : Carried(todo[i]) = NoTask
  BY <1>2, <1>3 DEF Shaped, Carried
<1> QED
  BY <1>4, HandsNone

(* The drain of a queue carries the copies that were in the queue. *)
LEMMA HandsDrain ==
    ASSUME NEW c \in Cpu, NEW queue \in Seq(Task), NEW t \in Task
    PROVE  Hands([i \in DOMAIN queue |-> Call("drain", c, queue[i])] \o <<Call("takeDown", c, NoTask)>>, t)
             = Copies(queue, t)
<1> DEFINE s == [i \in DOMAIN queue |-> Call("drain", c, queue[i])] \o <<Call("takeDown", c, NoTask)>>
           n == Len(queue)
<1>1. n \in Nat /\ DOMAIN queue = 1 .. n
  OBVIOUS
<1>2. \A ds : Shaped(s, ds)
  BY ShapedDrain
<1>3. /\ Len(s) = n + 1
      /\ \A i \in 1 .. n : s[i] = Call("drain", c, queue[i])
      /\ s[n + 1] = Call("takeDown", c, NoTask)
  BY ShapedDrain
<1> HIDE DEF s, n
<1>4. s \in Seq(CallRec)
  BY <1>2 DEF Shaped
<1>5. DOMAIN s = 1 .. n + 1
  BY <1>3, <1>4
<1>6. ASSUME NEW i \in 1 .. n
      PROVE  s[i].op = "drain" /\ s[i].task = queue[i]
  <2>1. queue[i] \in Task
    BY <1>1
  <2>2. /\ Call("drain", c, queue[i]).op = "drain"
        /\ Call("drain", c, queue[i]).task = queue[i]
    BY DEF Call
  <2> QED
    BY <1>3, <2>2
<1>7. s[n + 1].task = NoTask
  <2>1. Call("takeDown", c, NoTask).task = NoTask
    BY DEF Call
  <2> QED
    BY <1>3, <2>1
<1>8. InHand(s, t) = Positions(queue, t)
  BY <1>1, <1>5, <1>6, <1>7, EngineAssumption DEF InHand, Positions
<1> QED
  BY <1>8 DEF Hands, Copies, s

-----------------------------------------------------------------------------
(* Every runnable task is accounted for. *)

(* The places in which a task waits, but for the handler's hands.          *)
InQueues(cs, ds, t) ==
    Cardinality(OnLocal(cs, t)) + Copies(ds.global, t) + Copies(ds.shared, t)

(* The copies of t with the scheduler, on the CPUs and due, and those that *)
(* wait somewhere.                                                         *)
AtHold(h, t) == Cardinality({t} \cap h)

OnCpus(cs, t) == Cardinality(OnCpu(cs, t))

Due(t) == IF tasks[t].state \in {"Runnable", "Running"} THEN 1 ELSE 0

Waiting(t) == InQueues(cpus, dsqs, t) + AtHold(held, t) + Hands(calls, t)

(* With n copies elsewhere, a task that is due is in one place, unless the *)
(* run has failed and lost it; a running one is on a CPU.                  *)
Counted(t, n) ==
    /\ OnCpus(cpus, t) + Waiting(t) + n <= Due(t)
    /\ ~failed => OnCpus(cpus, t) + Waiting(t) + n = Due(t)
    /\ tasks[t].state = "Running" <=> OnCpus(cpus, t) = 1

(* There is no other place. *)
Accounted(t) == Counted(t, 0)

(* The copies in the queues are counted by a natural number. *)
LEMMA InQueuesTypes ==
    ASSUME NEW cs \in [Cpu -> CpuRec], NEW ds \in [global : Seq(Task), shared : Seq(Task)], NEW t
    PROVE  /\ InQueues(cs, ds, t) \in Nat
           /\ Cardinality(OnLocal(cs, t)) \in Nat
           /\ Copies(ds.global, t) \in Nat /\ Copies(ds.shared, t) \in Nat
<1>1. ds.global \in Seq(Task) /\ ds.shared \in Seq(Task)
  OBVIOUS
<1>2. Copies(ds.global, t) \in Nat /\ Copies(ds.shared, t) \in Nat
  BY <1>1, PositionsFinite
<1>3. Cardinality(OnLocal(cs, t)) \in Nat
  BY OnLocalFinite
<1> QED
  BY <1>2, <1>3 DEF InQueues

(* The scheduler holds a task once or not at all. *)
LEMMA AtHoldIs == \A h, t : AtHold(h, t) = IF t \in h THEN 1 ELSE 0
<1> SUFFICES ASSUME NEW h, NEW t
             PROVE  AtHold(h, t) = IF t \in h THEN 1 ELSE 0
  OBVIOUS
<1>1. CASE t \in h
  <2>1. {t} \cap h = {t}
    BY <1>1
  <2> QED
    BY <1>1, <2>1, FS_Singleton DEF AtHold
<1>2. CASE t \notin h
  <2>1. {t} \cap h = {}
    BY <1>2
  <2> QED
    BY <1>2, <2>1, FS_EmptySet DEF AtHold
<1> QED
  BY <1>1, <1>2

(* The CPUs that run a task are counted by a natural number, zero when     *)
(* none does.                                                              *)
LEMMA OnCpusTypes ==
    ASSUME NEW cs, NEW t
    PROVE  OnCpus(cs, t) \in Nat /\ (OnCpus(cs, t) = 0 <=> \A c \in Cpu : cs[c].current # t)
<1>1. IsFiniteSet(Cpu)
  BY FS_Interval, EngineAssumption DEF Cpu
<1>2. OnCpu(cs, t) \in SUBSET Cpu
  BY DEF OnCpu
<1>3. IsFiniteSet(OnCpu(cs, t))
  BY <1>1, <1>2, FS_Subset
<1>4. OnCpus(cs, t) = 0 <=> OnCpu(cs, t) = {}
  BY <1>3, FS_EmptySet DEF OnCpus
<1> QED
  BY <1>3, <1>4, FS_CardinalityType DEF OnCpus, OnCpu

(* A CPU runs another task: OnCpuChange, counted. *)
LEMMA OnCpusChange ==
    ASSUME NEW cs, NEW ds, NEW c \in Cpu, NEW t,
           \A k \in Cpu : k # c => ds[k].current = cs[k].current
    PROVE  OnCpus(ds, t) + One(cs[c].current, t) = OnCpus(cs, t) + One(ds[c].current, t)
BY OnCpuChange DEF OnCpus

(* The same, of any two states ... *)
LEMMA OnCpusAny ==
    ASSUME NEW c \in Cpu, NEW t
    PROVE  \A cs, ds : (\A k \in Cpu : k # c => ds[k].current = cs[k].current) =>
              OnCpus(ds, t) + One(cs[c].current, t) = OnCpus(cs, t) + One(ds[c].current, t)
<1> SUFFICES ASSUME NEW cs, NEW ds, \A k \in Cpu : k # c => ds[k].current = cs[k].current
             PROVE  OnCpus(ds, t) + One(cs[c].current, t) = OnCpus(cs, t) + One(ds[c].current, t)
  OBVIOUS
<1> QED
  BY OnCpusChange

(* ... and of a step. *)
LEMMA OnCpusStep ==
    ASSUME NEW c \in Cpu, NEW t, \A k \in Cpu : k # c => cpus'[k].current = cpus[k].current
    PROVE  OnCpus(cpus', t) + One(cpus[c].current, t) = OnCpus(cpus, t) + One(cpus'[c].current, t)
<1>1. \A cs, ds : (\A k \in Cpu : k # c => ds[k].current = cs[k].current) =>
         OnCpus(ds, t) + One(cs[c].current, t) = OnCpus(cs, t) + One(ds[c].current, t)
  BY OnCpusAny
<1> QED
  BY <1>1

(* The copies that wait are counted by a natural number. *)
LEMMA WaitingTypes ==
    ASSUME Basic, NEW t \in Task
    PROVE  /\ OnCpus(cpus, t) \in Nat /\ InQueues(cpus, dsqs, t) \in Nat
           /\ AtHold(held, t) \in Nat /\ Hands(calls, t) \in Nat
           /\ Waiting(t) \in Nat
<1>1. cpus \in [Cpu -> CpuRec] /\ dsqs \in [global : Seq(Task), shared : Seq(Task)] /\ calls \in Seq(CallRec)
  BY DEF Basic, Shaped
<1>2. OnCpus(cpus, t) \in Nat
  BY OnCpusTypes
<1>3. InQueues(cpus, dsqs, t) \in Nat
  BY <1>1, InQueuesTypes
<1>4. AtHold(held, t) \in Nat
  BY AtHoldIs
<1>5. Hands(calls, t) \in Nat
  BY <1>1, HandsCopies
<1> QED
  BY <1>2, <1>3, <1>4, <1>5 DEF Waiting

(* Nothing moves. *)
LEMMA Unmoved ==
    ASSUME NEW t \in Task, NEW n \in Nat, Counted(t, n),
           \A k \in Cpu : cpus'[k].current = cpus[k].current /\ cpus'[k].local = cpus[k].local,
           UNCHANGED <<dsqs, held, failed>>, tasks'[t].state = tasks[t].state,
           Hands(calls', t) = Hands(calls, t)
    PROVE  Counted(t, n)'
<1>1. OnCpus(cpus', t) = OnCpus(cpus, t)
  BY OnCpuSame DEF OnCpus
<1>2. OnLocal(cpus', t) = OnLocal(cpus, t)
  BY OnLocalSame
<1>3. InQueues(cpus', dsqs', t) = InQueues(cpus, dsqs, t)
  BY <1>2 DEF InQueues
<1>4. Waiting(t)' = Waiting(t) /\ Due(t)' = Due(t)
  BY <1>3 DEF Waiting, Due
<1> QED
  BY <1>1, <1>4 DEF Counted

(* A task that is accounted for is in its place, and nowhere else. *)
LEMMA AccountedIs ==
    ASSUME Basic, NEW t \in Task, Accounted(t)
    PROVE  /\ OnCpus(cpus, t) + Waiting(t) <= Due(t)
           /\ ~failed => OnCpus(cpus, t) + Waiting(t) = Due(t)
           /\ tasks[t].state = "Running" <=> OnCpus(cpus, t) = 1
<1>1. OnCpus(cpus, t) \in Nat /\ Waiting(t) \in Nat
  BY WaitingTypes
<1>2. OnCpus(cpus, t) + Waiting(t) + 0 = OnCpus(cpus, t) + Waiting(t)
  BY <1>1
<1> QED
  BY <1>2 DEF Accounted, Counted

(* A task is nowhere but on one CPU, if it is there. *)
LEMMA OnlyThere ==
    ASSUME Basic, NEW c \in Cpu, NEW t \in Task, cpus[c].current = t,
           NEW n \in Nat, Counted(t, n)
    PROVE  /\ OnCpus(cpus, t) = 1 /\ InQueues(cpus, dsqs, t) = 0 /\ AtHold(held, t) = 0
           /\ Hands(calls, t) = 0 /\ Waiting(t) = 0 /\ t \notin held
           /\ tasks[t].state = "Running" /\ n = 0
<1>1. OnCpus(cpus, t) # 0
  BY OnCpusTypes
<1>2. /\ OnCpus(cpus, t) \in Nat /\ InQueues(cpus, dsqs, t) \in Nat
      /\ AtHold(held, t) \in Nat /\ Hands(calls, t) \in Nat
      /\ Waiting(t) = InQueues(cpus, dsqs, t) + AtHold(held, t) + Hands(calls, t)
  BY WaitingTypes DEF Waiting
<1>3. OnCpus(cpus, t) + Waiting(t) + n <= 1
  <2>1. Due(t) \in {0, 1}
    BY DEF Due
  <2>2. OnCpus(cpus, t) + Waiting(t) + n <= Due(t)
    BY DEF Counted
  <2>3. Waiting(t) \in Nat
    BY WaitingTypes
  <2> QED
    BY <1>2, <2>1, <2>2, <2>3
<1>4. OnCpus(cpus, t) = 1 /\ Waiting(t) = 0 /\ n = 0
  BY <1>1, <1>2, <1>3, WaitingTypes
<1>5. InQueues(cpus, dsqs, t) = 0 /\ AtHold(held, t) = 0 /\ Hands(calls, t) = 0
  BY <1>2, <1>4
<1> QED
  BY <1>4, <1>5, AtHoldIs DEF Counted

(* A stopped task leaves its one CPU: it is in hand if it is still         *)
(* runnable, and nowhere otherwise.                                        *)
LEMMA StopAccounts ==
    ASSUME Basic, Basic', NEW c \in Cpu, NEW now \in Nat, NEW t \in Task, cpus[c].current = t,
           cpus' = Stop(c, now), dsqs' = dsqs, held' \in {held, held \ {t}}, failed' = failed,
           \A u \in Task : u # t => tasks'[u].state = tasks[u].state,
           tasks'[t].state \in {"Runnable", "Sleeping", "Exited"},
           NEW u \in Task, NEW n \in Nat, Counted(u, n), Hands(calls, u) = 0,
           Hands(calls', u) = IF tasks'[t].state = "Runnable" THEN One(t, u) ELSE 0
    PROVE  Counted(u, n)'
<1>1. /\ \A k \in Cpu : k # c => cpus'[k] = cpus[k]
      /\ cpus'[c].current = NoTask /\ cpus'[c].local = cpus[c].local
  BY StopTypes
<1>0. /\ \A k \in Cpu : cpus'[k].local = cpus[k].local
      /\ \A k \in Cpu : k # c => cpus'[k].current = cpus[k].current
  BY <1>1
<1>2. OnLocal(cpus', u) = OnLocal(cpus, u)
  BY <1>0, OnLocalSame
<1>3. InQueues(cpus', dsqs', u) = InQueues(cpus, dsqs, u)
  BY <1>2 DEF InQueues
<1>4. One(NoTask, u) = 0
  BY EngineAssumption DEF One
<1>5. /\ OnCpus(cpus, u) \in Nat /\ OnCpus(cpus', u) \in Nat
      /\ OnCpus(cpus', u) + One(t, u) = OnCpus(cpus, u)
  <2>1. OnCpus(cpus', u) + One(cpus[c].current, u) = OnCpus(cpus, u) + One(cpus'[c].current, u)
    BY <1>0, OnCpusStep, Zenon
  <2>2. OnCpus(cpus, u) \in Nat /\ OnCpus(cpus', u) \in Nat
    BY OnCpusTypes
  <2> QED
    BY <1>1, <1>4, <2>1, <2>2
<1>6. CASE u = t
  <2>1. /\ OnCpus(cpus, t) = 1 /\ InQueues(cpus, dsqs, t) = 0 /\ t \notin held /\ n = 0
    BY <1>6, OnlyThere
  <2>2. One(t, u) = 1
    BY <1>6 DEF One
  <2>3. OnCpus(cpus', u) = 0
    BY <1>5, <1>6, <2>1, <2>2
  <2>4. AtHold(held', u) = 0
    BY <1>6, <2>1, AtHoldIs
  <2>5. Waiting(u)' = Due(u)'
    BY <1>3, <1>6, <2>1, <2>2, <2>4 DEF Waiting, Due
  <2>6. Due(u)' \in {0, 1}
    BY DEF Due
  <2>7. tasks'[u].state # "Running"
    BY <1>6
  <2> QED
    BY <2>1, <2>3, <2>5, <2>6, <2>7 DEF Counted
<1>7. CASE u # t
  <2>1. One(t, u) = 0
    BY <1>7 DEF One
  <2>2. OnCpus(cpus', u) = OnCpus(cpus, u)
    BY <1>5, <2>1
  <2>3. AtHold(held', u) = AtHold(held, u)
    BY <1>7, AtHoldIs
  <2>4. Hands(calls', u) = Hands(calls, u)
    BY <2>1
  <2>5. Waiting(u)' = Waiting(u) /\ Due(u)' = Due(u) /\ tasks'[u].state = tasks[u].state
    BY <1>3, <1>7, <2>3, <2>4 DEF Waiting, Due
  <2> QED
    BY <2>2, <2>5 DEF Counted
<1> QED
  BY <1>6, <1>7

(* Where a delivered task is counted. *)
LEMMA DeliverCounts ==
    ASSUME Basic, Basic', NEW cs \in [Cpu -> CpuRec],
           \A k \in Cpu : cs[k].current = cpus[k].current /\ cs[k].local = cpus[k].local,
           NEW u \in Task, NEW d \in DsqId, NEW c \in Cpu, Deliver(cs, u, d, c), NEW t \in Task
    PROVE  /\ OnCpus(cpus', t) = OnCpus(cpus, t)
           /\ \/ /\ InQueues(cpus', dsqs', t) = InQueues(cpus, dsqs, t) + One(u, t)
                 /\ failed' = failed /\ (Direct(u, d) \/ d \in {Global, Shared})
              \/ InQueues(cpus', dsqs', t) = InQueues(cpus, dsqs, t) /\ Rejected(u, d) /\ failed' = TRUE
<1>0. /\ cpus \in [Cpu -> CpuRec] /\ cpus' \in [Cpu -> CpuRec]
      /\ dsqs \in [global : Seq(Task), shared : Seq(Task)]
      /\ dsqs' \in [global : Seq(Task), shared : Seq(Task)]
  BY DEF Basic
<1>1. \A k \in Cpu : cpus'[k].current = cpus[k].current
  <2>1. \A k \in Cpu : cpus'[k].current = cs[k].current
    BY Delivered
  <2> QED
    BY <2>1
<1>2. OnCpus(cpus', t) = OnCpus(cpus, t)
  BY <1>1, OnCpuSame DEF OnCpus
<1>3. /\ Cardinality(OnLocal(cpus, t)) \in Nat /\ Cardinality(OnLocal(cpus', t)) \in Nat
      /\ Copies(dsqs.global, t) \in Nat /\ Copies(dsqs.shared, t) \in Nat
      /\ Copies(dsqs'.global, t) \in Nat /\ Copies(dsqs'.shared, t) \in Nat
      /\ One(u, t) \in Nat
  BY <1>0, InQueuesTypes DEF One
<1>4. OnLocal(cs, t) = OnLocal(cpus, t)
  BY OnLocalSame
<1>5. CASE LET l == LandsOn(d, c) IN
           /\ Direct(u, d) /\ l \in Cpu /\ dsqs' = dsqs /\ failed' = failed
           /\ cpus'[l].local = Append(cs[l].local, u)
           /\ \A k \in Cpu : k # l => cpus'[k].local = cs[k].local
  <2> DEFINE l == LandsOn(d, c)
             ds == cpus'
  <2>1. /\ l \in Cpu /\ dsqs' = dsqs /\ failed' = failed /\ ds \in [Cpu -> CpuRec]
        /\ ds[l].local = Append(cs[l].local, u)
        /\ \A k \in Cpu : k # l => ds[k].local = cs[k].local
    BY <1>0, <1>5
  <2> HIDE DEF l, ds
  <2>2. Cardinality(OnLocal(ds, t)) + Copies(cs[l].local, t) = Cardinality(OnLocal(cs, t)) + Copies(ds[l].local, t)
    BY <2>1, OnLocalChange
  <2>3. cs[l].local \in Seq(Task)
    BY <2>1 DEF CpuRec
  <2>4. Copies(ds[l].local, t) = Copies(cs[l].local, t) + One(u, t) /\ Copies(cs[l].local, t) \in Nat
    BY <2>1, <2>3, CopiesAppend, PositionsFinite
  <2>5. Cardinality(OnLocal(ds, t)) = Cardinality(OnLocal(cpus, t)) + One(u, t)
    BY <1>3, <1>4, <2>2, <2>4 DEF ds
  <2>6. InQueues(cpus', dsqs', t) = InQueues(cpus, dsqs, t) + One(u, t)
    BY <1>3, <2>1, <2>5 DEF InQueues, ds
  <2> QED
    BY <1>2, <1>5, <2>1, <2>6
<1>6. CASE Rejected(u, d) /\ failed' = TRUE /\ cpus' = cs /\ dsqs' = dsqs
  <2>1. InQueues(cpus', dsqs', t) = InQueues(cpus, dsqs, t)
    BY <1>4, <1>6 DEF InQueues
  <2> QED
    BY <1>2, <1>6, <2>1
<1>7. CASE /\ ~Direct(u, d) /\ cpus' = cs /\ failed' = failed
           /\ \/ d = Global /\ dsqs'.global = Append(dsqs.global, u) /\ dsqs'.shared = dsqs.shared
              \/ d = Shared /\ dsqs'.shared = Append(dsqs.shared, u) /\ dsqs'.global = dsqs.global
  <2>1. /\ Copies(Append(dsqs.global, u), t) = Copies(dsqs.global, t) + One(u, t)
        /\ Copies(Append(dsqs.shared, u), t) = Copies(dsqs.shared, t) + One(u, t)
    <3>1. dsqs.global \in Seq(Task) /\ dsqs.shared \in Seq(Task)
      BY <1>0
    <3> QED
      BY <3>1, CopiesAppend
  <2>2. Copies(dsqs'.global, t) + Copies(dsqs'.shared, t)
          = Copies(dsqs.global, t) + Copies(dsqs.shared, t) + One(u, t)
    <3>1. CASE dsqs'.global = Append(dsqs.global, u) /\ dsqs'.shared = dsqs.shared
      <4>1. Copies(dsqs'.global, t) = Copies(dsqs.global, t) + One(u, t)
        BY <2>1, <3>1
      <4>2. Copies(dsqs'.shared, t) = Copies(dsqs.shared, t)
        BY <3>1
      <4> QED
        BY <1>3, <4>1, <4>2
    <3>2. CASE dsqs'.shared = Append(dsqs.shared, u) /\ dsqs'.global = dsqs.global
      <4>1. Copies(dsqs'.shared, t) = Copies(dsqs.shared, t) + One(u, t)
        BY <2>1, <3>2
      <4>2. Copies(dsqs'.global, t) = Copies(dsqs.global, t)
        BY <3>2
      <4> QED
        BY <1>3, <4>1, <4>2
    <3> QED
      BY <1>7, <3>1, <3>2
  <2>3. OnLocal(cpus', t) = OnLocal(cpus, t)
    BY <1>4, <1>7
  <2>4. InQueues(cpus', dsqs', t) = InQueues(cpus, dsqs, t) + One(u, t)
    BY <1>3, <2>2, <2>3 DEF InQueues
  <2> QED
    BY <1>2, <1>7, <2>4
<1>8. \/ LET l == LandsOn(d, c) IN
         /\ Direct(u, d) /\ l \in Cpu /\ dsqs' = dsqs /\ failed' = failed
         /\ cpus'[l].local = Append(cs[l].local, u)
         /\ \A k \in Cpu : k # l => cpus'[k].local = cs[k].local
      \/ Rejected(u, d) /\ failed' = TRUE /\ cpus' = cs /\ dsqs' = dsqs
      \/ /\ ~Direct(u, d) /\ cpus' = cs /\ failed' = failed
         /\ \/ d = Global /\ dsqs'.global = Append(dsqs.global, u) /\ dsqs'.shared = dsqs.shared
            \/ d = Shared /\ dsqs'.shared = Append(dsqs.shared, u) /\ dsqs'.global = dsqs.global
  BY Delivered
<1> QED
  BY <1>5, <1>6, <1>7, <1>8

(* A dispatch, the end of a CPU and a tick carry no task. *)
LEMMA HandsIdle ==
    ASSUME NEW c \in Cpu, NEW t \in Task
    PROVE  /\ Hands(<<Dispatch(c)>>, t) = 0
           /\ \A u \in Task : Hands(<<Call("tick", c, u)>>, t) = 0
           /\ \A op \in {"drainLocal", "takeDown"} : Hands(<<Call(op, c, NoTask)>>, t) = 0
<1>1. One(NoTask, t) = 0
  BY EngineAssumption DEF One
<1>2. ASSUME NEW op \in {"dispatch", "drainLocal", "takeDown", "tick"}, NEW u \in Task \cup {NoTask},
             op # "tick" => u = NoTask
      PROVE  Hands(<<Call(op, c, u)>>, t) = 0
  <2>1. Call(op, c, u) \in CallRec
    BY DEF Call, CallRec, CallOp
  <2>2. Carried(Call(op, c, u)) = NoTask
    BY <1>2 DEF Carried, Call
  <2>3. Hands(<<Call(op, c, u)>>, t) = One(Carried(Call(op, c, u)), t)
    BY <2>1, HandsOne
  <2> QED
    BY <1>1, <2>2, <2>3
<1> QED
  BY <1>2 DEF Dispatch

(* A handler that stops and starts no task. *)
LEMMA PassKeeps ==
    ASSUME Basic, NEW e \in DOMAIN events,
           Ignore(e) \/ KickDispatch(e) \/ Tick(e) \/ CpuReturns(e)
             \/ (CpuLeaves(e) /\ cpus[e.cpu].current = NoTask)
    PROVE  /\ calls = <<>> /\ UNCHANGED <<dsqs, held, failed, tasks>> /\ e.cpu \in Cpu
           /\ \A k \in Cpu : cpus'[k].current = cpus[k].current /\ cpus'[k].local = cpus[k].local
<1>1. e.cpu \in Cpu /\ e.time \in Nat
  BY DEF Basic, NewEvents, IsBagOf, Event
<1>2. /\ calls = <<>> /\ UNCHANGED <<dsqs, held, failed, tasks>>
      /\ \/ cpus' = Advance(e.cpu, e.time)
         \/ cpus' = [Advance(e.cpu, e.time) EXCEPT ![e.cpu].online = TRUE]
  BY DEF Ignore, KickDispatch, Tick, CpuReturns, CpuLeaves, Take, Pop
<1>3. ASSUME NEW k \in Cpu
      PROVE  cpus'[k].current = cpus[k].current /\ cpus'[k].local = cpus[k].local
  <2> DEFINE A == Advance(e.cpu, e.time)
  <2>1. A \in [Cpu -> CpuRec] /\ A[k].current = cpus[k].current /\ A[k].local = cpus[k].local
    BY <1>1, AdvanceTypes
  <2> HIDE DEF A
  <2>2. cpus' = A \/ cpus' = [A EXCEPT ![e.cpu].online = TRUE]
    BY <1>2 DEF A
  <2> DEFINE x == [A[e.cpu] EXCEPT !.online = TRUE]
  <2>3. A[e.cpu] \in CpuRec
    BY <1>1, <2>1
  <2>4. x.current = A[e.cpu].current /\ x.local = A[e.cpu].local
    BY <2>3 DEF CpuRec
  <2> HIDE DEF x
  <2>5. cpus' = A \/ cpus' = [A EXCEPT ![e.cpu] = x]
    BY <2>2 DEF x
  <2>6. cpus'[k] = A[k] \/ (k = e.cpu /\ cpus'[k] = x)
    BY <1>1, <2>1, <2>5
  <2> QED
    BY <2>1, <2>4, <2>6
<1> QED
  BY <1>1, <1>2, <1>3

(* ... and so each task stays accounted for. *)
LEMMA PassAccounts ==
    ASSUME Basic, NEW e \in DOMAIN events,
           Ignore(e) \/ KickDispatch(e) \/ Tick(e) \/ CpuReturns(e)
             \/ (CpuLeaves(e) /\ cpus[e.cpu].current = NoTask),
           NEW t \in Task, NEW n \in Nat, Counted(t, n)
    PROVE  Counted(t, n)'
<1>1. /\ calls = <<>> /\ UNCHANGED <<dsqs, held, failed, tasks>> /\ e.cpu \in Cpu
      /\ \A k \in Cpu : cpus'[k].current = cpus[k].current /\ cpus'[k].local = cpus[k].local
  BY PassKeeps
<1>2. \/ calls' = <<>> \/ calls' = <<Dispatch(e.cpu)>>
      \/ \E u \in Task : calls' = <<Call("tick", e.cpu, u)>>
      \/ \E op \in {"drainLocal", "takeDown"} : calls' = <<Call(op, e.cpu, NoTask)>>
  <2>1. CASE Ignore(e) \/ KickDispatch(e) \/ CpuReturns(e)
    BY <1>1, <2>1 DEF Ignore, KickDispatch, CpuReturns
  <2>2. CASE Tick(e)
    BY <1>1, <2>2, OnTask DEF Tick
  <2>3. CASE CpuLeaves(e) /\ cpus[e.cpu].current = NoTask
    BY <2>3 DEF CpuLeaves, Leaving
  <2> QED
    BY <2>1, <2>2, <2>3
<1>3. Hands(calls', t) = 0
  BY <1>1, <1>2, HandsIdle, HandsEmpty, ZenonT(30)
<1>4. Hands(calls, t) = 0
  BY <1>1, HandsEmpty
<1>5. tasks'[t].state = tasks[t].state
  BY <1>1
<1> QED
  BY <1>1, <1>3, <1>4, <1>5, Unmoved

(* A handler that stops the task of its CPU and asks ops.enqueue. *)
LEMMA EventStops ==
    ASSUME Basic, NEW e \in DOMAIN events,
           SliceExpired(e) \/ KickPreempt(e) \/ (CpuLeaves(e) /\ cpus[e.cpu].current # NoTask)
    PROVE  LET c == e.cpu
               t == cpus[c].current
               now == Now(c, e.time)
           IN  /\ c \in Cpu /\ t \in Task /\ now \in Nat /\ calls = <<>> /\ failed' = failed
               /\ cpus' = Stop(c, now) /\ dsqs' = dsqs /\ held' = held
               /\ \A v \in Task : v # t => tasks'[v].state = tasks[v].state
               /\ tasks'[t].state = "Runnable"
<1> DEFINE c == e.cpu
           t == cpus[c].current
           now == Now(c, e.time)
<1>1. c \in Cpu /\ e.time \in Nat
  BY DEF Basic, NewEvents, IsBagOf, Event
<1>2. now \in Nat
  BY <1>1, NowTypes
<1>3. t # NoTask /\ calls = <<>> /\ failed' = failed
  BY DEF SliceExpired, KickPreempt, CpuLeaves, Take, Pop
<1>4. t \in Task
  BY <1>1, <1>3, OnTask
<1>5. \E consumed, left : StopAndReenqueue(c, now, consumed, left)
  BY <1>3 DEF SliceExpired, KickPreempt, CpuLeaves, PreemptCurrent
<1>6. /\ cpus' = Stop(c, now) /\ dsqs' = dsqs /\ held' = held
      /\ \A v \in Task : v # t => tasks'[v].state = tasks[v].state
      /\ tasks'[t].state = "Runnable"
  <2>1. PICK consumed, left : StopAndReenqueue(c, now, consumed, left)
    BY <1>5
  <2>2. cpus' = Stop(c, now) /\ dsqs' = dsqs /\ held' = held
    BY <2>1, ZenonT(30) DEF StopAndReenqueue
  <2>3. tasks' = [tasks EXCEPT ![t].state = "Runnable", ![t].slice = left,
                               ![t].remaining = Monus(@, consumed), ![t].ops = "Queued"]
    BY <2>1, Zenon DEF StopAndReenqueue
  <2>4. tasks \in [Task -> TaskRec]
    BY DEF Basic
  <2> HIDE DEF t
  <2>5. \A v \in Task : v # t => tasks'[v] = tasks[v]
    BY <1>4, <2>3, <2>4
  <2>6. tasks'[t].state = "Runnable"
    BY <1>4, <2>3, <2>4 DEF TaskRec
  <2> QED
    BY <2>2, <2>5, <2>6
<1> QED
  BY <1>1, <1>2, <1>3, <1>4, <1>6

(* ... and takes it in hand. *)
LEMMA StopEventAccounts ==
    ASSUME Basic, Basic', NEW e \in DOMAIN events,
           SliceExpired(e) \/ KickPreempt(e) \/ (CpuLeaves(e) /\ cpus[e.cpu].current # NoTask),
           NEW u \in Task, NEW n \in Nat, Counted(u, n)
    PROVE  Counted(u, n)'
<1> DEFINE c == e.cpu
           t == cpus[c].current
           now == Now(c, e.time)
<1>1. /\ c \in Cpu /\ t \in Task /\ now \in Nat /\ calls = <<>> /\ failed' = failed
      /\ cpus' = Stop(c, now) /\ dsqs' = dsqs /\ held' = held
      /\ \A v \in Task : v # t => tasks'[v].state = tasks[v].state
      /\ tasks'[t].state = "Runnable"
  BY EventStops
<1>2. t # NoTask
  BY <1>1, EngineAssumption
<1>3. \/ calls' = Reenqueue(c)
      \/ \E op \in {"drainLocal", "takeDown"} : calls' = Reenqueue(c) \o <<Call(op, c, NoTask)>>
  BY <1>2 DEF SliceExpired, KickPreempt, CpuLeaves, Leaving
<1>4. Hands(calls', u) = One(t, u)
  <2>1. CASE calls' = Reenqueue(c)
    BY <1>1, <2>1, HandsRequeue DEF Reenqueue
  <2>2. CASE \E op \in {"drainLocal", "takeDown"} : calls' = Reenqueue(c) \o <<Call(op, c, NoTask)>>
    BY <1>1, <2>2, HandsRequeue, ZenonT(30) DEF Reenqueue
  <2> QED
    BY <1>3, <2>1, <2>2
<1>5. Hands(calls, u) = 0
  BY <1>1, HandsEmpty
<1> HIDE DEF c, t, now
<1>6. cpus[c].current = t
  BY DEF t
<1> QED
  BY <1>1, <1>4, <1>5, <1>6, StopAccounts

(* A task has done its phase: it leaves, or comes back in hand.            *)
LEMMA PhaseAccounts ==
    ASSUME Basic, Basic', NEW e \in DOMAIN events, PhaseComplete(e),
           NEW u \in Task, NEW n \in Nat, Counted(u, n)
    PROVE  Counted(u, n)'
<1> DEFINE c == e.cpu
           t == cpus[c].current
           now == Now(c, e.time)
<1>1. c \in Cpu /\ now \in Nat /\ t \in Task
  BY Completed
<1>2. PICK q \in Nat : \E pushed :
        LET run == PhaseAt(t, q).kind = "Run" IN
        /\ NewEvents(pushed)
        /\ Pop(e, pushed)
        /\ IF run THEN calls' = Reenqueue(c) /\ staged' = staged
           ELSE calls' = <<Dispatch(c)>> /\ staged' = EmptyBag /\ DOMAIN staged \subseteq DOMAIN pushed
        /\ failed' = failed /\ dsqs' = dsqs
        /\ cpus' = Stop(c, now)
        /\ \A v \in Task : v # t => tasks'[v] = tasks[v] /\ unserved'[v] = unserved[v]
        /\ tasks'[t].state = StateIn(PhaseAt(t, q))
        /\ held' \in {held, held \ {t}}
        /\ StateIn(PhaseAt(t, q)) \in {"Runnable", "Sleeping", "Exited"}
        /\ StateIn(PhaseAt(t, q)) = "Runnable" <=> run
  BY Completed
<1>3. calls = <<>>
  BY <1>2 DEF Pop
<1>4. Hands(calls, u) = 0
  BY <1>3, HandsEmpty
<1>5. Hands(calls', u) = IF tasks'[t].state = "Runnable" THEN One(t, u) ELSE 0
  <2>1. CASE PhaseAt(t, q).kind = "Run"
    BY <1>1, <1>2, <2>1, HandsRequeue DEF Reenqueue
  <2>2. CASE PhaseAt(t, q).kind # "Run"
    BY <1>1, <1>2, <2>2, HandsIdle
  <2> QED
    BY <2>1, <2>2
<1>6. /\ cpus' = Stop(c, now) /\ dsqs' = dsqs /\ failed' = failed /\ held' \in {held, held \ {t}}
      /\ \A v \in Task : v # t => tasks'[v].state = tasks[v].state
      /\ tasks'[t].state \in {"Runnable", "Sleeping", "Exited"}
  BY <1>2
<1> HIDE DEF c, t, now
<1>7. cpus[c].current = t
  BY DEF t
<1> QED
  BY <1>1, <1>4, <1>5, <1>6, <1>7, StopAccounts

(* ops.tick: the task stays or is taken in hand. *)
LEMMA TickAccounts ==
    ASSUME Basic, Basic', OpsTick, NEW u \in Task, NEW n \in Nat, Counted(u, n)
    PROVE  Counted(u, n)'
<1> DEFINE c == Head(calls).cpu
           t == cpus[c].current
           now == cpus[c].clock
<1>1. /\ Calling("tick") /\ c \in Cpu /\ t \in Task /\ now \in Nat /\ failed' = failed
      /\ Tail(calls) = <<>> /\ calls # <<>>
  BY Ticked
<1>2. \/ /\ \E left \in Nat : StopAndReenqueue(c, now, Ran(c, now), left)
         /\ calls' = Reenqueue(c)
      \/ calls' = <<>> /\ UNCHANGED <<tasks, cpus, dsqs, held, unserved>>
  BY Ticked
<1>3. Hands(calls, u) = 0
  <2>1. Carried(Head(calls)) = NoTask
    BY <1>1 DEF Calling, Carried
  <2>2. Hands(calls, u) = Hands(Tail(calls), u) + One(NoTask, u)
    BY <1>1, <2>1, HandsTail
  <2>3. One(NoTask, u) = 0
    BY EngineAssumption DEF One
  <2>4. Hands(Tail(calls), u) = 0
    BY <1>1, HandsEmpty
  <2> QED
    BY <2>2, <2>3, <2>4
<1>4. CASE calls' = <<>> /\ UNCHANGED <<tasks, cpus, dsqs, held, unserved>>
  <2>1. Hands(calls', u) = 0
    BY <1>4, HandsEmpty
  <2>2. UNCHANGED <<dsqs, held, failed>> /\ tasks'[u].state = tasks[u].state
        /\ \A k \in Cpu : cpus'[k].current = cpus[k].current /\ cpus'[k].local = cpus[k].local
    BY <1>1, <1>4
  <2> QED
    BY <1>3, <2>1, <2>2, Unmoved
<1>5. CASE (\E left \in Nat : StopAndReenqueue(c, now, Ran(c, now), left)) /\ calls' = Reenqueue(c)
  <2>1. PICK left \in Nat : StopAndReenqueue(c, now, Ran(c, now), left)
    BY <1>5
  <2>2. Ran(c, now) \in Int
    BY <1>1, StopTypes
  <2>3. /\ held' = held /\ dsqs' = dsqs
        /\ \A v \in Task : v # t => tasks'[v] = tasks[v] /\ unserved'[v] = unserved[v]
        /\ tasks'[t].state = "Runnable"
    BY <1>1, <2>1, <2>2, RequeueTypes
  <2>4. cpus' = Stop(c, now)
    BY <2>1, Zenon DEF StopAndReenqueue
  <2>5. Hands(calls', u) = One(t, u)
    BY <1>1, <1>5, HandsRequeue DEF Reenqueue
  <2>6. \A v \in Task : v # t => tasks'[v].state = tasks[v].state
    BY <2>3
  <2> HIDE DEF c, t, now
  <2>7. cpus[c].current = t
    BY DEF t
  <2> QED
    BY <1>1, <1>3, <2>3, <2>4, <2>5, <2>6, <2>7, StopAccounts
<1> QED
  BY <1>2, <1>4, <1>5

(* A wake: the task of a sleeper that goes on to run is in hand.           *)
LEMMA WakeAccounts ==
    ASSUME Basic, Basic', NEW e \in DOMAIN events, NEW ends, WokenAs(e, ends),
           NEW u \in Task, NEW n \in Nat, Counted(u, n)
    PROVE  Counted(u, n)'
<1> DEFINE t == e.task
<1>1. /\ e.cpu \in Cpu /\ e.time \in Nat /\ t \in Task /\ tasks[t].state = "Sleeping"
      /\ cpus' = Advance(e.cpu, e.time) /\ UNCHANGED <<dsqs, held, failed>>
      /\ \A v \in Task : v # t => tasks'[v] = tasks[v] /\ unserved'[v] = unserved[v]
  BY DEF WokenAs
<1>2. \E q \in Nat : \E pushed :
        LET ph == PhaseAt(t, q) IN
        /\ Pop(e, pushed)
        /\ tasks'[t].state = StateIn(ph)
        /\ calls' = IF ph.kind = "Run" THEN <<Call("selectCpu", e.cpu, t)>> ELSE <<>>
        /\ StateIn(ph) \in {"Runnable", "Sleeping", "Exited"}
        /\ StateIn(ph) = "Runnable" <=> ph.kind = "Run"
  BY DEF WokenAs
<1>3. /\ calls = <<>>
      /\ tasks'[t].state \in {"Runnable", "Sleeping", "Exited"}
      /\ calls' = IF tasks'[t].state = "Runnable" THEN <<Call("selectCpu", e.cpu, t)>> ELSE <<>>
  BY <1>2 DEF Pop
<1> HIDE DEF t
<1>4. \A k \in Cpu : cpus'[k].current = cpus[k].current /\ cpus'[k].local = cpus[k].local
  BY <1>1, AdvanceTypes
<1>5. Hands(calls, u) = 0
  BY <1>3, HandsEmpty
<1>6. Hands(calls', u) = IF tasks'[t].state = "Runnable" THEN One(t, u) ELSE 0
  <2>1. Hands(<<Call("selectCpu", e.cpu, t)>>, u) = One(t, u)
    <3>1. Call("selectCpu", e.cpu, t) \in CallRec /\ Carried(Call("selectCpu", e.cpu, t)) = t
      BY <1>1 DEF Call, CallRec, CallOp, Carried
    <3> QED
      BY <3>1, HandsOne
  <2> QED
    BY <1>3, <2>1, HandsEmpty
<1>7. CASE u # t
  <2>1. Hands(calls', u) = Hands(calls, u) /\ tasks'[u].state = tasks[u].state
    BY <1>1, <1>5, <1>6, <1>7 DEF One
  <2> QED
    BY <1>1, <1>4, <2>1, Unmoved
<1>8. CASE u = t
  <2>1. Due(u) = 0 /\ Counted(u, n)
    BY <1>1, <1>8 DEF Due
  <2>2. OnCpus(cpus, u) = 0 /\ Waiting(u) = 0 /\ n = 0
    BY <2>1, WaitingTypes DEF Counted
  <2>3. OnCpus(cpus', u) = OnCpus(cpus, u)
    BY <1>4, OnCpuSame DEF OnCpus
  <2>4. OnLocal(cpus', u) = OnLocal(cpus, u)
    BY <1>4, OnLocalSame
  <2>5. InQueues(cpus', dsqs', u) = InQueues(cpus, dsqs, u)
    BY <1>1, <2>4 DEF InQueues
  <2>6. InQueues(cpus, dsqs, u) + AtHold(held, u) + 0 = 0
    BY <1>5, <2>2 DEF Waiting
  <2>7. Waiting(u)' = Hands(calls', u)
    <3>1. AtHold(held', u) = AtHold(held, u)
      BY <1>1
    <3>2. Waiting(u)' = InQueues(cpus, dsqs, u) + AtHold(held, u) + Hands(calls', u)
      BY <2>5, <3>1 DEF Waiting
    <3>3. Hands(calls', u) \in Nat
      BY <1>6 DEF One
    <3> QED
      BY <2>6, <3>2, <3>3, WaitingTypes
  <2>8. Waiting(u)' = Due(u)'
    BY <1>3, <1>6, <1>8, <2>7 DEF Due, One
  <2>9. Due(u)' \in {0, 1} /\ tasks'[u].state # "Running"
    BY <1>3, <1>8 DEF Due
  <2> QED
    BY <2>2, <2>3, <2>8, <2>9 DEF Counted
<1> QED
  BY <1>7, <1>8

(* A task waits elsewhere than it did, or a failed run loses it.           *)
LEMMA Shifted ==
    ASSUME Basic, Basic', NEW u \in Task, NEW n \in Nat, Counted(u, n), OnCpus(cpus', u) = OnCpus(cpus, u),
           tasks'[u].state = tasks[u].state,
           \/ Waiting(u)' = Waiting(u) /\ failed' = failed
           \/ Waiting(u)' <= Waiting(u) /\ failed' = TRUE
    PROVE  Counted(u, n)'
<1>1. Waiting(u) \in Nat /\ OnCpus(cpus, u) \in Nat
  BY WaitingTypes
<1>2. Waiting(u)' \in Nat
  <2>1. /\ cpus' \in [Cpu -> CpuRec] /\ dsqs' \in [global : Seq(Task), shared : Seq(Task)]
        /\ calls' \in Seq(CallRec)
    BY DEF Basic, Shaped
  <2>2. InQueues(cpus', dsqs', u) \in Nat
    BY <2>1, InQueuesTypes
  <2>3. AtHold(held', u) \in Nat
    BY AtHoldIs
  <2>4. Hands(calls', u) \in Nat
    BY <2>1, HandsCopies
  <2> QED
    BY <2>2, <2>3, <2>4 DEF Waiting
<1>3. Due(u)' = Due(u) /\ Due(u) \in {0, 1}
  BY DEF Due
<1>4. /\ OnCpus(cpus, u) + Waiting(u) + n <= Due(u)
      /\ ~failed => OnCpus(cpus, u) + Waiting(u) + n = Due(u)
      /\ tasks[u].state = "Running" <=> OnCpus(cpus, u) = 1
  BY DEF Counted
<1>5. /\ OnCpus(cpus', u) + Waiting(u)' + n <= Due(u)'
      /\ ~failed' => OnCpus(cpus', u) + Waiting(u)' + n = Due(u)'
  BY <1>1, <1>2, <1>3, <1>4
<1>6. tasks'[u].state = "Running" <=> OnCpus(cpus', u) = 1
  BY <1>4
<1> QED
  BY <1>5, <1>6 DEF Counted

(* ops.select_cpu, which inserts into no queue but a CPU's.                *)
SelectsLocal == SelectDsq \subseteq {Local} \cup {LocalOn(c) : c \in Cpu}

(* ops.select_cpu: a woken task is queued on a CPU or stays in hand. *)
LEMMA SelectAccounts ==
    ASSUME SelectsLocal, Basic, Basic', SelectCpu, NEW u \in Task, NEW n \in Nat, Counted(u, n)
    PROVE  Counted(u, n)'
<1> DEFINE t == Head(calls).task
<1>1. /\ Calling("selectCpu") /\ t \in Task /\ Tail(calls) = <<>> /\ calls # <<>>
      /\ held' = held
      /\ \A v \in Task : v # t => tasks'[v] = tasks[v]
      /\ tasks'[t].state = tasks[t].state
  BY Selected
<1>2. PICK c \in Chosen[t] :
        /\ c \in Cpu
        /\ \/ /\ calls' = <<Call("enqueue", c, t)>>
              /\ UNCHANGED <<cpus, dsqs, staged, failed>>
           \/ \E d \in SelectDsq :
                /\ d \in DsqId
                /\ Deliver(cpus, t, d, c)
                /\ tasks'[t].slice \in Nat \ {0}
                /\ staged' = staged (+) Resched(cpus, t, d, c)
                /\ calls' = IF Direct(t, d) THEN <<Dispatch(LandsOn(d, c))>>
                            ELSE <<Call("enqueue", c, t)>>
  BY Selected
<1>3. Hands(calls, u) = One(t, u)
  <2>1. Carried(Head(calls)) = t
    BY <1>1 DEF Calling, Carried
  <2>2. Hands(calls, u) = Hands(Tail(calls), u) + One(t, u)
    BY <1>1, <2>1, HandsTail
  <2>3. Hands(Tail(calls), u) = 0
    BY <1>1, HandsEmpty
  <2>4. One(t, u) \in Nat
    BY DEF One
  <2> QED
    BY <2>2, <2>3, <2>4
<1>4. tasks'[u].state = tasks[u].state
  BY <1>1
<1> HIDE DEF t
<1>5. Hands(<<Call("enqueue", c, t)>>, u) = One(t, u)
  <2>1. Call("enqueue", c, t) \in CallRec /\ Carried(Call("enqueue", c, t)) = t
    BY <1>1, <1>2 DEF Call, CallRec, CallOp, Carried
  <2> QED
    BY <2>1, HandsOne
<1>6. CASE calls' = <<Call("enqueue", c, t)>> /\ UNCHANGED <<cpus, dsqs, staged, failed>>
  <2>1. UNCHANGED <<dsqs, held, failed>> /\ Hands(calls', u) = Hands(calls, u)
        /\ \A k \in Cpu : cpus'[k].current = cpus[k].current /\ cpus'[k].local = cpus[k].local
    BY <1>1, <1>3, <1>5, <1>6
  <2> QED
    BY <1>4, <2>1, Unmoved
<1>7. ASSUME NEW d \in SelectDsq, d \in DsqId, Deliver(cpus, t, d, c),
             calls' = IF Direct(t, d) THEN <<Dispatch(LandsOn(d, c))>> ELSE <<Call("enqueue", c, t)>>
      PROVE  Counted(u, n)'
  <2>1. d = Local \/ \E k \in Cpu : d = LocalOn(k)
    BY DEF SelectsLocal
  <2>2. cpus \in [Cpu -> CpuRec]
    BY DEF Basic
  <2>3. /\ OnCpus(cpus', u) = OnCpus(cpus, u)
        /\ \/ /\ InQueues(cpus', dsqs', u) = InQueues(cpus, dsqs, u) + One(t, u)
              /\ failed' = failed /\ (Direct(t, d) \/ d \in {Global, Shared})
           \/ InQueues(cpus', dsqs', u) = InQueues(cpus, dsqs, u) /\ Rejected(t, d) /\ failed' = TRUE
    BY <1>1, <1>2, <1>7, <2>2, DeliverCounts
  <2>4. d \notin {Global, Shared}
    BY <2>1 DEF Local, LocalOn, Global, Shared
  <2>5. AtHold(held', u) = AtHold(held, u)
    BY <1>1
  <2>6. /\ InQueues(cpus, dsqs, u) \in Nat /\ AtHold(held, u) \in Nat /\ One(t, u) \in Nat
        /\ Waiting(u) = InQueues(cpus, dsqs, u) + AtHold(held, u) + One(t, u)
    BY <1>3, WaitingTypes DEF Waiting, One
  <2>7. CASE Direct(t, d)
    <3>1. LandsOn(d, c) \in Cpu
      BY <1>2, <2>1 DEF LandsOn, Local, LocalOn
    <3>2. Hands(calls', u) = 0
      BY <1>7, <2>7, <3>1, HandsIdle
    <3>3. ~Rejected(t, d)
      BY <2>7 DEF Direct
    <3>4. Waiting(u)' = Waiting(u) /\ failed' = failed
      <4>1. Waiting(u)' = InQueues(cpus', dsqs', u) + AtHold(held', u) + Hands(calls', u)
        BY DEF Waiting
      <4> QED
        BY <2>3, <2>5, <2>6, <3>2, <3>3, <4>1
    <3> QED
      BY <1>4, <2>3, <3>4, Shifted
  <2>8. CASE ~Direct(t, d)
    <3>1. Hands(calls', u) = One(t, u)
      BY <1>5, <1>7, <2>8
    <3>2. failed' = TRUE /\ InQueues(cpus', dsqs', u) = InQueues(cpus, dsqs, u)
      BY <2>3, <2>4, <2>8
    <3>3. Waiting(u)' <= Waiting(u)
      <4>1. Waiting(u)' = InQueues(cpus', dsqs', u) + AtHold(held', u) + Hands(calls', u)
        BY DEF Waiting
      <4> QED
        BY <2>5, <2>6, <3>1, <3>2, <4>1
    <3> QED
      BY <1>4, <2>3, <3>2, <3>3, Shifted
  <2> QED
    BY <2>7, <2>8
<1> QED
  BY <1>2, <1>6, <1>7

(* What the hands of the handler hold after ops.enqueue.                   *)
LEMMA HandsAfter ==
    ASSUME Basic, NEW kicks, KickBag(kicks), AfterEnqueue(kicks),
           Calling("enqueue") \/ Calling("requeue") \/ Calling("drain"), NEW u \in Task
    PROVE  /\ Hands(calls, u) = Hands(calls', u) + One(Head(calls).task, u)
           /\ Hands(calls', u) \in Nat
<1> DEFINE t == Head(calls).task
<1>1. /\ \/ Calling("enqueue") /\ IsDispatchOf(calls', IdleCpus)
         \/ ~Calling("enqueue") /\ calls' = Tail(calls)
      /\ calls # <<>>
  BY AfterEnqueued
<1>2. Carried(Head(calls)) = t
  BY DEF Calling, Carried
<1>3. /\ Hands(calls, u) = Hands(Tail(calls), u) + One(t, u)
      /\ Hands(Tail(calls), u) \in Nat
  BY <1>1, <1>2, HandsTail
<1>4. CASE Calling("enqueue") /\ IsDispatchOf(calls', IdleCpus)
  <2>1. Tail(calls) = <<>>
    <3>1. "enqueue" \in Closing
      BY DEF Closing
    <3> QED
      BY <1>4, <3>1, Called
  <2>2. Hands(Tail(calls), u) = 0
    BY <2>1, HandsEmpty
  <2>3. Hands(calls', u) = 0
    BY <1>4, HandsDispatches
  <2> QED
    BY <1>3, <2>2, <2>3
<1> QED
  BY <1>1, <1>3, <1>4

(* ops.enqueue: a task in hand goes to a queue, unless the run has failed. *)
LEMMA InsertAccounts ==
    ASSUME Basic, Basic', EnqueueInsert, NEW u \in Task, NEW n \in Nat, Counted(u, n)
    PROVE  Counted(u, n)'
<1> DEFINE t == Head(calls).task
           c == Head(calls).cpu
<1>1. /\ Calling("enqueue") \/ Calling("requeue") \/ Calling("drain")
      /\ c \in Cpu /\ t \in Task /\ held' = held
      /\ \A v \in Task : v # t => tasks'[v] = tasks[v]
      /\ tasks'[t].state = tasks[t].state
      /\ \E d \in EnqueueDsq : \E kicks :
           /\ d \in DsqId
           /\ Deliver(cpus, t, d, c)
           /\ KickBag(kicks) /\ DOMAIN Resched(cpus, t, d, c) \subseteq DOMAIN kicks
           /\ AfterEnqueue(kicks)
  BY Enqueued
<1>2. PICK d \in EnqueueDsq : \E kicks :
        /\ d \in DsqId
        /\ Deliver(cpus, t, d, c)
        /\ KickBag(kicks) /\ DOMAIN Resched(cpus, t, d, c) \subseteq DOMAIN kicks
        /\ AfterEnqueue(kicks)
  BY <1>1
<1>3. Hands(calls, u) = Hands(calls', u) + One(t, u) /\ Hands(calls', u) \in Nat
  BY <1>1, <1>2, HandsAfter
<1>4. tasks'[u].state = tasks[u].state
  BY <1>1
<1>5. cpus \in [Cpu -> CpuRec]
  BY DEF Basic
<1> HIDE DEF t, c
<1>6. /\ OnCpus(cpus', u) = OnCpus(cpus, u)
      /\ \/ InQueues(cpus', dsqs', u) = InQueues(cpus, dsqs, u) + One(t, u) /\ failed' = failed
         \/ InQueues(cpus', dsqs', u) = InQueues(cpus, dsqs, u) /\ failed' = TRUE
  BY <1>1, <1>2, <1>5, DeliverCounts
<1>7. AtHold(held', u) = AtHold(held, u)
  BY <1>1
<1>8. /\ InQueues(cpus, dsqs, u) \in Nat /\ AtHold(held, u) \in Nat /\ One(t, u) \in Nat
      /\ Waiting(u) = InQueues(cpus, dsqs, u) + AtHold(held, u) + Hands(calls, u)
      /\ Waiting(u)' = InQueues(cpus', dsqs', u) + AtHold(held', u) + Hands(calls', u)
  BY WaitingTypes DEF Waiting, One
<1>9. \/ Waiting(u)' = Waiting(u) /\ failed' = failed
      \/ Waiting(u)' <= Waiting(u) /\ failed' = TRUE
  BY <1>3, <1>6, <1>7, <1>8
<1> QED
  BY <1>4, <1>6, <1>9, Shifted

(* ops.enqueue: a task in hand goes to the scheduler. *)
LEMMA HoldAccounts ==
    ASSUME Basic, Basic', EnqueueHold, NEW u \in Task, NEW n \in Nat, Counted(u, n)
    PROVE  Counted(u, n)'
<1> DEFINE t == Head(calls).task
<1>1. /\ Calling("enqueue") \/ Calling("requeue") \/ Calling("drain")
      /\ held' = held \cup {t}
      /\ UNCHANGED <<tasks, cpus, dsqs, failed>>
      /\ \E kicks : KickBag(kicks) /\ AfterEnqueue(kicks)
  BY Kept
<1>2. Hands(calls, u) = Hands(calls', u) + One(t, u) /\ Hands(calls', u) \in Nat
  BY <1>1, HandsAfter
<1> HIDE DEF t
<1>3. OnCpus(cpus', u) = OnCpus(cpus, u) /\ InQueues(cpus', dsqs', u) = InQueues(cpus, dsqs, u)
      /\ tasks'[u].state = tasks[u].state
  BY <1>1
<1>4. /\ InQueues(cpus, dsqs, u) \in Nat /\ AtHold(held, u) \in Nat /\ One(t, u) \in Nat
      /\ OnCpus(cpus, u) \in Nat
      /\ Waiting(u) = InQueues(cpus, dsqs, u) + AtHold(held, u) + Hands(calls, u)
      /\ Waiting(u)' = InQueues(cpus', dsqs', u) + AtHold(held', u) + Hands(calls', u)
  BY WaitingTypes DEF Waiting, One
<1>5. AtHold(held', u) = AtHold(held, u) + One(t, u)
  <2>1. CASE u = t
    <3>1. One(t, u) = 1
      BY <2>1 DEF One
    <3>2. OnCpus(cpus, u) + Waiting(u) <= 1
      <4>1. Due(u) \in {0, 1}
        BY DEF Due
      <4>2. OnCpus(cpus, u) + Waiting(u) + n <= Due(u)
        BY DEF Counted
      <4> QED
        BY <1>2, <1>4, <4>1, <4>2
    <3>3. AtHold(held, u) = 0
      <4>1. Hands(calls, u) \in Nat /\ Hands(calls, u) >= 1
        BY <1>2, <3>1
      <4>2. OnCpus(cpus, u) + (InQueues(cpus, dsqs, u) + AtHold(held, u) + Hands(calls, u)) <= 1
        BY <1>4, <3>2
      <4> QED
        BY <1>4, <4>1, <4>2
    <3>4. AtHold(held', u) = 1
      BY <1>1, <2>1, AtHoldIs
    <3> QED
      BY <3>1, <3>3, <3>4
  <2>2. CASE u # t
    <3>1. One(t, u) = 0
      BY <2>2 DEF One
    <3>2. AtHold(held', u) = AtHold(held, u)
      BY <1>1, <2>2, AtHoldIs
    <3> QED
      BY <1>4, <3>1, <3>2
  <2> QED
    BY <2>1, <2>2
<1>6. Waiting(u)' = Waiting(u)
  BY <1>2, <1>3, <1>4, <1>5
<1> QED
  BY <1>1, <1>3, <1>6, Shifted

(* A dispatch that moves no task. *)

(* A dispatch that moves and starts no task. *)
LEMMA IdleKeeps ==
    ASSUME Basic, NEW c \in Cpu,
           DispatchLocal(c) \/ DispatchNothing(c) \/ GoIdle(c) \/ DispatchRefused \/ TakeDown
    PROVE  /\ UNCHANGED <<dsqs, held, failed, tasks>>
           /\ \A k \in Cpu : cpus'[k].current = cpus[k].current /\ cpus'[k].local = cpus[k].local
<1>1. clock \in Nat
  BY DEF Basic
<1>2. UNCHANGED <<dsqs, held, failed, tasks>>
  BY DEF DispatchLocal, DispatchNothing, GoIdle, DispatchRefused, TakeDown
<1>3. \A k \in Cpu : cpus'[k].current = cpus[k].current /\ cpus'[k].local = cpus[k].local
  <2>1. CASE DispatchLocal(c) \/ DispatchNothing(c)
    <3>1. cpus' = Advance(c, clock)
      BY <2>1 DEF DispatchLocal, DispatchNothing
    <3> QED
      BY <1>1, <3>1, AdvanceTypes
  <2>2. CASE GoIdle(c) \/ DispatchRefused
    BY <2>2 DEF GoIdle, DispatchRefused
  <2>3. CASE TakeDown
    <3> DEFINE k == Head(calls).cpu
               x == [cpus[k] EXCEPT !.online = FALSE]
    <3>1. cpus \in [Cpu -> CpuRec] /\ k \in Cpu
      BY <2>3, Called DEF TakeDown, Basic
    <3>2. cpus' = [cpus EXCEPT ![k] = x]
      BY <2>3 DEF TakeDown
    <3>3. x.current = cpus[k].current /\ x.local = cpus[k].local
      BY <3>1 DEF CpuRec
    <3> HIDE DEF k, x
    <3> QED
      BY <3>1, <3>2, <3>3
  <2> QED
    BY <2>1, <2>2, <2>3
<1> QED
  BY <1>2, <1>3

(* ... and so each task stays accounted for. *)
LEMMA IdleAccounts ==
    ASSUME Basic, NEW c \in Cpu,
           DispatchLocal(c) \/ DispatchNothing(c) \/ GoIdle(c) \/ DispatchRefused \/ TakeDown,
           NEW u \in Task, NEW n \in Nat, Counted(u, n)
    PROVE  Counted(u, n)'
<1>1. calls # <<>> /\ Head(calls).op \in {"dispatch", "pick", "takeDown"}
  BY DEF DispatchLocal, DispatchNothing, GoIdle, DispatchRefused, TakeDown, Dispatching, Calling
<1>2. Hands(calls, u) = Hands(Tail(calls), u)
  <2>1. Head(calls).task = NoTask
    <3>1. \A op \in {"dispatch", "pick", "takeDown"} : op \notin Carries \cup {"tick"}
      BY DEF Carries
    <3> QED
      BY <1>1, <3>1, Called DEF Calling
  <2>2. One(Carried(Head(calls)), u) = 0
    BY <2>1, EngineAssumption DEF One, Carried
  <2> QED
    BY <1>1, <2>2, HandsTail
<1>3. \/ calls' = Tail(calls)
      \/ calls' = <<Call("pick", c, NoTask)>> \o Tail(calls)
  BY DEF DispatchLocal, DispatchNothing, GoIdle, DispatchRefused, TakeDown, Dispatching
<1>4. Hands(calls', u) = Hands(calls, u)
  <2>1. Call("pick", c, NoTask) \in CallRec /\ Call("pick", c, NoTask).task = NoTask
        /\ Call("pick", c, NoTask).op = "pick"
    BY CallTypes DEF CallOp
  <2>2. Hands(<<Call("pick", c, NoTask)>> \o Tail(calls), u) = Hands(Tail(calls), u)
    BY <1>1, <2>1, HandsThen
  <2> QED
    BY <1>2, <1>3, <2>2
<1>5. /\ UNCHANGED <<dsqs, held, failed, tasks>>
      /\ \A k \in Cpu : cpus'[k].current = cpus[k].current /\ cpus'[k].local = cpus[k].local
  BY IdleKeeps
<1>6. tasks'[u].state = tasks[u].state
  BY <1>5
<1> QED
  BY <1>4, <1>5, <1>6, Unmoved

(* What a pick takes from its queue. *)
LEMMA PickCounts ==
    ASSUME Basic, Basic', NEW c \in Cpu, NEW pick \in Picks(c),
           cpus'[c].local = pick.local, \A k \in Cpu : k # c => cpus'[k].local = cpus[k].local,
           dsqs'.global = pick.global, dsqs'.shared = dsqs.shared, NEW u \in Task
    PROVE  InQueues(cpus', dsqs', u) + One(pick.task, u) = InQueues(cpus, dsqs, u)
<1>1. /\ cpus \in [Cpu -> CpuRec] /\ cpus' \in [Cpu -> CpuRec]
      /\ dsqs \in [global : Seq(Task), shared : Seq(Task)]
      /\ dsqs' \in [global : Seq(Task), shared : Seq(Task)]
  BY DEF Basic
<1>2. cpus[c].local \in Seq(Task) /\ dsqs.global \in Seq(Task)
  BY <1>1 DEF CpuRec
<1>3. /\ Cardinality(OnLocal(cpus, u)) \in Nat /\ Cardinality(OnLocal(cpus', u)) \in Nat
      /\ Copies(dsqs.global, u) \in Nat /\ Copies(dsqs.shared, u) \in Nat
      /\ Copies(dsqs'.global, u) \in Nat /\ Copies(dsqs'.shared, u) \in Nat
      /\ One(pick.task, u) \in Nat
  BY <1>1, InQueuesTypes DEF One
<1>4. Copies(cpus[c].local, u) \in Nat /\ Copies(pick.local, u) \in Nat
  BY <1>2, PickTypes, PositionsFinite
<1>5. Cardinality(OnLocal(cpus', u)) + Copies(cpus[c].local, u)
        = Cardinality(OnLocal(cpus, u)) + Copies(pick.local, u)
  <2> DEFINE ds == cpus'
  <2>1. ds \in [Cpu -> CpuRec] /\ \A k \in Cpu : k # c => ds[k].local = cpus[k].local
    BY <1>1
  <2> HIDE DEF ds
  <2>2. Cardinality(OnLocal(ds, u)) + Copies(cpus[c].local, u)
          = Cardinality(OnLocal(cpus, u)) + Copies(ds[c].local, u)
    BY <1>1, <2>1, OnLocalChange
  <2> QED
    BY <2>2 DEF ds
<1>6. Copies(dsqs'.shared, u) = Copies(dsqs.shared, u) /\ Copies(dsqs'.global, u) = Copies(pick.global, u)
  OBVIOUS
<1>7. CASE /\ cpus[c].local # <<>>
           /\ pick.task = cpus[c].local[1] /\ pick.local = Tail(cpus[c].local)
           /\ pick.global = dsqs.global
  <2>1. Copies(cpus[c].local, u) = Copies(pick.local, u) + One(pick.task, u)
    BY <1>2, <1>7, CopiesTail
  <2>2. Copies(dsqs'.global, u) = Copies(dsqs.global, u)
    BY <1>6, <1>7
  <2> QED
    BY <1>3, <1>4, <1>5, <1>6, <2>1, <2>2 DEF InQueues
<1>8. CASE /\ pick.local = cpus[c].local
           /\ \E i \in 1 .. Len(dsqs.global) :
                pick.task = dsqs.global[i] /\ pick.global = RemoveAt(dsqs.global, i)
  <2>1. Copies(dsqs.global, u) = Copies(pick.global, u) + One(pick.task, u)
    BY <1>2, <1>8, CopiesRemoveAt
  <2>2. Cardinality(OnLocal(cpus', u)) = Cardinality(OnLocal(cpus, u))
    BY <1>3, <1>4, <1>5, <1>8
  <2> QED
    BY <1>3, <1>6, <2>1, <2>2 DEF InQueues
<1> QED
  BY <1>7, <1>8, PickTypes

(* A CPU starts the task it picks, which has not exited. *)
LEMMA StartAccounts ==
    ASSUME Basic, Basic', NEW c \in Cpu, NEW pick \in Picks(c),
           NEW slice \in Nat, RunFor(c, pick, slice),
           NEW u \in Task, NEW n \in Nat, Counted(u, n)
    PROVE  Counted(u, n)'
<1> DEFINE t == pick.task
<1>1. /\ Calling("pick") /\ calls # <<>> /\ calls' = Tail(calls)
      /\ cpus[c].current = NoTask /\ failed' = failed /\ held' = held
      /\ t \in Task /\ dsqs'.global = pick.global /\ dsqs'.shared = dsqs.shared
  BY Started
<1>2. slice \in Nat
  OBVIOUS
<1>3. /\ \A k \in Cpu : k # c => cpus'[k] = cpus[k]
      /\ cpus'[c].current = t /\ cpus'[c].local = pick.local
  BY <1>2, StartedCpu
<1>4. (\A v \in Task : v # t => tasks'[v] = tasks[v]) /\ tasks'[t].state = "Running"
  BY StartedTask
<1>5. InQueues(cpus', dsqs', u) + One(t, u) = InQueues(cpus, dsqs, u)
  <2>1. \A k \in Cpu : k # c => cpus'[k].local = cpus[k].local
    BY <1>3
  <2> QED
    BY <1>1, <1>3, <2>1, PickCounts
<1> HIDE DEF t
<1>6. OnCpus(cpus', u) = OnCpus(cpus, u) + One(t, u)
  <2>1. \A k \in Cpu : k # c => cpus'[k].current = cpus[k].current
    BY <1>3
  <2>2. OnCpus(cpus', u) + One(cpus[c].current, u) = OnCpus(cpus, u) + One(cpus'[c].current, u)
    BY <2>1, OnCpusStep, Zenon
  <2>3. One(NoTask, u) = 0
    BY EngineAssumption DEF One
  <2>4. OnCpus(cpus', u) \in Nat /\ OnCpus(cpus, u) \in Nat
    BY OnCpusTypes
  <2> QED
    BY <1>1, <1>3, <2>2, <2>3, <2>4
<1>7. Hands(calls', u) = Hands(calls, u)
  <2>1. Head(calls).task = NoTask
    <3>1. "pick" \notin Carries \cup {"tick"}
      BY DEF Carries
    <3> QED
      BY <1>1, <3>1, Called
  <2>2. One(Carried(Head(calls)), u) = 0
    BY <2>1, EngineAssumption DEF One, Carried
  <2> QED
    BY <1>1, <2>2, HandsTail
<1>8. /\ InQueues(cpus, dsqs, u) \in Nat /\ AtHold(held, u) \in Nat /\ One(t, u) \in Nat
      /\ OnCpus(cpus, u) \in Nat /\ Hands(calls, u) \in Nat /\ InQueues(cpus', dsqs', u) \in Nat
      /\ Waiting(u) = InQueues(cpus, dsqs, u) + AtHold(held, u) + Hands(calls, u)
      /\ Waiting(u)' = InQueues(cpus', dsqs', u) + AtHold(held, u) + Hands(calls, u)
  <2>1. cpus' \in [Cpu -> CpuRec] /\ dsqs' \in [global : Seq(Task), shared : Seq(Task)]
    BY DEF Basic
  <2>2. InQueues(cpus', dsqs', u) \in Nat
    BY <2>1, InQueuesTypes
  <2>3. Waiting(u)' = InQueues(cpus', dsqs', u) + AtHold(held', u) + Hands(calls', u)
    BY DEF Waiting
  <2>4. AtHold(held', u) = AtHold(held, u)
    BY <1>1
  <2> QED
    BY <1>7, <2>2, <2>3, <2>4, WaitingTypes DEF Waiting, One
<1>9. OnCpus(cpus', u) + Waiting(u)' = OnCpus(cpus, u) + Waiting(u)
  BY <1>5, <1>6, <1>8
<1>10. /\ OnCpus(cpus, u) + Waiting(u) + n <= Due(u)
       /\ ~failed => OnCpus(cpus, u) + Waiting(u) + n = Due(u)
       /\ tasks[u].state = "Running" <=> OnCpus(cpus, u) = 1
       /\ Due(u) \in {0, 1}
  BY DEF Counted, Due
<1>11. CASE u = t
  <2>1. One(t, u) = 1
    BY <1>11 DEF One
  <2>2. InQueues(cpus, dsqs, u) >= 1
    BY <1>5, <1>8, <2>1
  <2>3. Waiting(u) >= 1 /\ Waiting(u) \in Nat
    BY <1>8, <2>2
  <2>4. OnCpus(cpus, u) = 0 /\ Due(u) = 1
    <3>1. OnCpus(cpus, u) \in Nat /\ Due(u) \in {0, 1}
      BY <1>8, <1>10
    <3>2. OnCpus(cpus, u) + Waiting(u) + n <= Due(u)
      BY <1>10
    <3> HIDE DEF Waiting
    <3> QED
      BY <2>3, <3>1, <3>2
  <2>5. Due(u)' = 1 /\ tasks'[u].state = "Running"
    BY <1>4, <1>11 DEF Due
  <2>6. OnCpus(cpus', u) = 1
    BY <1>6, <2>1, <2>4
  <2> QED
    BY <1>1, <1>9, <1>10, <2>4, <2>5, <2>6 DEF Counted
<1>12. CASE u # t
  <2>1. One(t, u) = 0
    BY <1>12 DEF One
  <2>2. OnCpus(cpus', u) = OnCpus(cpus, u)
    BY <1>6, <1>8, <2>1
  <2>3. Due(u)' = Due(u) /\ tasks'[u].state = tasks[u].state
    BY <1>4, <1>12 DEF Due
  <2> QED
    BY <1>1, <1>9, <1>10, <2>2, <2>3 DEF Counted
<1> QED
  BY <1>11, <1>12

(* Skipping a task takes it out of its queue. *)
LEMMA SkipCounts ==
    ASSUME Basic, Basic', NEW c \in Cpu, NEW pick \in Picks(c), SkipExited(c, pick), NEW u \in Task
    PROVE  /\ InQueues(cpus', dsqs', u) + One(pick.task, u) = InQueues(cpus, dsqs, u)
           /\ \A k \in Cpu : cpus'[k].current = cpus[k].current
<1>2. /\ cpus' = [cpus EXCEPT ![c].local = pick.local]
      /\ dsqs' = [dsqs EXCEPT !.global = pick.global]
  BY DEF SkipExited, Picked
<1>3. cpus \in [Cpu -> CpuRec] /\ dsqs \in [global : Seq(Task), shared : Seq(Task)]
  BY DEF Basic
<1>4. dsqs'.global = pick.global /\ dsqs'.shared = dsqs.shared
  BY <1>2, <1>3
<1>5. /\ cpus'[c].local = pick.local /\ \A k \in Cpu : k # c => cpus'[k].local = cpus[k].local
      /\ \A k \in Cpu : cpus'[k].current = cpus[k].current
  <2> DEFINE x == [cpus[c] EXCEPT !.local = pick.local]
  <2>1. cpus' = [cpus EXCEPT ![c] = x]
    BY <1>2
  <2>2. x.local = pick.local /\ x.current = cpus[c].current
    BY <1>3 DEF CpuRec
  <2> HIDE DEF x
  <2> QED
    BY <1>3, <2>1, <2>2
<1> QED
  BY <1>4, <1>5, PickCounts

(* A queued task has not exited. *)
LEMMA SkipsNone ==
    ASSUME Basic, Basic', NEW c \in Cpu, NEW pick \in Picks(c), SkipExited(c, pick),
           NEW n \in Nat, Counted(pick.task, n)
    PROVE  FALSE
<1> DEFINE t == pick.task
<1>1. t \in Task /\ tasks[t].state = "Exited"
  BY PickTypes DEF SkipExited
<1>6. InQueues(cpus', dsqs', t) + One(pick.task, t) = InQueues(cpus, dsqs, t)
  BY <1>1, SkipCounts
<1>7. InQueues(cpus', dsqs', t) \in Nat
  <2>1. cpus' \in [Cpu -> CpuRec] /\ dsqs' \in [global : Seq(Task), shared : Seq(Task)]
    BY DEF Basic
  <2> QED
    BY <2>1, InQueuesTypes
<1>8. One(pick.task, t) = 1
  BY DEF One
<1> HIDE DEF t
<1>9. InQueues(cpus, dsqs, t) >= 1
  BY <1>6, <1>7, <1>8
<1>10. OnCpus(cpus, t) + Waiting(t) + n <= 0
  <2>1. Counted(t, n)
    BY DEF t
  <2> QED
    BY <1>1, <2>1 DEF Counted, Due
<1>11. /\ OnCpus(cpus, t) \in Nat /\ InQueues(cpus, dsqs, t) \in Nat
       /\ AtHold(held, t) \in Nat /\ Hands(calls, t) \in Nat
       /\ Waiting(t) = InQueues(cpus, dsqs, t) + AtHold(held, t) + Hands(calls, t)
  BY <1>1, WaitingTypes DEF Waiting
<1> QED
  BY <1>9, <1>10, <1>11

(* A CPU that skips a task dispatches again, and no other task moves.      *)
LEMMA SkipAccounts ==
    ASSUME Basic, Basic', NEW c \in Cpu, NEW pick \in Picks(c), SkipExited(c, pick),
           NEW u \in Task, NEW n \in Nat, Counted(u, n)
    PROVE  Counted(u, n)'
<1>1. pick.task # u
  BY SkipsNone
<1>2. /\ Calling("pick") /\ calls' = <<Dispatch(c)>> \o Tail(calls)
      /\ UNCHANGED <<failed, held, tasks>>
  BY DEF SkipExited, Picked
<1>3. InQueues(cpus', dsqs', u) = InQueues(cpus, dsqs, u)
  <2>1. One(pick.task, u) = 0
    BY <1>1 DEF One
  <2>2. cpus' \in [Cpu -> CpuRec] /\ dsqs' \in [global : Seq(Task), shared : Seq(Task)]
    BY DEF Basic
  <2>3. InQueues(cpus', dsqs', u) \in Nat
    BY <2>2, InQueuesTypes
  <2> QED
    BY <2>1, <2>3, SkipCounts
<1>4. OnCpus(cpus', u) = OnCpus(cpus, u)
  <2>1. \A k \in Cpu : cpus'[k].current = cpus[k].current
    BY SkipCounts
  <2> QED
    BY <2>1, OnCpuSame DEF OnCpus
<1>5. Hands(calls', u) = Hands(calls, u)
  <2>1. calls # <<>> /\ Head(calls).task = NoTask
    <3>1. "pick" \notin Carries \cup {"tick"}
      BY DEF Carries
    <3> QED
      BY <1>2, <3>1, Called
  <2>2. One(Carried(Head(calls)), u) = 0
    BY <2>1, EngineAssumption DEF One, Carried
  <2>3. Hands(calls, u) = Hands(Tail(calls), u)
    BY <2>1, <2>2, HandsTail
  <2>4. Dispatch(c) \in CallRec /\ Dispatch(c).op = "dispatch" /\ Dispatch(c).task = NoTask
    BY DispatchTypes
  <2> QED
    BY <1>2, <2>1, <2>3, <2>4, HandsThen
<1>6. Waiting(u)' = Waiting(u)
  BY <1>2, <1>3, <1>5 DEF Waiting
<1> QED
  BY <1>2, <1>4, <1>6, Shifted

(* What follows a dispatch of CPU c in the handler carries no task.        *)
LEMMA HandsPick ==
    ASSUME Basic, NEW c \in Cpu, Dispatching(c), NEW u \in Task
    PROVE  Hands(calls', u) = Hands(calls, u)
<1>1. calls # <<>> /\ Head(calls).task = NoTask /\ calls' = <<Call("pick", c, NoTask)>> \o Tail(calls)
  BY Dispatched
<1>2. Call("pick", c, NoTask) \in CallRec /\ Call("pick", c, NoTask).task = NoTask
      /\ Call("pick", c, NoTask).op = "pick"
  BY CallTypes DEF CallOp
<1>3. Hands(<<Call("pick", c, NoTask)>> \o Tail(calls), u) = Hands(Tail(calls), u)
  BY <1>1, <1>2, HandsThen
<1>4. One(Carried(Head(calls)), u) = 0
  BY <1>1, EngineAssumption DEF One, Carried
<1>5. Hands(calls, u) = Hands(Tail(calls), u)
  BY <1>1, <1>4, HandsTail
<1> QED
  BY <1>1, <1>3, <1>5

(* scx_bpf_dsq_move_to_local: a task goes from the shared DSQ to the local *)
(* one, ...                                                                *)
LEMMA MoveCounts ==
    ASSUME Basic, Basic', NEW c \in Cpu, DispatchMove(c), NEW u \in Task
    PROVE  InQueues(cpus', dsqs', u) = InQueues(cpus, dsqs, u)
<1>1. /\ Dispatching(c) /\ UNCHANGED <<failed, tasks, held>>
      /\ \A k \in Cpu : cpus'[k].current = cpus[k].current
      /\ \A k \in Cpu : k # c => cpus'[k].local = cpus[k].local
  BY Moved
<1>2. PICK i \in 1 .. Len(dsqs.shared) :
        /\ dsqs.shared[i] \in Task
        /\ cpus'[c].local = Append(cpus[c].local, dsqs.shared[i])
        /\ dsqs'.shared = RemoveAt(dsqs.shared, i)
        /\ dsqs'.global = dsqs.global
  BY Moved
<1> DEFINE t == dsqs.shared[i]
<1>3. /\ cpus \in [Cpu -> CpuRec] /\ cpus' \in [Cpu -> CpuRec]
      /\ dsqs \in [global : Seq(Task), shared : Seq(Task)]
      /\ dsqs' \in [global : Seq(Task), shared : Seq(Task)]
  BY DEF Basic
<1>4. cpus[c].local \in Seq(Task) /\ dsqs.shared \in Seq(Task)
  BY <1>3 DEF CpuRec
<1>5. /\ Cardinality(OnLocal(cpus, u)) \in Nat /\ Cardinality(OnLocal(cpus', u)) \in Nat
      /\ Copies(dsqs.global, u) \in Nat /\ Copies(dsqs.shared, u) \in Nat
      /\ Copies(dsqs'.shared, u) \in Nat /\ One(t, u) \in Nat
  BY <1>3, InQueuesTypes DEF One
<1>6. Copies(dsqs.shared, u) = Copies(dsqs'.shared, u) + One(t, u)
  BY <1>2, <1>4, CopiesRemoveAt
<1>7. Copies(cpus'[c].local, u) = Copies(cpus[c].local, u) + One(t, u) /\ Copies(cpus[c].local, u) \in Nat
  BY <1>2, <1>4, CopiesAppend, PositionsFinite
<1> HIDE DEF t
<1>8. Cardinality(OnLocal(cpus', u)) + Copies(cpus[c].local, u)
        = Cardinality(OnLocal(cpus, u)) + Copies(cpus'[c].local, u)
  <2> DEFINE ds == cpus'
  <2>1. ds \in [Cpu -> CpuRec] /\ \A k \in Cpu : k # c => ds[k].local = cpus[k].local
    BY <1>1, <1>3
  <2> HIDE DEF ds
  <2>2. Cardinality(OnLocal(ds, u)) + Copies(cpus[c].local, u)
          = Cardinality(OnLocal(cpus, u)) + Copies(ds[c].local, u)
    <3>1. cpus \in [Cpu -> CpuRec]
      BY <1>3
    <3> QED
      BY <2>1, <3>1, OnLocalChange
  <2> QED
    BY <2>2 DEF ds
<1>9. Cardinality(OnLocal(cpus', u)) = Cardinality(OnLocal(cpus, u)) + One(t, u)
  BY <1>5, <1>7, <1>8
<1>10. Copies(dsqs'.global, u) = Copies(dsqs.global, u)
  BY <1>2
<1> QED
  BY <1>5, <1>6, <1>9, <1>10 DEF InQueues

(* ... and stays accounted for. *)
LEMMA MoveAccounts ==
    ASSUME Basic, Basic', NEW c \in Cpu, DispatchMove(c), NEW u \in Task, NEW n \in Nat, Counted(u, n)
    PROVE  Counted(u, n)'
<1>1. /\ Dispatching(c) /\ UNCHANGED <<failed, tasks, held>>
      /\ \A k \in Cpu : cpus'[k].current = cpus[k].current
  BY Moved
<1>2. OnCpus(cpus', u) = OnCpus(cpus, u)
  BY <1>1, OnCpuSame DEF OnCpus
<1>3. Hands(calls', u) = Hands(calls, u) /\ AtHold(held', u) = AtHold(held, u)
      /\ tasks'[u].state = tasks[u].state
  BY <1>1, HandsPick
<1>4. Waiting(u)' = Waiting(u)
  BY <1>3, MoveCounts DEF Waiting
<1> QED
  BY <1>1, <1>2, <1>3, <1>4, Shifted

(* ops.dispatch: a task goes from the scheduler to a queue, unless the run *)
(* has failed.                                                             *)
LEMMA OfferAccounts ==
    ASSUME Basic, Basic', NEW c \in Cpu, DispatchHeld(c), NEW u \in Task, NEW n \in Nat, Counted(u, n)
    PROVE  Counted(u, n)'
<1> DEFINE cs == Advance(c, clock)
<1>1. Dispatching(c) /\ cs \in [Cpu -> CpuRec] /\ clock \in Nat
  BY Offered DEF Basic
<1>2. PICK t \in held, d \in DispatchDsq :
        /\ t \in Task /\ d \in DsqId
        /\ Deliver(cs, t, d, c)
        /\ held' = held \ {t}
        /\ \A v \in Task : v # t => tasks'[v] = tasks[v]
        /\ tasks'[t].state = tasks[t].state
  BY Offered
<1>3. \A k \in Cpu : cs[k].current = cpus[k].current /\ cs[k].local = cpus[k].local
  BY <1>1, AdvanceTypes
<1> HIDE DEF cs
<1>4. /\ OnCpus(cpus', u) = OnCpus(cpus, u)
      /\ \/ InQueues(cpus', dsqs', u) = InQueues(cpus, dsqs, u) + One(t, u) /\ failed' = failed
         \/ InQueues(cpus', dsqs', u) = InQueues(cpus, dsqs, u) /\ failed' = TRUE
  BY <1>1, <1>2, <1>3, DeliverCounts
<1>5. AtHold(held, u) = AtHold(held', u) + One(t, u) /\ AtHold(held', u) \in Nat
  <2>1. CASE u = t
    BY <1>2, <2>1, AtHoldIs DEF One
  <2>2. CASE u # t
    BY <1>2, <2>2, AtHoldIs DEF One
  <2> QED
    BY <2>1, <2>2
<1>6. Hands(calls', u) = Hands(calls, u) /\ tasks'[u].state = tasks[u].state
  BY <1>1, <1>2, HandsPick
<1>7. /\ InQueues(cpus, dsqs, u) \in Nat /\ Hands(calls, u) \in Nat /\ One(t, u) \in Nat
      /\ Waiting(u) = InQueues(cpus, dsqs, u) + AtHold(held, u) + Hands(calls, u)
      /\ Waiting(u)' = InQueues(cpus', dsqs', u) + AtHold(held', u) + Hands(calls', u)
  BY WaitingTypes DEF Waiting, One
<1>8. \/ Waiting(u)' = Waiting(u) /\ failed' = failed
      \/ Waiting(u)' <= Waiting(u) /\ failed' = TRUE
  BY <1>4, <1>5, <1>6, <1>7
<1> QED
  BY <1>4, <1>6, <1>8, Shifted

(* An offlined CPU loses its queue, and nothing else. *)
LEMMA DrainTypes ==
    ASSUME Basic, Basic', DrainLocal
    PROVE  LET c == Head(calls).cpu
               queue == cpus[c].local
           IN  /\ c \in Cpu /\ queue \in Seq(Task)
               /\ calls # <<>> /\ Tail(calls) = <<>> /\ Head(calls).task = NoTask
               /\ calls' = [i \in DOMAIN queue |-> Call("drain", c, queue[i])]
                             \o <<Call("takeDown", c, NoTask)>>
               /\ UNCHANGED <<clock, events, staged, failed, tasks, dsqs, held, unserved>>
               /\ cpus' \in [Cpu -> CpuRec] /\ cpus'[c].local = <<>>
               /\ \A k \in Cpu : k # c => cpus'[k] = cpus[k]
               /\ \A k \in Cpu : /\ cpus'[k].current = cpus[k].current
                                 /\ cpus'[k].clock = cpus[k].clock
                                 /\ cpus'[k].startedAt = cpus[k].startedAt
<1> DEFINE c == Head(calls).cpu
           queue == cpus[c].local
           x == [cpus[c] EXCEPT !.local = <<>>]
<1>1. /\ Calling("drainLocal") /\ cpus' = [cpus EXCEPT ![c] = x]
      /\ calls' = [i \in DOMAIN queue |-> Call("drain", c, queue[i])] \o <<Call("takeDown", c, NoTask)>>
      /\ UNCHANGED <<clock, events, staged, failed, tasks, dsqs, held, unserved>>
  BY Zenon DEF DrainLocal
<1>2. calls # <<>> /\ c \in Cpu /\ Tail(calls) = <<>> /\ Head(calls).task = NoTask
  <2>1. "drainLocal" \in Closing /\ "drainLocal" \notin Carries \cup {"tick"}
    BY DEF Closing, Carries
  <2> QED
    BY <1>1, <2>1, Called, Zenon
<1>3. cpus \in [Cpu -> CpuRec] /\ cpus' \in [Cpu -> CpuRec]
  BY DEF Basic
<1>4. queue \in Seq(Task)
  BY <1>2, <1>3 DEF CpuRec
<1>5. /\ x.local = <<>> /\ x.current = cpus[c].current /\ x.clock = cpus[c].clock
      /\ x.startedAt = cpus[c].startedAt
  BY <1>2, <1>3 DEF CpuRec
<1> HIDE DEF x, c
<1>6. cpus'[c] = x /\ \A k \in Cpu : k # c => cpus'[k] = cpus[k]
  BY <1>1, <1>2, <1>3
<1>7. \A k \in Cpu : /\ cpus'[k].current = cpus[k].current
                     /\ cpus'[k].clock = cpus[k].clock
                     /\ cpus'[k].startedAt = cpus[k].startedAt
  BY <1>5, <1>6
<1> HIDE DEF queue
<1>8. cpus'[c].local = <<>>
  BY <1>5, <1>6
<1> QED
  BY <1>1, <1>2, <1>3, <1>4, <1>6, <1>7, <1>8, Zenon DEF c, queue

(* The tasks of its queue leave it, ... *)
LEMMA DrainCounts ==
    ASSUME Basic, Basic', DrainLocal, NEW u \in Task
    PROVE  LET queue == cpus[Head(calls).cpu].local IN
           /\ InQueues(cpus', dsqs', u) + Copies(queue, u) = InQueues(cpus, dsqs, u)
           /\ InQueues(cpus', dsqs', u) \in Nat /\ Copies(queue, u) \in Nat
<1> DEFINE c == Head(calls).cpu
           queue == cpus[c].local
           ds == cpus'
<1>1. /\ c \in Cpu /\ queue \in Seq(Task) /\ dsqs' = dsqs
      /\ ds \in [Cpu -> CpuRec] /\ ds[c].local = <<>>
      /\ \A k \in Cpu : k # c => ds[k].local = cpus[k].local
  BY DrainTypes, Zenon
<1>2. cpus \in [Cpu -> CpuRec] /\ dsqs \in [global : Seq(Task), shared : Seq(Task)]
  BY DEF Basic
<1> HIDE DEF c, queue, ds
<1>3. Cardinality(OnLocal(ds, u)) + Copies(cpus[c].local, u)
        = Cardinality(OnLocal(cpus, u)) + Copies(ds[c].local, u)
  BY <1>1, <1>2, OnLocalChange
<1>4. Copies(ds[c].local, u) = 0
  BY <1>1, CopiesNone
<1>5. /\ Cardinality(OnLocal(cpus, u)) \in Nat /\ Cardinality(OnLocal(ds, u)) \in Nat
      /\ Copies(dsqs.global, u) \in Nat /\ Copies(dsqs.shared, u) \in Nat
      /\ Copies(queue, u) \in Nat
  BY <1>1, <1>2, InQueuesTypes, PositionsFinite
<1>6. InQueues(ds, dsqs, u) + Copies(queue, u) = InQueues(cpus, dsqs, u)
      /\ InQueues(ds, dsqs, u) \in Nat
  BY <1>3, <1>4, <1>5 DEF InQueues, queue
<1> QED
  BY <1>1, <1>5, <1>6 DEF c, queue, ds

(* ... and are all in hand. *)
LEMMA DrainAccounts ==
    ASSUME Basic, Basic', DrainLocal, NEW u \in Task, NEW n \in Nat, Counted(u, n)
    PROVE  Counted(u, n)'
<1> DEFINE c == Head(calls).cpu
           queue == cpus[c].local
<1>1. /\ c \in Cpu /\ queue \in Seq(Task)
      /\ calls # <<>> /\ Tail(calls) = <<>> /\ Head(calls).task = NoTask
      /\ calls' = [i \in DOMAIN queue |-> Call("drain", c, queue[i])] \o <<Call("takeDown", c, NoTask)>>
      /\ UNCHANGED <<failed, tasks, dsqs, held>>
      /\ \A k \in Cpu : cpus'[k].current = cpus[k].current
  BY DrainTypes, Zenon
<1>2. /\ InQueues(cpus', dsqs', u) + Copies(queue, u) = InQueues(cpus, dsqs, u)
      /\ InQueues(cpus', dsqs', u) \in Nat /\ Copies(queue, u) \in Nat
  BY DrainCounts, SMTT(30)
<1>3. Hands(calls, u) = 0
  <2>1. One(Carried(Head(calls)), u) = 0
    BY <1>1, EngineAssumption, ZenonT(30) DEF One, Carried
  <2>2. Hands(Tail(calls), u) = 0
    BY <1>1, HandsEmpty, Zenon
  <2>3. Hands(calls, u) = Hands(Tail(calls), u) + One(Carried(Head(calls)), u)
    <3>1. calls # <<>>
      BY <1>1, Zenon
    <3> QED
      BY <3>1, HandsTail, ZenonT(30)
  <2> HIDE DEF c, queue
  <2> QED
    BY <2>1, <2>2, <2>3
<1>4. Hands(calls', u) = Copies(queue, u)
  BY <1>1, HandsDrain, Zenon
<1> HIDE DEF c, queue
<1>5. AtHold(held', u) = AtHold(held, u) /\ AtHold(held, u) \in Nat
  BY <1>1, AtHoldIs
<1>6. Waiting(u)' = Waiting(u)
  <2>1. Waiting(u) = InQueues(cpus, dsqs, u) + AtHold(held, u) + Hands(calls, u)
        /\ Waiting(u)' = InQueues(cpus', dsqs', u) + AtHold(held', u) + Hands(calls', u)
    BY DEF Waiting
  <2> QED
    BY <1>2, <1>3, <1>4, <1>5, <2>1
<1>7. OnCpus(cpus', u) = OnCpus(cpus, u)
  BY <1>1, OnCpuSame DEF OnCpus
<1>8. failed' = failed /\ tasks'[u].state = tasks[u].state
  BY <1>1
<1> QED
  BY <1>6, <1>7, <1>8, Shifted, ZenonT(30)

(* A step keeps the count of a task, whatever copies of it are elsewhere.  *)
LEMMA CountedStep ==
    ASSUME SelectsLocal, Basic, [Next]_vars, NEW u \in Task, NEW n \in Nat, Counted(u, n)
    PROVE  Counted(u, n)'
<1>0. Basic'
  BY BasicStep
<1>1. CASE UNCHANGED vars
  <2>1. UNCHANGED <<dsqs, held, failed, cpus, calls>> /\ tasks'[u].state = tasks[u].state
    BY <1>1 DEF vars
  <2> QED
    BY <2>1, Unmoved
<1>2. ASSUME NEW e \in DOMAIN events, HandleEvent(e)
      PROVE  Counted(u, n)'
  <2>1. CASE WakeIgnored(e) \/ EndIgnored(e) \/ TickOffline(e) \/ AlreadyThere(e)
    <3>1. Ignore(e)
      BY <2>1 DEF WakeIgnored, EndIgnored, TickOffline, AlreadyThere
    <3> QED
      BY <3>1, PassAccounts
  <2>2. CASE TaskWake(e)
    BY <1>0, <2>2, WokenUp, WakeAccounts
  <2>3. CASE SliceExpired(e) \/ KickPreempt(e)
    BY <1>0, <2>3, StopEventAccounts
  <2>4. CASE CpuLeaves(e)
    BY <1>0, <2>4, StopEventAccounts, PassAccounts
  <2>5. CASE KickDispatch(e) \/ Tick(e) \/ CpuReturns(e)
    BY <2>5, PassAccounts
  <2>6. CASE PhaseComplete(e)
    BY <1>0, <2>6, PhaseAccounts
  <2> QED
    BY <1>2, <2>1, <2>2, <2>3, <2>4, <2>5, <2>6 DEF HandleEvent
<1>3. ASSUME NEW c \in Cpu, DispatchAndRun(c)
      PROVE  Counted(u, n)'
  <2>1. CASE DispatchLocal(c) \/ DispatchNothing(c) \/ GoIdle(c)
    BY <2>1, IdleAccounts
  <2>2. CASE DispatchMove(c)
    BY <1>0, <2>2, MoveAccounts
  <2>3. CASE DispatchHeld(c)
    BY <1>0, <2>3, OfferAccounts
  <2>4. CASE StartRunning(c)
    <3>1. PICK pick \in Picks(c) : SkipExited(c, pick) \/ RunFor(c, pick, tasks[pick.task].slice)
      BY <2>4 DEF StartRunning
    <3>2. tasks[pick.task].slice \in Nat /\ pick.task \in Task
      BY SliceTypes, PickTypes
    <3> QED
      BY <1>0, <3>1, <3>2, SkipAccounts, StartAccounts
  <2> QED
    BY <1>3, <2>1, <2>2, <2>3, <2>4 DEF DispatchAndRun
<1>4. CASE SelectCpu
  BY <1>0, <1>4, SelectAccounts
<1>5. CASE EnqueueInsert
  BY <1>0, <1>5, InsertAccounts
<1>6. CASE EnqueueHold
  BY <1>0, <1>6, HoldAccounts
<1>7. CASE OpsTick
  BY <1>0, <1>7, TickAccounts
<1>8. CASE DispatchRefused \/ TakeDown
  <2>1. 0 \in Cpu
    BY EngineAssumption DEF Cpu
  <2> QED
    BY <1>8, <2>1, IdleAccounts
<1>9. CASE DrainLocal
  BY <1>0, <1>9, DrainAccounts
<1> QED
  BY <1>1, <1>2, <1>3, <1>4, <1>5, <1>6, <1>7, <1>8, <1>9 DEF Next

(* Every step keeps every task accounted for. *)
LEMMA AccountedStep ==
    ASSUME SelectsLocal, Basic, [Next]_vars, \A t \in Task : Accounted(t)
    PROVE  \A t \in Task : Accounted(t)'
BY CountedStep DEF Accounted

(* At the start every task sleeps and none is anywhere. *)
LEMMA AccountedInit ==
    ASSUME Init, NEW u \in Task
    PROVE  Accounted(u)
<1>1. /\ calls = <<>> /\ held = {} /\ dsqs = [global |-> <<>>, shared |-> <<>>]
      /\ \A c \in Cpu : cpus[c].current = NoTask /\ cpus[c].local = <<>>
      /\ tasks[u].state = "Sleeping"
  BY DEF Init
<1>2. OnCpus(cpus, u) = 0
  BY <1>1, OnCpusTypes, EngineAssumption
<1>3. OnLocal(cpus, u) = {}
  BY <1>1 DEF OnLocal, Positions
<1>4. InQueues(cpus, dsqs, u) = 0
  BY <1>1, <1>3, CopiesNone, FS_EmptySet DEF InQueues
<1>5. AtHold(held, u) = 0 /\ Hands(calls, u) = 0
  BY <1>1, AtHoldIs, HandsEmpty
<1>6. Waiting(u) = 0 /\ Due(u) = 0
  BY <1>1, <1>4, <1>5 DEF Waiting, Due
<1> QED
  BY <1>1, <1>2, <1>6 DEF Accounted, Counted

(* Every task is always accounted for, if ops.select_cpu inserts into      *)
(* local DSQs only.                                                        *)
LEMMA AlwaysAccounted ==
    ASSUME SelectsLocal
    PROVE  Spec => [](Basic /\ \A t \in Task : Accounted(t))
<1> DEFINE I == \A t \in Task : Accounted(t)
<1>1. Init => Basic /\ I
  BY BasicInit, AccountedInit
<1>2. (Basic /\ I) /\ [Next]_vars => (Basic /\ I)'
  BY BasicStep, AccountedStep
<1> HIDE DEF I
<1>3. Spec => [](Basic /\ I)
  BY <1>1, <1>2, PTL DEF Spec
<1> QED
  BY <1>3 DEF I

(* No handler loses a task or queues it twice: until a rejected dispatch   *)
(* ends the run, a runnable or running task is in exactly one place, a     *)
(* sleeping or exited one in none - if ops.select_cpu inserts into local   *)
(* DSQs only. The hypothesis is needed: with another DSQ the wake goes on  *)
(* to ops.enqueue, and the task is queued twice.                           *)
THEOREM TasksConserved ==
    ASSUME SelectsLocal
    PROVE  Spec => []Conserved
<1>1. (Basic /\ \A t \in Task : Accounted(t)) => Conserved
  <2> SUFFICES ASSUME Basic, ~failed, NEW t \in Task, Accounted(t)
               PROVE  Places(t) = IF tasks[t].state \in {"Runnable", "Running"} THEN 1 ELSE 0
    BY DEF Conserved
  <2>1. OnCpus(cpus, t) + Waiting(t) = Due(t)
    BY AccountedIs
  <2>2. /\ OnCpus(cpus, t) \in Nat /\ Cardinality(OnLocal(cpus, t)) \in Nat
        /\ Copies(dsqs.global, t) \in Nat /\ Copies(dsqs.shared, t) \in Nat
        /\ AtHold(held, t) \in Nat /\ Hands(calls, t) \in Nat
    BY WaitingTypes, InQueuesTypes DEF Basic
  <2>3. Waiting(t) = Cardinality(OnLocal(cpus, t)) + Copies(dsqs.global, t) + Copies(dsqs.shared, t)
                       + AtHold(held, t) + Hands(calls, t)
    BY DEF Waiting, InQueues
  <2>4. Places(t) = OnCpus(cpus, t) + Cardinality(OnLocal(cpus, t)) + Copies(dsqs.global, t)
                      + Copies(dsqs.shared, t) + AtHold(held, t) + Hands(calls, t)
    BY DEF Places, OnCpus, AtHold, Hands
  <2>5. Places(t) = Due(t)
    BY <2>1, <2>2, <2>3, <2>4
  <2> QED
    BY <2>5 DEF Due
<1> QED
  BY <1>1, AlwaysAccounted, PTL

(* A task that is accounted for is on one CPU. *)
LEMMA AloneThere ==
    ASSUME Basic, \A t \in Task : Accounted(t)
    PROVE  TaskOnOneCpu
<1> SUFFICES ASSUME NEW c \in Cpu, NEW d \in Cpu,
                    cpus[c].current = cpus[d].current, cpus[c].current # NoTask, c # d
             PROVE  FALSE
  BY DEF TaskOnOneCpu
<1> DEFINE t == cpus[c].current
<1>1. t \in Task
  BY OnTask
<1>2. OnCpus(cpus, t) = 1
  BY <1>1, OnlyThere DEF Accounted
<1> HIDE DEF t
<1>3. OnCpu(cpus, t) \in SUBSET Cpu /\ c \in OnCpu(cpus, t) /\ d \in OnCpu(cpus, t)
  BY DEF OnCpu, t
<1>4. IsFiniteSet(OnCpu(cpus, t))
  <2>1. IsFiniteSet(Cpu)
    BY FS_Interval, EngineAssumption DEF Cpu
  <2> QED
    BY <1>3, <2>1, FS_Subset
<1>5. Cardinality(OnCpu(cpus, t) \ {c}) = 0 /\ IsFiniteSet(OnCpu(cpus, t) \ {c})
  BY <1>2, <1>3, <1>4, FS_RemoveElement DEF OnCpus
<1>6. OnCpu(cpus, t) \ {c} = {}
  BY <1>5, FS_EmptySet
<1> QED
  BY <1>3, <1>6

(* No task runs on two CPUs at once, failed run or not, under the same     *)
(* hypothesis. It is about this engine: with the bandwidth stash that      *)
(* EngineFull adds, the property fails (MCEngineTwice.cfg).                *)
THEOREM OneCpuATask ==
    ASSUME SelectsLocal
    PROVE  Spec => []TaskOnOneCpu
BY AlwaysAccounted, AloneThere, PTL

-----------------------------------------------------------------------------
(* How long a run lasts. *)

(* A run lasts until the slice or the phase is over. *)
Bound(t) == IF tasks[t].slice <= tasks[t].remaining THEN tasks[t].slice ELSE tasks[t].remaining
EndBy(c) == cpus[c].startedAt + Bound(cpus[c].current)

(* The clock of a busy CPU is within the run, whose end is an event, ...   *)
Ending(c) ==
    cpus[c].current # NoTask =>
        /\ cpus[c].clock <= EndBy(c)
        /\ \E f \in DOMAIN events :
              f.cpu = c /\ f.kind \in {"SliceExpired", "PhaseComplete"} /\ f.time <= EndBy(c)

(* ... a sleeper has its whole next phase before it, a task is owed what   *)
(* remains of its phase, and who is queued or runs has a slice.            *)
Rested(t) == tasks[t].state = "Sleeping" => tasks[t].remaining = RunTime(PhaseAt(t, tasks[t].pos))
Owed(t) == unserved[t] >= tasks[t].remaining
Sliced(t) ==
    (tasks[t].state = "Running" \/ InQueues(cpus, dsqs, t) > 0) => tasks[t].slice > 0

Timely ==
    /\ \A c \in Cpu : Ending(c)
    /\ \A t \in Task : Rested(t) /\ Owed(t) /\ Sliced(t)

(* Bound is a time, no longer than the slice and the phase. *)
LEMMA BoundTypes ==
    ASSUME Basic, NEW t \in Task
    PROVE  /\ Bound(t) \in Nat /\ Bound(t) <= tasks[t].slice /\ Bound(t) <= tasks[t].remaining
           /\ tasks[t].slice \in Nat /\ tasks[t].remaining \in Nat /\ tasks[t].pos \in Nat
           /\ unserved[t] \in Int
<1>1. tasks[t].slice \in Nat /\ tasks[t].remaining \in Nat /\ tasks[t].pos \in Nat
  BY DEF Basic, TaskRec
<1>2. unserved[t] \in Int
  BY DEF Basic
<1> QED
  BY <1>1, <1>2 DEF Bound

(* The clock and the start of a CPU are times. *)
LEMMA ClockTypes ==
    ASSUME Basic, NEW c \in Cpu
    PROVE  cpus[c].clock \in Nat /\ cpus[c].startedAt \in Nat
BY DEF Basic, CpuRec

(* Events have a time and a CPU. *)
LEMMA QueuedTypes ==
    ASSUME Basic, NEW f \in DOMAIN events
    PROVE  f \in Event /\ f.cpu \in Cpu /\ f.time \in Nat
BY DEF Basic, NewEvents, IsBagOf, Event

(* A busy CPU runs a task, which is Running, and its end is a time. *)
LEMMA BusyTypes ==
    ASSUME Basic, NEW c \in Cpu, cpus[c].current # NoTask, \A t \in Task : Accounted(t)
    PROVE  LET t == cpus[c].current IN
           /\ t \in Task /\ tasks[t].state = "Running" /\ InQueues(cpus, dsqs, t) = 0
           /\ EndBy(c) \in Nat /\ EndBy(c) = cpus[c].startedAt + Bound(t)
<1> DEFINE t == cpus[c].current
<1>1. t \in Task
  BY OnTask
<1>2. tasks[t].state = "Running" /\ InQueues(cpus, dsqs, t) = 0
  BY <1>1, OnlyThere DEF Accounted
<1>3. EndBy(c) = cpus[c].startedAt + Bound(t)
  BY DEF EndBy
<1>4. EndBy(c) \in Nat
  BY <1>1, <1>3, BoundTypes, ClockTypes
<1> QED
  BY <1>1, <1>2, <1>3, <1>4

(* A callback leaves runs as they are: it neither starts nor stops one,    *)
(* and gives a slice only to who does not run.                             *)
LEMMA CallTimely ==
    ASSUME Basic, Basic', Timely, \A t \in Task : Accounted(t),
           \A k \in Cpu : /\ cpus'[k].current = cpus[k].current
                          /\ cpus'[k].startedAt = cpus[k].startedAt
                          /\ cpus[k].current # NoTask => cpus'[k].clock = cpus[k].clock,
           DOMAIN events \subseteq DOMAIN events', unserved' = unserved,
           \A u \in Task :
             /\ tasks'[u].state = tasks[u].state /\ tasks'[u].pos = tasks[u].pos
             /\ tasks'[u].remaining = tasks[u].remaining
             /\ \/ /\ tasks'[u].slice = tasks[u].slice
                   /\ InQueues(cpus', dsqs', u) > 0 => InQueues(cpus, dsqs, u) > 0
                \/ /\ tasks[u].state # "Running"
                   /\ InQueues(cpus', dsqs', u) > 0 => tasks'[u].slice > 0
    PROVE  Timely'
<1>1. ASSUME NEW c \in Cpu PROVE Ending(c)'
  <2> DEFINE t == cpus[c].current
  <2> SUFFICES ASSUME cpus'[c].current # NoTask
               PROVE  /\ cpus'[c].clock <= EndBy(c)'
                      /\ \E f \in DOMAIN events' :
                           /\ f.cpu = c /\ f.kind \in {"SliceExpired", "PhaseComplete"}
                           /\ f.time <= EndBy(c)'
    BY DEF Ending
  <2>1. t # NoTask
    OBVIOUS
  <2>2. t \in Task /\ tasks[t].state = "Running"
    BY <2>1, BusyTypes
  <2>3. tasks'[t].slice = tasks[t].slice /\ tasks'[t].remaining = tasks[t].remaining
    BY <2>2
  <2>4. Bound(t)' = Bound(t)
    BY <2>3 DEF Bound
  <2>5. EndBy(c)' = EndBy(c)
    BY <2>3 DEF EndBy, Bound
  <2>6. Ending(c)
    BY DEF Timely
  <2>7. cpus'[c].clock = cpus[c].clock
    BY <2>1
  <2> HIDE DEF t
  <2> QED
    BY <2>1, <2>5, <2>6, <2>7 DEF Ending, t
<1>2. ASSUME NEW u \in Task PROVE Rested(u)' /\ Owed(u)' /\ Sliced(u)'
  <2>1. Rested(u) /\ Owed(u) /\ Sliced(u)
    BY DEF Timely
  <2>2. Rested(u)'
    BY <2>1 DEF Rested
  <2>3. Owed(u)'
    BY <2>1 DEF Owed
  <2>4. Sliced(u)'
    BY <2>1 DEF Sliced
  <2> QED
    BY <2>2, <2>3, <2>4
<1> QED
  BY <1>1, <1>2 DEF Timely

(* An event is no later than the end of the run it finds on its CPU. *)
LEMMA EventInTime ==
    ASSUME Basic, Timely, \A t \in Task : Accounted(t),
           NEW e \in DOMAIN events, NEW pushed, Pop(e, pushed),
           cpus[e.cpu].current # NoTask
    PROVE  Now(e.cpu, e.time) <= EndBy(e.cpu)
<1> DEFINE c == e.cpu
<1>1. c \in Cpu /\ e.time \in Nat /\ cpus[c].current # NoTask
  BY QueuedTypes
<1>2. Ending(c)
  BY <1>1 DEF Timely
<1>3. PICK f \in DOMAIN events : f.time <= EndBy(c)
  BY <1>1, <1>2 DEF Ending
<1>4. e.time <= f.time
  BY DEF Pop
<1>5. f.time \in Nat /\ EndBy(c) \in Nat
  BY <1>1, QueuedTypes, BusyTypes
<1>6. cpus[c].clock <= EndBy(c)
  BY <1>1, <1>2 DEF Ending
<1>7. Now(c, e.time) \in {cpus[c].clock, e.time}
  BY DEF Now
<1> HIDE DEF c
<1>8. Now(c, e.time) <= EndBy(c)
  BY <1>1, <1>3, <1>4, <1>5, <1>6, <1>7
<1> QED
  BY <1>8 DEF c

(* An event that stops nobody: its CPU's clock stays within the run, and   *)
(* only a sleeper's phase may change.                                      *)
LEMMA PassTimely ==
    ASSUME Basic, Basic', Timely, \A t \in Task : Accounted(t),
           NEW e \in DOMAIN events, NEW pushed, NewEvents(pushed), Pop(e, pushed),
           e.kind \in {"SliceExpired", "PhaseComplete"} => cpus[e.cpu].current = NoTask,
           \A k \in Cpu : /\ cpus'[k].current = cpus[k].current
                          /\ cpus'[k].local = cpus[k].local
                          /\ cpus'[k].startedAt = cpus[k].startedAt
                          /\ cpus'[k].clock = IF k = e.cpu THEN Now(e.cpu, e.time) ELSE cpus[k].clock,
           dsqs' = dsqs,
           \A u \in Task :
             \/ tasks'[u] = tasks[u] /\ unserved'[u] = unserved[u]
             \/ /\ tasks[u].state = "Sleeping" /\ tasks'[u].state # "Running"
                /\ tasks'[u].slice = tasks[u].slice
                /\ Rested(u)' /\ Owed(u)'
    PROVE  Timely'
<1>1. ASSUME NEW c \in Cpu PROVE Ending(c)'
  <2> DEFINE t == cpus[c].current
  <2> SUFFICES ASSUME cpus'[c].current # NoTask
               PROVE  /\ cpus'[c].clock <= EndBy(c)'
                      /\ \E f \in DOMAIN events' :
                           /\ f.cpu = c /\ f.kind \in {"SliceExpired", "PhaseComplete"}
                           /\ f.time <= EndBy(c)'
    BY DEF Ending
  <2>1. cpus[c].current # NoTask
    OBVIOUS
  <2>2. t \in Task /\ tasks[t].state = "Running"
    BY <2>1, BusyTypes
  <2>3. tasks'[t] = tasks[t]
    BY <2>2
  <2>4. EndBy(c)' = EndBy(c)
    BY <2>3 DEF EndBy, Bound
  <2>5. Ending(c)
    BY DEF Timely
  <2>6. PICK f \in DOMAIN events :
          f.cpu = c /\ f.kind \in {"SliceExpired", "PhaseComplete"} /\ f.time <= EndBy(c)
    BY <2>1, <2>5 DEF Ending
  <2>7. f # e
    BY <2>1, <2>6
  <2>8. f \in DOMAIN events'
    BY <2>7, Popped
  <2>9. cpus'[c].clock <= EndBy(c)
    <3>1. CASE c = e.cpu
      BY <2>1, <3>1, EventInTime
    <3>2. CASE c # e.cpu
      BY <2>1, <2>5, <3>2 DEF Ending
    <3> QED
      BY <3>1, <3>2
  <2> QED
    BY <2>4, <2>6, <2>8, <2>9
<1>2. ASSUME NEW u \in Task PROVE Rested(u)' /\ Owed(u)' /\ Sliced(u)'
  <2>1. Rested(u) /\ Owed(u) /\ Sliced(u)
    BY DEF Timely
  <2>2. InQueues(cpus', dsqs', u) = InQueues(cpus, dsqs, u)
    BY OnLocalSame DEF InQueues
  <2>3. Rested(u)' /\ Owed(u)'
    BY <2>1 DEF Rested, Owed
  <2>4. Sliced(u)'
    BY <2>1, <2>2 DEF Sliced
  <2> QED
    BY <2>3, <2>4
<1> QED
  BY <1>1, <1>2 DEF Timely

(* A run that is stopped leaves the others alone. *)
LEMMA StopTimely ==
    ASSUME Basic, Basic', Timely, \A t \in Task : Accounted(t),
           NEW c \in Cpu, NEW now \in Nat, NEW t \in Task, cpus[c].current = t,
           cpus' = Stop(c, now), dsqs' = dsqs,
           \A u \in Task : u # t => tasks'[u] = tasks[u] /\ unserved'[u] = unserved[u],
           tasks'[t].state # "Running", Rested(t)', Owed(t)',
           \A f \in DOMAIN events : f.cpu # c => f \in DOMAIN events'
    PROVE  Timely'
<1>1. /\ \A k \in Cpu : k # c => cpus'[k] = cpus[k]
      /\ cpus'[c].current = NoTask
      /\ \A k \in Cpu : cpus'[k].local = cpus[k].local
  BY StopTypes
<1>2. ASSUME NEW k \in Cpu PROVE Ending(k)'
  <2> SUFFICES ASSUME cpus'[k].current # NoTask
               PROVE  /\ cpus'[k].clock <= EndBy(k)'
                      /\ \E f \in DOMAIN events' :
                           /\ f.cpu = k /\ f.kind \in {"SliceExpired", "PhaseComplete"}
                           /\ f.time <= EndBy(k)'
    BY DEF Ending
  <2>1. k # c /\ cpus'[k] = cpus[k] /\ cpus[k].current # NoTask
    BY <1>1
  <2> DEFINE u == cpus[k].current
  <2>2. u \in Task
    BY <2>1, OnTask
  <2>3. u # t
    <3>1. SUFFICES ASSUME cpus[k].current = t PROVE FALSE
      OBVIOUS
    <3> QED
      BY <2>1, <3>1, AloneThere DEF TaskOnOneCpu
  <2>4. tasks'[u] = tasks[u]
    BY <2>2, <2>3
  <2>5. EndBy(k)' = EndBy(k)
    BY <2>1, <2>4 DEF EndBy, Bound
  <2>6. Ending(k)
    BY DEF Timely
  <2> HIDE DEF u
  <2> QED
    BY <2>1, <2>5, <2>6 DEF Ending
<1>3. ASSUME NEW u \in Task PROVE Rested(u)' /\ Owed(u)' /\ Sliced(u)'
  <2>1. Rested(u) /\ Owed(u) /\ Sliced(u)
    BY DEF Timely
  <2>2. InQueues(cpus', dsqs', u) = InQueues(cpus, dsqs, u)
    BY <1>1, OnLocalSame DEF InQueues
  <2>3. CASE u = t
    <3>1. InQueues(cpus, dsqs, t) = 0
      BY OnlyThere DEF Accounted
    <3> QED
      BY <2>2, <2>3, <3>1 DEF Sliced
  <2>4. CASE u # t
    BY <2>1, <2>2, <2>4 DEF Rested, Owed, Sliced
  <2> QED
    BY <2>3, <2>4
<1> QED
  BY <1>2, <1>3 DEF Timely

(* A task that is stopped in time has run no longer than its bounds. *)
LEMMA RanInTime ==
    ASSUME Basic, NEW c \in Cpu, NEW now \in Nat, cpus[c].current \in Task, now <= EndBy(c)
    PROVE  LET t == cpus[c].current IN
           /\ Ran(c, now) <= tasks[t].slice /\ tasks[t].slice \in Nat
           /\ Ran(c, now) <= tasks[t].remaining /\ tasks[t].remaining \in Nat
<1> DEFINE t == cpus[c].current
<1>1. /\ Bound(t) \in Nat /\ Bound(t) <= tasks[t].slice /\ Bound(t) <= tasks[t].remaining
      /\ tasks[t].slice \in Nat /\ tasks[t].remaining \in Nat
  BY BoundTypes
<1>2. Ran(c, now) = now - cpus[c].startedAt /\ cpus[c].startedAt \in Nat
  BY StopTypes, ClockTypes
<1>3. EndBy(c) = cpus[c].startedAt + Bound(t)
  BY DEF EndBy
<1> HIDE DEF t
<1>4. Ran(c, now) <= Bound(t) /\ Ran(c, now) \in Int
  BY <1>1, <1>2, <1>3
<1>5. Ran(c, now) <= tasks[t].slice /\ Ran(c, now) <= tasks[t].remaining
  BY <1>1, <1>4
<1> QED
  BY <1>1, <1>5 DEF t

(* A wake leaves the slice. *)
LEMMA WokenSlice ==
    ASSUME Basic, NEW e \in DOMAIN events, TaskWake(e)
    PROVE  tasks'[e.task].slice = tasks[e.task].slice
<1>1. e.task \in Task
  BY WokenUp
<1>2. PICK q : tasks' = [tasks EXCEPT
                  ![e.task].state = StateIn(PhaseAt(e.task, q)), ![e.task].pos = q,
                  ![e.task].remaining = IF q = tasks[e.task].pos /\ @ > 0 THEN @
                                        ELSE RunTime(PhaseAt(e.task, q))]
  BY Zenon DEF TaskWake, WakeSleeper
<1>3. tasks \in [Task -> TaskRec]
  BY DEF Basic
<1> QED
  BY <1>1, <1>2, <1>3 DEF TaskRec

(* A task that is stopped has run within its slice and its phase, and is   *)
(* charged no less than it has run.                                        *)
LEMMA RequeueTimely ==
    ASSUME Basic, Basic', Timely, \A t \in Task : Accounted(t),
           NEW c \in Cpu, NEW now \in Nat, NEW consumed \in Int, NEW left \in Nat,
           cpus[c].current \in Task, StopAndReenqueue(c, now, consumed, left),
           now <= EndBy(c), Ran(c, now) <= consumed,
           \A f \in DOMAIN events : f.cpu # c => f \in DOMAIN events'
    PROVE  Timely'
<1>0. PICK t \in Task : cpus[c].current = t
  OBVIOUS
<1>1. /\ t \in Task /\ dsqs' = dsqs
      /\ \A u \in Task : u # t => tasks'[u] = tasks[u] /\ unserved'[u] = unserved[u]
      /\ tasks'[t].state = "Runnable"
      /\ tasks'[t].remaining = Monus(tasks[t].remaining, consumed)
      /\ unserved'[t] = unserved[t] - Ran(c, now)
  BY <1>0, RequeueTypes
<1>2. cpus' = Stop(c, now)
  BY Zenon DEF StopAndReenqueue
<1>3. /\ Bound(t) \in Nat /\ Bound(t) <= tasks[t].remaining
      /\ tasks[t].remaining \in Nat /\ unserved[t] \in Int
  BY <1>1, BoundTypes
<1>4. Ran(c, now) \in Int /\ Ran(c, now) = now - cpus[c].startedAt /\ cpus[c].startedAt \in Nat
  BY StopTypes, ClockTypes
<1>5. EndBy(c) = cpus[c].startedAt + Bound(t)
  BY <1>0 DEF EndBy
<1>6. Owed(t)
  BY <1>1 DEF Timely
<1>7. unserved[t] >= tasks[t].remaining
  BY <1>6 DEF Owed
<1>8. Ran(c, now) <= Bound(t)
  BY <1>3, <1>4, <1>5
<1>9. unserved[t] - Ran(c, now) >= Monus(tasks[t].remaining, consumed)
  BY <1>3, <1>4, <1>7, <1>8 DEF Monus
<1>10. Owed(t)' /\ Rested(t)' /\ tasks'[t].state # "Running"
  BY <1>1, <1>9 DEF Owed, Rested
<1> QED
  BY <1>1, <1>2, <1>10, <1>0, StopTimely

(* A handler that stops and starts no task moves its CPU's clock only. *)
LEMMA PassClocks ==
    ASSUME Basic, NEW e \in DOMAIN events,
           Ignore(e) \/ KickDispatch(e) \/ Tick(e) \/ CpuReturns(e)
             \/ (CpuLeaves(e) /\ cpus[e.cpu].current = NoTask)
    PROVE  /\ unserved' = unserved
           /\ \A k \in Cpu : /\ cpus'[k].startedAt = cpus[k].startedAt
                             /\ cpus'[k].clock = IF k = e.cpu THEN Now(e.cpu, e.time) ELSE cpus[k].clock
<1>0. PICK c \in Cpu, time \in Nat : c = e.cpu /\ time = e.time
  BY QueuedTypes
<1> DEFINE A == Advance(c, time)
           x == [A[c] EXCEPT !.online = TRUE]
<1>1. /\ unserved' = unserved
      /\ cpus' = A \/ cpus' = [A EXCEPT ![c] = x]
  <2>1. CASE Ignore(e) \/ KickDispatch(e) \/ Tick(e)
    BY <1>0, <2>1 DEF Ignore, KickDispatch, Tick
  <2>2. CASE CpuReturns(e)
    BY <1>0, <2>2 DEF CpuReturns
  <2>3. CASE CpuLeaves(e) /\ cpus[e.cpu].current = NoTask
    BY <1>0, <2>3 DEF CpuLeaves
  <2> QED
    BY <2>1, <2>2, <2>3
<1>2. A \in [Cpu -> CpuRec]
      /\ \A k \in Cpu : /\ A[k].startedAt = cpus[k].startedAt
                        /\ A[k].clock = IF k = c THEN Now(c, time) ELSE cpus[k].clock
  BY NowTypes
<1> HIDE DEF A
<1>3. x.startedAt = A[c].startedAt /\ x.clock = A[c].clock
  BY <1>2 DEF CpuRec
<1> HIDE DEF x
<1>4. ASSUME NEW k \in Cpu
      PROVE  cpus'[k].startedAt = A[k].startedAt /\ cpus'[k].clock = A[k].clock
  BY <1>1, <1>2, <1>3
<1>5. ASSUME NEW k \in Cpu
      PROVE  /\ cpus'[k].startedAt = cpus[k].startedAt
             /\ cpus'[k].clock = IF k = e.cpu THEN Now(e.cpu, e.time) ELSE cpus[k].clock
  BY <1>0, <1>2, <1>4
<1> QED
  BY <1>1, <1>5

(* Every handler keeps runs within their bounds. *)
LEMMA EventTimely ==
    ASSUME Basic, Basic', Timely, \A t \in Task : Accounted(t),
           NEW e \in DOMAIN events, HandleEvent(e)
    PROVE  Timely'
<1>1. e.cpu \in Cpu /\ e.time \in Nat /\ PopsOnly(e)
  BY QueuedTypes, EventPops
<1>2. PICK pushed : NewEvents(pushed) /\ Pop(e, pushed)
  BY <1>1 DEF PopsOnly
<1>3. \A f \in DOMAIN events : f.cpu # e.cpu => f \in DOMAIN events'
  BY <1>1 DEF PopsOnly
<1>4. cpus[e.cpu].current # NoTask => Now(e.cpu, e.time) <= EndBy(e.cpu)
  BY <1>2, EventInTime
<1>5. CASE \/ WakeIgnored(e) \/ EndIgnored(e) \/ TickOffline(e) \/ AlreadyThere(e)
           \/ KickDispatch(e) \/ Tick(e) \/ CpuReturns(e)
           \/ CpuLeaves(e) /\ cpus[e.cpu].current = NoTask
  <2>1. Ignore(e) \/ KickDispatch(e) \/ Tick(e) \/ CpuReturns(e)
          \/ (CpuLeaves(e) /\ cpus[e.cpu].current = NoTask)
    BY <1>5 DEF WakeIgnored, EndIgnored, TickOffline, AlreadyThere
  <2>2. e.kind \in {"SliceExpired", "PhaseComplete"} => cpus[e.cpu].current = NoTask
    BY <1>5 DEF WakeIgnored, EndIgnored, TickOffline, AlreadyThere, KickDispatch, Tick, CpuReturns
  <2>3. /\ dsqs' = dsqs /\ tasks' = tasks
        /\ \A k \in Cpu : cpus'[k].current = cpus[k].current /\ cpus'[k].local = cpus[k].local
    BY <2>1, PassKeeps
  <2>4. /\ unserved' = unserved
        /\ \A k \in Cpu : /\ cpus'[k].startedAt = cpus[k].startedAt
                          /\ cpus'[k].clock = IF k = e.cpu THEN Now(e.cpu, e.time) ELSE cpus[k].clock
    BY <2>1, PassClocks
  <2> QED
    BY <1>2, <2>2, <2>3, <2>4, PassTimely
<1>6. CASE TaskWake(e)
  <2> DEFINE t == e.task
             p == tasks[t].pos
  <2>1. /\ e.kind = "TaskWake" /\ t \in Task /\ tasks[t].state = "Sleeping"
        /\ cpus' = Advance(e.cpu, e.time) /\ dsqs' = dsqs
        /\ \A u \in Task : u # t => tasks'[u] = tasks[u] /\ unserved'[u] = unserved[u]
    BY <1>6, WokenUp DEF WokenAs
  <2>2. PICK q \in Nat :
          LET ph == PhaseAt(t, q) IN
          /\ tasks'[t].state = StateIn(ph) /\ tasks'[t].pos = q
          /\ tasks'[t].remaining = IF q = p /\ tasks[t].remaining > 0
                                   THEN tasks[t].remaining ELSE RunTime(ph)
          /\ unserved'[t] = IF q = p THEN unserved[t] ELSE unserved[t] + RunTime(ph)
          /\ RunTime(ph) \in Nat
          /\ StateIn(ph) \in {"Runnable", "Sleeping", "Exited"}
    BY <1>6, WokenUp DEF WokenAs
  <2>3. tasks'[t].slice = tasks[t].slice
    BY <1>6, WokenSlice
  <2>4. \A k \in Cpu : /\ cpus'[k].current = cpus[k].current
                       /\ cpus'[k].local = cpus[k].local
                       /\ cpus'[k].startedAt = cpus[k].startedAt
                       /\ cpus'[k].clock = IF k = e.cpu THEN Now(e.cpu, e.time) ELSE cpus[k].clock
    BY SMTT(30), <1>1, <2>1, NowTypes
  <2>5. Rested(t) /\ Owed(t)
    BY <2>1 DEF Timely
  <2>6. tasks[t].remaining = RunTime(PhaseAt(t, p))
    BY <2>1, <2>5 DEF Rested
  <2>7. unserved[t] >= tasks[t].remaining /\ tasks[t].remaining \in Nat /\ unserved[t] \in Int
    BY <2>1, <2>5, BoundTypes DEF Owed
  <2>8. tasks'[t].remaining = RunTime(PhaseAt(t, q))
    BY <2>2, <2>6
  <2>9. unserved'[t] >= RunTime(PhaseAt(t, q))
    BY <2>2, <2>6, <2>7
  <2>10. Rested(t)' /\ Owed(t)' /\ tasks'[t].state # "Running"
    BY <2>2, <2>8, <2>9 DEF Rested, Owed
  <2> HIDE DEF t, p
  <2>11. e.kind \notin {"SliceExpired", "PhaseComplete"}
    BY <2>1
  <2> QED
    BY <1>2, <2>1, <2>3, <2>4, <2>10, <2>11, PassTimely
<1>7. CASE SliceExpired(e)
  <2> DEFINE c == e.cpu
             t == cpus[c].current
             now == Now(c, e.time)
  <2>1. c \in Cpu /\ t # NoTask /\ StopAndReenqueue(c, now, tasks[t].slice, 0)
    BY <1>1, <1>7 DEF SliceExpired
  <2>2. now \in Nat /\ t \in Task /\ now <= EndBy(c)
    BY <1>1, <1>4, <2>1, NowTypes, OnTask
  <2>3. Ran(c, now) <= tasks[t].slice /\ tasks[t].slice \in Nat
    BY <2>1, <2>2, RanInTime
  <2>4. \A f \in DOMAIN events : f.cpu # c => f \in DOMAIN events'
    BY <1>3
  <2> HIDE DEF c, now
  <2>5. 0 \in Nat /\ tasks[t].slice \in Int
    BY <2>3
  <2> QED
    BY <2>1, <2>2, <2>3, <2>4, <2>5, RequeueTimely
<1>8. CASE KickPreempt(e) \/ (CpuLeaves(e) /\ cpus[e.cpu].current # NoTask)
  <2> DEFINE c == e.cpu
             now == Now(c, e.time)
  <2>1. c \in Cpu /\ cpus[c].current # NoTask /\ PreemptCurrent(c, now)
    BY <1>1, <1>8 DEF KickPreempt, CpuLeaves
  <2>2. now \in Nat /\ cpus[c].current \in Task /\ now <= EndBy(c)
    BY <1>1, <1>4, <2>1, NowTypes, OnTask
  <2>3. \A f \in DOMAIN events : f.cpu # c => f \in DOMAIN events'
    BY <1>3
  <2> HIDE DEF c, now
  <2>4. PICK left \in Nat : StopAndReenqueue(c, now, Ran(c, now), left)
    BY <2>1, <2>2, PreemptTypes
  <2>5. Ran(c, now) \in Int /\ Ran(c, now) <= Ran(c, now)
    BY <2>1, <2>2, StopTypes
  <2> QED
    BY <2>1, <2>2, <2>3, <2>4, <2>5, RequeueTimely
<1>9. CASE PhaseComplete(e)
  <2> DEFINE c == e.cpu
             now == Now(c, e.time)
  <2>1. c \in Cpu /\ cpus[c].current \in Task /\ now \in Nat
    BY <1>9, Completed
  <2>6. PICK t \in Task : cpus[c].current = t
    BY <2>1
  <2>2. PICK q \in Nat :
          /\ cpus' = Stop(c, now) /\ dsqs' = dsqs
          /\ \A u \in Task : u # t => tasks'[u] = tasks[u] /\ unserved'[u] = unserved[u]
          /\ tasks'[t].state = StateIn(PhaseAt(t, q)) /\ tasks'[t].pos = q
          /\ tasks'[t].remaining = RunTime(PhaseAt(t, q))
          /\ unserved'[t] = unserved[t] - Ran(c, now) + RunTime(PhaseAt(t, q))
          /\ RunTime(PhaseAt(t, q)) \in Nat
          /\ StateIn(PhaseAt(t, q)) \in {"Runnable", "Sleeping", "Exited"}
    BY <1>9, <2>6, Completed
  <2>3. t # NoTask /\ now <= EndBy(c)
    BY <1>4, <2>1, <2>6, EngineAssumption
  <2>4. \A f \in DOMAIN events : f.cpu # c => f \in DOMAIN events'
    BY <1>3
  <2>5. Owed(t)
    BY <2>1 DEF Timely
  <2> HIDE DEF c, now
  <2>7. Ran(c, now) <= tasks[t].remaining /\ Ran(c, now) \in Int
    BY <2>1, <2>3, <2>6, RanInTime, StopTypes
  <2>8. unserved[t] >= tasks[t].remaining /\ tasks[t].remaining \in Nat /\ unserved[t] \in Int
    BY <2>1, <2>5, BoundTypes DEF Owed
  <2>9. unserved'[t] >= RunTime(PhaseAt(t, q))
    BY <2>2, <2>7, <2>8
  <2>10. Rested(t)' /\ Owed(t)' /\ tasks'[t].state # "Running"
    BY <2>2, <2>9 DEF Rested, Owed
  <2> QED
    BY <2>1, <2>2, <2>4, <2>6, <2>10, StopTimely
<1> QED
  BY <1>5, <1>6, <1>7, <1>8, <1>9 DEF HandleEvent
(* A task in the hands of a handler or of the scheduler does not run and   *)
(* is not queued.                                                          *)
LEMMA OutRests ==
    ASSUME Basic, NEW t \in Task, Accounted(t), Hands(calls, t) >= 1 \/ t \in held
    PROVE  tasks[t].state # "Running" /\ InQueues(cpus, dsqs, t) = 0
<1>1. /\ OnCpus(cpus, t) \in Nat /\ InQueues(cpus, dsqs, t) \in Nat
      /\ AtHold(held, t) \in Nat /\ Hands(calls, t) \in Nat
      /\ Waiting(t) = InQueues(cpus, dsqs, t) + AtHold(held, t) + Hands(calls, t)
  BY WaitingTypes DEF Waiting
<1>2. Hands(calls, t) >= 1 \/ AtHold(held, t) = 1
  BY AtHoldIs
<1>3. Due(t) \in {0, 1}
  BY DEF Due
<1>4. OnCpus(cpus, t) + Waiting(t) <= Due(t)
  BY AccountedIs
<1>5. OnCpus(cpus, t) = 0 /\ InQueues(cpus, dsqs, t) = 0
  BY <1>1, <1>2, <1>3, <1>4
<1> QED
  BY <1>5 DEF Accounted, Counted

(* A callback that hands over a task leaves it in nobody's queue yet.      *)
LEMMA HandedRests ==
    ASSUME Basic, calls # <<>>, Head(calls).op # "tick", NEW t \in Task, Head(calls).task = t,
           Accounted(t)
    PROVE  tasks[t].state # "Running" /\ InQueues(cpus, dsqs, t) = 0
<1>1. Carried(Head(calls)) = t /\ One(t, t) = 1
  BY DEF Carried, One
<1>2. /\ Hands(calls, t) = Hands(Tail(calls), t) + 1
      /\ Hands(calls, t) \in Nat /\ Hands(Tail(calls), t) \in Nat
  BY <1>1, HandsTail
<1>3. Hands(calls, t) >= 1
  BY <1>2
<1> QED
  BY <1>3, OutRests

(* A delivery leaves the clocks and the runs as they are. *)
LEMMA DeliveredClocks ==
    ASSUME Basic, NEW cs \in [Cpu -> CpuRec], NEW t \in Task, NEW d \in DsqId, NEW c \in Cpu,
           Deliver(cs, t, d, c)
    PROVE  \A k \in Cpu : /\ cpus'[k].current = cs[k].current /\ cpus'[k].clock = cs[k].clock
                          /\ cpus'[k].startedAt = cs[k].startedAt
BY Delivered

(* An insertion gives the task a slice. *)
LEMMA InsertTimely ==
    ASSUME Basic, Basic', Timely, \A u \in Task : Accounted(u),
           NEW cs \in [Cpu -> CpuRec],
           \A k \in Cpu : /\ cs[k].current = cpus[k].current /\ cs[k].local = cpus[k].local
                          /\ cs[k].startedAt = cpus[k].startedAt
                          /\ cpus[k].current # NoTask => cs[k].clock = cpus[k].clock,
           NEW t \in Task, NEW d \in DsqId, NEW c \in Cpu, Deliver(cs, t, d, c),
           tasks[t].state # "Running",
           \A u \in Task : u # t => tasks'[u] = tasks[u],
           tasks'[t].state = tasks[t].state, tasks'[t].pos = tasks[t].pos,
           tasks'[t].remaining = tasks[t].remaining, tasks'[t].slice \in Nat \ {0},
           DOMAIN events \subseteq DOMAIN events', unserved' = unserved
    PROVE  Timely'
<1>1. \A k \in Cpu : /\ cpus'[k].current = cpus[k].current
                     /\ cpus'[k].startedAt = cpus[k].startedAt
                     /\ cpus[k].current # NoTask => cpus'[k].clock = cpus[k].clock
  BY DeliveredClocks
<1>2. ASSUME NEW u \in Task, u # t
      PROVE  InQueues(cpus', dsqs', u) = InQueues(cpus, dsqs, u)
  <2>1. \/ InQueues(cpus', dsqs', u) = InQueues(cpus, dsqs, u) + One(t, u)
        \/ InQueues(cpus', dsqs', u) = InQueues(cpus, dsqs, u)
    BY DeliverCounts
  <2>2. One(t, u) = 0 /\ InQueues(cpus, dsqs, u) \in Nat
    BY <1>2, WaitingTypes DEF One
  <2> QED
    BY <2>1, <2>2
<1>3. tasks'[t].slice > 0
  OBVIOUS
<1>4. \A u \in Task :
        /\ tasks'[u].state = tasks[u].state /\ tasks'[u].pos = tasks[u].pos
        /\ tasks'[u].remaining = tasks[u].remaining
        /\ \/ /\ tasks'[u].slice = tasks[u].slice
              /\ InQueues(cpus', dsqs', u) > 0 => InQueues(cpus, dsqs, u) > 0
           \/ /\ tasks[u].state # "Running"
              /\ InQueues(cpus', dsqs', u) > 0 => tasks'[u].slice > 0
  BY <1>2, <1>3
<1> QED
  BY <1>1, <1>4, CallTimely

(* A callback that inserts nothing changes no queue. *)
LEMMA StayTimely ==
    ASSUME Basic, Basic', Timely, \A t \in Task : Accounted(t),
           \A k \in Cpu : /\ cpus'[k].current = cpus[k].current
                          /\ cpus'[k].startedAt = cpus[k].startedAt
                          /\ cpus[k].current # NoTask => cpus'[k].clock = cpus[k].clock,
           DOMAIN events \subseteq DOMAIN events', unserved' = unserved, tasks' = tasks,
           \A u \in Task : InQueues(cpus', dsqs', u) > 0 => InQueues(cpus, dsqs, u) > 0
    PROVE  Timely'
BY CallTimely

(* ops.select_cpu, whether it inserts the task or not. *)
LEMMA SelectTimely ==
    ASSUME Basic, Basic', Timely, \A t \in Task : Accounted(t), SelectCpu
    PROVE  Timely'
<1> DEFINE t == Head(calls).task
<1>1. /\ Calling("selectCpu") /\ t \in Task /\ calls # <<>>
      /\ UNCHANGED <<events, unserved>>
      /\ \A u \in Task : u # t => tasks'[u] = tasks[u]
      /\ tasks'[t].state = tasks[t].state /\ tasks'[t].pos = tasks[t].pos
      /\ tasks'[t].remaining = tasks[t].remaining
  BY Selected
<1>2. PICK c \in Chosen[t] :
        /\ c \in Cpu
        /\ \/ UNCHANGED <<cpus, dsqs>>
           \/ \E d \in SelectDsq :
                d \in DsqId /\ Deliver(cpus, t, d, c) /\ tasks'[t].slice \in Nat \ {0}
  BY Selected
<1>3. tasks[t].state # "Running" /\ InQueues(cpus, dsqs, t) = 0
  BY <1>1, HandedRests DEF Calling
<1> HIDE DEF t
<1>4. CASE UNCHANGED <<cpus, dsqs>>
  <2>1. \A u \in Task : InQueues(cpus', dsqs', u) = InQueues(cpus, dsqs, u)
    BY <1>4
  <2>2. ~(InQueues(cpus', dsqs', t) > 0)
    BY <1>1, <1>3, <2>1
  <2>3. \A u \in Task :
          /\ tasks'[u].state = tasks[u].state /\ tasks'[u].pos = tasks[u].pos
          /\ tasks'[u].remaining = tasks[u].remaining
          /\ \/ /\ tasks'[u].slice = tasks[u].slice
                /\ InQueues(cpus', dsqs', u) > 0 => InQueues(cpus, dsqs, u) > 0
             \/ /\ tasks[u].state # "Running"
                /\ InQueues(cpus', dsqs', u) > 0 => tasks'[u].slice > 0
    BY <1>1, <1>3, <2>1, <2>2
  <2> QED
    BY <1>1, <1>4, <2>3, CallTimely
<1>5. CASE \E d \in SelectDsq :
             d \in DsqId /\ Deliver(cpus, t, d, c) /\ tasks'[t].slice \in Nat \ {0}
  <2>1. PICK d \in DsqId : Deliver(cpus, t, d, c)
    BY <1>5
  <2>2. tasks'[t].slice \in Nat \ {0} /\ cpus \in [Cpu -> CpuRec]
    BY <1>5 DEF Basic
  <2>3. DOMAIN events \subseteq DOMAIN events' /\ unserved' = unserved
    BY <1>1
  <2> QED
    BY <1>1, <1>2, <1>3, <2>1, <2>2, <2>3, InsertTimely
<1> QED
  BY <1>2, <1>4, <1>5

(* ops.enqueue, whether it inserts the task or keeps it. *)
LEMMA EnqueueTimely ==
    ASSUME Basic, Basic', Timely, \A t \in Task : Accounted(t), EnqueueInsert \/ EnqueueHold
    PROVE  Timely'
<1>1. CASE EnqueueInsert
  <2> DEFINE t == Head(calls).task
             c == Head(calls).cpu
  <2>1. /\ Calling("enqueue") \/ Calling("requeue") \/ Calling("drain")
        /\ c \in Cpu /\ t \in Task
        /\ \A u \in Task : u # t => tasks'[u] = tasks[u]
        /\ tasks'[t].state = tasks[t].state /\ tasks'[t].pos = tasks[t].pos
        /\ tasks'[t].remaining = tasks[t].remaining /\ tasks'[t].slice \in Nat \ {0}
        /\ \E d \in EnqueueDsq : \E kicks :
             d \in DsqId /\ Deliver(cpus, t, d, c) /\ KickBag(kicks) /\ AfterEnqueue(kicks)
    BY <1>1, Enqueued
  <2>2. PICK d \in DsqId : Deliver(cpus, t, d, c)
    BY <2>1
  <2>3. PICK kicks : KickBag(kicks) /\ AfterEnqueue(kicks)
    BY <2>1
  <2>4. DOMAIN events \subseteq DOMAIN events' /\ unserved' = unserved /\ calls # <<>>
    BY <2>1, <2>3, AfterEnqueued
  <2>5. tasks[t].state # "Running"
    BY <2>1, <2>4, HandedRests DEF Calling
  <2>6. cpus \in [Cpu -> CpuRec]
    BY DEF Basic
  <2> HIDE DEF t, c
  <2> QED
    BY <2>1, <2>2, <2>4, <2>5, <2>6, InsertTimely
<1>2. CASE EnqueueHold
  <2>1. /\ UNCHANGED <<tasks, cpus, dsqs>>
        /\ \E kicks : KickBag(kicks) /\ AfterEnqueue(kicks)
        /\ Calling("enqueue") \/ Calling("requeue") \/ Calling("drain")
    BY <1>2, Kept
  <2>2. DOMAIN events \subseteq DOMAIN events' /\ unserved' = unserved
    BY <2>1, AfterEnqueued
  <2> QED
    BY <2>1, <2>2, StayTimely
<1> QED
  BY <1>1, <1>2

(* A tick that preempts finds the CPU's clock within the run. *)
LEMMA TickTimely ==
    ASSUME Basic, Basic', Timely, \A t \in Task : Accounted(t), OpsTick
    PROVE  Timely'
<1> DEFINE c == Head(calls).cpu
           now == cpus[c].clock
<1>1. /\ c \in Cpu /\ cpus[c].current \in Task /\ now \in Nat
      /\ DOMAIN events \subseteq DOMAIN events'
      /\ \/ \E left \in Nat : StopAndReenqueue(c, now, Ran(c, now), left)
         \/ UNCHANGED <<tasks, cpus, dsqs, held, unserved>>
  BY Ticked
<1>2. now <= EndBy(c)
  <2>1. Ending(c)
    BY <1>1 DEF Timely
  <2> QED
    BY <1>1, <2>1, EngineAssumption DEF Ending
<1>3. Ran(c, now) \in Int /\ Ran(c, now) <= Ran(c, now)
  BY <1>1, StopTypes
<1> HIDE DEF c, now
<1>4. CASE \E left \in Nat : StopAndReenqueue(c, now, Ran(c, now), left)
  <2>1. PICK left \in Nat : StopAndReenqueue(c, now, Ran(c, now), left)
    BY <1>4
  <2> QED
    BY <1>1, <1>2, <1>3, <2>1, RequeueTimely
<1>5. CASE UNCHANGED <<tasks, cpus, dsqs, held, unserved>>
  BY <1>1, <1>5, StayTimely
<1> QED
  BY <1>1, <1>4, <1>5

(* A CPU that starts nothing moves its clock only while it is idle. *)
LEMMA IdleTimely ==
    ASSUME Basic, Basic', Timely, \A t \in Task : Accounted(t), NEW c \in Cpu,
           DispatchLocal(c) \/ DispatchNothing(c) \/ GoIdle(c) \/ DispatchRefused \/ TakeDown
    PROVE  Timely'
<1>1. /\ UNCHANGED <<dsqs, tasks>>
      /\ \A k \in Cpu : cpus'[k].current = cpus[k].current /\ cpus'[k].local = cpus[k].local
  BY IdleKeeps
<1>2. \A u \in Task : InQueues(cpus', dsqs', u) = InQueues(cpus, dsqs, u)
  BY <1>1, OnLocalSame DEF InQueues
<1>3. /\ DOMAIN events \subseteq DOMAIN events' /\ unserved' = unserved
      /\ \A k \in Cpu : /\ cpus'[k].startedAt = cpus[k].startedAt
                        /\ cpus[k].current # NoTask => cpus'[k].clock = cpus[k].clock
  <2>1. CASE DispatchLocal(c) \/ DispatchNothing(c)
    <3>1. Dispatching(c) /\ cpus' = Advance(c, clock) /\ clock \in Nat
      BY <2>1 DEF DispatchLocal, DispatchNothing, Basic
    <3>2. cpus[c].current = NoTask /\ unserved' = unserved
      BY <3>1, Dispatched
    <3>3. DOMAIN events \subseteq DOMAIN events'
      <4>1. CASE DispatchLocal(c)
        BY <4>1 DEF DispatchLocal
      <4>2. CASE DispatchNothing(c)
        BY <4>2, KickNone, Flushed DEF DispatchNothing
      <4> QED
        BY <2>1, <4>1, <4>2
    <3> QED
      BY <3>1, <3>2, <3>3, NowTypes
  <2>2. CASE GoIdle(c) \/ DispatchRefused
    BY <2>2 DEF GoIdle, DispatchRefused
  <2>3. CASE TakeDown
    <3> DEFINE k == Head(calls).cpu
               x == [cpus[k] EXCEPT !.online = FALSE]
    <3>1. cpus \in [Cpu -> CpuRec] /\ k \in Cpu
      BY <2>3, Called DEF TakeDown, Basic
    <3>2. cpus' = [cpus EXCEPT ![k] = x] /\ UNCHANGED <<events, unserved>>
      BY <2>3 DEF TakeDown
    <3>3. x.startedAt = cpus[k].startedAt /\ x.clock = cpus[k].clock
      BY <3>1 DEF CpuRec
    <3> HIDE DEF k, x
    <3> QED
      BY <3>1, <3>2, <3>3
  <2> QED
    BY <2>1, <2>2, <2>3
<1> QED
  BY <1>1, <1>2, <1>3, StayTimely

(* ops.dispatch, when it moves a task to the local DSQ. *)
LEMMA MoveTimely ==
    ASSUME Basic, Basic', Timely, \A t \in Task : Accounted(t), NEW c \in Cpu, DispatchMove(c)
    PROVE  Timely'
<1>1. /\ Dispatching(c) /\ Flush(EmptyBag) /\ tasks' = tasks
      /\ \A k \in Cpu : /\ cpus'[k].current = cpus[k].current
                        /\ cpus'[k].startedAt = cpus[k].startedAt
                        /\ k # c => cpus'[k].clock = cpus[k].clock
  BY Moved
<1>2. cpus[c].current = NoTask /\ unserved' = unserved
  BY <1>1, Dispatched
<1>3. DOMAIN events \subseteq DOMAIN events'
  BY <1>1, KickNone, Flushed
<1>4. \A u \in Task : InQueues(cpus', dsqs', u) = InQueues(cpus, dsqs, u)
  BY MoveCounts
<1>5. \A k \in Cpu : cpus[k].current # NoTask => cpus'[k].clock = cpus[k].clock
  BY <1>1, <1>2
<1> QED
  BY <1>1, <1>2, <1>3, <1>4, <1>5, StayTimely

(* ops.dispatch, when it inserts a task it holds. *)
LEMMA OfferTimely ==
    ASSUME Basic, Basic', Timely, \A t \in Task : Accounted(t), NEW c \in Cpu, DispatchHeld(c)
    PROVE  Timely'
<1> DEFINE cs == Advance(c, clock)
<1>1. Dispatching(c) /\ cs \in [Cpu -> CpuRec] /\ clock \in Nat
  BY Offered DEF Basic
<1>2. PICK t \in held, d \in DispatchDsq :
        /\ t \in Task /\ d \in DsqId
        /\ Deliver(cs, t, d, c)
        /\ KickBag(Resched(cs, t, d, c)) /\ Flush(Resched(cs, t, d, c))
        /\ \A u \in Task : u # t => tasks'[u] = tasks[u]
        /\ tasks'[t].state = tasks[t].state /\ tasks'[t].pos = tasks[t].pos
        /\ tasks'[t].remaining = tasks[t].remaining /\ tasks'[t].slice \in Nat \ {0}
  BY Offered
<1>3. cpus[c].current = NoTask /\ unserved' = unserved
  BY <1>1, Dispatched
<1>4. /\ \A k \in Cpu : /\ cs[k].current = cpus[k].current /\ cs[k].local = cpus[k].local
                        /\ cs[k].startedAt = cpus[k].startedAt
                        /\ cs[k].clock = IF k = c THEN Now(c, clock) ELSE cpus[k].clock
  BY <1>1, NowTypes
<1> HIDE DEF cs
<1>5. DOMAIN events \subseteq DOMAIN events'
  BY <1>2, Flushed
<1>6. tasks[t].state # "Running"
  BY <1>2, OutRests
<1>7. \A k \in Cpu : cpus[k].current # NoTask => cs[k].clock = cpus[k].clock
  BY <1>3, <1>4
<1> QED
  BY <1>1, <1>2, <1>3, <1>4, <1>5, <1>6, <1>7, InsertTimely

(* The drain of an offlined CPU takes tasks out of its local DSQ. *)
LEMMA DrainTimely ==
    ASSUME Basic, Basic', Timely, \A t \in Task : Accounted(t), DrainLocal
    PROVE  Timely'
<1>1. /\ UNCHANGED <<events, tasks, unserved>>
      /\ \A k \in Cpu : /\ cpus'[k].current = cpus[k].current
                        /\ cpus'[k].clock = cpus[k].clock
                        /\ cpus'[k].startedAt = cpus[k].startedAt
  BY DrainTypes
<1>2. ASSUME NEW u \in Task, InQueues(cpus', dsqs', u) > 0
      PROVE  InQueues(cpus, dsqs, u) > 0
  <2> DEFINE q == Copies(cpus[Head(calls).cpu].local, u)
  <2>1. /\ InQueues(cpus', dsqs', u) + q = InQueues(cpus, dsqs, u)
        /\ InQueues(cpus', dsqs', u) \in Nat /\ q \in Nat
    BY DrainCounts
  <2> HIDE DEF q
  <2> QED
    BY <1>2, <2>1
<1> QED
  BY <1>1, <1>2, StayTimely, SMTT(30)

(* The event that a run is started with. *)
LEMMA StartedEnd ==
    ASSUME Basic, NEW c \in Cpu, NEW pick \in Picks(c), RunFor(c, pick, tasks[pick.task].slice)
    PROVE  LET t == pick.task IN
           \E f \in Event :
             /\ DOMAIN events' = DOMAIN events \cup {f}
             /\ f.cpu = c /\ f.kind \in {"SliceExpired", "PhaseComplete"}
             /\ f.time <= cpus[c].clock
                  + (IF tasks[t].remaining > 0 /\ tasks[t].slice > 0 /\ tasks[t].slice <= tasks[t].remaining
                     THEN tasks[t].slice ELSE tasks[t].remaining)
<1> DEFINE s == tasks[pick.task].slice
<1>1. s \in Nat
  BY SliceTypes
<1>2. RunFor(c, pick, s)
  OBVIOUS
<1> HIDE DEF s
<1>3. PICK f \in Event :
        /\ DOMAIN events' = DOMAIN events \cup {f}
        /\ f.cpu = c /\ f.kind \in {"SliceExpired", "PhaseComplete"}
        /\ f.time <= cpus[c].clock
             + (IF tasks[pick.task].remaining > 0 /\ s > 0 /\ s <= tasks[pick.task].remaining
                THEN s ELSE tasks[pick.task].remaining)
  BY <1>1, <1>2, StartedEvent
<1> QED
  BY <1>3 DEF s

(* A run is started with a task of the queues, which has a slice. *)
LEMMA StartedSlice ==
    ASSUME Basic, Basic', Timely, NEW c \in Cpu, NEW pick \in Picks(c),
           RunFor(c, pick, tasks[pick.task].slice)
    PROVE  /\ \A u \in Task : /\ InQueues(cpus', dsqs', u) + One(pick.task, u) = InQueues(cpus, dsqs, u)
                             /\ InQueues(cpus', dsqs', u) \in Nat
           /\ tasks[pick.task].slice > 0
<1>1. PICK t \in Task, slice \in Nat : t = pick.task /\ slice = tasks[t].slice
  BY PickTypes, BoundTypes
<1>2. dsqs'.global = pick.global /\ dsqs'.shared = dsqs.shared
  BY Started, SliceTypes
<1>3. cpus'[c].local = pick.local /\ \A k \in Cpu : k # c => cpus'[k].local = cpus[k].local
  BY <1>1, StartedCpu
<1>4. \A u \in Task : InQueues(cpus', dsqs', u) + One(t, u) = InQueues(cpus, dsqs, u)
  BY <1>1, <1>2, <1>3, PickCounts
<1>5. \A u \in Task : InQueues(cpus', dsqs', u) \in Nat
  <2>1. cpus' \in [Cpu -> CpuRec] /\ dsqs' \in [global : Seq(Task), shared : Seq(Task)]
    BY DEF Basic
  <2> QED
    BY <2>1, InQueuesTypes
<1>6. InQueues(cpus', dsqs', t) + 1 = InQueues(cpus, dsqs, t) /\ InQueues(cpus', dsqs', t) \in Nat
  BY <1>4, <1>5 DEF One
<1>7. InQueues(cpus, dsqs, t) > 0
  BY <1>6
<1>8. tasks[t].slice > 0
  BY <1>7 DEF Timely, Sliced
<1> QED
  BY <1>1, <1>4, <1>5, <1>8

(* A run is started with its end as an event; the slice is not zero, so    *)
(* that end is the earlier of the end of the slice and of the phase.       *)
LEMMA StartTimely ==
    ASSUME Basic, Basic', Timely, \A t \in Task : Accounted(t), NEW c \in Cpu,
           NEW pick \in Picks(c), RunFor(c, pick, tasks[pick.task].slice)
    PROVE  Timely'
<1> DEFINE t == pick.task
<1>1. /\ t \in Task /\ dsqs'.global = pick.global /\ dsqs'.shared = dsqs.shared
      /\ unserved' = unserved
  BY Started, SliceTypes
<1>2. /\ tasks[t].slice \in Nat /\ tasks[t].remaining \in Nat
      /\ Bound(t) \in Nat
  BY <1>1, BoundTypes
<1>3. /\ \A k \in Cpu : k # c => cpus'[k] = cpus[k]
      /\ cpus'[c].current = t /\ cpus'[c].local = pick.local
      /\ cpus'[c].clock = cpus[c].clock /\ cpus'[c].startedAt = cpus[c].clock
  BY <1>2, StartedCpu
<1>4. /\ \A u \in Task : u # t => tasks'[u] = tasks[u]
      /\ tasks'[t].state = "Running" /\ tasks'[t].pos = tasks[t].pos
      /\ tasks'[t].remaining = tasks[t].remaining /\ tasks'[t].slice = tasks[t].slice
  BY StartedTask
<1>5. PICK f \in Event :
        /\ DOMAIN events' = DOMAIN events \cup {f}
        /\ f.cpu = c /\ f.kind \in {"SliceExpired", "PhaseComplete"}
        /\ f.time <= cpus[c].clock
             + (IF tasks[t].remaining > 0 /\ tasks[t].slice > 0 /\ tasks[t].slice <= tasks[t].remaining
                THEN tasks[t].slice ELSE tasks[t].remaining)
  BY StartedEnd
<1>6. \A u \in Task : InQueues(cpus', dsqs', u) + One(t, u) = InQueues(cpus, dsqs, u)
  BY StartedSlice
<1>7. \A u \in Task : InQueues(cpus', dsqs', u) \in Nat
  BY StartedSlice
<1>8. tasks[t].slice > 0
  BY StartedSlice
<1> HIDE DEF t
<1>9. \A u \in Task : tasks'[u].slice = tasks[u].slice /\ tasks'[u].remaining = tasks[u].remaining
  BY <1>4
<1>10. ASSUME NEW k \in Cpu PROVE Ending(k)'
  <2>1. CASE k = c
    <3>1. EndBy(c)' = cpus[c].clock + Bound(t)
      BY <1>1, <1>3, <1>9 DEF EndBy, Bound
    <3>2. f.time <= cpus[c].clock + Bound(t)
      BY <1>2, <1>5, <1>8 DEF Bound
    <3>3. cpus[c].clock <= cpus[c].clock + Bound(t)
      BY <1>2, ClockTypes
    <3> QED
      BY <1>3, <1>5, <2>1, <3>1, <3>2, <3>3 DEF Ending
  <2>2. CASE k # c
    <3>1. cpus'[k] = cpus[k]
      BY <1>3, <2>2
    <3>2. CASE cpus[k].current = NoTask
      BY <3>1, <3>2 DEF Ending
    <3>3. CASE cpus[k].current # NoTask
      <4>1. cpus[k].current \in Task
        BY <3>3, OnTask
      <4>2. EndBy(k)' = EndBy(k)
        BY <1>9, <3>1, <4>1 DEF EndBy, Bound
      <4>3. Ending(k)
        BY DEF Timely
      <4> QED
        BY <1>5, <3>1, <3>3, <4>2, <4>3 DEF Ending
    <3> QED
      BY <3>2, <3>3
  <2> QED
    BY <2>1, <2>2
<1>11. ASSUME NEW u \in Task PROVE Rested(u)' /\ Owed(u)' /\ Sliced(u)'
  <2>1. Rested(u) /\ Owed(u) /\ Sliced(u)
    BY DEF Timely
  <2>2. Owed(u)'
    BY <1>1, <1>9, <2>1 DEF Owed
  <2>3. CASE u = t
    BY <1>4, <1>8, <2>2, <2>3 DEF Rested, Sliced
  <2>4. CASE u # t
    <3>1. InQueues(cpus', dsqs', u) = InQueues(cpus, dsqs, u) /\ tasks'[u] = tasks[u]
      <4>1. InQueues(cpus', dsqs', u) + 0 = InQueues(cpus, dsqs, u) /\ InQueues(cpus', dsqs', u) \in Nat
        BY <1>6, <1>7, <2>4 DEF One
      <4> QED
        BY <1>4, <2>4, <4>1
    <3> QED
      BY <2>1, <2>2, <3>1 DEF Rested, Sliced
  <2> QED
    BY <2>3, <2>4
<1> QED
  BY <1>10, <1>11 DEF Timely

(* Every step keeps runs within their bounds. *)
LEMMA TimelyStep ==
    ASSUME Basic, Timely, \A t \in Task : Accounted(t), [Next]_vars
    PROVE  Timely'
<1>0. Basic'
  BY BasicStep
<1>1. CASE UNCHANGED vars
  <2>1. UNCHANGED <<events, tasks, cpus, dsqs, unserved>>
    BY <1>1 DEF vars
  <2> QED
    BY <1>0, <2>1, StayTimely
<1>2. ASSUME NEW e \in DOMAIN events, HandleEvent(e)
      PROVE  Timely'
  BY <1>0, <1>2, EventTimely
<1>3. ASSUME NEW c \in Cpu, DispatchAndRun(c)
      PROVE  Timely'
  <2>1. CASE DispatchLocal(c) \/ DispatchNothing(c) \/ GoIdle(c)
    BY <1>0, <2>1, IdleTimely
  <2>2. CASE DispatchMove(c)
    BY <1>0, <2>2, MoveTimely
  <2>3. CASE DispatchHeld(c)
    BY <1>0, <2>3, OfferTimely
  <2>4. CASE StartRunning(c)
    BY <1>0, <2>4, StartTimely, SkipsNone, PickTypes DEF StartRunning, Accounted
  <2> QED
    BY <1>3, <2>1, <2>2, <2>3, <2>4 DEF DispatchAndRun
<1>4. CASE SelectCpu
  BY <1>0, <1>4, SelectTimely
<1>5. CASE EnqueueInsert \/ EnqueueHold
  BY <1>0, <1>5, EnqueueTimely
<1>6. CASE OpsTick
  BY <1>0, <1>6, TickTimely
<1>7. CASE DispatchRefused \/ TakeDown
  <2>1. 0 \in Cpu
    BY EngineAssumption DEF Cpu
  <2> QED
    BY <1>0, <1>7, <2>1, IdleTimely
<1>8. CASE DrainLocal
  BY <1>0, <1>8, DrainTimely
<1> QED
  BY <1>1, <1>2, <1>3, <1>4, <1>5, <1>6, <1>7, <1>8 DEF Next

(* At the start nothing runs and every task has its first phase before it. *)
LEMMA TimelyInit ==
    ASSUME Init
    PROVE  Timely
<1>1. ASSUME NEW c \in Cpu PROVE Ending(c)
  BY DEF Init, Ending
<1>2. ASSUME NEW u \in Task PROVE Rested(u) /\ Owed(u) /\ Sliced(u)
  <2>1. /\ tasks[u].state = "Sleeping" /\ tasks[u].pos = 1
        /\ tasks[u].remaining = RunTime(PhaseAt(u, 1)) /\ unserved[u] = RunTime(PhaseAt(u, 1))
        /\ dsqs = [global |-> <<>>, shared |-> <<>>] /\ \A c \in Cpu : cpus[c].local = <<>>
    BY DEF Init
  <2>2. RunTime(PhaseAt(u, 1)) \in Nat
    BY PhaseTypes
  <2>3. OnLocal(cpus, u) = {}
    BY <2>1 DEF OnLocal, Positions
  <2>4. InQueues(cpus, dsqs, u) = 0
    BY <2>1, <2>3, CopiesNone, FS_EmptySet DEF InQueues
  <2> QED
    BY <2>1, <2>2, <2>4 DEF Rested, Owed, Sliced
<1> QED
  BY <1>1, <1>2 DEF Timely

(* Runs are always within their bounds, if ops.select_cpu inserts into     *)
(* local DSQs only.                                                        *)
LEMMA AlwaysTimely ==
    ASSUME SelectsLocal
    PROVE  Spec => [](Basic /\ (\A t \in Task : Accounted(t)) /\ Timely)
<1> DEFINE I == \A t \in Task : Accounted(t)
<1>1. Init => Timely
  BY TimelyInit
<1>2. (Basic /\ I) /\ Timely /\ [Next]_vars => Timely'
  BY TimelyStep
<1>3. Spec => [](Basic /\ I)
  BY AlwaysAccounted
<1> HIDE DEF I
<1>4. Spec => [](Basic /\ I /\ Timely)
  BY <1>1, <1>2, <1>3, PTL DEF Spec
<1> QED
  BY <1>4 DEF I

(* No run goes on for ever: however many end events of earlier runs, never *)
(* cancelled, fall on it, a run has an end event pending at or before the  *)
(* moment its slice and its phase allow - if ops.select_cpu inserts into   *)
(* local DSQs only, as for TasksConserved.                                 *)
THEOREM EndsArePending ==
    ASSUME SelectsLocal
    PROVE  Spec => []EndPending
<1>1. Basic /\ (\A t \in Task : Accounted(t)) /\ Timely => EndPending
  <2> SUFFICES ASSUME Basic, Timely, NEW c \in Cpu, cpus[c].current # NoTask
               PROVE  \E e \in DOMAIN events :
                        /\ e.cpu = c
                        /\ e.kind \in {"SliceExpired", "PhaseComplete"}
                        /\ e.time <= cpus[c].startedAt + tasks[cpus[c].current].remaining
    BY DEF EndPending
  <2>1. PICK e \in DOMAIN events :
          e.cpu = c /\ e.kind \in {"SliceExpired", "PhaseComplete"} /\ e.time <= EndBy(c)
    BY DEF Timely, Ending
  <2> DEFINE t == cpus[c].current
  <2>2. t \in Task
    BY OnTask
  <2>3. Bound(t) \in Nat /\ Bound(t) <= tasks[t].remaining /\ tasks[t].remaining \in Nat
    BY <2>2, BoundTypes
  <2>4. e.time \in Nat /\ cpus[c].startedAt \in Nat
    BY QueuedTypes, ClockTypes
  <2>5. EndBy(c) = cpus[c].startedAt + Bound(t)
    BY DEF EndBy
  <2> HIDE DEF t
  <2>6. e.time <= cpus[c].startedAt + tasks[t].remaining
    BY <2>1, <2>3, <2>4, <2>5
  <2> QED
    BY <2>1, <2>6 DEF t
<1> QED
  BY <1>1, AlwaysTimely, PTL

(* No CPU time from nowhere: whatever ends a run - its slice, its phase,   *)
(* an end event of an earlier run, a kick, a tick, a hotplug event - a     *)
(* task has not run longer than its phases ask, as it is never charged     *)
(* less than it ran; under the same hypothesis.                            *)
THEOREM NobodyOverruns ==
    ASSUME SelectsLocal
    PROVE  Spec => []NoOverrun
<1>1. Timely => NoOverrun
  BY DEF Timely, Owed, NoOverrun
<1> QED
  BY <1>1, AlwaysTimely, PTL

-----------------------------------------------------------------------------
(* Runs that nothing disturbs. *)

EndKinds == {"SliceExpired", "PhaseComplete"}

(* The event that ends the run of a CPU. *)
OwnEnd(c) ==
    LET t == cpus[c].current IN
    EventAt(EndBy(c), IF tasks[t].slice <= tasks[t].remaining THEN "SliceExpired"
                      ELSE "PhaseComplete", c)

(* An end event in the queue is the only one of the run under way on its   *)
(* CPU, ...                                                                *)
Fresh(f) ==
    f.kind \in EndKinds => cpus[f.cpu].current # NoTask /\ f = OwnEnd(f.cpu) /\ events[f] = 1

(* ... and what remains of a phase is what its task has not had yet.       *)
Exact ==
    /\ \A f \in DOMAIN events : Fresh(f)
    /\ \A t \in Task : unserved[t] = tasks[t].remaining

(* What a handler does to the end events: it takes its own and adds none.  *)
Leaves(e) ==
    \A f \in DOMAIN events' : f.kind \in EndKinds =>
        f \in DOMAIN events /\ (events[f] = 1 => f # e /\ events'[f] = 1)

(* A handler that pushes no end event adds none. *)
LEMMA PopLeaves ==
    ASSUME Basic, NEW e \in DOMAIN events, NEW pushed, NewEvents(pushed), Pop(e, pushed),
           \A f \in DOMAIN pushed : f.kind \notin EndKinds
    PROVE  Leaves(e)
<1> DEFINE B == events (-) SetToBag({e})
<1>1. IsBagOf(events, Event) /\ IsBagOf(pushed, Event)
  BY DEF Basic, NewEvents
<1>2. /\ IsBagOf(B, Event) /\ DOMAIN B \subseteq DOMAIN events
      /\ \A f \in DOMAIN B : (f = e => events[e] # 1) /\ (f # e => B[f] = events[f])
  <2>1. LeftOver(B, events, e)
    BY <1>1, BagLeft
  <2> HIDE DEF B
  <2> QED
    BY <2>1 DEF LeftOver
<1>3. events' = B (+) pushed
  BY DEF Pop
<1> HIDE DEF B
<1>4. DOMAIN events' = DOMAIN B \cup DOMAIN pushed
  BY <1>1, <1>2, <1>3, BagPlus
<1>5. ASSUME NEW f \in DOMAIN events', f.kind \in EndKinds
      PROVE  f \in DOMAIN events /\ (events[f] = 1 => f # e /\ events'[f] = 1)
  <2>1. f \notin DOMAIN pushed /\ f \in DOMAIN B
    BY <1>4, <1>5
  <2>2. events'[f] = B[f]
    BY <1>1, <1>2, <1>3, <2>1, BagCount
  <2> QED
    BY <1>2, <2>1, <2>2
<1> QED
  BY <1>5 DEF Leaves

(* No handler of an event adds an end event. *)
LEMMA EventLeaves ==
    ASSUME Basic, NEW e \in DOMAIN events, HandleEvent(e)
    PROVE  Leaves(e)
<1>1. Pop(e, EmptyBag) => Leaves(e)
  BY NewNothing, NoBag, PopLeaves
<1>2. CASE \/ WakeIgnored(e) \/ EndIgnored(e) \/ TickOffline(e) \/ AlreadyThere(e)
           \/ SliceExpired(e) \/ KickPreempt(e) \/ KickDispatch(e) \/ CpuLeaves(e)
  <2>1. Pop(e, EmptyBag)
    BY <1>2 DEF WakeIgnored, EndIgnored, TickOffline, AlreadyThere, Ignore, Take,
                SliceExpired, KickPreempt, KickDispatch, CpuLeaves
  <2> QED
    BY <1>1, <2>1
<1>3. CASE Tick(e) \/ CpuReturns(e)
  <2> DEFINE tick == EventAt(Now(e.cpu, e.time) + TickInterval, "Tick", e.cpu)
  <2>1. e.cpu \in Cpu /\ e.time \in Nat
    BY QueuedTypes
  <2>2. Pop(e, SetToBag({tick}))
    BY <1>3 DEF Tick, CpuReturns, Take
  <2>3. NewEvents(SetToBag({tick})) /\ DOMAIN SetToBag({tick}) = {tick}
    BY <2>1, TickTypes
  <2>4. tick.kind = "Tick"
    <3>1. Now(e.cpu, e.time) + TickInterval \in Nat
      BY SMTT(30), <2>1, NowTypes, EngineAssumption
    <3> QED
      BY <2>1, <3>1, EventTypes DEF EventKind
  <2> HIDE DEF tick
  <2>5. \A f \in DOMAIN SetToBag({tick}) : f.kind \notin EndKinds
    BY <2>3, <2>4 DEF EndKinds
  <2> QED
    BY <2>2, <2>3, <2>5, PopLeaves
<1>4. CASE TaskWake(e)
  <2>1. PICK pushed : NewEvents(pushed) /\ Pop(e, pushed) /\ \A f \in DOMAIN pushed : f.kind = "TaskWake"
    BY <1>4, WokenUp DEF WokenAs
  <2>2. \A f \in DOMAIN pushed : f.kind \notin EndKinds
    BY <2>1 DEF EndKinds
  <2> QED
    BY <2>1, <2>2, PopLeaves
<1>5. CASE PhaseComplete(e)
  <2>1. PICK pushed : /\ NewEvents(pushed) /\ Pop(e, pushed)
                      /\ \A f \in DOMAIN pushed : f.kind \in {"TaskWake", "Kick"}
    BY <1>5, Completed
  <2>2. \A f \in DOMAIN pushed : f.kind \notin EndKinds
    BY <2>1 DEF EndKinds
  <2> QED
    BY <2>1, <2>2, PopLeaves
<1> QED
  BY <1>2, <1>3, <1>4, <1>5 DEF HandleEvent

(* The end of a run that goes on stays what it is. *)
LEMMA RunsOn ==
    ASSUME NEW c, cpus'[c].current = cpus[c].current, cpus'[c].startedAt = cpus[c].startedAt,
           LET t == cpus[c].current IN
           tasks'[t].slice = tasks[t].slice /\ tasks'[t].remaining = tasks[t].remaining
    PROVE  OwnEnd(c)' = OwnEnd(c)
<1>0. PICK t : cpus[c].current = t
  OBVIOUS
<1>1. Bound(t)' = Bound(t)
  BY <1>0 DEF Bound
<1>2. EndBy(c)' = EndBy(c)
  BY <1>0 DEF EndBy, Bound
<1> QED
  BY <1>0, <1>2 DEF OwnEnd

(* An event that stops nobody is no end event. *)
LEMMA PassExact ==
    ASSUME Basic, Exact, \A t \in Task : Accounted(t), NEW e \in DOMAIN events, Leaves(e),
           \A k \in Cpu : /\ cpus'[k].current = cpus[k].current
                          /\ cpus'[k].startedAt = cpus[k].startedAt,
           \A u \in Task : /\ tasks[u].state = "Running" => tasks'[u] = tasks[u]
                           /\ unserved'[u] = tasks'[u].remaining
    PROVE  Exact'
<1>1. ASSUME NEW f \in DOMAIN events', f.kind \in EndKinds
      PROVE  cpus'[f.cpu].current # NoTask /\ f = OwnEnd(f.cpu)' /\ events'[f] = 1
  <2>1. f \in DOMAIN events
    BY <1>1 DEF Leaves
  <2>2. Fresh(f)
    BY <2>1 DEF Exact
  <2>3. PICK c \in Cpu : f.cpu = c
    BY <2>1, QueuedTypes
  <2>4. cpus[c].current # NoTask /\ f = OwnEnd(c) /\ events[f] = 1
    BY <1>1, <2>2, <2>3 DEF Fresh
  <2>5. PICK t \in Task : cpus[c].current = t /\ tasks[t].state = "Running"
    BY <2>4, BusyTypes
  <2>6. OwnEnd(c)' = OwnEnd(c)
    BY <2>5, RunsOn
  <2> QED
    BY <1>1, <2>3, <2>4, <2>6 DEF Leaves
<1> QED
  BY <1>1 DEF Exact, Fresh

(* A run that its end event stops leaves no end event of its CPU.          *)
LEMMA StopExact ==
    ASSUME Basic, Exact, \A t \in Task : Accounted(t), NEW e \in DOMAIN events, Leaves(e),
           e.kind \in EndKinds, NEW c \in Cpu, e.cpu = c,
           NEW t \in Task, cpus[c].current = t,
           \A k \in Cpu : k # c => cpus'[k] = cpus[k],
           \A u \in Task : u # t => tasks'[u] = tasks[u] /\ unserved'[u] = unserved[u],
           unserved'[t] = tasks'[t].remaining
    PROVE  Exact'
<1>1. ASSUME NEW f \in DOMAIN events', f.kind \in EndKinds
      PROVE  cpus'[f.cpu].current # NoTask /\ f = OwnEnd(f.cpu)' /\ events'[f] = 1
  <2>1. f \in DOMAIN events
    BY <1>1 DEF Leaves
  <2>2. Fresh(f) /\ Fresh(e)
    BY <2>1 DEF Exact
  <2>3. PICK k \in Cpu : f.cpu = k
    BY <2>1, QueuedTypes
  <2>4. cpus[k].current # NoTask /\ f = OwnEnd(k) /\ events[f] = 1
    BY <1>1, <2>2, <2>3 DEF Fresh
  <2>5. e = OwnEnd(c)
    BY <2>2 DEF Fresh
  <2>6. f # e /\ events'[f] = 1
    BY <1>1, <2>4 DEF Leaves
  <2>7. k # c
    BY <2>4, <2>5, <2>6
  <2>8. PICK u \in Task : cpus[k].current = u
    BY <2>4, BusyTypes
  <2>9. u # t
    <3>1. SUFFICES ASSUME cpus[k].current = t PROVE FALSE
      BY <2>8
    <3> QED
      BY <2>4, <2>7, <3>1, AloneThere DEF TaskOnOneCpu
  <2>10. cpus'[k] = cpus[k] /\ tasks'[u] = tasks[u]
    BY <2>7, <2>9
  <2>11. OwnEnd(k)' = OwnEnd(k)
    BY <2>8, <2>10, RunsOn
  <2> QED
    BY <2>3, <2>4, <2>6, <2>10, <2>11
<1>2. ASSUME NEW u \in Task PROVE unserved'[u] = tasks'[u].remaining
  BY DEF Exact
<1> QED
  BY <1>1, <1>2 DEF Exact, Fresh

(* An end event comes when the run it is of ends, and says by what.        *)
LEMMA EndsOnTime ==
    ASSUME Basic, Timely, Exact, \A t \in Task : Accounted(t), NEW e \in DOMAIN events,
           e.kind \in EndKinds, NEW pushed, Pop(e, pushed),
           NEW c \in Cpu, NEW time \in Nat, c = e.cpu, time = e.time
    PROVE  \E t \in Task :
             /\ cpus[c].current = t
             /\ Ran(c, Now(c, time)) = IF e.kind = "SliceExpired" THEN tasks[t].slice
                                       ELSE tasks[t].remaining
             /\ e.kind = "SliceExpired" => tasks[t].slice <= tasks[t].remaining
<1>1. Fresh(e)
  BY DEF Exact
<1>2. cpus[c].current # NoTask /\ e = OwnEnd(c)
  BY <1>1 DEF Fresh
<1>3. PICK t \in Task : cpus[c].current = t /\ EndBy(c) \in Nat /\ EndBy(c) = cpus[c].startedAt + Bound(t)
  BY <1>2, BusyTypes
<1>4. time <= Duration /\ Duration \in Nat
  BY EngineAssumption DEF Pop
<1>5. /\ time = IF EndBy(c) > Duration THEN Duration + 1 ELSE EndBy(c)
      /\ e.kind = IF tasks[t].slice <= tasks[t].remaining THEN "SliceExpired" ELSE "PhaseComplete"
  BY <1>2, <1>3 DEF OwnEnd, EventAt
<1>6. time = EndBy(c)
  BY <1>3, <1>4, <1>5
<1>7. Now(c, time) <= EndBy(c)
  BY <1>2, EventInTime
<1>8. Now(c, time) \in Nat /\ Now(c, time) >= time
  BY NowTypes
<1>9. Now(c, time) = EndBy(c)
  BY <1>3, <1>6, <1>7, <1>8
<1>10. Ran(c, Now(c, time)) = EndBy(c) - cpus[c].startedAt /\ cpus[c].startedAt \in Nat /\ Bound(t) \in Nat
  BY <1>8, <1>9, StopTypes, ClockTypes, BoundTypes
<1>11. Ran(c, Now(c, time)) = Bound(t)
  BY <1>3, <1>10
<1>12. tasks[t].slice \in Nat /\ tasks[t].remaining \in Nat
  BY BoundTypes
<1> QED
  BY <1>3, <1>5, <1>11, <1>12 DEF Bound

(* A wake leaves a task what it is owed. *)
LEMMA WakeExact ==
    ASSUME Basic, Timely, Exact, \A t \in Task : Accounted(t),
           NEW e \in DOMAIN events, Leaves(e), TaskWake(e)
    PROVE  Exact'
<1>1. PICK t \in Task, c \in Cpu, time \in Nat : t = e.task /\ c = e.cpu /\ time = e.time
  BY WokenUp DEF WokenAs
<1>2. PICK p \in Nat : p = tasks[t].pos
  BY BoundTypes
<1>3. /\ tasks[t].state = "Sleeping" /\ cpus' = Advance(c, time)
      /\ \A u \in Task : u # t => tasks'[u] = tasks[u] /\ unserved'[u] = unserved[u]
  BY <1>1, WokenUp DEF WokenAs
<1>4. PICK q \in Nat :
        /\ tasks'[t].remaining = IF q = p /\ tasks[t].remaining > 0
                                 THEN tasks[t].remaining ELSE RunTime(PhaseAt(t, q))
        /\ unserved'[t] = IF q = p THEN unserved[t] ELSE unserved[t] + RunTime(PhaseAt(t, q))
        /\ RunTime(PhaseAt(t, q)) \in Nat
        /\ q # p => PhaseAt(t, p).kind # "Run"
  BY <1>1, <1>2, WokenUp DEF WokenAs
<1>5. Rested(t) /\ unserved[t] = tasks[t].remaining
  BY DEF Timely, Exact
<1>6. tasks[t].remaining = RunTime(PhaseAt(t, p))
  BY <1>2, <1>3, <1>5 DEF Rested
<1>7. q # p => tasks[t].remaining = 0
  BY <1>4, <1>6, PhaseTypes
<1>8. unserved'[t] = tasks'[t].remaining
  BY <1>4, <1>5, <1>6, <1>7
<1>9. \A u \in Task : /\ tasks[u].state = "Running" => tasks'[u] = tasks[u]
                      /\ unserved'[u] = tasks'[u].remaining
  BY <1>3, <1>8 DEF Exact
<1>10. \A k \in Cpu : cpus'[k].current = cpus[k].current /\ cpus'[k].startedAt = cpus[k].startedAt
  BY <1>3, NowTypes
<1> QED
  BY <1>9, <1>10, PassExact

(* Every handler of an event keeps the accounts exact. *)
LEMMA EventExact ==
    ASSUME Undisturbed, Basic, Timely, Exact, \A t \in Task : Accounted(t),
           NEW e \in DOMAIN events, HandleEvent(e)
    PROVE  Exact'
<1>1. PICK c \in Cpu, time \in Nat : c = e.cpu /\ time = e.time
  BY QueuedTypes
<1>2. Leaves(e)
  BY EventLeaves
<1>3. e.kind \notin {"Offline", "Release"} /\ "PREEMPT" \notin e.flags
  BY DEF Basic, NewEvents, Calm
<1>4. CASE \/ WakeIgnored(e) \/ EndIgnored(e) \/ TickOffline(e) \/ AlreadyThere(e)
           \/ KickDispatch(e) \/ Tick(e) \/ CpuReturns(e)
  <2>1. Ignore(e) \/ KickDispatch(e) \/ Tick(e) \/ CpuReturns(e)
    BY <1>4 DEF WakeIgnored, EndIgnored, TickOffline, AlreadyThere
  <2>2. /\ tasks' = tasks /\ unserved' = unserved
        /\ \A k \in Cpu : cpus'[k].current = cpus[k].current /\ cpus'[k].startedAt = cpus[k].startedAt
    BY <2>1, PassKeeps, PassClocks
  <2>3. \A u \in Task : unserved'[u] = tasks'[u].remaining
    BY <2>2 DEF Exact
  <2> QED
    BY <1>2, <2>2, <2>3, PassExact
<1>5. CASE TaskWake(e)
  BY <1>2, <1>5, WakeExact
<1>6. CASE SliceExpired(e)
  <2>1. e.kind = "SliceExpired" /\ Pop(e, EmptyBag)
    BY <1>6 DEF SliceExpired, Take
  <2>2. PICK t \in Task :
          /\ cpus[c].current = t
          /\ Ran(c, Now(c, time)) = tasks[t].slice /\ tasks[t].slice <= tasks[t].remaining
    BY <1>1, <2>1, EndsOnTime DEF EndKinds
  <2>3. PICK now \in Nat : now = Now(c, time)
    BY NowTypes
  <2>4. tasks[t].slice \in Nat /\ tasks[t].remaining \in Nat
    BY BoundTypes
  <2>5. StopAndReenqueue(c, now, tasks[t].slice, 0)
    BY <1>1, <1>6, <2>2, <2>3 DEF SliceExpired
  <2>6. /\ \A u \in Task : u # t => tasks'[u] = tasks[u] /\ unserved'[u] = unserved[u]
        /\ tasks'[t].remaining = Monus(tasks[t].remaining, tasks[t].slice)
        /\ unserved'[t] = unserved[t] - Ran(c, now)
    BY <2>2, <2>4, <2>5, RequeueTypes
  <2>7. \A k \in Cpu : k # c => cpus'[k] = cpus[k]
    BY <2>5, StopTypes DEF StopAndReenqueue
  <2>8. unserved[t] = tasks[t].remaining
    BY DEF Exact
  <2>9. unserved'[t] = tasks'[t].remaining
    BY <2>2, <2>3, <2>4, <2>6, <2>8 DEF Monus
  <2>10. e.kind \in EndKinds
    BY <2>1 DEF EndKinds
  <2> QED
    BY <1>1, <1>2, <2>2, <2>6, <2>7, <2>9, <2>10, StopExact
<1>7. CASE PhaseComplete(e)
  <2>1. e.kind = "PhaseComplete" /\ \E pushed : Pop(e, pushed)
    BY <1>7, Completed
  <2>2. PICK t \in Task : cpus[c].current = t /\ Ran(c, Now(c, time)) = tasks[t].remaining
    BY <1>1, <2>1, EndsOnTime DEF EndKinds
  <2>3. PICK now \in Nat : now = Now(c, time)
    BY NowTypes
  <2>4. PICK q \in Nat :
          /\ cpus' = Stop(c, now)
          /\ \A u \in Task : u # t => tasks'[u] = tasks[u] /\ unserved'[u] = unserved[u]
          /\ tasks'[t].remaining = RunTime(PhaseAt(t, q))
          /\ unserved'[t] = unserved[t] - Ran(c, now) + RunTime(PhaseAt(t, q))
          /\ RunTime(PhaseAt(t, q)) \in Nat
    BY <1>1, <1>7, <2>2, <2>3, Completed
  <2>5. \A k \in Cpu : k # c => cpus'[k] = cpus[k]
    BY <2>4, StopTypes
  <2>6. unserved[t] = tasks[t].remaining /\ tasks[t].remaining \in Nat
    BY BoundTypes DEF Exact
  <2>7. unserved'[t] = tasks'[t].remaining
    BY <2>2, <2>3, <2>4, <2>6
  <2>8. e.kind \in EndKinds
    BY <2>1 DEF EndKinds
  <2> QED
    BY <1>1, <1>2, <2>2, <2>4, <2>5, <2>7, <2>8, StopExact
<1>8. ~KickPreempt(e) /\ ~CpuLeaves(e)
  BY <1>3 DEF KickPreempt, CpuLeaves
<1> QED
  BY <1>4, <1>5, <1>6, <1>7, <1>8 DEF HandleEvent

(* A call that neither starts nor stops a run leaves the end events, the   *)
(* runs and what their tasks are owed.                                     *)
Undone ==
    /\ \A f \in DOMAIN events' : f.kind \in EndKinds => f \in DOMAIN events /\ events'[f] = events[f]
    /\ \A k \in Cpu : cpus'[k].current = cpus[k].current /\ cpus'[k].startedAt = cpus[k].startedAt
    /\ \A u \in Task : /\ tasks'[u].remaining = tasks[u].remaining
                       /\ tasks[u].state = "Running" => tasks'[u].slice = tasks[u].slice
    /\ unserved' = unserved

(* Such a call keeps the accounts exact. *)
LEMMA CallExact ==
    ASSUME Basic, Exact, \A t \in Task : Accounted(t), Undone
    PROVE  Exact'
<1>1. ASSUME NEW f \in DOMAIN events', f.kind \in EndKinds
      PROVE  cpus'[f.cpu].current # NoTask /\ f = OwnEnd(f.cpu)' /\ events'[f] = 1
  <2>1. f \in DOMAIN events /\ events'[f] = events[f]
    BY <1>1 DEF Undone
  <2>2. PICK c \in Cpu : f.cpu = c
    BY <2>1, QueuedTypes
  <2>3. cpus[c].current # NoTask /\ f = OwnEnd(c) /\ events[f] = 1
    BY <1>1, <2>1, <2>2 DEF Exact, Fresh
  <2>4. PICK t \in Task : cpus[c].current = t /\ tasks[t].state = "Running"
    BY <2>3, BusyTypes
  <2>5. OwnEnd(c)' = OwnEnd(c)
    BY <2>4, RunsOn DEF Undone
  <2> QED
    BY <2>1, <2>2, <2>3, <2>5 DEF Undone
<1>2. ASSUME NEW u \in Task PROVE unserved'[u] = tasks'[u].remaining
  BY DEF Exact, Undone
<1> QED
  BY <1>1, <1>2 DEF Exact, Fresh

(* Kicks are no end events. *)
LEMMA KicksLeave ==
    ASSUME \A f \in DOMAIN events' : f \notin DOMAIN events => f.kind = "Kick",
           \A f \in DOMAIN events : f.kind # "Kick" => events'[f] = events[f]
    PROVE  \A f \in DOMAIN events' : f.kind \in EndKinds => f \in DOMAIN events /\ events'[f] = events[f]
BY DEF EndKinds

(* ops.select_cpu and ops.enqueue give a slice to a task that does not run.*)
LEMMA QueueUndone ==
    ASSUME Basic, \A t \in Task : Accounted(t), SelectCpu \/ EnqueueInsert \/ EnqueueHold
    PROVE  Undone
<1>1. cpus \in [Cpu -> CpuRec]
  BY DEF Basic
<1>2. CASE SelectCpu
  <2>1. PICK t \in Task : t = Head(calls).task
    BY <1>2, Selected
  <2>2. /\ Calling("selectCpu") /\ calls # <<>> /\ events' = events /\ unserved' = unserved
        /\ \A u \in Task : u # t => tasks'[u] = tasks[u]
        /\ tasks'[t].remaining = tasks[t].remaining
        /\ \/ cpus' = cpus
           \/ \E c \in Cpu, d \in DsqId : Deliver(cpus, t, d, c)
    BY <1>2, <2>1, Selected
  <2>3. \A k \in Cpu : cpus'[k].current = cpus[k].current /\ cpus'[k].startedAt = cpus[k].startedAt
    BY <1>1, <2>2, DeliveredClocks
  <2>4. tasks[t].state # "Running"
    BY <2>1, <2>2, HandedRests DEF Calling
  <2> QED
    BY <2>2, <2>3, <2>4 DEF Undone
<1>3. CASE EnqueueInsert
  <2>1. PICK t \in Task, c \in Cpu : t = Head(calls).task /\ c = Head(calls).cpu
    BY <1>3, Enqueued
  <2>2. /\ Calling("enqueue") \/ Calling("requeue") \/ Calling("drain")
        /\ \A u \in Task : u # t => tasks'[u] = tasks[u]
        /\ tasks'[t].remaining = tasks[t].remaining
        /\ \E d \in DsqId : Deliver(cpus, t, d, c)
        /\ \E kicks : KickBag(kicks) /\ AfterEnqueue(kicks)
    BY <1>3, <2>1, Enqueued
  <2>3. /\ \A f \in DOMAIN events' : f \notin DOMAIN events => f.kind = "Kick"
        /\ \A f \in DOMAIN events : f.kind # "Kick" => events'[f] = events[f]
        /\ unserved' = unserved /\ calls # <<>>
    BY <2>2, AfterEnqueued
  <2>4. \A k \in Cpu : cpus'[k].current = cpus[k].current /\ cpus'[k].startedAt = cpus[k].startedAt
    BY <1>1, <2>2, DeliveredClocks
  <2>5. tasks[t].state # "Running"
    BY <2>1, <2>2, <2>3, HandedRests DEF Calling
  <2> QED
    BY <2>2, <2>3, <2>4, <2>5, KicksLeave DEF Undone
<1>4. CASE EnqueueHold
  <2>1. /\ UNCHANGED <<tasks, cpus>>
        /\ Calling("enqueue") \/ Calling("requeue") \/ Calling("drain")
        /\ \E kicks : KickBag(kicks) /\ AfterEnqueue(kicks)
    BY <1>4, Kept
  <2>2. /\ \A f \in DOMAIN events' : f \notin DOMAIN events => f.kind = "Kick"
        /\ \A f \in DOMAIN events : f.kind # "Kick" => events'[f] = events[f]
        /\ unserved' = unserved
    BY <2>1, AfterEnqueued
  <2> QED
    BY <2>1, <2>2, KicksLeave DEF Undone
<1> QED
  BY <1>2, <1>3, <1>4

(* A dispatch that starts nothing, and the take-down of a CPU.             *)
LEMMA IdleUndone ==
    ASSUME Basic, Basic', \A t \in Task : Accounted(t), NEW c \in Cpu,
           \/ DispatchLocal(c) \/ DispatchNothing(c) \/ DispatchMove(c) \/ DispatchHeld(c)
           \/ GoIdle(c) \/ DispatchRefused \/ TakeDown \/ DrainLocal
    PROVE  Undone
<1>1. Flush(EmptyBag) =>
        /\ \A f \in DOMAIN events' : f \notin DOMAIN events => f.kind = "Kick"
        /\ \A f \in DOMAIN events : f.kind # "Kick" => events'[f] = events[f]
  BY KickNone, Flushed
<1>2. CASE DispatchLocal(c) \/ DispatchNothing(c)
  <2>1. Dispatching(c) /\ cpus' = Advance(c, clock) /\ clock \in Nat /\ tasks' = tasks
    BY <1>2 DEF DispatchLocal, DispatchNothing, Basic
  <2>2. unserved' = unserved
    BY <2>1, Dispatched
  <2>3. \A k \in Cpu : cpus'[k].current = cpus[k].current /\ cpus'[k].startedAt = cpus[k].startedAt
    BY <2>1, NowTypes
  <2>4. CASE DispatchLocal(c)
    <3>1. events' = events
      BY <2>4 DEF DispatchLocal
    <3> QED
      BY <2>1, <2>2, <2>3, <3>1 DEF Undone
  <2>5. CASE DispatchNothing(c)
    <3>1. Flush(EmptyBag)
      BY <2>5 DEF DispatchNothing
    <3> QED
      BY <1>1, <2>1, <2>2, <2>3, <3>1, KicksLeave DEF Undone
  <2> QED
    BY <1>2, <2>4, <2>5
<1>3. CASE DispatchMove(c)
  <2>1. /\ Dispatching(c) /\ Flush(EmptyBag) /\ tasks' = tasks
        /\ \A k \in Cpu : cpus'[k].current = cpus[k].current /\ cpus'[k].startedAt = cpus[k].startedAt
    BY <1>3, Moved
  <2>2. unserved' = unserved
    BY <2>1, Dispatched
  <2> QED
    BY <1>1, <2>1, <2>2, KicksLeave DEF Undone
<1>4. CASE DispatchHeld(c)
  <2>1. PICK cs \in [Cpu -> CpuRec] : cs = Advance(c, clock)
    BY <1>4, Offered
  <2>2. Dispatching(c) /\ clock \in Nat
    BY <1>4, Offered DEF Basic
  <2>3. PICK t \in held, d \in DsqId :
          /\ t \in Task /\ Deliver(cs, t, d, c)
          /\ KickBag(Resched(cs, t, d, c)) /\ Flush(Resched(cs, t, d, c))
          /\ \A u \in Task : u # t => tasks'[u] = tasks[u]
          /\ tasks'[t].remaining = tasks[t].remaining
    BY <1>4, <2>1, Offered
  <2>4. unserved' = unserved
    BY <2>2, Dispatched
  <2>5. \A k \in Cpu : cs[k].current = cpus[k].current /\ cs[k].startedAt = cpus[k].startedAt
    BY <2>1, <2>2, NowTypes
  <2>6. \A k \in Cpu : cpus'[k].current = cpus[k].current /\ cpus'[k].startedAt = cpus[k].startedAt
    BY <2>3, <2>5, DeliveredClocks
  <2>7. /\ \A f \in DOMAIN events' : f \notin DOMAIN events => f.kind = "Kick"
        /\ \A f \in DOMAIN events : f.kind # "Kick" => events'[f] = events[f]
    BY <2>3, Flushed
  <2>8. tasks[t].state # "Running"
    BY <2>3, OutRests
  <2> QED
    BY <2>3, <2>4, <2>6, <2>7, <2>8, KicksLeave DEF Undone
<1>5. CASE GoIdle(c) \/ DispatchRefused
  BY <1>5 DEF GoIdle, DispatchRefused, Undone
<1>6. CASE TakeDown
  <2>1. PICK k \in Cpu : k = Head(calls).cpu
    BY <1>6, Called DEF TakeDown
  <2> DEFINE x == [cpus[k] EXCEPT !.online = FALSE]
  <2>2. cpus \in [Cpu -> CpuRec]
    BY DEF Basic
  <2>3. cpus' = [cpus EXCEPT ![k] = x] /\ UNCHANGED <<events, tasks, unserved>>
    BY <1>6, <2>1 DEF TakeDown
  <2>4. x.startedAt = cpus[k].startedAt /\ x.current = cpus[k].current
    BY <2>2 DEF CpuRec
  <2> HIDE DEF x
  <2>5. \A i \in Cpu : cpus'[i].current = cpus[i].current /\ cpus'[i].startedAt = cpus[i].startedAt
    BY <2>2, <2>3, <2>4
  <2> QED
    BY <2>3, <2>5 DEF Undone
<1>7. CASE DrainLocal
  <2>1. events' = events /\ tasks' = tasks /\ unserved' = unserved
    BY <1>7, Zenon DEF DrainLocal
  <2>2. ASSUME NEW k \in Cpu
        PROVE  cpus'[k].current = cpus[k].current /\ cpus'[k].startedAt = cpus[k].startedAt
    <3>1. /\ cpus'[k].current = cpus[k].current
          /\ cpus'[k].clock = cpus[k].clock
          /\ cpus'[k].startedAt = cpus[k].startedAt
      BY <1>7, DrainTypes, Zenon
    <3> QED
      BY <3>1
  <2>3. \A u \in Task : /\ tasks'[u].remaining = tasks[u].remaining
                       /\ tasks[u].state = "Running" => tasks'[u].slice = tasks[u].slice
    BY <2>1
  <2> QED
    BY <2>1, <2>2, <2>3, Zenon DEF Undone
<1> QED
  BY <1>2, <1>3, <1>4, <1>5, <1>6, <1>7

(* ops.tick of a scheduler that does not preempt. *)
LEMMA TickUndone ==
    ASSUME Undisturbed, Basic, OpsTick
    PROVE  Undone
<1>1. /\ UNCHANGED <<tasks, cpus, unserved>>
      /\ \A f \in DOMAIN events' : f \notin DOMAIN events => f.kind = "Kick"
      /\ \A f \in DOMAIN events : f.kind # "Kick" => events'[f] = events[f]
  BY Ticked
<1> QED
  BY <1>1, KicksLeave DEF Undone

(* The event a run is started with is the one it ends with, and the only   *)
(* one of its CPU, which was idle.                                         *)
LEMMA StartExact ==
    ASSUME Basic, Basic', Timely, Exact, \A t \in Task : Accounted(t), NEW c \in Cpu,
           NEW pick \in Picks(c), RunFor(c, pick, tasks[pick.task].slice)
    PROVE  Exact'
<1>1. PICK t \in Task, slice \in Nat : t = pick.task /\ slice = tasks[t].slice
  BY PickTypes, BoundTypes
<1>2. cpus[c].current = NoTask /\ unserved' = unserved
  BY Started, SliceTypes
<1>3. /\ \A k \in Cpu : k # c => cpus'[k] = cpus[k]
      /\ cpus'[c].current = t /\ cpus'[c].startedAt = cpus[c].clock
  BY <1>1, StartedCpu
<1>4. /\ \A u \in Task : tasks'[u].remaining = tasks[u].remaining /\ tasks'[u].slice = tasks[u].slice
      /\ \A u \in Task : u # t => tasks'[u] = tasks[u]
  BY <1>1, StartedTask
<1>5. PICK f : f = EndOfRun(c, t, slice)
  OBVIOUS
<1>6. events' = events (+) SetToBag({f})
  BY <1>1, <1>5 DEF RunFor
<1>7. slice > 0 /\ tasks[t].remaining \in Nat
  BY <1>1, StartedSlice, BoundTypes
<1>8. Bound(t)' = Bound(t) /\ Bound(t) = IF slice <= tasks[t].remaining THEN slice ELSE tasks[t].remaining
  BY <1>1, <1>4 DEF Bound
<1>9. EndBy(c)' = cpus[c].clock + Bound(t)
  BY <1>3, <1>4, <1>8 DEF EndBy, Bound
<1>10. f = OwnEnd(c)'
  <2>1. OwnEnd(c)' = EventAt(EndBy(c)', IF slice <= tasks[t].remaining THEN "SliceExpired"
                                        ELSE "PhaseComplete", c)
    BY <1>1, <1>3, <1>4 DEF OwnEnd
  <2>2. CASE slice <= tasks[t].remaining
    BY <1>5, <1>7, <1>8, <1>9, <2>1, <2>2 DEF EndOfRun
  <2>3. CASE ~(slice <= tasks[t].remaining)
    BY <1>5, <1>7, <1>8, <1>9, <2>1, <2>3 DEF EndOfRun
  <2> QED
    BY <2>2, <2>3
<1>11. f.cpu = c
  BY <1>10 DEF OwnEnd, EventAt
<1>12. f \notin DOMAIN events
  <2>1. SUFFICES ASSUME f \in DOMAIN events PROVE FALSE
    OBVIOUS
  <2>2. f.kind \in EndKinds
    BY <1>10 DEF OwnEnd, EventAt, EndKinds
  <2> QED
    BY <1>2, <1>11, <2>1, <2>2 DEF Exact, Fresh
<1>13. DOMAIN events' = DOMAIN events \cup {f} /\ events'[f] = 1
       /\ \A g \in DOMAIN events : events'[g] = events[g]
  <2>1. IsBagOf(events, Event)
    BY DEF Basic, NewEvents
  <2>2. DOMAIN SetToBag({f}) = {f} /\ SetToBag({f})[f] = 1
    BY DEF SetToBag
  <2> DEFINE one == SetToBag({f})
  <2>3. f \in Event
    <3>1. PICK time \in Nat : time = EndBy(c)'
      <4>1. cpus[c] \in CpuRec
        BY DEF Basic
      <4>2. cpus[c].clock \in Nat
        BY <4>1 DEF CpuRec
      <4> QED
        BY <1>7, <1>8, <1>9, <4>2
    <3>2. PICK kind \in EventKind : f = EventAt(time, kind, c)
      BY <1>10, <3>1 DEF OwnEnd, EventKind
    <3> QED
      BY <3>2, EventTypes
  <2>4. IsBagOf(one, Event)
    BY <2>3, SetBag
  <2> HIDE DEF one
  <2>5. DOMAIN events' = DOMAIN events \cup {f}
    BY <1>6, <2>1, <2>2, <2>4, BagPlus DEF one
  <2>6. \A g \in DOMAIN events : events'[g] = events[g]
    BY <1>6, <1>12, <2>1, <2>2, BagCount DEF one
  <2>7. events'[f] = 1
    <3>1. f \in DOMAIN one /\ f \notin DOMAIN events /\ one[f] = 1
      BY <1>12, <2>2 DEF one
    <3>2. (one (+) events)[f] = one[f]
      BY <2>4, <3>1, BagCount
    <3>3. \A n \in Nat : n + 0 = 0 + n
      OBVIOUS
    <3>4. (events (+) one)[f] = (one (+) events)[f]
      BY <3>1 DEF (+)
    <3> QED
      BY <1>6, <3>1, <3>2, <3>4 DEF one
  <2> QED
    BY <2>5, <2>6, <2>7
<1>14. ASSUME NEW g \in DOMAIN events', g.kind \in EndKinds
       PROVE  cpus'[g.cpu].current # NoTask /\ g = OwnEnd(g.cpu)' /\ events'[g] = 1
  <2>1. CASE g = f
    <3>1. t # NoTask
      BY EngineAssumption
    <3> QED
      BY <1>3, <1>10, <1>11, <1>13, <2>1, <3>1
  <2>2. CASE g # f
    <3>1. g \in DOMAIN events /\ events'[g] = events[g]
      BY <1>13, <2>2
    <3>2. PICK k \in Cpu : g.cpu = k
      BY <3>1, QueuedTypes
    <3>3. cpus[k].current # NoTask /\ g = OwnEnd(k) /\ events[g] = 1
      BY <1>14, <3>1, <3>2 DEF Exact, Fresh
    <3>4. k # c /\ cpus'[k] = cpus[k]
      BY <1>2, <1>3, <3>3
    <3>5. PICK u \in Task : cpus[k].current = u
      BY <3>3, OnTask
    <3>6. OwnEnd(k)' = OwnEnd(k)
      BY <1>4, <3>4, <3>5, RunsOn
    <3> QED
      BY <3>1, <3>2, <3>3, <3>4, <3>6
  <2> QED
    BY <2>1, <2>2
<1>15. \A u \in Task : unserved'[u] = tasks'[u].remaining
  BY <1>2, <1>4 DEF Exact
<1> QED
  BY <1>14, <1>15 DEF Exact, Fresh

(* Every step keeps the accounts exact when nothing disturbs the runs.     *)
LEMMA ExactStep ==
    ASSUME SelectsLocal, Undisturbed, Basic, Timely, Exact, \A t \in Task : Accounted(t), [Next]_vars
    PROVE  Exact'
<1>0. Basic'
  BY BasicStep
<1>1. CASE UNCHANGED vars
  <2>1. UNCHANGED <<events, tasks, cpus, unserved>>
    BY <1>1 DEF vars
  <2>2. Undone
    BY <2>1 DEF Undone
  <2> QED
    BY <2>2, CallExact
<1>2. ASSUME NEW e \in DOMAIN events, HandleEvent(e)
      PROVE  Exact'
  BY <1>2, EventExact
<1>3. ASSUME NEW c \in Cpu, DispatchAndRun(c)
      PROVE  Exact'
  <2>1. CASE DispatchLocal(c) \/ DispatchNothing(c) \/ DispatchMove(c) \/ DispatchHeld(c) \/ GoIdle(c)
    BY <1>0, <2>1, IdleUndone, CallExact
  <2>2. CASE StartRunning(c)
    BY <1>0, <2>2, StartExact, SkipsNone, PickTypes DEF StartRunning, Accounted
  <2> QED
    BY <1>3, <2>1, <2>2 DEF DispatchAndRun
<1>4. CASE SelectCpu \/ EnqueueInsert \/ EnqueueHold
  BY <1>4, QueueUndone, CallExact
<1>5. CASE OpsTick
  BY <1>5, TickUndone, CallExact
<1>6. CASE DispatchRefused \/ TakeDown \/ DrainLocal
  <2>1. 0 \in Cpu
    BY EngineAssumption DEF Cpu
  <2> QED
    BY <1>0, <1>6, <2>1, IdleUndone, CallExact
<1> QED
  BY <1>1, <1>2, <1>3, <1>4, <1>5, <1>6 DEF Next

(* At the start no run is under way and every task is owed its first phase.*)
LEMMA ExactInit ==
    ASSUME Undisturbed, Init
    PROVE  Exact
<1>1. Hotplug = {}
  BY DEF Undisturbed
<1>2. \A f \in {WakeAt(Start[t], t, InitialCpu[t]) : t \in Task} : f.kind = "TaskWake"
  BY DEF WakeAt, EventAt
<1>3. \A f \in {EventAt(TickInterval, "Tick", c) : c \in Cpu} : f.kind = "Tick"
  BY DEF EventAt
<1>4. DOMAIN events = {WakeAt(Start[t], t, InitialCpu[t]) : t \in Task}
                        \cup {EventAt(TickInterval, "Tick", c) : c \in Cpu}
  BY <1>1 DEF Init, SetToBag
<1>5. \A f \in DOMAIN events : Fresh(f)
  BY <1>2, <1>3, <1>4 DEF Fresh, EndKinds
<1>6. \A t \in Task : unserved[t] = tasks[t].remaining
  BY DEF Init
<1> QED
  BY <1>5, <1>6 DEF Exact

(* "Run (consume CPU) for the given number of nanoseconds" (safe/task.rs): *)
(* without preemption and hotplug an end event in the queue is always that *)
(* of the run under way, so that a task is charged exactly what it ran,    *)
(* and what remains of its phase is what it has not had yet.  With them it *)
(* fails: the end of an earlier run charges a later one (the scheduler may *)
(* still kick, and switching may cost time).                               *)
THEOREM RunsAreServed ==
    ASSUME SelectsLocal, Undisturbed
    PROVE  Spec => []Served
<1> DEFINE I == Basic /\ (\A t \in Task : Accounted(t)) /\ Timely
<1>1. Init => Exact
  BY ExactInit
<1>2. I /\ Exact /\ [Next]_vars => Exact'
  BY ExactStep
<1>3. Spec => []I
  BY AlwaysTimely
<1>4. Exact => Served
  BY DEF Exact, Served
<1> HIDE DEF I
<1> QED
  BY <1>1, <1>2, <1>3, <1>4, PTL DEF Spec

-----------------------------------------------------------------------------
(* Where a task may be. *)

(* The CPUs of its cpumask, and those the scheduler chooses for it.        *)
May(t) == Allowed[t] \cup Chosen[t]

(* Of a queue, a call and a handler: nothing is where it may not be.       *)
AllowedQueue(c, queue) == \A i \in 1 .. Len(queue) : c \in May(queue[i])

AllowedCall(x) == x.op \in {"enqueue", "requeue", "drain"} => x.cpu \in May(x.task)

AllowedCalls(todo) == \A i \in 1 .. Len(todo) : AllowedCall(todo[i])

(* A CPU runs, queues and hands over only tasks it may run.                *)
OnAllowed ==
    /\ \A c \in Cpu : cpus[c].current # NoTask => c \in May(cpus[c].current)
    /\ \A c \in Cpu : AllowedQueue(c, cpus[c].local)
    /\ AllowedCalls(calls)

(* What is left after the first call is allowed, and so is the first call. *)
LEMMA AllowedTail ==
    ASSUME Basic, AllowedCalls(calls), calls # <<>>
    PROVE  AllowedCalls(Tail(calls)) /\ AllowedCall(Head(calls))
<1>1. /\ \A i \in 1 .. Len(Tail(calls)) : Tail(calls)[i] = calls[i + 1]
      /\ Head(calls) = calls[1] /\ 1 \in 1 .. Len(calls)
      /\ Len(calls) = Len(Tail(calls)) + 1 /\ Len(Tail(calls)) \in Nat
  BY ShapedTail DEF Basic
<1>2. \A i \in 1 .. Len(Tail(calls)) : i + 1 \in 1 .. Len(calls)
  BY <1>1
<1> QED
  BY <1>1, <1>2 DEF AllowedCalls

(* The first call may be replaced by a pick or a dispatch. *)
LEMMA AllowedThen ==
    ASSUME Basic, AllowedCalls(calls), calls # <<>>,
           NEW x \in CallRec, x.task = NoTask, x.op \in {"dispatch", "pick"}
    PROVE  AllowedCalls(<<x>> \o Tail(calls))
<1> DEFINE r == Tail(calls)
           s == <<x>> \o r
<1>1. r \in Seq(CallRec) /\ Len(r) \in Nat /\ AllowedCalls(r)
  BY AllowedTail, ShapedTail DEF Basic, Shaped
<1>2. <<x>> \in Seq(CallRec) /\ Len(<<x>>) = 1 /\ <<x>>[1] = x
  OBVIOUS
<1> HIDE DEF r
<1>3. /\ s \in Seq(CallRec) /\ Len(s) = 1 + Len(r)
      /\ \A i \in 1 .. 1 + Len(r) : s[i] = IF i <= 1 THEN <<x>>[i] ELSE r[i - 1]
  BY <1>1, <1>2, ConcatProperties
<1> HIDE DEF s
<1>4. \A i \in 1 .. 1 + Len(r) : i = 1 \/ (~(i <= 1) /\ i - 1 \in 1 .. Len(r))
  BY <1>1
<1>5. AllowedCall(x)
  BY DEF AllowedCall
<1>6. 1 \in 1 .. 1 + Len(r) /\ 1 <= 1
  BY <1>1
<1>7. s[1] = x
  BY <1>2, <1>3, <1>6
<1>8. ASSUME NEW i \in 1 .. Len(s)
      PROVE  AllowedCall(s[i])
  <2>1. CASE i = 1
    BY <1>5, <1>7, <2>1
  <2>2. CASE ~(i <= 1) /\ i - 1 \in 1 .. Len(r)
    <3>1. s[i] = r[i - 1]
      BY <1>3, <2>2
    <3> QED
      BY <1>1, <2>2, <3>1 DEF AllowedCalls
  <2> QED
    BY <1>3, <1>4, <2>1, <2>2
<1> QED
  BY <1>8 DEF AllowedCalls, s, r

(* A handler with one call left is allowed if that call is. *)
LEMMA AllowedOne ==
    ASSUME NEW x, AllowedCall(x)
    PROVE  AllowedCalls(<<x>>)
BY DEF AllowedCalls

(* A handler that has nothing to do is allowed. *)
LEMMA AllowedNone == AllowedCalls(<<>>)
BY DEF AllowedCalls

(* A call that hands over no task is allowed. *)
LEMMA AllowedPlain ==
    ASSUME NEW op \in CallOp, op \notin {"enqueue", "requeue", "drain"}, NEW c \in Cpu,
           NEW t \in Task \cup {NoTask}
    PROVE  AllowedCall(Call(op, c, t)) /\ AllowedCalls(<<Call(op, c, t)>>) /\ AllowedCalls(<<Dispatch(c)>>)
<1>1. AllowedCall(Call(op, c, t)) /\ AllowedCall(Dispatch(c))
  BY CallTypes, DispatchTypes DEF AllowedCall
<1> QED
  BY <1>1, AllowedOne

(* stop_and_reenqueue is allowed on a CPU of the task, whatever follows. *)
LEMMA AllowedRequeue ==
    ASSUME NEW c \in Cpu, NEW t \in Task, c \in May(t)
    PROVE  /\ AllowedCalls(<<Call("requeue", c, t), Dispatch(c)>>)
           /\ \A op \in {"drainLocal", "takeDown"} :
                AllowedCalls(<<Call("requeue", c, t), Dispatch(c)>> \o <<Call(op, c, NoTask)>>)
<1>1. AllowedCall(Call("requeue", c, t)) /\ AllowedCall(Dispatch(c))
  BY CallTypes, DispatchTypes DEF AllowedCall, CallOp
<1>2. AllowedCalls(<<Call("requeue", c, t), Dispatch(c)>>)
  <2> DEFINE s == <<Call("requeue", c, t), Dispatch(c)>>
  <2>1. Len(s) = 2 /\ s[1] = Call("requeue", c, t) /\ s[2] = Dispatch(c)
    OBVIOUS
  <2> HIDE DEF s
  <2>2. AllowedCalls(s)
    BY <1>1, <2>1 DEF AllowedCalls
  <2> QED
    BY <2>2 DEF s
<1>3. ASSUME NEW op \in {"drainLocal", "takeDown"}
      PROVE  AllowedCalls(<<Call("requeue", c, t), Dispatch(c)>> \o <<Call(op, c, NoTask)>>)
  <2> DEFINE s == <<Call("requeue", c, t), Dispatch(c)>> \o <<Call(op, c, NoTask)>>
  <2>1. Len(s) = 3 /\ s[1] = Call("requeue", c, t) /\ s[2] = Dispatch(c) /\ s[3] = Call(op, c, NoTask)
    BY ShapedRequeue
  <2>2. AllowedCall(Call(op, c, NoTask))
    BY AllowedPlain DEF CallOp
  <2> HIDE DEF s
  <2>3. AllowedCalls(s)
    BY <1>1, <2>1, <2>2 DEF AllowedCalls
  <2> QED
    BY <2>3 DEF s
<1> QED
  BY <1>2, <1>3

(* A dispatch on each idle CPU is allowed. *)
LEMMA AllowedDispatches ==
    ASSUME NEW todo, IsDispatchOf(todo, IdleCpus)
    PROVE  AllowedCalls(todo)
<1>1. IdleCpus \in SUBSET Cpu
  BY DEF IdleCpus
<1>2. \A i \in 1 .. Len(todo) : todo[i].op = "dispatch"
  BY <1>1, ShapedDispatches
<1> QED
  BY <1>2 DEF AllowedCalls, AllowedCall

(* The drain of a queue of a CPU's own tasks is allowed. *)
LEMMA AllowedDrain ==
    ASSUME NEW c \in Cpu, NEW queue \in Seq(Task), AllowedQueue(c, queue)
    PROVE  AllowedCalls([i \in DOMAIN queue |-> Call("drain", c, queue[i])] \o <<Call("takeDown", c, NoTask)>>)
<1> DEFINE s == [i \in DOMAIN queue |-> Call("drain", c, queue[i])] \o <<Call("takeDown", c, NoTask)>>
           n == Len(queue)
<1>1. n \in Nat /\ \A i \in 1 .. n : queue[i] \in Task
  OBVIOUS
<1>2. /\ Len(s) = n + 1
      /\ \A i \in 1 .. n : s[i] = Call("drain", c, queue[i])
      /\ s[n + 1] = Call("takeDown", c, NoTask)
  BY ShapedDrain
<1>3. AllowedCall(Call("takeDown", c, NoTask))
  BY AllowedPlain DEF CallOp
<1> HIDE DEF s
<1>4. ASSUME NEW i \in 1 .. n
      PROVE  AllowedCall(s[i])
  <2>1. /\ Call("drain", c, queue[i]).cpu = c /\ Call("drain", c, queue[i]).task = queue[i]
    BY <1>1, CallTypes DEF CallOp
  <2>2. c \in May(queue[i])
    BY DEF AllowedQueue
  <2> QED
    BY <1>2, <2>1, <2>2 DEF AllowedCall
<1> HIDE DEF n
<1>5. \A i \in 1 .. Len(s) : i \in 1 .. n \/ i = n + 1
  BY <1>1, <1>2
<1>6. AllowedCalls(s)
  BY <1>2, <1>3, <1>4, <1>5 DEF AllowedCalls
<1> QED
  BY <1>6 DEF s

(* A step that starts no task, moves none and hands over none it may not.  *)
LEMMA AllowedKept ==
    ASSUME OnAllowed, AllowedCalls(calls'),
           \A c \in Cpu : /\ cpus'[c].local = cpus[c].local
                          /\ cpus'[c].current \in {NoTask, cpus[c].current}
    PROVE  OnAllowed'
BY DEF OnAllowed

(* A queue of a CPU's own tasks may be one of them longer. *)
LEMMA AllowedAppend ==
    ASSUME NEW c \in Cpu, NEW queue \in Seq(Task), NEW t \in Task, AllowedQueue(c, queue), c \in May(t)
    PROVE  AllowedQueue(c, Append(queue, t))
<1> DEFINE q == Append(queue, t)
<1>1. /\ q \in Seq(Task) /\ Len(q) = Len(queue) + 1 /\ q[Len(queue) + 1] = t /\ Len(queue) \in Nat
      /\ \A k \in 1 .. Len(queue) : q[k] = queue[k]
  BY AppendProperties
<1> HIDE DEF q
<1>2. \A i \in 1 .. Len(q) : i \in 1 .. Len(queue) \/ i = Len(queue) + 1
  BY <1>1
<1>3. AllowedQueue(c, q)
  BY <1>1, <1>2 DEF AllowedQueue
<1> QED
  BY <1>3 DEF q

(* A delivery to a CPU is to one that may run the task. *)
LEMMA DeliverAllowed ==
    ASSUME Basic, OnAllowed, NEW cs \in [Cpu -> CpuRec],
           \A k \in Cpu : cs[k].current = cpus[k].current /\ cs[k].local = cpus[k].local,
           NEW t \in Task, NEW d \in DsqId, NEW c \in Cpu, Deliver(cs, t, d, c),
           d = Local => c \in May(t)
    PROVE  \A k \in Cpu : /\ cpus'[k].current = cpus[k].current
                          /\ AllowedQueue(k, cpus'[k].local)
<1> SUFFICES ASSUME NEW k \in Cpu
             PROVE  cpus'[k].current = cpus[k].current /\ AllowedQueue(k, cpus'[k].local)
  OBVIOUS
<1>1. cpus'[k].current = cpus[k].current
  <2>1. cpus'[k].current = cs[k].current
    BY Delivered
  <2> QED
    BY <2>1
<1>2. cs[k].local \in Seq(Task) /\ AllowedQueue(k, cs[k].local)
  BY DEF OnAllowed, CpuRec
<1>3. CASE Direct(t, d) /\ cpus' = [cs EXCEPT ![LandsOn(d, c)].local = Append(@, t)]
  <2> DEFINE l == LandsOn(d, c)
  <2>1. l \in Cpu /\ l \in May(t)
    <3>1. CASE d = Local
      BY <3>1 DEF LandsOn
    <3>2. CASE d # Local
      <4>1. d.kind = "localOn" /\ d.cpu \in Cpu
        BY <1>3, <3>2, DsqTypes DEF Direct
      <4> QED
        BY <1>3, <3>2, <4>1 DEF LandsOn, Direct, Rejected, May
    <3> QED
      BY <3>1, <3>2
  <2> DEFINE x == [cs[l] EXCEPT !.local = Append(@, t)]
  <2>2. cpus' = [cs EXCEPT ![l] = x]
    BY <1>3
  <2>3. x.local = Append(cs[l].local, t)
    BY <2>1 DEF CpuRec
  <2> HIDE DEF l, x
  <2>4. cpus'[k].local = IF k = l THEN Append(cs[l].local, t) ELSE cs[k].local
    BY <2>1, <2>2, <2>3
  <2> QED
    BY <1>1, <1>2, <2>1, <2>4, AllowedAppend
<1>4. CASE cpus' = cs
  BY <1>1, <1>2, <1>4
<1> QED
  BY <1>3, <1>4 DEF Deliver

(* A handler starts no task and queues none; what it stopped was allowed. *)
LEMMA EventAllowed ==
    ASSUME Basic, OnAllowed, NEW e \in DOMAIN events, HandleEvent(e)
    PROVE  OnAllowed'
<1> DEFINE c == e.cpu
           t == cpus[c].current
           now == Now(c, e.time)
<1>1. c \in Cpu /\ e.time \in Nat
  BY DEF Basic, NewEvents, IsBagOf, Event
<1>2. now \in Nat
  BY <1>1, NowTypes
<1>3. \A k \in Cpu : /\ Advance(c, e.time)[k].current = cpus[k].current
                     /\ Advance(c, e.time)[k].local = cpus[k].local
                     /\ Advance(c, e.time) \in [Cpu -> CpuRec]
  BY <1>1, AdvanceTypes
<1>4. \A k \in Cpu : /\ Stop(c, now)[k].current \in {NoTask, cpus[k].current}
                     /\ Stop(c, now)[k].local = cpus[k].local
  <2> DEFINE s == Stop(c, now)
  <2>1. /\ \A k \in Cpu : k # c => s[k] = cpus[k]
        /\ s[c].current = NoTask /\ s[c].local = cpus[c].local
    BY <1>1, <1>2, StopTypes
  <2> HIDE DEF s, c
  <2>2. \A k \in Cpu : s[k].current \in {NoTask, cpus[k].current} /\ s[k].local = cpus[k].local
    BY <2>1
  <2> QED
    BY <2>2 DEF s
<1>5. t # NoTask => t \in Task /\ c \in May(t)
  BY <1>1, OnTask DEF OnAllowed
<1>6. t # NoTask => /\ AllowedCalls(Reenqueue(c))
                    /\ \A op \in {"drainLocal", "takeDown"} : AllowedCalls(Reenqueue(c) \o <<Call(op, c, NoTask)>>)
  BY <1>1, <1>5, AllowedRequeue DEF Reenqueue
<1>7. AllowedCalls(<<Dispatch(c)>>)
  BY <1>1, AllowedPlain DEF CallOp
<1> HIDE DEF now
<1>8. CASE WakeIgnored(e) \/ EndIgnored(e) \/ TickOffline(e) \/ AlreadyThere(e)
  <2>1. Ignore(e)
    BY <1>8 DEF WakeIgnored, EndIgnored, TickOffline, AlreadyThere
  <2>2. cpus' = Advance(c, e.time) /\ calls' = <<>>
    BY <2>1 DEF Ignore, Take, Pop
  <2> QED
    BY <1>3, <2>2, AllowedNone, AllowedKept
<1>9. CASE TaskWake(e)
  <2>1. e.task \in Task /\ cpus' = Advance(c, e.time)
    BY <1>9, WokenUp DEF WokenAs
  <2>2. calls' \in {<<>>, <<Call("selectCpu", c, e.task)>>}
    BY <1>9, WokenUp DEF WokenAs
  <2>3. AllowedCalls(<<Call("selectCpu", c, e.task)>>)
    BY <1>1, <2>1, AllowedPlain DEF CallOp
  <2> QED
    BY <1>3, <2>1, <2>2, <2>3, AllowedNone, AllowedKept
<1>10. CASE SliceExpired(e) \/ KickPreempt(e)
  <2>1. cpus' = Stop(c, now) /\ calls' = Reenqueue(c) /\ t # NoTask
    BY <1>10, Zenon DEF SliceExpired, KickPreempt, PreemptCurrent, StopAndReenqueue, now
  <2> QED
    BY <1>4, <1>6, <2>1, AllowedKept
<1>11. CASE CpuLeaves(e)
  <2>1. \E op \in {"drainLocal", "takeDown"} : Leaving(e) = <<Call(op, c, NoTask)>>
    BY DEF Leaving
  <2>2. CASE t = NoTask
    <3>1. cpus' = Advance(c, e.time) /\ calls' = Leaving(e)
      BY <1>11, <2>2 DEF CpuLeaves
    <3>2. AllowedCalls(Leaving(e))
      BY <1>1, <2>1, AllowedPlain DEF CallOp
    <3> QED
      BY <1>3, <3>1, <3>2, AllowedKept
  <2>3. CASE t # NoTask
    <3>1. cpus' = Stop(c, now) /\ calls' = Reenqueue(c) \o Leaving(e)
      BY <1>11, <2>3, Zenon DEF CpuLeaves, PreemptCurrent, StopAndReenqueue, now
    <3>2. AllowedCalls(calls')
      BY <1>6, <2>1, <2>3, <3>1
    <3> QED
      BY <1>4, <3>1, <3>2, AllowedKept
  <2> QED
    BY <2>2, <2>3
<1>12. CASE KickDispatch(e)
  <2>1. cpus' = Advance(c, e.time) /\ calls' \in {<<>>, <<Dispatch(c)>>}
    BY <1>12 DEF KickDispatch
  <2> QED
    BY <1>3, <1>7, <2>1, AllowedNone, AllowedKept
<1>13. CASE Tick(e)
  <2>1. cpus' = Advance(c, e.time)
    BY <1>13 DEF Tick
  <2>2. calls' = <<>> \/ (t # NoTask /\ calls' = <<Call("tick", c, t)>>)
    BY <1>13 DEF Tick
  <2>3. t # NoTask => AllowedCalls(<<Call("tick", c, t)>>)
    BY <1>1, <1>5, AllowedPlain DEF CallOp
  <2> QED
    BY <1>3, <2>1, <2>2, <2>3, AllowedNone, AllowedKept
<1>14. CASE CpuReturns(e)
  <2> DEFINE A == Advance(c, e.time)
             x == [A[c] EXCEPT !.online = TRUE]
  <2>1. cpus' = [A EXCEPT ![c] = x] /\ calls' = <<Dispatch(c)>>
    BY <1>14 DEF CpuReturns
  <2>2. x.current = A[c].current /\ x.local = A[c].local
    BY <1>1, <1>3 DEF CpuRec
  <2> HIDE DEF A, x, c
  <2>3. \A k \in Cpu : cpus'[k].current = A[k].current /\ cpus'[k].local = A[k].local
    BY <1>1, <1>3, <2>1, <2>2 DEF A
  <2>4. \A k \in Cpu : cpus'[k].local = cpus[k].local /\ cpus'[k].current \in {NoTask, cpus[k].current}
    BY <1>3, <2>3 DEF A
  <2> QED
    BY <1>7, <2>1, <2>4, AllowedKept
<1>15. CASE PhaseComplete(e)
  <2>1. cpus' = Stop(c, now) /\ t # NoTask
    BY <1>15, Completed, EngineAssumption DEF now
  <2>2. calls' = Reenqueue(c) \/ calls' = <<Dispatch(c)>>
    BY <1>15, Completed
  <2> QED
    BY <1>4, <1>6, <1>7, <2>1, <2>2, AllowedKept
<1> QED
  BY <1>8, <1>9, <1>10, <1>11, <1>12, <1>13, <1>14, <1>15 DEF HandleEvent

(* ops.select_cpu picks a CPU the scheduler chooses for the task, and      *)
(* check_local_on_dispatch refuses to insert on one off its cpumask.       *)
LEMMA SelectAllowed ==
    ASSUME Basic, OnAllowed, SelectCpu
    PROVE  OnAllowed'
<1> DEFINE t == Head(calls).task
<1>1. t \in Task
  BY Selected
<1>2. PICK c \in Chosen[t] :
        /\ c \in Cpu
        /\ \/ /\ calls' = <<Call("enqueue", c, t)>>
              /\ UNCHANGED <<cpus, dsqs, staged, failed>>
           \/ \E d \in SelectDsq :
                /\ d \in DsqId
                /\ Deliver(cpus, t, d, c)
                /\ tasks'[t].slice \in Nat \ {0}
                /\ staged' = staged (+) Resched(cpus, t, d, c)
                /\ calls' = IF Direct(t, d) THEN <<Dispatch(LandsOn(d, c))>>
                            ELSE <<Call("enqueue", c, t)>>
  BY Selected
<1> HIDE DEF t
<1>3. c \in May(t)
  BY <1>2 DEF May
<1>4. AllowedCalls(<<Call("enqueue", c, t)>>)
  <2>1. AllowedCall(Call("enqueue", c, t))
    BY <1>1, <1>2, <1>3, CallTypes DEF AllowedCall, CallOp
  <2> QED
    BY <2>1, AllowedOne
<1>5. CASE calls' = <<Call("enqueue", c, t)>> /\ UNCHANGED <<cpus, dsqs, staged, failed>>
  BY <1>4, <1>5, AllowedKept
<1>6. ASSUME NEW d \in DsqId, Deliver(cpus, t, d, c),
             calls' = IF Direct(t, d) THEN <<Dispatch(LandsOn(d, c))>> ELSE <<Call("enqueue", c, t)>>
      PROVE  OnAllowed'
  <2>1. cpus \in [Cpu -> CpuRec]
    BY DEF Basic
  <2>2. \A k \in Cpu : cpus'[k].current = cpus[k].current /\ AllowedQueue(k, cpus'[k].local)
    BY <1>1, <1>2, <1>6, <1>3, <2>1, DeliverAllowed
  <2>3. AllowedCalls(calls')
    <3>1. CASE Direct(t, d)
      <4>1. LandsOn(d, c) \in Cpu
        BY <1>2, <3>1, DsqTypes DEF Direct, LandsOn
      <4>2. AllowedCalls(<<Dispatch(LandsOn(d, c))>>)
        BY <4>1, AllowedPlain DEF CallOp
      <4> QED
        BY <1>6, <3>1, <4>2
    <3>2. CASE ~Direct(t, d)
      BY <1>4, <1>6, <3>2
    <3> QED
      BY <3>1, <3>2
  <2> QED
    BY <2>2, <2>3 DEF OnAllowed
<1> QED
  BY <1>2, <1>5, <1>6

(* What follows ops.enqueue is allowed. *)
LEMMA AfterAllowed ==
    ASSUME Basic, OnAllowed, NEW kicks, KickBag(kicks), AfterEnqueue(kicks),
           Calling("enqueue") \/ Calling("requeue") \/ Calling("drain")
    PROVE  /\ AllowedCalls(calls')
           /\ Head(calls).cpu \in May(Head(calls).task)
<1>1. /\ \/ Calling("enqueue") /\ IsDispatchOf(calls', IdleCpus)
         \/ ~Calling("enqueue") /\ calls' = Tail(calls)
      /\ calls # <<>>
  BY AfterEnqueued
<1>2. AllowedCalls(Tail(calls)) /\ AllowedCall(Head(calls))
  BY <1>1, AllowedTail DEF OnAllowed
<1>3. Head(calls).op \in {"enqueue", "requeue", "drain"}
  BY DEF Calling
<1> QED
  BY <1>1, <1>2, <1>3, AllowedDispatches DEF AllowedCall

(* ops.enqueue is asked on a CPU of the task, and inserts on no other. *)
LEMMA EnqueueAllowed ==
    ASSUME Basic, OnAllowed, EnqueueInsert \/ EnqueueHold
    PROVE  OnAllowed'
<1>1. CASE EnqueueHold
  <2>1. AllowedCalls(calls') /\ cpus' = cpus
    BY <1>1, Kept, AfterAllowed
  <2> QED
    BY <2>1, AllowedKept
<1>2. CASE EnqueueInsert
  <2> DEFINE c == Head(calls).cpu
             t == Head(calls).task
  <2>1. /\ Calling("enqueue") \/ Calling("requeue") \/ Calling("drain")
        /\ c \in Cpu /\ t \in Task
    BY <1>2, Enqueued
  <2>2. PICK d \in EnqueueDsq : \E kicks :
          /\ d \in DsqId
          /\ Deliver(cpus, t, d, c)
          /\ KickBag(kicks) /\ DOMAIN Resched(cpus, t, d, c) \subseteq DOMAIN kicks
          /\ AfterEnqueue(kicks)
    BY <1>2, Enqueued
  <2>3. AllowedCalls(calls') /\ c \in May(t)
    BY <2>1, <2>2, AfterAllowed
  <2>4. cpus \in [Cpu -> CpuRec]
    BY DEF Basic
  <2> HIDE DEF c, t
  <2>5. \A k \in Cpu : cpus'[k].current = cpus[k].current /\ AllowedQueue(k, cpus'[k].local)
    BY <2>1, <2>2, <2>3, <2>4, DeliverAllowed
  <2> QED
    BY <2>3, <2>5 DEF OnAllowed
<1> QED
  BY <1>1, <1>2

(* ops.tick hands over the task of its CPU at most. *)
LEMMA TickAllowed ==
    ASSUME Basic, OnAllowed, OpsTick
    PROVE  OnAllowed'
<1> DEFINE c == Head(calls).cpu
           t == cpus[c].current
           now == cpus[c].clock
<1>1. /\ c \in Cpu /\ t \in Task /\ now \in Nat
      /\ \/ /\ \E left \in Nat : StopAndReenqueue(c, now, Ran(c, now), left)
            /\ calls' = Reenqueue(c)
         \/ calls' = <<>> /\ UNCHANGED <<tasks, cpus, dsqs, held, unserved>>
  BY Ticked
<1>2. CASE calls' = <<>> /\ UNCHANGED <<tasks, cpus, dsqs, held, unserved>>
  BY <1>2, AllowedNone, AllowedKept
<1>3. CASE (\E left \in Nat : StopAndReenqueue(c, now, Ran(c, now), left)) /\ calls' = Reenqueue(c)
  <2>1. cpus' = Stop(c, now)
    BY <1>3, Zenon DEF StopAndReenqueue
  <2>2. t # NoTask
    BY <1>1, EngineAssumption
  <2>3. c \in May(t)
    BY <1>1, <2>2 DEF OnAllowed
  <2>4. AllowedCalls(calls')
    BY <1>1, <1>3, <2>3, AllowedRequeue DEF Reenqueue
  <2> DEFINE s == Stop(c, now)
  <2>5. /\ \A k \in Cpu : k # c => s[k] = cpus[k]
        /\ s[c].current = NoTask /\ s[c].local = cpus[c].local
    BY <1>1, StopTypes
  <2>6. cpus' = s
    BY <2>1
  <2> HIDE DEF s, c
  <2>7. \A k \in Cpu : cpus'[k].current \in {NoTask, cpus[k].current} /\ cpus'[k].local = cpus[k].local
    BY <2>5, <2>6
  <2> QED
    BY <2>4, <2>7, AllowedKept
<1> QED
  BY <1>1, <1>2, <1>3

(* A dispatch leads to a pick, which hands over no task. *)
LEMMA PickAllowed ==
    ASSUME Basic, NEW c \in Cpu, Dispatching(c), AllowedCalls(calls)
    PROVE  AllowedCalls(calls')
<1>1. calls # <<>> /\ calls' = <<Call("pick", c, NoTask)>> \o Tail(calls)
  BY Dispatched
<1>2. /\ Call("pick", c, NoTask) \in CallRec /\ Call("pick", c, NoTask).task = NoTask
      /\ Call("pick", c, NoTask).op = "pick"
  BY CallTypes DEF CallOp
<1> QED
  BY <1>1, <1>2, AllowedThen

(* A dispatch that moves no task moves none where it may not be. *)
LEMMA IdleAllowed ==
    ASSUME Basic, OnAllowed, NEW c \in Cpu,
           DispatchLocal(c) \/ DispatchNothing(c) \/ GoIdle(c) \/ DispatchRefused \/ TakeDown
    PROVE  OnAllowed'
<1>1. AllowedCalls(calls)
  BY DEF OnAllowed
<1>2. Dispatching(c) \/ (calls # <<>> /\ calls' = Tail(calls))
  BY DEF DispatchLocal, DispatchNothing, GoIdle, DispatchRefused, TakeDown, Calling
<1>3. AllowedCalls(calls')
  BY <1>1, <1>2, PickAllowed, AllowedTail
<1> QED
  BY <1>3, IdleKeeps, AllowedKept

(* scx_bpf_dsq_move_to_local takes a task this CPU may run. *)
LEMMA MoveAllowed ==
    ASSUME Basic, OnAllowed, NEW c \in Cpu, DispatchMove(c)
    PROVE  OnAllowed'
<1>1. /\ Dispatching(c)
      /\ \A k \in Cpu : cpus'[k].current = cpus[k].current
      /\ \A k \in Cpu : k # c => cpus'[k].local = cpus[k].local
  BY Moved
<1>2. PICK i \in 1 .. Len(dsqs.shared) :
        /\ dsqs.shared[i] \in Task /\ c \in May(dsqs.shared[i])
        /\ cpus'[c].local = Append(cpus[c].local, dsqs.shared[i])
  BY Moved DEF May
<1>3. cpus[c].local \in Seq(Task) /\ AllowedQueue(c, cpus[c].local)
  BY DEF OnAllowed, Basic, CpuRec
<1>4. AllowedQueue(c, cpus'[c].local)
  BY <1>2, <1>3, AllowedAppend
<1>5. AllowedCalls(calls')
  BY <1>1, PickAllowed DEF OnAllowed
<1>6. \A k \in Cpu : AllowedQueue(k, cpus'[k].local)
  BY <1>1, <1>4 DEF OnAllowed
<1>7. \A k \in Cpu : cpus'[k].current # NoTask => k \in May(cpus'[k].current)
  BY <1>1 DEF OnAllowed
<1> QED
  BY <1>5, <1>6, <1>7 DEF OnAllowed

(* The dispatch of a held task puts it on no CPU but one chosen for it or  *)
(* in its cpumask.                                                         *)
LEMMA OfferAllowed ==
    ASSUME Basic, OnAllowed, NEW c \in Cpu, DispatchHeld(c)
    PROVE  OnAllowed'
<1> DEFINE cs == Advance(c, clock)
<1>1. Dispatching(c) /\ cs \in [Cpu -> CpuRec] /\ clock \in Nat
  BY Offered DEF Basic
<1>2. PICK t \in held, d \in DispatchDsq :
        /\ t \in Task /\ d \in DsqId
        /\ d = Local => c \in Chosen[t]
        /\ Deliver(cs, t, d, c)
  BY Offered
<1>3. \A k \in Cpu : cs[k].current = cpus[k].current /\ cs[k].local = cpus[k].local
  BY <1>1, AdvanceTypes
<1> HIDE DEF cs
<1>4. \A k \in Cpu : cpus'[k].current = cpus[k].current /\ AllowedQueue(k, cpus'[k].local)
  <2>1. d = Local => c \in May(t)
    BY <1>2 DEF May
  <2> QED
    BY <1>1, <1>2, <1>3, <2>1, DeliverAllowed
<1>5. AllowedCalls(calls')
  BY <1>1, PickAllowed DEF OnAllowed
<1> QED
  BY <1>4, <1>5 DEF OnAllowed

(* A picked task may run on the CPU that picks it. *)
LEMMA TakenAllowed ==
    ASSUME Basic, OnAllowed, NEW c \in Cpu, NEW pick \in Picks(c)
    PROVE  c \in May(pick.task) /\ AllowedQueue(c, pick.local)
<1>1. AllowedQueue(c, cpus[c].local) /\ cpus[c].local \in Seq(Task)
  BY DEF OnAllowed, Basic, CpuRec
<1>2. CASE /\ cpus[c].local # <<>> /\ 1 \in 1 .. Len(cpus[c].local)
           /\ pick.task = cpus[c].local[1] /\ pick.local = Tail(cpus[c].local)
  <2> DEFINE q == cpus[c].local
             r == Tail(cpus[c].local)
  <2>1. c \in May(pick.task)
    BY <1>1, <1>2 DEF AllowedQueue
  <2>2. q \in Seq(Task) /\ q # <<>>
    BY <1>1, <1>2
  <2> HIDE DEF q
  <2>3. /\ Tail(q) \in Seq(Task) /\ Len(Tail(q)) = Len(q) - 1 /\ Len(q) \in Nat
        /\ \A i \in 1 .. Len(Tail(q)) : Tail(q)[i] = q[i + 1]
    BY <2>2, HeadTailProperties
  <2>4. \A i \in 1 .. Len(Tail(q)) : i + 1 \in 1 .. Len(q)
    BY <2>3
  <2>5. AllowedQueue(c, q)
    BY <1>1 DEF q
  <2>6. AllowedQueue(c, Tail(q))
    BY <2>3, <2>4, <2>5 DEF AllowedQueue
  <2> QED
    BY <1>2, <2>1, <2>6 DEF q
<1>3. CASE pick.local = cpus[c].local /\ c \in May(pick.task)
  BY <1>1, <1>3
<1> QED
  BY <1>2, <1>3, PickTypes DEF May

(* start_running starts a task its CPU may run. *)
LEMMA StartAllowed ==
    ASSUME Basic, OnAllowed, NEW c \in Cpu, NEW pick \in Picks(c),
           RunFor(c, pick, tasks[pick.task].slice)
    PROVE  OnAllowed'
<1>1. calls # <<>> /\ calls' = Tail(calls)
  BY Started, SliceTypes
<1>2. tasks[pick.task].slice \in Nat
  BY SliceTypes
<1>3. /\ \A k \in Cpu : k # c => cpus'[k] = cpus[k]
      /\ cpus'[c].current = pick.task /\ cpus'[c].local = pick.local
  BY <1>2, StartedCpu
<1>4. c \in May(pick.task) /\ AllowedQueue(c, pick.local)
  BY TakenAllowed
<1>5. AllowedCalls(calls')
  BY <1>1, AllowedTail DEF OnAllowed
<1>6. \A k \in Cpu : AllowedQueue(k, cpus'[k].local)
  BY <1>3, <1>4 DEF OnAllowed
<1>7. \A k \in Cpu : cpus'[k].current # NoTask => k \in May(cpus'[k].current)
  BY <1>3, <1>4 DEF OnAllowed
<1> QED
  BY <1>5, <1>6, <1>7 DEF OnAllowed

(* An offlined CPU hands over tasks it may run. *)
LEMMA DrainAllowed ==
    ASSUME Basic, OnAllowed, DrainLocal
    PROVE  OnAllowed'
<1> DEFINE c == Head(calls).cpu
           queue == cpus[c].local
<1>1. /\ Calling("drainLocal") /\ cpus' = [cpus EXCEPT ![c].local = <<>>]
      /\ calls' = [i \in DOMAIN queue |-> Call("drain", c, queue[i])] \o <<Call("takeDown", c, NoTask)>>
  BY ZenonT(30) DEF DrainLocal
<1>2. c \in Cpu
  BY <1>1, Called, Zenon
<1>3. cpus \in [Cpu -> CpuRec]
  BY DEF Basic
<1>4. queue \in Seq(Task) /\ AllowedQueue(c, queue)
  BY <1>2, <1>3 DEF CpuRec, OnAllowed
<1>5. AllowedCalls(calls')
  BY <1>1, <1>2, <1>4, AllowedDrain, Zenon
<1>6. cpus'[c].local = <<>> /\ cpus'[c].current = cpus[c].current
      /\ \A k \in Cpu : k # c => cpus'[k] = cpus[k]
  <2> DEFINE x == [cpus[c] EXCEPT !.local = <<>>]
  <2>1. cpus' = [cpus EXCEPT ![c] = x]
    BY <1>1, Zenon
  <2>2. x.local = <<>> /\ x.current = cpus[c].current
    BY <1>2, <1>3 DEF CpuRec
  <2> HIDE DEF x, c
  <2> QED
    BY <1>2, <1>3, <2>1, <2>2
<1> HIDE DEF c
<1>7. AllowedQueue(c, <<>>)
  BY DEF AllowedQueue
<1>8. \A k \in Cpu : AllowedQueue(k, cpus'[k].local)
  BY <1>6, <1>7 DEF OnAllowed
<1>9. \A k \in Cpu : cpus'[k].current # NoTask => k \in May(cpus'[k].current)
  BY <1>6 DEF OnAllowed
<1> QED
  BY <1>5, <1>8, <1>9 DEF OnAllowed

(* Every step keeps tasks on the CPUs they may run on. *)
LEMMA AllowedStep ==
    ASSUME Basic, OnAllowed, [Next]_vars, \A t \in Task : Accounted(t)
    PROVE  OnAllowed'
<1>1. CASE UNCHANGED vars
  BY <1>1 DEF vars, OnAllowed
<1>2. ASSUME NEW c \in Cpu, DispatchAndRun(c)
      PROVE  OnAllowed'
  <2>1. CASE DispatchLocal(c) \/ DispatchNothing(c) \/ GoIdle(c)
    BY <2>1, IdleAllowed
  <2>2. CASE StartRunning(c)
    BY <2>2, BasicStep, StartAllowed, SkipsNone, PickTypes DEF StartRunning, Accounted
  <2> QED
    BY <1>2, <2>1, <2>2, MoveAllowed, OfferAllowed DEF DispatchAndRun
<1>3. CASE DispatchRefused \/ TakeDown
  <2>1. 0 \in Cpu
    BY EngineAssumption DEF Cpu
  <2> QED
    BY <1>3, <2>1, IdleAllowed
<1> QED
  BY <1>1, <1>2, <1>3, EventAllowed, SelectAllowed, EnqueueAllowed, TickAllowed, DrainAllowed DEF Next

(* At the start nothing runs and nothing is queued. *)
LEMMA AllowedInit ==
    ASSUME Init
    PROVE  OnAllowed
BY DEF Init, OnAllowed, AllowedQueue, AllowedCalls

(* Whatever way a task takes to a CPU, it is one of its cpumask or one the *)
(* scheduler chose for it.  Through the global DSQ, the shared one,        *)
(* SCX_DSQ_LOCAL_ON, a requeue after a preemption or the drain of a CPU    *)
(* that leaves, the engine takes no task off its cpumask by itself; and a  *)
(* scheduler whose answers keep to the cpumask (tests/cpu_affinity.rs)     *)
(* finds its tasks nowhere else.                                           *)
THEOREM AffinityKept ==
    ASSUME SelectsLocal
    PROVE  Spec => []NoneStrays
<1> DEFINE I == Basic /\ (\A t \in Task : Accounted(t)) /\ OnAllowed
<1>1. Init => I
  BY BasicInit, AccountedInit, AllowedInit
<1>2. I /\ [Next]_vars => I'
  BY BasicStep, AccountedStep, AllowedStep
<1>3. I => NoneStrays
  BY DEF OnAllowed, May, NoneStrays
<1> HIDE DEF I
<1> QED
  BY <1>1, <1>2, <1>3, PTL DEF Spec

(* Everything a step to the abstract machine needs.                        *)
Sound == Basic /\ \A t \in Task : Accounted(t)

(* All of it always holds, if ops.select_cpu inserts into local DSQs only. *)
LEMMA AlwaysSound ==
    ASSUME SelectsLocal
    PROVE  Spec => []Sound
<1>1. Init => Sound
  BY BasicInit, AccountedInit DEF Sound
<1>2. Sound /\ [Next]_vars => Sound'
  BY BasicStep, AccountedStep DEF Sound
<1> QED
  BY <1>1, <1>2, PTL DEF Spec

-----------------------------------------------------------------------------
(* The engine implements the abstract machine. *)

(* What a step must be, seen from outside.                                 *)
AbstractStep == [Machine!MachineNext]_Machine!machineVars

(* A step that starts, stops and wakes nothing is a stutter. *)
LEMMA MapsStutter ==
    ASSUME \A k \in Cpu : cpus'[k].current = cpus[k].current,
           \A u \in Task : tasks'[u].state = tasks[u].state
    PROVE  AbstractStep
BY DEF AbstractStep, Machine!machineVars

(* A woken task maps to a wake, or to a stutter if it goes on sleeping. *)
LEMMA MapsWake ==
    ASSUME \A k \in Cpu : cpus'[k].current = cpus[k].current,
           NEW t \in Task, tasks[t].state = "Sleeping",
           tasks'[t].state \in {"Runnable", "Sleeping", "Exited"},
           \A u \in Task : u # t => tasks'[u].state = tasks[u].state
    PROVE  AbstractStep
<1>1. CASE tasks'[t].state = "Sleeping"
  <2>1. \A u \in Task : tasks'[u].state = tasks[u].state
    BY <1>1
  <2> QED
    BY <2>1, MapsStutter
<1>2. CASE tasks'[t].state \in {"Runnable", "Exited"}
  <2>1. Machine!WakeUp(t)
    BY <1>2 DEF Machine!WakeUp
  <2> QED
    BY <2>1 DEF AbstractStep, Machine!MachineNext
<1> QED
  BY <1>1, <1>2

(* A task that starts on an idle CPU maps to a start. *)
LEMMA MapsStart ==
    ASSUME NEW c \in Cpu, NEW t \in Task, cpus[c].current = NoTask, cpus'[c].current = t,
           \A k \in Cpu : k # c => cpus'[k].current = cpus[k].current,
           tasks[t].state = "Runnable", tasks'[t].state = "Running",
           \A u \in Task : u # t => tasks'[u].state = tasks[u].state
    PROVE  AbstractStep
<1>1. Machine!StartOn(c, t)
  BY DEF Machine!StartOn
<1> QED
  BY <1>1 DEF AbstractStep, Machine!MachineNext

(* A task that leaves its CPU maps to a stop. *)
LEMMA MapsStop ==
    ASSUME NEW c \in Cpu, NEW t \in Task, cpus[c].current = t, cpus'[c].current = NoTask,
           \A k \in Cpu : k # c => cpus'[k].current = cpus[k].current,
           tasks'[t].state \in {"Runnable", "Sleeping", "Exited"},
           \A u \in Task : u # t => tasks'[u].state = tasks[u].state
    PROVE  AbstractStep
<1>1. t # NoTask
  BY EngineAssumption
<1>2. Machine!StopOn(c)
  BY <1>1 DEF Machine!StopOn
<1> QED
  BY <1>2 DEF AbstractStep, Machine!MachineNext

(* A stopped task maps to a stop, whatever becomes of it.                  *)
LEMMA StopMaps ==
    ASSUME Basic, NEW c \in Cpu, NEW now \in Nat, cpus[c].current \in Task, cpus' = Stop(c, now),
           tasks'[cpus[c].current].state \in {"Runnable", "Sleeping", "Exited"},
           \A u \in Task : u # cpus[c].current => tasks'[u].state = tasks[u].state
    PROVE  AbstractStep
<1> DEFINE s == Stop(c, now)
<1>1. s[c].current = NoTask /\ \A k \in Cpu : k # c => s[k] = cpus[k]
  BY StopTypes
<1>2. cpus' = s
  OBVIOUS
<1> HIDE DEF s
<1>3. cpus'[c].current = NoTask /\ \A k \in Cpu : k # c => cpus'[k].current = cpus[k].current
  BY <1>1, <1>2
<1> QED
  BY <1>3, MapsStop

(* stop_and_reenqueue maps to a stop. *)
LEMMA RequeueMaps ==
    ASSUME Basic, NEW c \in Cpu, NEW now \in Nat, NEW consumed \in Int, NEW left \in Nat,
           cpus[c].current \in Task, StopAndReenqueue(c, now, consumed, left)
    PROVE  AbstractStep
<1> DEFINE t == cpus[c].current
<1>1. (\A u \in Task : u # t => tasks'[u] = tasks[u]) /\ tasks'[t].state = "Runnable"
  BY RequeueTypes
<1>2. cpus' = Stop(c, now)
  BY DEF StopAndReenqueue
<1> QED
  BY <1>1, <1>2, StopMaps

(* A handler maps to a wake, a stop or a stutter. *)
LEMMA EventMaps ==
    ASSUME Basic, NEW e \in DOMAIN events, HandleEvent(e)
    PROVE  AbstractStep
<1>1. CASE \/ Ignore(e) \/ KickDispatch(e) \/ Tick(e) \/ CpuReturns(e)
           \/ CpuLeaves(e) /\ cpus[e.cpu].current = NoTask
  <2>1. /\ tasks' = tasks
        /\ \A k \in Cpu : cpus'[k].current = cpus[k].current
    BY <1>1, PassKeeps
  <2> QED
    BY <2>1, MapsStutter
<1>2. CASE SliceExpired(e) \/ KickPreempt(e) \/ (CpuLeaves(e) /\ cpus[e.cpu].current # NoTask)
  <2> DEFINE c == e.cpu
             t == cpus[c].current
             now == Now(c, e.time)
  <2>1. /\ c \in Cpu /\ t \in Task /\ now \in Nat
        /\ cpus' = Stop(c, now)
        /\ \A v \in Task : v # t => tasks'[v].state = tasks[v].state
        /\ tasks'[t].state = "Runnable"
    BY <1>2, EventStops
  <2> HIDE DEF c, now
  <2> QED
    BY <2>1, StopMaps
<1>3. CASE PhaseComplete(e)
  <2> DEFINE c == e.cpu
             t == cpus[c].current
             now == Now(c, e.time)
  <2>1. /\ c \in Cpu /\ t \in Task /\ now \in Nat
        /\ cpus' = Stop(c, now)
        /\ \A v \in Task : v # t => tasks'[v] = tasks[v]
        /\ tasks'[t].state \in {"Runnable", "Sleeping", "Exited"}
    BY <1>3, Completed
  <2> HIDE DEF c, now
  <2> QED
    BY <2>1, StopMaps
<1>4. CASE TaskWake(e)
  <2> DEFINE t == e.task
  <2>1. /\ e.cpu \in Cpu /\ e.time \in Nat /\ t \in Task /\ tasks[t].state = "Sleeping"
        /\ cpus' = Advance(e.cpu, e.time)
        /\ \A v \in Task : v # t => tasks'[v] = tasks[v]
        /\ tasks'[t].state \in {"Runnable", "Sleeping", "Exited"}
    BY <1>4, WokenUp DEF WokenAs
  <2>2. \A k \in Cpu : cpus'[k].current = cpus[k].current
    BY <2>1, AdvanceTypes
  <2> HIDE DEF t
  <2> QED
    BY <2>1, <2>2, MapsWake
<1> QED
  BY <1>1, <1>2, <1>3, <1>4 DEF HandleEvent, WakeIgnored, EndIgnored, TickOffline, AlreadyThere

(* A picked task is queued, so it runs nowhere and has not gone away. *)
LEMMA PickedWaits ==
    ASSUME Basic, Basic', NEW c \in Cpu, NEW pick \in Picks(c),
           RunFor(c, pick, tasks[pick.task].slice), Accounted(pick.task)
    PROVE  tasks[pick.task].state = "Runnable"
<1> DEFINE t == pick.task
<1>1. t \in Task /\ dsqs'.global = pick.global /\ dsqs'.shared = dsqs.shared
  BY Started, SliceTypes
<1>2. tasks[t].slice \in Nat
  BY SliceTypes
<1>3. /\ \A k \in Cpu : k # c => cpus'[k].local = cpus[k].local
      /\ cpus'[c].local = pick.local
  BY <1>2, StartedCpu
<1>4. InQueues(cpus', dsqs', t) + One(t, t) = InQueues(cpus, dsqs, t)
  BY <1>1, <1>3, PickCounts
<1>5. InQueues(cpus', dsqs', t) \in Nat
  <2>1. cpus' \in [Cpu -> CpuRec] /\ dsqs' \in [global : Seq(Task), shared : Seq(Task)]
    BY DEF Basic
  <2> QED
    BY <2>1, InQueuesTypes
<1>6. One(t, t) = 1
  BY DEF One
<1>7. Accounted(t)
  OBVIOUS
<1> HIDE DEF t
<1>8. InQueues(cpus, dsqs, t) >= 1
  BY <1>4, <1>5, <1>6
<1>9. /\ OnCpus(cpus, t) \in Nat /\ InQueues(cpus, dsqs, t) \in Nat
      /\ AtHold(held, t) \in Nat /\ Hands(calls, t) \in Nat
      /\ Waiting(t) = InQueues(cpus, dsqs, t) + AtHold(held, t) + Hands(calls, t)
  BY <1>1, WaitingTypes DEF Waiting
<1>10. Due(t) \in {0, 1}
  BY DEF Due
<1>11. OnCpus(cpus, t) + Waiting(t) <= Due(t)
  BY <1>1, <1>7, AccountedIs
<1>12. OnCpus(cpus, t) = 0 /\ Due(t) = 1
  BY <1>8, <1>9, <1>10, <1>11
<1>13. tasks[t].state # "Running"
  BY <1>7, <1>12 DEF Accounted, Counted
<1>14. tasks[t].state = "Runnable"
  BY <1>12, <1>13 DEF Due
<1> QED
  BY <1>14 DEF t

(* start_running maps to a start. *)
LEMMA StartMaps ==
    ASSUME Sound, Basic', NEW c \in Cpu, NEW pick \in Picks(c),
           RunFor(c, pick, tasks[pick.task].slice)
    PROVE  AbstractStep
<1> DEFINE t == pick.task
<1> USE DEF Sound
<1>1. t \in Task /\ cpus[c].current = NoTask
  BY Started, SliceTypes
<1>2. tasks[t].slice \in Nat
  BY SliceTypes
<1>3. /\ \A k \in Cpu : k # c => cpus'[k].current = cpus[k].current
      /\ cpus'[c].current = t
  BY <1>2, StartedCpu
<1>4. (\A u \in Task : u # t => tasks'[u].state = tasks[u].state) /\ tasks'[t].state = "Running"
  BY StartedTask
<1>5. tasks[t].state = "Runnable"
  BY <1>1, PickedWaits
<1> HIDE DEF t
<1> QED
  BY <1>1, <1>3, <1>4, <1>5, MapsStart

(* A dispatch queues a task or none, and starts none. *)
LEMMA DispatchMaps ==
    ASSUME Sound, Basic', NEW c \in Cpu, DispatchAndRun(c)
    PROVE  AbstractStep
<1>1. Basic
  BY DEF Sound
<1>2. CASE DispatchLocal(c) \/ DispatchNothing(c) \/ GoIdle(c)
  <2>1. tasks' = tasks /\ \A k \in Cpu : cpus'[k].current = cpus[k].current
    BY <1>1, <1>2, IdleKeeps
  <2> QED
    BY <2>1, MapsStutter
<1>3. CASE DispatchMove(c)
  <2>1. tasks' = tasks /\ \A k \in Cpu : cpus'[k].current = cpus[k].current
    BY <1>1, <1>3, Moved
  <2> QED
    BY <2>1, MapsStutter
<1>4. CASE DispatchHeld(c)
  <2> DEFINE cs == Advance(c, clock)
  <2>1. cs \in [Cpu -> CpuRec] /\ clock \in Nat
    BY <1>1, <1>4, Offered DEF Basic
  <2>2. PICK t \in held, d \in DispatchDsq :
          /\ t \in Task /\ d \in DsqId
          /\ Deliver(cs, t, d, c)
          /\ \A u \in Task : u # t => tasks'[u] = tasks[u]
          /\ tasks'[t].state = tasks[t].state
    BY <1>1, <1>4, Offered
  <2>3. \A k \in Cpu : cs[k].current = cpus[k].current
    BY <1>1, <2>1, AdvanceTypes
  <2> HIDE DEF cs
  <2>4. \A k \in Cpu : cpus'[k].current = cs[k].current
    BY <1>1, <2>1, <2>2, Delivered
  <2>5. \A u \in Task : tasks'[u].state = tasks[u].state
    BY <2>2
  <2> QED
    BY <2>3, <2>4, <2>5, MapsStutter
<1>5. CASE StartRunning(c)
  BY <1>1, <1>5, StartMaps, SkipsNone, PickTypes DEF StartRunning, Sound, Accounted
<1> QED
  BY <1>2, <1>3, <1>4, <1>5 DEF DispatchAndRun

(* No callback but ops.tick stops a task. *)
LEMMA CallMaps ==
    ASSUME Basic, SelectCpu \/ EnqueueInsert \/ EnqueueHold \/ OpsTick
                    \/ DispatchRefused \/ DrainLocal \/ TakeDown
    PROVE  AbstractStep
<1>1. cpus \in [Cpu -> CpuRec]
  BY DEF Basic
<1>2. CASE SelectCpu
  <2> DEFINE t == Head(calls).task
  <2>1. t \in Task /\ \A u \in Task : tasks'[u].state = tasks[u].state
    BY <1>2, Selected
  <2>2. cpus' = cpus \/ \E c \in Cpu, d \in DsqId : Deliver(cpus, t, d, c)
    BY <1>2, Selected
  <2> HIDE DEF t
  <2>3. \A k \in Cpu : cpus'[k].current = cpus[k].current
    BY <1>1, <2>1, <2>2, Delivered
  <2> QED
    BY <2>1, <2>3, MapsStutter
<1>3. CASE EnqueueInsert
  <2> DEFINE c == Head(calls).cpu
             t == Head(calls).task
  <2>1. c \in Cpu /\ t \in Task /\ \A u \in Task : tasks'[u].state = tasks[u].state
    BY <1>3, Enqueued
  <2>2. \E d \in DsqId : Deliver(cpus, t, d, c)
    BY <1>3, Enqueued
  <2> HIDE DEF c, t
  <2>3. \A k \in Cpu : cpus'[k].current = cpus[k].current
    BY <1>1, <2>1, <2>2, Delivered
  <2> QED
    BY <2>1, <2>3, MapsStutter
<1>4. CASE EnqueueHold
  BY <1>4, Kept, MapsStutter
<1>5. CASE OpsTick
  <2> DEFINE c == Head(calls).cpu
             now == cpus[c].clock
  <2>1. /\ c \in Cpu /\ cpus[c].current \in Task /\ now \in Nat
        /\ \/ \E left \in Nat : StopAndReenqueue(c, now, Ran(c, now), left)
           \/ UNCHANGED <<tasks, cpus>>
    BY <1>5, Ticked
  <2>2. Ran(c, now) \in Int
    BY <2>1, StopTypes
  <2> HIDE DEF c, now
  <2> QED
    BY <2>1, <2>2, RequeueMaps, MapsStutter
<1>6. CASE DispatchRefused \/ TakeDown
  <2>1. 0 \in Cpu
    BY EngineAssumption DEF Cpu
  <2>2. tasks' = tasks /\ \A k \in Cpu : cpus'[k].current = cpus[k].current
    BY <1>6, <2>1, IdleKeeps
  <2> QED
    BY <2>2, MapsStutter
<1>7. CASE DrainLocal
  <2> DEFINE c == Head(calls).cpu
             x == [cpus[c] EXCEPT !.local = <<>>]
  <2>1. Calling("drainLocal") /\ cpus' = [cpus EXCEPT ![c] = x] /\ tasks' = tasks
    BY <1>7, Zenon DEF DrainLocal
  <2>2. c \in Cpu
    BY <2>1, Called
  <2>3. x.current = cpus[c].current
    BY <1>1, <2>2 DEF CpuRec
  <2> HIDE DEF c, x
  <2>4. \A k \in Cpu : cpus'[k].current = cpus[k].current
    BY <1>1, <2>1, <2>2, <2>3
  <2> QED
    BY <2>1, <2>4, MapsStutter
<1> QED
  BY <1>2, <1>3, <1>4, <1>5, <1>6, <1>7

(* Every step of the engine is one of the abstract machine, or a stutter. *)
LEMMA StepMaps ==
    ASSUME Sound, [Next]_vars
    PROVE  AbstractStep
<1>1. Basic /\ Basic'
  BY BasicStep DEF Sound
<1>2. CASE UNCHANGED vars
  <2>1. tasks' = tasks /\ cpus' = cpus
    BY <1>2 DEF vars
  <2> QED
    BY <2>1, MapsStutter
<1> QED
  BY <1>1, <1>2, EventMaps, CallMaps, DispatchMaps DEF Next

(* The engine implements the abstract machine, if ops.select_cpu inserts   *)
(* into local DSQs only: a task is started only when it is runnable and    *)
(* runs nowhere, only on an idle CPU, and leaves that CPU before it        *)
(* sleeps, exits or starts elsewhere.                                      *)
THEOREM EngineImplementsMachine ==
    ASSUME SelectsLocal
    PROVE  Spec => ImplementsMachine
<1>1. Init => Machine!MachineInit
  BY DEF Init, Machine!MachineInit
<1>2. Sound /\ [Next]_vars => [Machine!MachineNext]_Machine!machineVars
  BY StepMaps DEF AbstractStep
<1> QED
  BY <1>1, <1>2, AlwaysSound, PTL DEF Spec, ImplementsMachine, Machine!MachineSpec

=============================================================================
