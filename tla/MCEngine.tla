------------------------------ MODULE MCEngine ------------------------------
(***************************************************************************)
(* Instances of the engine for TLC: the scenario of each run (tasks, CPUs, *)
(* hotplug events) and what its scheduler does.                            *)
(***************************************************************************)
EXTENDS Engine

CONSTANTS t1, t2, t3

(* t1 computes; t2 wakes t3, yields and sleeps; t3 computes and parks.     *)
MixedPhases == t1 :> <<Run(3)>>
            @@ t2 :> <<Run(1), Wake(t3), Yield, Run(2), Sleep(1)>>
            @@ t3 :> <<Sleep(1), Run(1), Park>>

MixedStart == t1 :> 0 @@ t2 :> 0 @@ t3 :> 1

(* t1 is pinned to CPU 0 and t3 to CPU 1, where nobody starts; the         *)
(* scheduler respects it for t3 and not for t1.                            *)
FirstCpu == t1 :> 0 @@ t2 :> 0 @@ t3 :> 1
Pinned == t1 :> {0} @@ t2 :> {0, 1} @@ t3 :> {1}
Careless == t1 :> {0, 1} @@ t2 :> {0, 1} @@ t3 :> {1}

NoEvents == {}

(* CPU 1 goes offline, comes back, is taken by a higher class and given    *)
(* back; the second and the third fall together.                           *)
Churn == {EventAt(1, "Offline", 1), EventAt(2, "Online", 1),
          EventAt(2, "Release", 1), EventAt(3, "Acquire", 1)}

(* Two tasks that compute and one that is woken by the first.              *)
ChurnPhases == t1 :> <<Run(2), Wake(t3)>> @@ t2 :> <<Run(2)>>
            @@ t3 :> <<Run(1), Park>>
Staggered == t1 :> 0 @@ t2 :> 0 @@ t3 :> 1
(* The same with two tasks. *)
PairPhases == t1 :> <<Run(2), Wake(t2), Run(1)>> @@ t2 :> <<Run(2), Park>>
PairStart == t1 :> 0 @@ t2 :> 0
PairCpu == t1 :> 0 @@ t2 :> 0
PairAnywhere == t1 :> {0, 1} @@ t2 :> {0, 1}

Anywhere == t1 :> {0, 1} @@ t2 :> {0, 1} @@ t3 :> {0, 1}
LocalOrOn == {Local, LocalOn(0)}
LocalOnly == {Local}
AnyQueue == {Global, Shared, LocalOn(0)}
PreemptCpu0 == {[cpu |-> 0, flags |-> {"PREEMPT"}]}
NoKicks == {}
=============================================================================
