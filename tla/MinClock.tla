------------------------------ MODULE MinClock ------------------------------
(***************************************************************************)
(* The workers of an engine ring, and the choice among them by which the   *)
(* engine decides who runs next.                                           *)
(***************************************************************************)
EXTENDS Integers

CONSTANTS
    Worker,     \* the worker threads of the ring (WorkerId)
    CpuOf,      \* worker_cpu_map: the CPU each worker simulates
    Engine      \* the engine thread

ASSUME MinClockAssumption ==
    /\ Engine \notin Worker
    /\ CpuOf \in [Worker -> Nat]

(***************************************************************************)
(* pick_by_min_clock: an unfinished worker comes before another when its   *)
(* clock is smaller, or equal and its CPU is the lower one.                *)
(***************************************************************************)
NotAfter(c, w, v) ==
    \/ c[w] < c[v]
    \/ c[w] = c[v] /\ CpuOf[w] <= CpuOf[v]

PickByMinClock(c, done) ==
    {w \in Worker \ done : \A v \in Worker \ done : NotAfter(c, w, v)}
=============================================================================
