---------------------------- MODULE MCEngineFull ----------------------------
(***************************************************************************)
(* Instances of the full engine for TLC: two CPUs, a limited cgroup and an *)
(* unlimited one, timers, interrupts and a migration.                      *)
(***************************************************************************)
EXTENDS EngineFull

CONSTANTS t1, t2, t3, capped, free

(* t1 is billed from the start; t2 moves into the limited cgroup.          *)
Computing == t1 :> <<Run(3), Sleep(1), Run(1)>> @@ t2 :> <<Run(2)>>
Apart == t1 :> 0 @@ t2 :> 1
Cpu0And1 == t1 :> 0 @@ t2 :> 1
Both == t1 :> {0, 1} @@ t2 :> {0, 1}
OneCapped == t1 :> capped @@ t2 :> free
IntoCapped == t1 :> capped @@ t2 :> capped
CappedBills == capped :> capped @@ free :> NoGroup

TheEvents == {[EventAt(1, "IrqStart", 0) EXCEPT !.task = t2],
              [EventAt(1, "Migrate", 1) EXCEPT !.task = t2],
              EventAt(2, "Timer", 0), EventAt(3, "Control", 1),
              EventAt(0, "Rename", 1), [EventAt(0, "Futex", 0) EXCEPT !.task = t1]}

(* Nothing but the replenishment.                                          *)
TimerOnly == {EventAt(2, "Timer", 0)}

LocalOnly == {Local}
LocalOrGlobal == {Local, Global}
NoKicks == {}
=============================================================================
