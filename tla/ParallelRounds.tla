--------------------------- MODULE ParallelRounds ---------------------------
(***************************************************************************)
(* What a worker pool promises its caller                                  *)
(* (crates/scx_simulator/src/unsafe_impl/worker_pool.rs): in each round    *)
(* every worker asked executes that round's work description exactly once, *)
(* and the round does not return before all of them have; when the pool is *)
(* shut down nobody executes anything any more.  WorkerPool implements it. *)
(***************************************************************************)
EXTENDS Integers, Sequences

CONSTANT Total      \* number of worker threads in the pool

VARIABLES
    inRound,    \* a call of dispatch_round, or wake_workers .. complete, is on
    todo,       \* the workers that must still execute in this round
    rounds,     \* rounds begun so far
    executed    \* the rounds each worker has executed work for, in order

roundVars == <<inRound, todo, rounds, executed>>

RoundsInit ==
    /\ inRound = FALSE
    /\ todo = {}
    /\ rounds = 0
    /\ executed = [w \in 1..Total |-> <<>>]

Begin ==
    /\ ~inRound
    /\ inRound' = TRUE
    /\ \E count \in 1..Total : todo' = 1..count
    /\ rounds' = rounds + 1
    /\ UNCHANGED executed

Execute(w) ==
    /\ inRound
    /\ w \in todo
    /\ executed' = [executed EXCEPT ![w] = Append(@, rounds)]
    /\ todo' = todo \ {w}
    /\ UNCHANGED <<inRound, rounds>>

Return ==
    /\ inRound
    /\ todo = {}
    /\ inRound' = FALSE
    /\ UNCHANGED <<todo, rounds, executed>>

RoundsNext == Begin \/ (\E w \in 1..Total : Execute(w)) \/ Return

RoundsSpec == RoundsInit /\ [][RoundsNext]_roundVars
=============================================================================
