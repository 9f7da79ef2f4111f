---------------------------- MODULE TokenPassing ----------------------------
(***************************************************************************)
(* What the engine ring promises to the code that runs under it            *)
(* (crates/scx_simulator/src/unsafe_impl/engine_ring.rs): one execution    *)
(* token, held by the engine or by one worker, that the engine gives to an *)
(* unfinished worker with the smallest local clock and gets back when that *)
(* worker yields or finishes.  Threads, futexes and the words they share   *)
(* do not exist here; EngineRing implements this specification.            *)
(***************************************************************************)
EXTENDS MinClock

VARIABLES
    holder,     \* who may touch the simulator state
    finished,   \* the workers that finished the current round
    clock,      \* the local clock of each worker's CPU
    started     \* the first worker of the round has been chosen

tokenVars == <<holder, finished, clock, started>>

TokenInit ==
    /\ holder = Engine
    /\ finished = {}
    /\ clock = [w \in Worker |-> 0]
    /\ started = FALSE

(* The engine hands the token over: to any worker first, then by clock. *)
Grant(w) ==
    /\ holder = Engine
    /\ w \in IF started THEN PickByMinClock(clock, finished) ELSE Worker
    /\ holder' = w
    /\ started' = TRUE
    /\ UNCHANGED <<finished, clock>>

(* The holder works, which moves its own clock and nobody else's. *)
Work(w) ==
    /\ holder = w
    /\ clock' \in [Worker -> Nat]
    /\ clock'[w] > clock[w]
    /\ \A v \in Worker \ {w} : clock'[v] = clock[v]
    /\ UNCHANGED <<holder, finished, started>>

GiveBack(w) ==
    /\ holder = w
    /\ holder' = Engine
    /\ finished' \in {finished, finished \cup {w}}
    /\ UNCHANGED <<clock, started>>

(* Every worker is done: the ring is reset for the next round. *)
NewRound ==
    /\ holder = Engine
    /\ finished = Worker
    /\ finished' = {}
    /\ started' = FALSE
    /\ UNCHANGED <<holder, clock>>

TokenNext ==
    \/ \E w \in Worker : Grant(w) \/ Work(w) \/ GiveBack(w)
    \/ NewRound

TokenSpec == TokenInit /\ [][TokenNext]_tokenVars
=============================================================================
