----------------------------- MODULE MCPreempt -----------------------------
(***************************************************************************)
(* Two workers with a timer and one without; each calls up to one kfunc,    *)
(* which is two cooperative yields around one with_sim.                     *)
(***************************************************************************)
EXTENDS Preempt, TLC

CONSTANTS w1, w2, w3

MCWorkers == {w1, w2, w3}
MCTimed   == {w1, w2}
MCKfuncs  == (w1 :> 1) @@ (w2 :> 1) @@ (w3 :> 1)
============================================================================
