---------------------------- MODULE MCEngineRing ----------------------------
(* EngineRing on two workers; equal clocks are told apart by their CPUs.     *)
EXTENDS EngineRing, TLC

CONSTANTS w1, w2

MCWorker == {w1, w2}
MCCpuOf == (w1 :> 1) @@ (w2 :> 0)
=============================================================================
