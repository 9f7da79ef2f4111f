---------------------------- MODULE MCExperiment ----------------------------
(* An instance of Experiment for TLC: one scheduler in every mode, two     *)
(* configs and two builds.                                                 *)
EXTENDS Experiment, TLC

CONSTANTS lavd, old, new

AllModes == <<"rtapp_pinned", "rtapp_sim", "rtapp_vm">>
OneKey == <<lavd>>
Sizes == old :> 1 @@ new :> 2

=============================================================================
