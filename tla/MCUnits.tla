------------------------------ MODULE MCUnits -------------------------------
(***************************************************************************)
(* Sequential parts of the simulator that do not interact, for TLC: a      *)
(* behaviour is one of the dispatch queue, of the cgroups or of the        *)
(* layered control, and the other parts stay where they start.             *)
(*                                                                         *)
(* The queue has three tasks, one pinned, and virtual times of three bits  *)
(* that wrap once.  The machine of the layers has eight CPUs in four cores *)
(* of two threads, a core to an LLC and two LLCs to a node.  Two names for *)
(* cgroups, of which three fit in the registry, and one task.              *)
(***************************************************************************)
EXTENDS Dsq, LayeredControl, Cgroups

CONSTANTS t1, t2, t3, c1, c2, a, b

MCAllowed == t1 :> {c1, c2} @@ t2 :> {c1, c2} @@ t3 :> {c2}

Plain == [open |-> FALSE, weight |-> 1, low |-> 50, high |-> 80, min |-> 0, max |-> NrCpus,
          nodes |-> {}, llcs |-> {}, openTime |-> FALSE, reverse |-> FALSE,
          gate |-> <<0, 0>>, surplus |-> <<0, 0>>]
Gate  == [Plain EXCEPT !.reverse = TRUE, !.gate = <<60, 90>>, !.surplus = <<10, 30>>]
Heavy == [Plain EXCEPT !.weight = 3]
Rest  == [Plain EXCEPT !.open = TRUE, !.weight = 2, !.low = 0, !.high = 0]
Light == [Rest EXCEPT !.weight = 1]
Ranged == [Gate EXCEPT !.open = TRUE]

OnNode(layer, n) == [layer EXCEPT !.nodes = {n}]

(* The sixth and the seventh fail in the first iteration of the loop, by   *)
(* a share that splits a core and by two layers with the same CPUs.  In    *)
(* the last, a layer has an LLC beside its node, and later ones fail.      *)
Tables == {
    <<Plain, Gate, Rest>>,
    <<[OnNode(Plain, 1) EXCEPT !.openTime = TRUE], [Plain EXCEPT !.min = 2], Rest>>,
    <<[Plain EXCEPT !.min = 1, !.low = 0], [Plain EXCEPT !.llcs = {3}, !.max = 5], Rest>>,
    <<Plain, OnNode(Gate, 1), OnNode(Rest, 0)>>,
    <<Heavy, Rest>>,
    <<Heavy, Plain, Rest>>,
    <<OnNode(Plain, 1), Plain, Plain>>,
    <<Plain, Ranged>>,
    <<[Plain EXCEPT !.weight = 2], [OnNode(Plain, 0) EXCEPT !.llcs = {3}], Light>> }

None0 == [n \in Node |-> 0]
Even(x) == [n \in Node |-> x]
On(n, x) == [None0 EXCEPT ![n] = x]

Measured(own, shared, used, pinned, duty) ==
    [own |-> own, shared |-> shared, used |-> used, pinned |-> pinned, duty |-> duty]

Usages == {
    Idle,
    Measured(0, 50, On(0, 50), None0, On(0, 60)),
    Measured(170, 20, On(0, 190), None0, On(0, 300)),
    Measured(400, 100, Even(250), On(1, 250), Even(300)),
    Measured(800, 0, Even(400), On(0, 100), On(1, 900)) }

-----------------------------------------------------------------------------
VARIABLE part       \* the part that moves

(* With the other parts go one table of layers and one set of cgroups:     *)
(* which ones makes no difference.                                         *)
UnitsInit ==
    /\ part \in {"dsq", "cgroups", "layers"}
    /\ Init
    /\ LayersInit
    /\ CgroupsInit
    /\ part # "layers" => specs = CHOOSE table \in Configs : TRUE
    /\ part # "cgroups" => registry = {Root} /\ \A t \in Member : member[t] = Root

UnitsNext ==
    \/ part = "dsq" /\ Next /\ UNCHANGED <<layerVars, cgVars>>
    \/ part = "cgroups" /\ CgroupsNext /\ UNCHANGED <<vars, layerVars>>
    \/ part = "layers" /\ LayersNext /\ UNCHANGED <<vars, cgVars>>

UnitsSpec ==
    /\ UnitsInit
    /\ [][UnitsNext /\ UNCHANGED part]_<<vars, layerVars, cgVars, part>>
    /\ WF_layerVars(part = "layers" /\ Control /\ UNCHANGED <<vars, cgVars, part>>)

=============================================================================
