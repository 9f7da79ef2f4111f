--------------------------- MODULE LayeredControl ---------------------------
(***************************************************************************)
(* The CPUs of scx_layered's layers: the static split at ops.init          *)
(* (schedulers/layered/wrapper.c, layered_auto_allocate_cpus) and the      *)
(* periodic control loop that then resizes the layers to their measured    *)
(* load (crates/scx_simulator/src/safe/layered_control.rs, called by       *)
(* userspace_control of unsafe_impl/ffi.rs).                               *)
(*                                                                         *)
(* Loads, the smoothed usages, are the environment's, in percent of a CPU; *)
(* so are the thresholds.  The allocator and the order of growth are       *)
(* upstream code outside this repository: UnifiedAlloc and CoreOrder are   *)
(* what the code here relies on, a division of each node's cores that      *)
(* gives no layer more than it demands, and an enumeration of the cores of *)
(* the nodes a layer names.                                                *)
(***************************************************************************)
EXTENDS Integers, SequencesExt

CONSTANTS
    NrCpus,
    CpusPerLlc,
    CpusPerNode,
    Threads,        \* threads_per_core
    Configs,        \* the layer tables to start with: sequences of LayerSpecs
    Loads,          \* what the usage of a layer can be measured to be
    MaxChanges      \* bound: changes of the load

CpuId == 0 .. NrCpus - 1
Core == 0 .. (NrCpus \div Threads) - 1
Llc  == 0 .. (NrCpus \div CpusPerLlc) - 1
Node == 0 .. (NrCpus \div CpusPerNode) - 1

(* low and high are util_range, zero and zero for None; gate and surplus   *)
(* are xnuma_threshold and xnuma_threshold_delta.                          *)
LayerSpec == [open : BOOLEAN, weight : Nat \ {0}, low : Nat, high : Nat,
              min : Nat, max : Nat, nodes : SUBSET Node, llcs : SUBSET Llc,
              openTime : BOOLEAN, reverse : BOOLEAN,
              gate : Seq(Nat), surplus : Seq(Nat)]

(* Usage of owned and of open CPUs; and, per node, all usage, that of      *)
(* pinned tasks, and the duty sum, which counts queue wait as well.        *)
Load == [own : Nat, shared : Nat,
         used : [Node -> Nat], pinned : [Node -> Nat], duty : [Node -> Nat]]

Idle == LET none == [n \in Node |-> 0] IN
        [own |-> 0, shared |-> 0, used |-> none, pinned |-> none, duty |-> none]

(* The assertions of Topology::simulated and LayeredControl::new. *)
ASSUME LayeredAssumption ==
    /\ {NrCpus, CpusPerLlc, CpusPerNode, Threads} \subseteq Nat \ {0}
    /\ NrCpus % CpusPerNode = 0
    /\ CpusPerNode % CpusPerLlc = 0
    /\ CpusPerLlc % Threads = 0
    /\ Configs \subseteq Seq(LayerSpec)
    /\ \A table \in Configs : \A l \in DOMAIN table :
         ~table[l].open => /\ table[l].low < table[l].high
                           /\ table[l].min <= table[l].max
                           /\ table[l].max <= NrCpus
    /\ Loads \subseteq Load
    /\ MaxChanges \in Nat

VARIABLES
    specs,          \* the layers, in the order of the table
    load,           \* layer_utils and the utilisations of its nodes
    cpus,           \* the CPUs of each layer
    denied,         \* growth_denied
    source,         \* xnuma_mig_src: the hysteresis of the cross-NUMA gate
    stage,          \* "static", "controlled", or the assertion that failed
    changes

layerVars == <<specs, load, cpus, denied, source, stage, changes>>

Layer == DOMAIN specs

CeilDiv(a, b) == (a + b - 1) \div b
AtLeast(a, b) == IF a > b THEN a ELSE b
AtMost(a, b) == IF a < b THEN a ELSE b

(* The first n members of a set in the order of a sequence.                *)
First(n, order, set) ==
    {order[i] : i \in {j \in DOMAIN order :
        order[j] \in set /\ Cardinality({k \in 1 .. j - 1 : order[k] \in set}) < n}}

NodeOf(core) == (core * Threads) \div CpusPerNode
LlcOf(core) == (core * Threads) \div CpusPerLlc
CpusOf(core) == {c \in CpuId : c \div Threads = core}
CoresOf(node) == {k \in Core : NodeOf(k) = node}

Restricted(l) == specs[l].nodes # {} \/ specs[l].llcs # {}

CoreAllowed(l, core) ==
    Restricted(l) => NodeOf(core) \in specs[l].nodes \/ LlcOf(core) \in specs[l].llcs

NodeAllowed(l, node) ==
    Restricted(l) => \/ node \in specs[l].nodes
                     \/ \E k \in CoresOf(node) : LlcOf(k) \in specs[l].llcs

-----------------------------------------------------------------------------
(* layered_auto_allocate_cpus: shares by weight, laid out one after the    *)
(* other; what is left goes to every open layer.                           *)

TotalWeight ==
    LET sum[n \in 0 .. Len(specs)] == IF n = 0 THEN 0 ELSE sum[n - 1] + specs[n].weight
    IN  sum[Len(specs)]

Share(l, assigned) ==
    LET share == AtLeast((NrCpus * specs[l].weight) \div TotalWeight, 1) IN
    IF assigned + share <= NrCpus THEN share ELSE AtLeast(NrCpus - assigned, 1)

Rotation(first) == [k \in 1 .. NrCpus |-> (first + k - 1) % NrCpus]

(* Only a restricted layer looks at what earlier layers took. *)
Candidates(l, taken) ==
    {c \in CpuId : /\ CoreAllowed(l, c \div Threads)
                   /\ Restricted(l) => c \notin UNION Range(taken)}

TakeShare(split, l) ==
    LET share == Share(l, split.assigned) IN
    [assigned |-> split.assigned + share,
     cpus |-> [split.cpus EXCEPT ![l] =
                 First(share, Rotation(split.assigned), Candidates(l, split.cpus))]]

NoShares == [assigned |-> 0, cpus |-> [l \in Layer |-> {}]]

Shares ==
    LET split[n \in 0 .. Len(specs)] == IF n = 0 THEN NoShares ELSE TakeShare(split[n - 1], n)
    IN  split[Len(specs)].cpus

AutoAllocated ==
    LET left(l) == {c \in CpuId \ UNION Range(Shares) : CoreAllowed(l, c \div Threads)}
    IN  [l \in Layer |-> Shares[l] \cup IF specs[l].open THEN left(l) ELSE {}]

(* layered_init, which also publishes the masks. *)
LayersInit ==
    /\ specs \in Configs
    /\ load = [l \in Layer |-> Idle]
    /\ cpus = AutoAllocated
    /\ denied = [l \in Layer |-> [n \in Node |-> FALSE]]
    /\ source = [l \in Layer |-> [n \in Node |-> FALSE]]
    /\ stage = "static"
    /\ changes = 0

-----------------------------------------------------------------------------
(* LayeredControl::step: how many CPUs a layer is to have *)

Within(n, least, most) == AtLeast(AtMost(n, most), least)

(* Time on open CPUs counts for a layer that says so, or that has none of  *)
(* its own.                                                                *)
Util(l) ==
    load[l].own + IF specs[l].openTime \/ cpus[l] = {} THEN load[l].shared ELSE 0

(* util / low_util is infinite when low_util is zero. *)
RawTarget(l) ==
    LET least == CeilDiv(Util(l), specs[l].high)
        most  == IF specs[l].low > 0 THEN AtLeast(Util(l) \div specs[l].low, least)
                 ELSE IF Util(l) > 0 THEN AtLeast(NrCpus, least) ELSE least
    IN  Within(Within(Cardinality(cpus[l]), least, most), specs[l].min, specs[l].max)

(* Mutant: half of what the layer has. *)
DampenedHalf(l) ==
    LET have == Cardinality(cpus[l]) IN
    IF RawTarget(l) < have THEN AtLeast(have - CeilDiv(have, 2), specs[l].min)
    ELSE RawTarget(l)

(* A layer gives back half of its excess at a time. *)
Dampened(l) ==
    LET have == Cardinality(cpus[l]) IN
    IF RawTarget(l) < have
    THEN AtLeast(have - CeilDiv(have - RawTarget(l), 2), specs[l].min)
    ELSE RawTarget(l)

(* In cores; the demand of a pinned task's node comes first. *)
PinnedDemand(l, node) ==
    IF ~specs[l].open /\ NodeAllowed(l, node)
    THEN CeilDiv(CeilDiv(load[l].pinned[node], specs[l].high), Threads) ELSE 0

SumOver(f(_), set) == MapThenSumSet(f, set)

UnpinnedDemand(l) ==
    IF specs[l].open THEN 0
    ELSE AtLeast(CeilDiv(Dampened(l), Threads) - SumOver(LAMBDA n : PinnedDemand(l, n), Node), 0)

Demands == [l \in Layer |-> [unpinned |-> UnpinnedDemand(l),
                             pinned |-> [n \in Node |-> PinnedDemand(l, n)]]]

Total(goal, l) == SumOver(LAMBDA n : goal[l][n], Node)

(* What a layer gets beyond its pinned demand. *)
Extra(demands, goal, l) ==
    SumOver(LAMBDA n : AtLeast(goal[l][n] - demands[l].pinned[n], 0), Node)

Room(goal, node) == Cardinality(CoresOf(node)) - SumOver(LAMBDA l : goal[l][node], Layer)

(* The nodes unpinned demand can be met on. *)
Reaches(l, node) == specs[l].nodes # {} => node \in specs[l].nodes

(* External: upstream's unified_alloc is some function of the demands that *)
(* divides the cores of every node, gives no layer more than it demands    *)
(* and leaves no core while a layer wants it.                              *)
Divides(demands, goal) ==
    /\ \A n \in Node : Room(goal, n) >= 0
    /\ \A l \in Layer :
         /\ Extra(demands, goal, l) <= demands[l].unpinned
         /\ \A n \in Node :
              /\ goal[l][n] > demands[l].pinned[n] => Reaches(l, n)
              /\ Room(goal, n) > 0 =>
                    /\ goal[l][n] >= demands[l].pinned[n]
                    /\ Reaches(l, n) => Extra(demands, goal, l) = demands[l].unpinned

UnifiedAlloc(demands) ==
    CHOOSE goal \in [Layer -> [Node -> 0 .. CpusPerNode \div Threads]] : Divides(demands, goal)

-----------------------------------------------------------------------------
(* apply_allocations: which cores *)

(* External: the order upstream's layer_core_growth enumerates the cores   *)
(* of a node in; it looks at the nodes a layer names, not at its LLCs.     *)
CoreOrder(l, node) ==
    LET width == CpusPerNode \div Threads
        ascending == [i \in 1 .. width |-> node * width + i - 1] IN
    IF specs[l].nodes # {} /\ node \notin specs[l].nodes THEN <<>>
    ELSE IF specs[l].reverse THEN Reverse(ascending) ELSE ascending

Owned(mask) == {k \in Core : CpusOf(k) \subseteq mask}

Split(mask) == \E k \in Core : CpusOf(k) \cap mask \notin {{}, CpusOf(k)}

Confined == {l \in Layer : ~specs[l].open}

Overlapping == \E l, m \in Confined : l # m /\ Owned(cpus[l]) \cap Owned(cpus[m]) # {}

(* What a layer holds of the cores offered to it on a node.                *)
HeldOn(l, node, cores) == cores \cap ToSet(CoreOrder(l, node))

(* Mutant: a node from which the layer is to go altogether is forgotten. *)
FreedSome(goal, l) ==
    LET mine == Owned(cpus[l]) IN
    UNION {HeldOn(l, n, mine) \ First(goal[l][n], CoreOrder(l, n), mine) :
              n \in {m \in Node : goal[l][m] > 0}}

(* Every node gives back from the end of its order. *)
Freed(goal, l) ==
    LET mine == Owned(cpus[l]) IN
    UNION {HeldOn(l, n, mine) \ First(goal[l][n], CoreOrder(l, n), mine) : n \in Node}

Shrunk(goal) ==
    [l \in Layer |-> IF specs[l].open THEN {} ELSE Owned(cpus[l]) \ Freed(goal, l)]

Missing(goal, l, node, held) ==
    AtLeast(goal[l][node] - Cardinality(HeldOn(l, node, held[l])), 0)

(* Mutant: what the order offers is what the layer is allowed. *)
GrowableAnywhere(l, held) == Core \ UNION Range(held)

(* The order looks at the nodes of a layer only. *)
Growable(l, held) == {k \in Core \ UNION Range(held) : CoreAllowed(l, k)}

Grow(goal, held, l) ==
    [held EXCEPT ![l] = @ \cup
        UNION {First(Missing(goal, l, n, held), CoreOrder(l, n), Growable(l, held)) : n \in Node}]

(* Ties keep the order of the table, as sort_by_key does: there is one     *)
(* such sequence.                                                          *)
Ascending(goal) ==
    LET key(l) == Total(goal, l) * Len(specs) + l
    IN  {s \in SetToSeqs(Confined) : \A i, j \in DOMAIN s : i < j => key(s[i]) < key(s[j])}

Grown(goal, order) ==
    LET held[n \in 0 .. Len(order)] ==
            IF n = 0 THEN Shrunk(goal) ELSE Grow(goal, held[n - 1], order[n])
    IN  held[Len(order)]

(* "allocator target exceeds available cores" *)
Exceeds(goal, grown) ==
    \E l \in Confined, n \in Node :
        ~Restricted(l) /\ Cardinality(HeldOn(l, n, grown[l])) < goal[l][n]

CpusOfCores(cores) == UNION {CpusOf(k) : k \in cores}

(* The open layers share what no other layer has. *)
Masks(grown) ==
    LET left(l) == {k \in Core \ UNION Range(grown) : CoreAllowed(l, k)} IN
    [l \in Layer |-> CpusOfCores(IF specs[l].open THEN left(l) ELSE grown[l])]

-----------------------------------------------------------------------------
(* What the step tells the BPF side *)

CpusOn(mask, node) == Cardinality({c \in mask : c \div CpusPerNode = node})

(* The node wanted more CPUs for unpinned tasks and got none.  An open     *)
(* layer can have a util_range, too: its growth is denied like any other.  *)
Denied(pinned, masks, l, node) ==
    LET spare == AtLeast(CpusOn(masks[l], node) - Threads * pinned[l][node], 0) IN
    /\ specs[l].high > 0
    /\ AtLeast(load[l].used[node] - load[l].pinned[node], 0) > spare * specs[l].high
    /\ CpusOn(masks[l], node) <= CpusOn(cpus[l], node)

(* xnuma_check_active for one node.  Ratios are compared as products.      *)
Active(l, node, masks, denial) ==
    LET own   == CpusOn(masks[l], node)
        duty  == load[l].duty[node]
        total == Cardinality(masks[l])
        extra == duty * total - SumOver(LAMBDA n : load[l].duty[n], Node) * own
        above(i) == /\ duty > specs[l].gate[i] * own
                    /\ extra > specs[l].surplus[i] * own * total
        below(i) == \/ duty < specs[l].gate[i] * own
                    \/ extra < specs[l].surplus[i] * own * total
    IN  IF own = 0 THEN duty > 0 /\ denial
        ELSE \/ above(2) /\ denial
             \/ source[l][node] /\ ~(below(1) \/ ~denial)

(* refresh_xnuma: a layer without thresholds is not gated, and on one node *)
(* nothing is.                                                             *)
Gated(l) == Cardinality(Node) > 1 /\ specs[l].gate # <<0, 0>>

-----------------------------------------------------------------------------
(* userspace_control *)

Fail(what) == stage' = what /\ UNCHANGED <<specs, load, cpus, denied, source, changes>>

Update(pinned, masks) ==
    /\ cpus' = masks
    /\ denied' = [l \in Layer |-> [n \in Node |-> Denied(pinned, masks, l, n)]]
    /\ source' = [l \in Layer |-> [n \in Node |->
                    Gated(l) /\ Active(l, n, masks, Denied(pinned, masks, l, n))]]
    /\ stage' = "controlled"
    /\ UNCHANGED <<specs, load, changes>>

Running == stage \in {"static", "controlled"}

Control ==
    /\ Running
    /\ IF \E l \in Layer : Split(cpus[l]) THEN Fail("split SMT core")
       ELSE IF Overlapping THEN Fail("overlapping")
       ELSE \E demands \in {Demands} : \E goal \in {UnifiedAlloc(demands)} :
            \E order \in Ascending(goal) :
            \E grown \in {Grown(goal, order)} : \E masks \in {Masks(grown)} :
                IF Exceeds(goal, grown) THEN Fail("exceeds")
                ELSE Update([l \in Layer |-> [n \in Node |->
                                AtMost(demands[l].pinned[n], goal[l][n])]], masks)

(* The workload changes. *)
Change ==
    /\ Running
    /\ changes < MaxChanges
    /\ changes' = changes + 1
    /\ \E l \in Layer, new \in Loads : load' = [load EXCEPT ![l] = new]
    /\ UNCHANGED <<specs, cpus, denied, source, stage>>

LayersNext == Control \/ Change

(* The engine fires the control event every period. *)
LayersSpec == LayersInit /\ [][LayersNext]_layerVars /\ WF_layerVars(Control)

-----------------------------------------------------------------------------
(* Properties *)

(* After an iteration of the loop the layers that are not open have whole  *)
(* cores, no core is in two of them or in one of them and in an open one,  *)
(* and no layer has a core that its nodes and LLCs do not allow.           *)
OwnCpus ==
    stage = "controlled" =>
        /\ \A l \in Layer : /\ cpus[l] = CpusOfCores(Owned(cpus[l]))
                            /\ \A k \in Owned(cpus[l]) : CoreAllowed(l, k)
        /\ \A l \in Confined, m \in Layer : l # m => cpus[l] \cap cpus[m] = {}

(* The LLCs of a layer that names nodes are on them.  If not, the layer    *)
(* can be given an LLC that core_order never offers it: it neither gives   *)
(* that back nor counts it, and the allocator promises it to others.       *)
LlcsOnNodes(l) ==
    specs[l].nodes # {} =>
        \A k \in Core : LlcOf(k) \in specs[l].llcs => NodeOf(k) \in specs[l].nodes

(* The masks of an iteration never trip an assertion of a later one: the   *)
(* loop gets from its own masks to any demand the load makes, for ever, if *)
(* no layer has LLCs beside its nodes.  The first iteration can fail on    *)
(* what the static split leaves.                                           *)
NeverPanics ==
    [][stage = "controlled" /\ (\A l \in Confined : LlcsOnNodes(l))
          => stage' = "controlled"]_layerVars

(* A layer whose only load is on open CPUs: with no CPU it asks for one,   *)
(* and with one it needs none.  Without SMT it goes back and forth for     *)
(* ever; the rounding up to a core of two threads hides it.                *)
Torn(l) == load[l].own = 0 /\ load[l].shared > 0 /\ ~specs[l].openTime

(* Under a load that stays as it is the halving of excess, the range of    *)
(* utilisation, the layers' competition for cores and the gate's memory    *)
(* come to rest: the loop goes on, and changes nothing.                    *)
LayersSettle ==
    <>[](\A l \in Confined : ~Torn(l)) => <>[][FALSE]_<<cpus, denied, source>>

=============================================================================
