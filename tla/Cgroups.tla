------------------------------- MODULE Cgroups -------------------------------
(***************************************************************************)
(* The cgroup registry and the events of a run that change it: cgroups are *)
(* created, destroyed, given other cpusets and walked by timers, and tasks *)
(* move between them.  Pointers to a cgroup are kept in four places that   *)
(* no type ties together: in the ancestors of its descendants, in its      *)
(* tasks, in the lists that bpf_for_each(css, ...) walks, and with the     *)
(* scheduler, from cgroup_init to cgroup_exit.                             *)
(*                                                                         *)
(* A scenario keeps to the kernel's rule for rmdir: it destroys a cgroup   *)
(* that has neither children nor tasks ("All tasks in this cgroup should   *)
(* have been moved out before destruction"); nothing in the code checks.   *)
(***************************************************************************)
EXTENDS Naturals, FiniteSets

CONSTANTS
    Name,           \* names of cgroups
    Member,         \* tasks
    MaxCgroups,     \* max_cgroups of the scenario
    LastId,         \* bound: ids that a run gives out
    Interleaves     \* timers may also fire inside other callbacks

ASSUME CgroupsAssumption ==
    /\ MaxCgroups \in Nat \ {0}
    /\ LastId \in Nat
    /\ Interleaves \in BOOLEAN

Root == 1
Nowhere == 0
Id == Root .. LastId

VARIABLES
    registry,   \* cgroups that exist
    parent,     \* parent_cgid
    above,      \* ancestors in the C struct, set when it is allocated
    names,      \* name_to_id
    nextId,     \* next_cgid
    entries,    \* allocated_bpf_entries
    known,      \* cgroups the scheduler has initialised and not exited
    listed,     \* what the lists of the CSS iterator hold
    walked,     \* what the last callback found there
    member,     \* the cgroup of each task
    life,      \* running, closing (with cgroups left to exit) or done
    left

treeVars == <<registry, parent, above, names, nextId>>
cgVars == <<treeVars, entries, known, listed, walked, member, life, left>>

(* A run starts with the cgroups of the scenario (here: some children of   *)
(* the root), initialised one by one, and with tasks in them.              *)
CgroupsInit ==
    /\ \E last \in Id \cap Root .. MaxCgroups :
         /\ registry = Root .. last
         /\ nextId = last + 1
         /\ entries = last
         /\ names \in [Name -> {Nowhere} \cup (registry \ {Root})]
         /\ \A g \in registry \ {Root} : \E x \in Name : names[x] = g
         /\ \A x, y \in Name : names[x] = names[y] /\ x # y => names[x] = Nowhere
    /\ parent = [g \in Id |-> Root]
    /\ above = [g \in Id |-> IF g \in registry \ {Root} THEN {Root} ELSE {}]
    /\ member \in [Member -> registry]
    /\ known = registry
    /\ listed = registry
    /\ walked = {}
    /\ life = "running"
    /\ left = {}

Named == {x \in Name : names[x] # Nowhere}

(* all_cgids_preorder: what a walk from the root reaches. *)
Reached == {g \in registry : above[g] \subseteq registry}

(* cgroup_init takes an entry of the scheduler's map, cgroup_exit frees    *)
(* one.                                                                    *)
Told(g) ==
    /\ entries < MaxCgroups
    /\ entries' = entries + 1
    /\ known' = known \cup {g}

Exited(g) ==
    /\ entries' = IF entries = 0 THEN 0 ELSE entries - 1
    /\ known' = known \ {g}

(* A run that ends computes the list of the cgroups to exit. *)
Close ==
    /\ life' = "closing"
    /\ left' = {g \in registry' : above'[g] \subseteq registry'}

GoesOn == UNCHANGED <<life, left>>

(* handle_cgroup_create: the registry is full, ... *)
Exhausted ==
    /\ life = "running"
    /\ Cardinality(registry) >= MaxCgroups
    /\ walked' = {}
    /\ UNCHANGED <<treeVars, entries, known, listed, member>>
    /\ Close

(* ... or a cgroup is created and the scheduler told; if that fails, the   *)
(* run ends.  A name that is in use now means the new cgroup.              *)
Create(x, p) ==
    /\ life = "running"
    /\ Cardinality(registry) < MaxCgroups
    /\ nextId <= LastId
    /\ registry' = registry \cup {nextId}
    /\ parent' = [parent EXCEPT ![nextId] = p]
    /\ above' = [above EXCEPT ![nextId] = above[p] \cup {p}]
    /\ names' = [names EXCEPT ![x] = nextId]
    /\ nextId' = nextId + 1
    /\ listed' = {g \in registry' : above'[g] \subseteq registry'}
    /\ walked' = {}
    /\ \/ Told(nextId) /\ GoesOn
       \/ entries >= MaxCgroups /\ Close /\ UNCHANGED <<entries, known>>
    /\ UNCHANGED member

(* rmdir: no child, no task. *)
Removable(g) ==
    /\ \A h \in registry : g \notin above[h]
    /\ \A t \in Member : member[t] # g

(* handle_cgroup_destroy: out of the registry, cgroup_exit, free.  The     *)
(* lists of the iterator keep it until they are next prepared.             *)
Destroy(x) ==
    /\ life = "running"
    /\ x \in Named
    /\ Removable(names[x])
    /\ registry' = registry \ {names[x]}
    /\ names' = [names EXCEPT ![x] = Nowhere]
    /\ Exited(names[x])
    /\ walked' = {}
    /\ GoesOn
    /\ UNCHANGED <<parent, above, nextId, listed, member>>

(* handle_cgroup_cpuset_change: the scheduler's cgroup_init is called once *)
(* more, whatever it returns, and no cgroup_exit before it.                *)
ChangeCpuset(x) ==
    /\ life = "running"
    /\ x \in Named
    /\ \/ Told(names[x])
       \/ entries >= MaxCgroups /\ UNCHANGED <<entries, known>>
    /\ listed' = Reached
    /\ walked' = {}
    /\ GoesOn
    /\ UNCHANGED <<treeVars, member>>

(* handle_cgroup_migrate: from a name, which need not be where the task    *)
(* is, to a name.                                                          *)
Migrate(t, x) ==
    /\ life = "running"
    /\ x \in Named
    /\ member' = [member EXCEPT ![t] = names[x]]
    /\ walked' = {}
    /\ GoesOn
    /\ UNCHANGED <<treeVars, entries, known, listed>>

(* handle_timer_fired prepares the lists, then the callback walks them; a  *)
(* timer that fires inside another callback walks them as they are.        *)
Walk ==
    /\ life = "running"
    /\ \E prepared \in {TRUE, ~Interleaves} :
         listed' = IF prepared THEN Reached ELSE listed
    /\ walked' = listed'
    /\ GoesOn
    /\ UNCHANGED <<treeVars, entries, known, member>>

(* The run's time is over. *)
Finish ==
    /\ life = "running"
    /\ walked' = {}
    /\ UNCHANGED <<treeVars, entries, known, listed, member>>
    /\ Close

(* Mutant: the list is gone through from its start, parents first. *)
FirstInPreorder(g) == above[g] \cap left = {}

(* Children are visited by increasing id, the list is gone through         *)
(* backwards: g has no descendant left, and neither it nor an ancestor of  *)
(* it has a sibling of a higher id left.                                   *)
LastInPreorder(g) ==
    /\ \A h \in left : g \notin above[h]
    /\ \A a \in (above[g] \cup {g}) \ {Root}, h \in left \ {Root} :
         parent[h] = parent[a] => h <= a

ExitLast ==
    /\ life = "closing"
    /\ \E g \in left :
         /\ LastInPreorder(g)
         /\ left' = left \ {g}
         /\ Exited(g)
    /\ UNCHANGED <<treeVars, listed, walked, member, life>>

(* The registry is dropped; only the root is not on the heap. *)
Drop ==
    /\ life = "closing"
    /\ left = {}
    /\ life' = "done"
    /\ registry' = {Root}
    /\ UNCHANGED <<parent, above, names, nextId, entries, known, listed, walked, member, left>>

CgroupsNext ==
    \/ Exhausted \/ Walk \/ Finish \/ ExitLast \/ Drop
    \/ \E x \in Name, p \in {Root} \cup {names[y] : y \in Named} : Create(x, p)
    \/ \E x \in Name : Destroy(x) \/ ChangeCpuset(x)
    \/ \E t \in Member, x \in Name : Migrate(t, x)

CgroupsSpec == CgroupsInit /\ [][CgroupsNext]_cgVars

-----------------------------------------------------------------------------
(* No pointer outlives its cgroup: neither in the ancestors of another,    *)
(* nor in a task, nor in what a callback walks, nor with the scheduler,    *)
(* which is told of every end, and of a child's before its parent's.       *)
NoDangling ==
    /\ \A g \in registry : above[g] \subseteq registry
    /\ \A t \in Member : life # "done" => member[t] \in registry
    /\ walked \subseteq registry
    /\ \A g \in known : above[g] \cup {g} \subseteq known \cap registry
    /\ life = "done" => known = {}

=============================================================================
