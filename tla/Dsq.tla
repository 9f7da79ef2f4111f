-------------------------------- MODULE Dsq ---------------------------------
(***************************************************************************)
(* One dispatch queue, crates/scx_simulator/src/safe/dsq.rs: a FIFO or a   *)
(* queue ordered by virtual time, never both at once.                      *)
(*                                                                         *)
(* A virtual time is a u64 that wraps, compared like the kernel's          *)
(* time_before64; the width is a constant here (values are taken modulo    *)
(* 2 * Half).  The comparison is not transitive, so what the BTreeMap does *)
(* with it matters: it is modelled as the search of one node of the tree,  *)
(* which holds every queue of up to eleven entries.                        *)
(*                                                                         *)
(* The scheduler is the environment: it queues a task that is not queued,  *)
(* does not mix the two kinds, and keeps the virtual times of the queued   *)
(* tasks within Window of each other.                                      *)
(***************************************************************************)
EXTENDS Integers, SequencesExt

CONSTANTS
    Task,
    Cpu,
    Allowed,        \* cpumask of each task
    None,           \* Option::None
    Half,           \* half the range of a Vtime: 2^63
    Window,         \* the scheduler's spread of queued virtual times
    MaxVtime,       \* bound: virtual times handed out
    MaxInserts      \* bound: insertions ordered by virtual time

ASSUME DsqAssumption ==
    /\ Allowed \in [Task -> SUBSET Cpu]
    /\ None \notin Task \cup Cpu
    /\ Half \in Nat \ {0}
    /\ Window \in 0 .. Half - 1
    /\ MaxVtime \in Nat
    /\ MaxInserts \in Nat

VARIABLES
    mode,           \* DsqMode
    vtimeEntries,   \* vtime_entries, in the order of the tree
    fifoEntries,    \* fifo_entries
    counter,        \* insertion_counter
    panicked,       \* an assert or an unwrap failed
    reply,          \* what the last pop returned, and to which CPU
    arrived         \* history: the queued tasks in order of arrival, with the
                    \* virtual times they were given

vars == <<mode, vtimeEntries, fifoEntries, counter, panicked, reply, arrived>>

DsqMode == {"Empty", "Fifo", "Priq"}

NoReply == [cpu |-> None, task |-> None]

Init ==
    /\ mode = "Empty"
    /\ vtimeEntries = <<>>
    /\ fifoEntries = <<>>
    /\ counter = 0
    /\ panicked = FALSE
    /\ reply = NoReply
    /\ arrived = <<>>

Wrap(n) == n % (2 * Half)

(* Mutant: the comparison does not wrap. *)
GreaterPlain(a, b) == a > b

(* Vtime::cmp is Greater: the wrapped difference is a positive i64. *)
Greater(a, b) == Wrap(a - b) \in 1 .. Half - 1

(* The keys of the tree are compared by virtual time, then by order. *)
KeyGreater(k, e) ==
    \/ Greater(k.vtime, e.vtime)
    \/ k.vtime = e.vtime /\ k.order > e.order

(* Position i is where a search for k stops: it passes smaller keys only.  *)
SearchStops(k, i) ==
    /\ i \in 1 .. Len(vtimeEntries) + 1
    /\ \A j \in 1 .. i - 1 : KeyGreater(k, vtimeEntries[j])
    /\ i <= Len(vtimeEntries) => ~KeyGreater(k, vtimeEntries[i])

(* BTreeMap::remove finds the entry at position i when its search stops    *)
(* there.                                                                  *)
Found(i) == SearchStops(vtimeEntries[i], i)

Queued == {vtimeEntries[i].task : i \in DOMAIN vtimeEntries} \cup ToSet(fifoEntries)

InWindow(v) == \A i \in DOMAIN vtimeEntries : v - vtimeEntries[i].given \in -Window .. Window

(* given is the virtual time before it is wrapped; the code has only vtime.*)
Entry(t, v) == [vtime |-> Wrap(v), order |-> counter, task |-> t, given |-> v]

(* Mutant: the mode outlives the last task. *)
ResetModeNot == UNCHANGED mode

(* The queue goes back to Empty with its last task. *)
ResetMode == mode' = IF vtimeEntries' = <<>> /\ fifoEntries' = <<>> THEN "Empty" ELSE mode

Arrives(t, v) == arrived' = Append(arrived, [task |-> t, vtime |-> v])

Departs(t) ==
    \E i \in DOMAIN arrived : arrived[i].task = t /\ arrived' = RemoveAt(arrived, i)

InsertFifo(t) ==
    /\ ~panicked
    /\ t \notin Queued
    /\ vtimeEntries = <<>>
    /\ IF mode = "Priq"
       THEN panicked' = TRUE /\ UNCHANGED <<mode, fifoEntries, arrived>>
       ELSE /\ mode' = "Fifo"
            /\ fifoEntries' = Append(fifoEntries, t)
            /\ Arrives(t, 0)
            /\ UNCHANGED panicked
    /\ reply' = NoReply
    /\ UNCHANGED <<vtimeEntries, counter>>

InsertVtime(t, v) ==
    /\ ~panicked
    /\ counter < MaxInserts
    /\ t \notin Queued
    /\ fifoEntries = <<>>
    /\ InWindow(v)
    /\ IF mode = "Fifo"
       THEN panicked' = TRUE /\ UNCHANGED <<mode, vtimeEntries, counter, arrived>>
       ELSE /\ mode' = "Priq"
            /\ \E i \in 1 .. Len(vtimeEntries) + 1 :
                 /\ SearchStops(Entry(t, v), i)
                 /\ vtimeEntries' = InsertAt(vtimeEntries, i, Entry(t, v))
            /\ counter' = counter + 1
            /\ Arrives(t, v)
            /\ UNCHANGED panicked
    /\ reply' = NoReply
    /\ UNCHANGED fifoEntries

(* An entry that is not found stays. *)
TakeEntry(i) ==
    IF Found(i)
    THEN vtimeEntries' = RemoveAt(vtimeEntries, i) /\ Departs(vtimeEntries[i].task)
    ELSE UNCHANGED <<vtimeEntries, arrived>>

(* The first task that CPU c may run.  The key found is looked up again to *)
(* remove it, and the unwrap panics if that fails.                         *)
FirstAllowed(tasks, c, i) ==
    /\ i \in DOMAIN tasks
    /\ c \in Allowed[tasks[i]]
    /\ \A j \in 1 .. i - 1 : c \notin Allowed[tasks[j]]

PriqTasks == [i \in DOMAIN vtimeEntries |-> vtimeEntries[i].task]

PopFirstMatching(c) ==
    /\ ~panicked
    /\ \/ /\ mode = "Priq"
          /\ \E i \in DOMAIN vtimeEntries :
               /\ FirstAllowed(PriqTasks, c, i)
               /\ panicked' = ~Found(i)
               /\ reply' = [cpu |-> c, task |-> PriqTasks[i]]
               /\ TakeEntry(i)
          /\ UNCHANGED fifoEntries
       \/ /\ mode = "Fifo"
          /\ \E i \in DOMAIN fifoEntries :
               /\ FirstAllowed(fifoEntries, c, i)
               /\ fifoEntries' = RemoveAt(fifoEntries, i)
               /\ reply' = [cpu |-> c, task |-> fifoEntries[i]]
               /\ Departs(fifoEntries[i])
          /\ UNCHANGED <<vtimeEntries, panicked>>
       \/ /\ \A t \in Queued : c \notin Allowed[t]
          /\ reply' = [cpu |-> c, task |-> None]
          /\ UNCHANGED <<vtimeEntries, fifoEntries, panicked, arrived>>
    /\ ResetMode
    /\ UNCHANGED counter

(* remove_pid does not check that its entry was found. *)
RemovePid(t) ==
    /\ ~panicked
    /\ \/ /\ mode = "Priq"
          /\ \E i \in DOMAIN vtimeEntries :
               /\ vtimeEntries[i].task = t
               /\ TakeEntry(i)
          /\ UNCHANGED fifoEntries
       \/ /\ mode = "Fifo"
          /\ \E i \in DOMAIN fifoEntries :
               /\ fifoEntries[i] = t
               /\ fifoEntries' = RemoveAt(fifoEntries, i)
               /\ Departs(t)
          /\ UNCHANGED vtimeEntries
    /\ ResetMode
    /\ reply' = NoReply
    /\ UNCHANGED <<counter, panicked>>

Next ==
    \/ \E t \in Task : InsertFifo(t) \/ RemovePid(t)
    \/ \E t \in Task, v \in 0 .. MaxVtime : InsertVtime(t, v)
    \/ \E c \in Cpu : PopFirstMatching(c)

Spec == Init /\ [][Next]_vars

-----------------------------------------------------------------------------
(* Properties *)

(* Every variable has its type, and the mode says which entries there are. *)
TypeOK ==
    /\ mode \in DsqMode
    /\ vtimeEntries \in Seq([vtime : 0 .. 2 * Half - 1, order : 0 .. MaxInserts,
                             task : Task, given : Nat])
    /\ fifoEntries \in Seq(Task)
    /\ counter \in 0 .. MaxInserts
    /\ panicked \in BOOLEAN
    /\ reply \in [cpu : Cpu \cup {None}, task : Task \cup {None}]
    /\ arrived \in Seq([task : Task, vtime : Nat])
    /\ mode = "Empty" <=> vtimeEntries = <<>> /\ fifoEntries = <<>>

(* A scheduler that does not mix kinds and keeps virtual times together    *)
(* never meets "cannot insert ..." nor the unwrap of pop_first_matching.   *)
NoPanic == ~panicked

(* Virtual times that wrap are served in the order of virtual times that   *)
(* do not, and equal ones in order of arrival, whatever the pops and       *)
(* removals in between.                                                    *)
Queue == INSTANCE VtimeQueue WITH waiting <- arrived

ImplementsQueue == Queue!QueueSpec

=============================================================================
