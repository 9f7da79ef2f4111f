------------------------------ MODULE Process ------------------------------
(***************************************************************************)
(* schtest's Context and its processes (rust/src/workloads/context.rs and  *)
(* process.rs): the parent forks children, gives all of them a number of   *)
(* iterations and waits until each is ready again, round after round.      *)
(* Parent and children meet in the start and ready semaphores of each      *)
(* child; children can die at any point.                                   *)
(*                                                                         *)
(* The workload is either that of cases/topology.rs, children that compute *)
(* alone, or the ping-pong of cases/basic.rs, in which two children give   *)
(* each other a token in every iteration.  The running flag, which no      *)
(* workload reads, is left out.                                            *)
(***************************************************************************)
EXTENDS Semaphore, FiniteSets, Sequences

CONSTANTS
    NrProcs,        \* processes of the context
    Rounds,         \* bound: calls of Context::run
    Deaths          \* bound: children that die

ASSUME ProcessAssumption ==
    /\ NrProcs \in Nat \ {0}
    /\ Rounds \in Nat
    /\ Deaths \in Nat

Parent == 0
Proc == 1 .. NrProcs

start(p) == <<"start", p>>
ready(p) == <<"ready", p>>
ball(p) == <<"ball", p>>
Semaphores == {"start", "ready", "ball"} \X Proc

(* The threads that call semaphores are the parent and the children.       *)
ASSUME ThreadsAssumption ==
    /\ Thread = {Parent} \cup Proc
    /\ Sem = Semaphores

(* The ping-pong is of two.                                                *)
Workloads == IF NrProcs = 2 THEN {"alone", "pingPong"} ELSE {"alone"}
Other(p) == IF p = 1 THEN 2 ELSE 1

VARIABLES
    workload,   \* "alone" or "pingPong"
    pc,         \* where each thread is outside its semaphore calls
    i,          \* the process the parent is at
    round,      \* history: the calls of Context::run so far
    iters,      \* the shared word with the iterations of each process
    left,       \* iterations each child has still to do
    served,     \* history: the iterations of each round a child finished
    dead        \* the children that have died

contextVars == <<workload, i, round, dead>>
childVars == <<iters, left, served>>
vars == <<semVars, contextVars, childVars, pc>>

Init ==
    /\ word = [s \in Sem |-> Empty]
    /\ call = [t \in Thread |-> NoCall(ready(1))]
    /\ workload \in Workloads
    /\ pc = [t \in Thread |-> IF t = Parent THEN "create" ELSE "unborn"]
    /\ i = 1
    /\ round = 0
    /\ iters = [p \in Proc |-> 0]
    /\ left = [p \in Proc |-> 0]
    /\ served = [p \in Proc |-> <<>>]
    /\ dead = {}

(* Thread t is at a point outside of its semaphore calls.                  *)
Reached(t, point) == pc[t] = point /\ ~InCall(t)

(* Thread t calls a semaphore and goes on at the given point.              *)
Enter(t, op, s, timed, to) ==
    /\ pc' = [pc EXCEPT ![t] = to]
    /\ call' = [call EXCEPT ![t] = Entered(op, s, timed)]
    /\ UNCHANGED word

Move(t, to) ==
    /\ pc' = [pc EXCEPT ![t] = to]
    /\ UNCHANGED semVars

-----------------------------------------------------------------------------
(* The parent *)

(* Process::create: the child begins with get_iters, the parent waits for  *)
(* it to be ready.                                                         *)
Create ==
    /\ Reached(Parent, "create")
    /\ pc' = [pc EXCEPT ![Parent] = "waiting", ![i] = "ready"]
    /\ call' = [call EXCEPT ![Parent] = Entered("consume", ready(i), TRUE),
                            ![i] = Entered("produce", ready(i), FALSE)]
    /\ UNCHANGED <<word, contextVars, childVars>>

(* Context::run, or, after the last, its end.                              *)
BeginRound ==
    /\ Reached(Parent, "round")
    /\ round < Rounds
    /\ round' = round + 1
    /\ i' = 1
    /\ Move(Parent, "store")
    /\ UNCHANGED <<workload, dead, childVars>>

(* Process::start: the iterations first, then the token.                   *)
StoreIters ==
    /\ Reached(Parent, "store")
    /\ iters' = [iters EXCEPT ![i] = round]
    /\ Enter(Parent, "produce", start(i), FALSE, "started")
    /\ UNCHANGED <<contextVars, left, served>>

Started ==
    /\ Reached(Parent, "started")
    /\ IF i < NrProcs
       THEN /\ i' = i + 1
            /\ Move(Parent, "store")
       ELSE /\ i' = 1
            /\ Enter(Parent, "consume", ready(1), TRUE, "waiting")
    /\ UNCHANGED <<workload, round, dead, childVars>>

(* Process::wait returns Ok.                                               *)
WaitOk ==
    /\ IF i = NrProcs
       THEN /\ i' = i
            /\ Move(Parent, "round")
       ELSE /\ i' = i + 1
            /\ IF round = 0 THEN Move(Parent, "create")
               ELSE Enter(Parent, "consume", ready(i + 1), TRUE, "waiting")
    /\ UNCHANGED <<workload, round, dead, childVars>>

Waited ==
    /\ Reached(Parent, "waiting")
    /\ call[Parent].at = "done"
    /\ WaitOk

(* Mutant: a timed out wait counts as ready.                               *)
ProbeNot ==
    /\ Reached(Parent, "waiting")
    /\ call[Parent].at = "timedOut"
    /\ WaitOk

(* Mutant: a timed out wait is repeated whatever became of the child.      *)
ProbeBlind ==
    /\ Reached(Parent, "waiting")
    /\ call[Parent].at = "timedOut"
    /\ Enter(Parent, "consume", ready(i), TRUE, "waiting")
    /\ UNCHANGED <<contextVars, childVars>>

(* The wait timed out: a child that is alive is given another second.      *)
Probe ==
    /\ Reached(Parent, "waiting")
    /\ call[Parent].at = "timedOut"
    /\ IF i \in dead
       THEN Move(Parent, "failed")
       ELSE Enter(Parent, "consume", ready(i), TRUE, "waiting")
    /\ UNCHANGED <<contextVars, childVars>>

(* The context is dropped, at the end or after an error: every child that  *)
(* is left is killed.                                                      *)
Drop ==
    /\ Reached(Parent, "failed") \/ (Reached(Parent, "round") /\ round = Rounds)
    /\ pc' = [t \in Thread |-> "gone"]
    /\ call' = [t \in Thread |-> NoCall(ready(1))]
    /\ dead' = Proc
    /\ UNCHANGED <<word, workload, i, round, childVars>>

ParentStep ==
    \/ Create \/ BeginRound \/ StoreIters \/ Started \/ Waited \/ Probe \/ Drop

-----------------------------------------------------------------------------
(* A child.  get_iters says that it is ready, waits for a start and takes  *)
(* the iterations. *)

Await(p) ==
    /\ Reached(p, "ready")
    /\ Enter(p, "consume", start(p), FALSE, "start")
    /\ UNCHANGED <<contextVars, childVars>>

TakeIters(p) ==
    /\ Reached(p, "start")
    /\ left' = [left EXCEPT ![p] = iters[p]]
    /\ iters' = [iters EXCEPT ![p] = 0]
    /\ served' = [served EXCEPT ![p] = Append(@, iters[p])]
    /\ Move(p, "work")
    /\ UNCHANGED contextVars

Iterate(p) ==
    /\ Reached(p, "work")
    /\ left[p] > 0
    /\ IF workload = "alone"
       THEN /\ left' = [left EXCEPT ![p] = @ - 1]
            /\ Move(p, "work")
       ELSE /\ Enter(p, "produce", ball(p), FALSE, "ping")
            /\ UNCHANGED left
    /\ UNCHANGED <<contextVars, iters, served>>

Catch(p) ==
    /\ Reached(p, "ping")
    /\ Enter(p, "consume", ball(Other(p)), FALSE, "pong")
    /\ UNCHANGED <<contextVars, childVars>>

Caught(p) ==
    /\ Reached(p, "pong")
    /\ left' = [left EXCEPT ![p] = @ - 1]
    /\ Move(p, "work")
    /\ UNCHANGED <<contextVars, iters, served>>

Finished(p) ==
    /\ Reached(p, "work")
    /\ left[p] = 0
    /\ Enter(p, "produce", ready(p), FALSE, "ready")
    /\ UNCHANGED <<contextVars, childVars>>

ChildStep(p) ==
    Await(p) \/ TakeIters(p) \/ Iterate(p) \/ Catch(p) \/ Caught(p) \/ Finished(p)

(* A child ends, by an error of its function or by a signal, wherever it   *)
(* is: what it was to do next in a semaphore is never done.                *)
Die(p) ==
    /\ pc[p] \notin {"unborn", "gone"}
    /\ Cardinality(dead) < Deaths
    /\ dead' = dead \cup {p}
    /\ pc' = [pc EXCEPT ![p] = "gone"]
    /\ call' = [call EXCEPT ![p] = NoCall(ready(1))]
    /\ UNCHANGED <<word, workload, i, round, childVars>>

Outside == <<contextVars, childVars, pc>>

Next ==
    \/ ParentStep
    \/ \E p \in Proc : ChildStep(p) \/ Die(p)
    \/ \E t \in Thread :
         /\ Proceed(t) \/ Swap(t) \/ Mark(t) \/ TimedOut(t) \/ Disturb(t)
         /\ UNCHANGED Outside

(* Threads that can run do; an exchange does not fail, and a timed wait is *)
(* not interrupted, for no reason for ever.                                *)
Fairness ==
    /\ WF_vars(ParentStep)
    /\ \A p \in Proc : WF_vars(ChildStep(p))
    /\ \A t \in Thread :
         /\ WF_vars(Proceed(t) /\ UNCHANGED Outside)
         /\ SF_vars(Swap(t) /\ UNCHANGED Outside)
         /\ SF_vars(Mark(t) /\ UNCHANGED Outside)
    /\ SF_vars(TimedOut(Parent) /\ UNCHANGED Outside)

Spec == Init /\ [][Next]_vars /\ Fairness

-----------------------------------------------------------------------------
(* Properties *)

(* A round is over when, and only when, every child has done the           *)
(* iterations of that round, and of every round before it, once each:      *)
(* ready tokens of an earlier round or timed out waits are never taken for *)
(* an answer.                                                              *)
RoundsDelivered ==
    /\ \A p \in Proc : \A k \in DOMAIN served[p] : served[p][k] = k
    /\ Reached(Parent, "round") => \A p \in Proc :
          Len(served[p]) = round /\ left[p] = 0

(* No wake-up is lost: a thread asleep that could take or give its token   *)
(* has the WAITER bit set for it, or another thread about to wake it       *)
(* (while no thread is killed with a wake-up to do).                       *)
WakeComes ==
    dead = {} => \A s \in Sem : \A t \in Asleep(s) :
        \/ word[s].waiter
        \/ \E u \in Thread : call[u].at = "wake" /\ call[u].sem = s

(* Every context comes to its end, wherever children die: a run of it      *)
(* returns or reports the process that exited.  (In the ping-pong the      *)
(* partner of a child that died is alive and waits for ever.)              *)
ContextEnds ==
    [](workload = "pingPong" => dead = {} \/ pc[Parent] = "gone")
        => <>(pc[Parent] = "gone")

=============================================================================
