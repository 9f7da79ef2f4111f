----------------------------- MODULE Semaphore -----------------------------
(***************************************************************************)
(* schtest's lock-free semaphore, rust/src/workloads/semaphore.rs: a count *)
(* and a WAITER bit in one futex word, which threads of several processes  *)
(* share.  Every atomic operation and futex call is a step.                *)
(*                                                                         *)
(* A call is a record of where its loop is and of the word it last read.   *)
(* Process and its workloads always take or give one token and wake one    *)
(* waiter.                                                                 *)
(***************************************************************************)
EXTENDS Naturals

CONSTANTS
    Thread,     \* the threads that call it
    Sem,        \* the semaphores
    Max         \* the maximum count of each

ASSUME SemaphoreAssumption == Max \in [Sem -> Nat \ {0}]

VARIABLES
    word,       \* count of each semaphore and its WAITER bit
    call        \* the call each thread is in, or has returned from

semVars == <<word, call>>

Word == [amount : Nat, waiter : BOOLEAN]
At == {"load", "swap", "mark", "wait", "asleep", "wake", "done", "timedOut"}
Call == [op : {"produce", "consume"}, sem : Sem, timed : BOOLEAN, at : At, cur : Word]

Empty == [amount |-> 0, waiter |-> FALSE]

(* No call has been made yet: the thread runs code of its own.             *)
NoCall(s) == [op |-> "consume", sem |-> s, timed |-> FALSE, at |-> "done", cur |-> Empty]

Entered(op, s, timed) ==
    [op |-> op, sem |-> s, timed |-> timed, at |-> "load", cur |-> Empty]

InCall(t) == call[t].at \notin {"done", "timedOut"}

Asleep(s) == {t \in Thread : call[t].at = "asleep" /\ call[t].sem = s}

Goto(t, at) == call' = [call EXCEPT ![t].at = at]

-----------------------------------------------------------------------------
(* Whether a token can be taken or given.                                  *)
Possible(c, w) == IF c.op = "consume" THEN w.amount >= 1 ELSE w.amount + 1 <= Max[c.sem]

After(c, w) == IF c.op = "consume" THEN w.amount - 1 ELSE w.amount + 1

(* Mutant: the waiter sleeps without having set the bit.                   *)
LoadUnmarked(t) ==
    /\ call[t].at = "load"
    /\ LET w == word[call[t].sem]
           at == IF Possible(call[t], w) THEN "swap" ELSE "wait"
       IN  call' = [call EXCEPT ![t].cur = w, ![t].at = at]
    /\ UNCHANGED word

Load(t) ==
    /\ call[t].at = "load"
    /\ LET w == word[call[t].sem]
           at == IF Possible(call[t], w) THEN "swap" ELSE IF w.waiter THEN "wait" ELSE "mark"
       IN  call' = [call EXCEPT ![t].cur = w, ![t].at = at]
    /\ UNCHANGED word

(* The exchange that takes or gives the token also clears WAITER; whoever  *)
(* clears it wakes a waiter.                                               *)
Swap(t) ==
    LET c == call[t] IN
    /\ c.at = "swap"
    /\ \/ /\ word[c.sem] = c.cur
          /\ word' = [word EXCEPT ![c.sem] = [amount |-> After(c, c.cur), waiter |-> FALSE]]
          /\ Goto(t, IF c.cur.waiter THEN "wake" ELSE "done")
       \/ /\ word[c.sem] # c.cur
          /\ Goto(t, "load")
          /\ UNCHANGED word

Mark(t) ==
    LET c == call[t] IN
    /\ c.at = "mark"
    /\ \/ /\ word[c.sem] = c.cur
          /\ word' = [word EXCEPT ![c.sem].waiter = TRUE]
          /\ call' = [call EXCEPT ![t].cur.waiter = TRUE, ![t].at = "wait"]
       \/ /\ word[c.sem] # c.cur
          /\ Goto(t, "load")
          /\ UNCHANGED word

(* compare_exchange_weak may fail for no reason.                           *)
Weak(t) ==
    /\ call[t].at \in {"swap", "mark"}
    /\ Goto(t, "load")
    /\ UNCHANGED word

(* FUTEX_WAIT sleeps if the word is still what the caller read.            *)
Wait(t) ==
    LET c == call[t] IN
    /\ c.at = "wait"
    /\ Goto(t, IF word[c.sem] = c.cur THEN "asleep" ELSE "load")
    /\ UNCHANGED word

(* A signal ends the wait early.                                           *)
Interrupted(t) ==
    /\ call[t].at = "asleep"
    /\ Goto(t, "load")
    /\ UNCHANGED word

(* ETIMEDOUT: WAITER stays behind in the word.                             *)
TimedOut(t) ==
    /\ call[t].at = "asleep"
    /\ call[t].timed
    /\ Goto(t, "timedOut")
    /\ UNCHANGED word

(* FUTEX_WAKE of one waiter.                                               *)
Wake(t) ==
    LET s == call[t].sem IN
    /\ call[t].at = "wake"
    /\ \/ /\ Asleep(s) = {}
          /\ Goto(t, "done")
       \/ \E u \in Asleep(s) :
            call' = [call EXCEPT ![t].at = "done", ![u].at = "load"]
    /\ UNCHANGED word

(* What the thread itself does, and what the kernel does to it.            *)
Proceed(t) == Load(t) \/ Wait(t) \/ Wake(t)
Disturb(t) == Weak(t) \/ Interrupted(t)

=============================================================================
