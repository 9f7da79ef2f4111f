--------------------------- MODULE ProcessProofs ---------------------------
(***************************************************************************)
(* Safety of schtest's semaphores and of the rounds of its context, for    *)
(* any number of processes and rounds, wherever children die.              *)
(*                                                                         *)
(* What a semaphore call does to a token is a lemma of its own, which      *)
(* knows nothing of processes: a step takes or gives one token, within the *)
(* bounds of the semaphore, or none (SemaphoreStep).  The handshake says   *)
(* where the start and the ready token of each child are, given how far    *)
(* the parent and the child have come.                                     *)
(***************************************************************************)
EXTENDS Process, TLAPS

(* A call of a semaphore by one thread: the steps of Semaphore.            *)
SemStep(t) == Proceed(t) \/ Swap(t) \/ Mark(t) \/ TimedOut(t) \/ Disturb(t)

SemType ==
    /\ word \in [Sem -> Word]
    /\ call \in [Thread -> Call]

(* The exchange that follows a load is for a token that the word it read   *)
(* has room for, and a thread sleeps only on a word that says it does.     *)
SemInv ==
    /\ \A t \in Thread :
        /\ call[t].at = "swap" => Possible(call[t], call[t].cur)
        /\ call[t].at \in {"wait", "asleep"} => call[t].cur.waiter
    /\ \A s \in Sem : word[s].amount <= Max[s]

(* The call of a thread has taken or given its token.                      *)
Effected(t) == call[t].at \in {"wake", "done"}
Handed(s) == word[s].amount

(* What every step of a semaphore leaves of a call, ...                    *)
SameCalls ==
    \A u \in Thread :
        /\ call'[u].op = call[u].op
        /\ call'[u].sem = call[u].sem
        /\ call'[u].timed = call[u].timed
        /\ InCall(u)' => InCall(u)
        /\ (call'[u].at = "timedOut" =>
              \/ call[u].at = "timedOut"
              \/ call[u].timed /\ InCall(u))
        /\ call[u].at = "timedOut" => call'[u].at = "timedOut"

(* ... a step that hands no token over, and the one that does.             *)
Quiet ==
    /\ \A s \in Sem : Handed(s)' = Handed(s)
    /\ \A u \in Thread : Effected(u)' <=> Effected(u)

Effect(t) ==
    /\ InCall(t) /\ ~Effected(t) /\ Effected(t)'
    /\ \A u \in Thread \ {t} : Effected(u)' <=> Effected(u)
    /\ Possible(call[t], word[call[t].sem])
    /\ \A s \in Sem :
          Handed(s)' = IF s = call[t].sem THEN After(call[t], word[s]) ELSE Handed(s)

-----------------------------------------------------------------------------
(* A step of a semaphore call keeps its type and its invariant, and hands  *)
(* over a token or none.                                                   *)
LEMMA SemaphoreStep ==
    ASSUME SemType, SemInv, NEW t \in Thread, SemStep(t)
    PROVE  SemType' /\ SemInv' /\ SameCalls /\ (Quiet \/ Effect(t))
<1> DEFINE c == call[t]
<1>1. /\ c \in Call /\ c.sem \in Sem /\ word[c.sem] \in Word /\ c.cur \in Word
      /\ \A u \in Thread : call[u] \in Call
      /\ \A s \in Sem : word[s] \in Word /\ Max[s] \in Nat \ {0}
  BY SemaphoreAssumption DEF SemType, Call
<1>2. ASSUME UNCHANGED word,
             NEW x \in Call, call' = [call EXCEPT ![t] = x],
             x.op = c.op, x.sem = c.sem, x.timed = c.timed,
             x.at = "swap" => Possible(x, x.cur),
             x.at \in {"wait", "asleep"} => x.cur.waiter,
             c.at \notin {"done", "timedOut"},
             x.at = "timedOut" => c.timed,
             x.at \in {"wake", "done"} <=> c.at \in {"wake", "done"}
      PROVE  SemType' /\ SemInv' /\ SameCalls /\ Quiet
  <2>1. \A u \in Thread : call'[u] = IF u = t THEN x ELSE call[u]
    BY <1>2 DEF SemType
  <2>2. SemType'
    BY <1>2 DEF SemType
  <2>3. SemInv'
    BY <1>2, <2>1 DEF SemInv, Possible
  <2>4. SameCalls
    BY <1>2, <2>1 DEF SameCalls, InCall
  <2>5. Quiet
    BY <1>2, <2>1 DEF Quiet, Handed, Effected
  <2> QED
    BY <2>2, <2>3, <2>4, <2>5
<1>3. ASSUME NEW at \in At, UNCHANGED word, Goto(t, at),
             c.at \notin {"done", "timedOut"}, at \notin {"swap", "timedOut"},
             at \in {"wait", "asleep"} => c.cur.waiter,
             at \in {"wake", "done"} <=> c.at \in {"wake", "done"}
      PROVE  SemType' /\ SemInv' /\ SameCalls /\ Quiet
  <2>1. [c EXCEPT !.at = at] \in Call /\ call' = [call EXCEPT ![t] = [c EXCEPT !.at = at]]
    BY <1>1, <1>3 DEF Goto, Call
  <2> QED
    BY <1>1, <1>2, <1>3, <2>1 DEF Call
<1>4. CASE Load(t)
  <2> DEFINE w == word[c.sem]
             at == IF Possible(c, w) THEN "swap" ELSE IF w.waiter THEN "wait" ELSE "mark"
             x == [c EXCEPT !.cur = w, !.at = at]
  <2>1. call' = [call EXCEPT ![t] = x]
    BY <1>4 DEF Load
  <2>2. x \in Call /\ x.op = c.op /\ x.sem = c.sem /\ x.timed = c.timed /\ x.at = at /\ x.cur = w
    BY <1>1 DEF Call, At
  <2>3. x.at = "swap" => Possible(x, x.cur)
    BY <2>2 DEF Possible
  <2>4. x.at \in {"wait", "asleep"} => x.cur.waiter
    BY <2>2
  <2>5. c.at = "load" /\ x.at \in {"swap", "wait", "mark"} /\ UNCHANGED word
    BY <1>4, <2>2 DEF Load
  <2> HIDE DEF x
  <2> QED
    BY <1>2, <2>1, <2>2, <2>3, <2>4, <2>5
<1>5. CASE Wait(t)
  <2>1. \E at \in {"asleep", "load"} : Goto(t, at) /\ UNCHANGED word
    BY <1>5 DEF Wait
  <2>2. c.at = "wait" /\ c.cur.waiter
    BY <1>5 DEF Wait, SemInv
  <2> QED
    BY <1>3, <2>1, <2>2 DEF At
<1>6. CASE Disturb(t)
  <2>1. c.at \in {"swap", "mark", "asleep"} /\ Goto(t, "load") /\ UNCHANGED word
    BY <1>6 DEF Disturb, Weak, Interrupted
  <2> QED
    BY <1>3, <2>1 DEF At
<1>7. CASE TimedOut(t)
  <2>1. c.at = "asleep" /\ c.timed /\ Goto(t, "timedOut") /\ UNCHANGED word
    BY <1>7 DEF TimedOut
  <2>2. [c EXCEPT !.at = "timedOut"] \in Call /\ call' = [call EXCEPT ![t] = [c EXCEPT !.at = "timedOut"]]
    BY <1>1, <2>1 DEF Goto, Call, At
  <2> QED
    BY <1>1, <1>2, <2>1, <2>2 DEF Call
<1>8. CASE Wake(t)
  <2>1. CASE Goto(t, "done")
    BY <1>3, <1>8, <2>1 DEF Wake, At
  <2>2. CASE ~Goto(t, "done")
    <3>1. PICK u \in Asleep(c.sem) : call' = [call EXCEPT ![t].at = "done", ![u].at = "load"]
      BY <1>8, <2>2 DEF Wake
    <3>2. u \in Thread /\ u # t /\ call[u].at = "asleep" /\ c.at = "wake" /\ UNCHANGED word
      BY <1>8, <3>1 DEF Wake, Asleep
    <3>3. call' = [v \in Thread |-> IF v = t THEN [call[v] EXCEPT !.at = "done"]
                                    ELSE IF v = u THEN [call[v] EXCEPT !.at = "load"]
                                    ELSE call[v]]
      BY <3>1, <3>2 DEF SemType
    <3>4. \A v \in Thread : /\ call'[v] \in Call
                            /\ call'[v].op = call[v].op /\ call'[v].sem = call[v].sem
                            /\ call'[v].timed = call[v].timed /\ call'[v].cur = call[v].cur
                            /\ call'[v].at = IF v = t THEN "done" ELSE IF v = u THEN "load" ELSE call[v].at
      BY <1>1, <3>3 DEF Call, At
    <3>5. SemType'
      BY <3>2, <3>3, <3>4 DEF SemType
    <3>6. SemInv'
      BY <3>2, <3>4 DEF SemInv, Possible
    <3>7. SameCalls
      BY <3>2, <3>4 DEF SameCalls, InCall
    <3>8. Quiet
      BY <3>2, <3>4 DEF Quiet, Handed, Effected
    <3> QED
      BY <3>5, <3>6, <3>7, <3>8
  <2> QED
    BY <2>1, <2>2
<1>9. CASE Swap(t)
  <2>1. CASE word[c.sem] # c.cur
    <3>1. c.at = "swap" /\ Goto(t, "load") /\ UNCHANGED word
      BY <1>9, <2>1 DEF Swap
    <3> QED
      BY <1>3, <3>1 DEF At
  <2>2. CASE word[c.sem] = c.cur
    <3> DEFINE at == IF c.cur.waiter THEN "wake" ELSE "done"
               n == After(c, c.cur)
    <3>1. /\ c.at = "swap" /\ call' = [call EXCEPT ![t] = [c EXCEPT !.at = at]]
          /\ word' = [word EXCEPT ![c.sem] = [amount |-> n, waiter |-> FALSE]]
      BY <1>9, <2>2 DEF Swap, Goto
    <3>2. Possible(c, c.cur)
      BY <3>1 DEF SemInv
    <3>3. n \in Nat /\ n <= Max[c.sem]
      <4>1. c.cur.amount \in Nat /\ c.cur.amount <= Max[c.sem] /\ Max[c.sem] \in Nat
        BY <1>1, <2>2 DEF SemInv, Word
      <4> QED
        BY <3>2, <4>1 DEF After, Possible
    <3>4. \A u \in Thread : /\ call'[u] \in Call
                            /\ call'[u].op = call[u].op /\ call'[u].sem = call[u].sem
                            /\ call'[u].timed = call[u].timed /\ call'[u].cur = call[u].cur
                            /\ call'[u].at = IF u = t THEN at ELSE call[u].at
      BY <1>1, <3>1 DEF Call, At, SemType
    <3>5. /\ word' \in [Sem -> Word] /\ word'[c.sem].amount = n
          /\ \A s \in Sem \ {c.sem} : word'[s] = word[s]
      BY <1>1, <3>1, <3>3 DEF SemType, Word
    <3>6. SemType'
      BY <3>1, <3>4, <3>5 DEF SemType
    <3>7. SemInv'
      BY <3>1, <3>3, <3>4, <3>5 DEF SemInv, Possible
    <3>8. SameCalls
      BY <3>1, <3>4 DEF SameCalls, InCall
    <3>9. Effect(t)
      BY <2>2, <3>1, <3>2, <3>4, <3>5 DEF Effect, Handed, Effected, InCall
    <3> QED
      BY <3>6, <3>7, <3>8, <3>9
  <2> QED
    BY <2>1, <2>2
<1>10. CASE Mark(t)
  <2>1. CASE word[c.sem] # c.cur
    <3>1. c.at = "mark" /\ Goto(t, "load") /\ UNCHANGED word
      BY <1>10, <2>1 DEF Mark
    <3> QED
      BY <1>3, <3>1 DEF At
  <2>2. CASE word[c.sem] = c.cur
    <3>1. /\ c.at = "mark"
          /\ word' = [word EXCEPT ![c.sem] = [word[c.sem] EXCEPT !.waiter = TRUE]]
          /\ call' = [call EXCEPT ![t] = [c EXCEPT !.cur = [c.cur EXCEPT !.waiter = TRUE], !.at = "wait"]]
      BY <1>10, <2>2 DEF Mark
    <3>2. \A s \in Sem : word'[s] \in Word /\ word'[s].amount = word[s].amount
      BY <1>1, <3>1 DEF SemType, Word
    <3>3. \A u \in Thread : /\ call'[u] \in Call
                            /\ call'[u].op = call[u].op /\ call'[u].sem = call[u].sem
                            /\ call'[u].timed = call[u].timed
                            /\ u # t => call'[u] = call[u]
                            /\ u = t => call'[u].at = "wait" /\ call'[u].cur.waiter
      BY <1>1, <3>1 DEF Call, At, SemType, Word
    <3>4. SemType'
      BY <3>1, <3>2, <3>3 DEF SemType
    <3>5. SemInv'
      BY <3>2, <3>3 DEF SemInv, Possible
    <3>6. SameCalls
      BY <3>1, <3>3 DEF SameCalls, InCall
    <3>7. Quiet
      BY <3>1, <3>2, <3>3 DEF Quiet, Handed, Effected
    <3> QED
      BY <3>4, <3>5, <3>6, <3>7
  <2> QED
    BY <2>1, <2>2
<1> QED
  BY <1>4, <1>5, <1>6, <1>7, <1>8, <1>9, <1>10 DEF SemStep, Proceed

-----------------------------------------------------------------------------
(* Types                                                                   *)
ParentPc == {"create", "waiting", "round", "store", "started", "failed", "gone"}
ChildPc == {"unborn", "ready", "start", "work", "ping", "pong", "gone"}

PcType ==
    /\ pc \in [Thread -> ParentPc \cup ChildPc]
    /\ pc[Parent] \in ParentPc
    /\ \A p \in Proc : pc[p] \in ChildPc

ProcessType ==
    /\ SemType
    /\ PcType
    /\ i \in Proc
    /\ round \in Nat
    /\ iters \in [Proc -> Nat]
    /\ left \in [Proc -> Nat]
    /\ served \in [Proc -> Seq(Nat)]
    /\ workload \in Workloads
    /\ dead \subseteq Proc

(* The threads, the semaphores and which of them are the same.             *)
LEMMA Cast ==
    /\ Parent \in Thread /\ Proc \subseteq Thread /\ Parent \notin Proc
    /\ Thread = {Parent} \cup Proc
    /\ \A p \in Proc : /\ start(p) \in Sem /\ ready(p) \in Sem /\ ball(p) \in Sem
                       /\ p \in Nat \ {0} /\ p <= NrProcs
    /\ \A p, q \in Proc : /\ start(p) # ready(q) /\ ball(p) # start(q) /\ ball(p) # ready(q)
                          /\ (start(p) = start(q) => p = q) /\ (ready(p) = ready(q) => p = q)
                          /\ (ball(p) = ball(q) => p = q)
    /\ 1 \in Proc /\ NrProcs \in Proc
    /\ NrProcs = 2 => Proc = {1, 2} /\ \A p \in Proc : Other(p) \in Proc
BY ProcessAssumption, ThreadsAssumption
DEF Parent, Proc, start, ready, ball, Semaphores, Other

(* The call of a thread that enters a semaphore, and of one that has none. *)
LEMMA EnteredCall ==
    ASSUME NEW op \in {"produce", "consume"}, NEW s \in Sem, NEW timed \in BOOLEAN
    PROVE  /\ Entered(op, s, timed) \in Call
           /\ Entered(op, s, timed).op = op /\ Entered(op, s, timed).sem = s
           /\ Entered(op, s, timed).timed = timed /\ Entered(op, s, timed).at = "load"
BY DEF Entered, Call, At, Word, Empty

LEMMA NoCallCall ==
    /\ NoCall(ready(1)) \in Call
    /\ NoCall(ready(1)).at = "done" /\ ~NoCall(ready(1)).timed
BY Cast DEF NoCall, Call, At, Word, Empty

(* What a thread does outside of the semaphores keeps their invariant.     *)
LEMMA SemKept ==
    ASSUME SemType, SemInv, UNCHANGED word, call' \in [Thread -> Call],
           \A t \in Thread : call'[t] # call[t] => call'[t].at \in {"load", "done"}
    PROVE  SemType' /\ SemInv'
<1>1. SemType'
  BY DEF SemType
<1>2. ASSUME NEW t \in Thread
      PROVE  /\ call'[t].at = "swap" => Possible(call'[t], call'[t].cur)
             /\ call'[t].at \in {"wait", "asleep"} => call'[t].cur.waiter
  <2>1. CASE call'[t] = call[t]
    BY <2>1 DEF SemInv, Possible
  <2>2. CASE call'[t] # call[t]
    BY <2>2
  <2> QED
    BY <2>1, <2>2
<1> QED
  BY <1>1, <1>2 DEF SemInv, Possible

(* A thread that enters a semaphore.                                       *)
LEMMA EnterKept ==
    ASSUME SemType, SemInv, NEW t \in Thread, NEW op \in {"produce", "consume"}, NEW s \in Sem,
           NEW timed \in BOOLEAN, UNCHANGED word, call' = [call EXCEPT ![t] = Entered(op, s, timed)]
    PROVE  SemType' /\ SemInv'
<1>1. Entered(op, s, timed) \in Call /\ Entered(op, s, timed).at = "load"
  BY EnteredCall
<1>2. call \in [Thread -> Call]
  BY DEF SemType
<1>3. call' \in [Thread -> Call] /\ \A u \in Thread : call'[u] # call[u] => call'[u].at = "load"
  BY <1>1, <1>2
<1> QED
  BY <1>3, SemKept

(* A thread that makes no call.                                            *)
LEMMA StaysOut ==
    ASSUME SemType, SemInv, UNCHANGED semVars
    PROVE  SemType' /\ SemInv'
BY DEF semVars, SemType, SemInv, Possible

(* Where the threads are, after one of them has moved.                     *)
LEMMA PcMoved ==
    ASSUME PcType, NEW t \in Thread, NEW to, pc' = [pc EXCEPT ![t] = to],
           t = Parent => to \in ParentPc, t # Parent => to \in ChildPc
    PROVE  PcType'
BY Cast DEF PcType

(* Every variable has its type at the start, ...                           *)
LEMMA ProcessTypeInit == Init => ProcessType /\ SemInv
<1> SUFFICES ASSUME Init PROVE ProcessType /\ SemInv
  OBVIOUS
<1>1. SemType
  BY NoCallCall DEF Init, SemType, Word, Empty
<1>2. SemInv
  <2>1. \A t \in Thread : call[t].at = "done"
    BY NoCallCall DEF Init
  <2>2. \A s \in Sem : word[s].amount = 0 /\ Max[s] \in Nat
    BY SemaphoreAssumption DEF Init, Empty
  <2> QED
    BY <2>1, <2>2 DEF SemInv
<1> QED
  BY <1>1, <1>2, Cast DEF Init, ProcessType, PcType, ParentPc, ChildPc

(* ... after a step of the parent, ...                                     *)
LEMMA ParentType ==
    ASSUME ProcessType, SemInv, ParentStep
    PROVE  ProcessType' /\ SemInv'
<1> USE DEF ProcessType
<1>1. /\ Parent \in Thread /\ ready(i) \in Sem /\ start(i) \in Sem /\ ready(1) \in Sem
      /\ 1 \in Proc /\ (i # NrProcs => (i + 1 \in Proc /\ ready(i + 1) \in Sem))
  <2>1. i # NrProcs => i + 1 \in Proc
    BY ProcessAssumption DEF Proc
  <2> QED
    BY <2>1, Cast
<1>2. ASSUME NEW to \in ParentPc, pc' = [pc EXCEPT ![Parent] = to] PROVE PcType'
  BY <1>1, <1>2, PcMoved
<1>3. ASSUME NEW to \in ParentPc, Move(Parent, to) PROVE SemType' /\ SemInv' /\ PcType'
  BY <1>2, <1>3, StaysOut DEF Move
<1>4. ASSUME NEW to \in ParentPc, NEW op \in {"produce", "consume"}, NEW s \in Sem,
             NEW timed \in BOOLEAN, Enter(Parent, op, s, timed, to)
      PROVE  SemType' /\ SemInv' /\ PcType'
  BY <1>1, <1>2, <1>4, EnterKept DEF Enter
<1> USE DEF ParentPc
<1>5. CASE Create
  <2>1. call \in [Thread -> Call] /\ Parent \in Thread /\ i \in Thread /\ i # Parent
    BY Cast DEF SemType
  <2> DEFINE x == Entered("consume", ready(i), TRUE)
             y == Entered("produce", ready(i), FALSE)
  <2>2. x \in Call /\ y \in Call /\ x.at = "load" /\ y.at = "load"
    BY <1>1, EnteredCall
  <2>3. call' = [call EXCEPT ![Parent] = x, ![i] = y] /\ UNCHANGED word
    BY <1>5 DEF Create
  <2>4. call' \in [Thread -> Call] /\ \A t \in Thread : call'[t] # call[t] => call'[t].at = "load"
    BY <2>1, <2>2, <2>3
  <2>5. SemType' /\ SemInv'
    BY <2>3, <2>4, SemKept
  <2>6. PcType'
    BY <1>5, Cast DEF Create, PcType, ChildPc
  <2> QED
    BY <1>5, <2>5, <2>6 DEF Create, contextVars, childVars
<1>6. CASE BeginRound
  <2>1. SemType' /\ SemInv' /\ PcType'
    BY <1>3, <1>6 DEF BeginRound
  <2> QED
    BY <1>1, <1>6, <2>1 DEF BeginRound, childVars
<1>7. CASE StoreIters
  <2>1. SemType' /\ SemInv' /\ PcType'
    BY <1>1, <1>4, <1>7 DEF StoreIters
  <2>2. iters' \in [Proc -> Nat]
    BY <1>7 DEF StoreIters
  <2> QED
    BY <1>7, <2>1, <2>2 DEF StoreIters, contextVars
<1>8. CASE Started
  <2>1. SemType' /\ SemInv' /\ PcType'
    BY <1>1, <1>3, <1>4, <1>8 DEF Started
  <2>2. i' \in Proc
    <3>1. i < NrProcs => i # NrProcs
      BY Cast
    <3> QED
      BY <1>1, <1>8, <3>1 DEF Started
  <2> QED
    BY <1>8, <2>1, <2>2 DEF Started, childVars
<1>9. CASE Waited
  <2>1. SemType' /\ SemInv' /\ PcType'
    <3>1. CASE i = NrProcs
      BY <1>3, <1>9, <3>1 DEF Waited, WaitOk
    <3>2. CASE i # NrProcs /\ round = 0
      BY <1>3, <1>9, <3>2 DEF Waited, WaitOk
    <3>3. CASE i # NrProcs /\ round # 0
      BY <1>1, <1>4, <1>9, <3>3 DEF Waited, WaitOk
    <3> QED
      BY <3>1, <3>2, <3>3
  <2>2. i' \in Proc
    BY <1>1, <1>9 DEF Waited, WaitOk
  <2> QED
    BY <1>9, <2>1, <2>2 DEF Waited, WaitOk, childVars
<1>10. CASE Probe
  <2>1. SemType' /\ SemInv' /\ PcType'
    BY <1>1, <1>3, <1>4, <1>10 DEF Probe
  <2> QED
    BY <1>10, <2>1 DEF Probe, contextVars, childVars
<1>11. CASE Drop
  <2>1. call' \in [Thread -> Call] /\ \A t \in Thread : call'[t].at = "done"
    BY <1>11, NoCallCall DEF Drop
  <2>2. SemType' /\ SemInv'
    BY <1>11, <2>1, SemKept DEF Drop
  <2>3. PcType'
    BY <1>11, Cast DEF Drop, PcType, ChildPc
  <2> QED
    BY <1>11, <2>2, <2>3 DEF Drop, childVars
<1> QED
  BY <1>5, <1>6, <1>7, <1>8, <1>9, <1>10, <1>11 DEF ParentStep

(* ... of a child ...                                                      *)
LEMMA ChildType ==
    ASSUME ProcessType, SemInv, NEW p \in Proc, ChildStep(p) \/ Die(p),
           pc[p] \in {"ping", "pong"} => left[p] > 0 /\ NrProcs = 2
    PROVE  ProcessType' /\ SemInv'
<1> USE DEF ProcessType
<1>1. /\ p \in Thread /\ p # Parent /\ ready(p) \in Sem /\ start(p) \in Sem /\ ball(p) \in Sem
      /\ NrProcs = 2 => ball(Other(p)) \in Sem
  BY Cast
<1>2. ASSUME NEW to \in ChildPc, pc' = [pc EXCEPT ![p] = to] PROVE PcType'
  BY <1>1, <1>2, PcMoved
<1>3. ASSUME NEW to \in ChildPc, Move(p, to) PROVE SemType' /\ SemInv' /\ PcType'
  BY <1>2, <1>3, StaysOut DEF Move
<1>4. ASSUME NEW to \in ChildPc, NEW op \in {"produce", "consume"}, NEW s \in Sem,
             Enter(p, op, s, FALSE, to)
      PROVE  SemType' /\ SemInv' /\ PcType'
  BY <1>1, <1>2, <1>4, EnterKept DEF Enter
<1> USE DEF ChildPc
<1>5. CASE Await(p)
  <2>1. SemType' /\ SemInv' /\ PcType'
    BY <1>1, <1>4, <1>5 DEF Await
  <2> QED
    BY <1>5, <2>1 DEF Await, contextVars, childVars
<1>6. CASE TakeIters(p)
  <2>1. SemType' /\ SemInv' /\ PcType'
    BY <1>3, <1>6 DEF TakeIters
  <2>2. served' \in [Proc -> Seq(Nat)] /\ left' \in [Proc -> Nat] /\ iters' \in [Proc -> Nat]
    BY <1>6 DEF TakeIters
  <2> QED
    BY <1>6, <2>1, <2>2 DEF TakeIters, contextVars
<1>7. CASE Iterate(p)
  <2>1. SemType' /\ SemInv' /\ PcType'
    BY <1>1, <1>3, <1>4, <1>7 DEF Iterate
  <2>2. left' \in [Proc -> Nat]
    <3>1. left[p] - 1 \in Nat
      BY <1>7 DEF Iterate
    <3> QED
      BY <1>7, <3>1 DEF Iterate
  <2> QED
    BY <1>7, <2>1, <2>2 DEF Iterate, contextVars
<1>8. CASE Catch(p)
  <2>1. SemType' /\ SemInv' /\ PcType'
    BY <1>1, <1>4, <1>8 DEF Catch, Reached
  <2> QED
    BY <1>8, <2>1 DEF Catch, contextVars, childVars
<1>9. CASE Caught(p)
  <2>1. SemType' /\ SemInv' /\ PcType'
    BY <1>3, <1>9 DEF Caught
  <2>2. left' \in [Proc -> Nat]
    BY <1>9 DEF Caught, Reached
  <2> QED
    BY <1>9, <2>1, <2>2 DEF Caught, contextVars
<1>10. CASE Finished(p)
  <2>1. SemType' /\ SemInv' /\ PcType'
    BY <1>1, <1>4, <1>10 DEF Finished
  <2> QED
    BY <1>10, <2>1 DEF Finished, contextVars, childVars
<1>11. CASE Die(p)
  <2>1. call' \in [Thread -> Call] /\ \A t \in Thread : call'[t] # call[t] => call'[t].at = "done"
    BY <1>1, <1>11, NoCallCall DEF Die, SemType
  <2>2. SemType' /\ SemInv'
    BY <1>11, <2>1, SemKept DEF Die
  <2>3. PcType'
    BY <1>2, <1>11 DEF Die
  <2> QED
    BY <1>11, <2>2, <2>3 DEF Die, childVars
<1> QED
  BY <1>5, <1>6, <1>7, <1>8, <1>9, <1>10, <1>11 DEF ChildStep

-----------------------------------------------------------------------------
(* The handshake between the parent and its children.                      *)
(* Where the parent is with child p: it has not forked it, it waits (or    *)
(* will) for its ready token, it is giving it its start token, or there is *)
(* nothing under way between the two.                                      *)
Waits == pc[Parent] \in {"waiting", "failed"}

Uncreated(p) ==
    \/ pc[Parent] = "create" /\ i <= p
    \/ Waits /\ round = 0 /\ i < p

Awaits(p) ==
    \/ Waits /\ i = p /\ ~Effected(Parent)
    \/ Waits /\ i < p /\ round > 0
    \/ pc[Parent] = "started" /\ i = p /\ Effected(Parent)
    \/ pc[Parent] \in {"store", "started"} /\ i > p

Giving(p) == pc[Parent] = "started" /\ i = p /\ ~Effected(Parent)

(* The rounds p should have served when nothing is under way.              *)
BeforeGiving(p) == pc[Parent] \in {"store", "started"} /\ i <= p
Past(p) == IF BeforeGiving(p) THEN Len(served[p]) + 1 = round ELSE Len(served[p]) = round

(* Where child p is: it waits for its start token, has it, serves the      *)
(* round, or is giving its ready token.                                    *)
AtRest(p) == IF Effected(p) THEN pc[p] = "ready" ELSE pc[p] = "start"
HasStart(p) == pc[p] = "start" /\ Effected(p)
Serving(p) == pc[p] \in {"work", "ping", "pong"}
Reporting(p) == pc[p] = "ready" /\ ~Effected(p)

NoTokens(p) == Handed(start(p)) = 0 /\ Handed(ready(p)) = 0

(* The round is still to be served, or it is.                              *)
ToServe(p) == Len(served[p]) + 1 = round /\ iters[p] = round
Over(p) == Len(served[p]) = round /\ left[p] = 0

AwaitsRight(p) ==
    \/ AtRest(p) /\ Handed(start(p)) = 1 /\ Handed(ready(p)) = 0 /\ ToServe(p)
    \/ AtRest(p) /\ Handed(start(p)) = 0 /\ Handed(ready(p)) = 1 /\ Over(p)
    \/ HasStart(p) /\ NoTokens(p) /\ ToServe(p)
    \/ Serving(p) /\ NoTokens(p) /\ Len(served[p]) = round
    \/ Reporting(p) /\ NoTokens(p) /\ Over(p)
    \/ /\ pc[p] = "gone"
       /\ \/ Handed(ready(p)) = 0
          \/ Handed(start(p)) = 0 /\ Handed(ready(p)) = 1 /\ Over(p)

RestedRight(p) ==
    /\ AtRest(p) \/ pc[p] = "gone"
    /\ NoTokens(p) /\ Past(p) /\ left[p] = 0

Handshake(p) ==
    IF Uncreated(p) THEN /\ pc[p] = "unborn" /\ NoTokens(p) /\ round = 0
                         /\ served[p] = <<>> /\ left[p] = 0
    ELSE IF Awaits(p) THEN AwaitsRight(p)
    ELSE RestedRight(p) /\ (Giving(p) => iters[p] = round)

InOrder(p) == \A k \in DOMAIN served[p] : served[p][k] = k

Calls ==
    /\ Waits => call[Parent].op = "consume" /\ call[Parent].sem = ready(i)
    /\ pc[Parent] = "failed" => call[Parent].at = "timedOut"
    /\ pc[Parent] = "started" =>
          call[Parent].op = "produce" /\ call[Parent].sem = start(i) /\ ~call[Parent].timed
    /\ InCall(Parent) => pc[Parent] \in {"waiting", "started"}
    /\ call[Parent].at = "timedOut" => Waits
    /\ \A p \in Proc :
        /\ ~call[p].timed /\ call[p].at # "timedOut"
        /\ pc[p] = "ready" => call[p].op = "produce" /\ call[p].sem = ready(p)
        /\ pc[p] = "start" => call[p].op = "consume" /\ call[p].sem = start(p)
        /\ pc[p] = "ping" => call[p].op = "produce" /\ call[p].sem = ball(p)
        /\ pc[p] = "pong" => call[p].op = "consume" /\ call[p].sem = ball(Other(p))
        /\ InCall(p) => pc[p] \in {"ready", "start", "ping", "pong"}
        /\ pc[p] \in {"ping", "pong"} => left[p] > 0 /\ NrProcs = 2

Edges ==
    /\ pc[Parent] \in {"store", "started"} => round > 0
    /\ pc[Parent] = "round" => i = NrProcs
    /\ pc[Parent] = "create" => round = 0
    /\ pc[Parent] = "gone" => \A p \in Proc : pc[p] = "gone"

Delivery ==
    /\ Calls /\ Edges
    /\ \A p \in Proc : InOrder(p)
    /\ pc[Parent] # "gone" => \A p \in Proc : Handshake(p)

(* What a step leaves of a child, and of where the parent is with it.      *)
SameChild(p) ==
    /\ pc'[p] = pc[p] /\ (Effected(p)' <=> Effected(p))
    /\ Handed(start(p))' = Handed(start(p)) /\ Handed(ready(p))' = Handed(ready(p))
    /\ served'[p] = served[p] /\ left'[p] = left[p] /\ iters'[p] = iters[p]

SameParent ==
    /\ pc'[Parent] = pc[Parent] /\ (Effected(Parent)' <=> Effected(Parent))
    /\ i' = i /\ round' = round

(* A child that no step touches keeps its handshake.                       *)
LEMMA Untouched ==
    ASSUME NEW p \in Proc, Handshake(p), SameChild(p), SameParent
    PROVE  Handshake(p)'
<1> USE DEF SameChild, SameParent, Handshake
<1>1. (Uncreated(p)' <=> Uncreated(p)) /\ (Awaits(p)' <=> Awaits(p)) /\ (Giving(p)' <=> Giving(p))
      /\ (BeforeGiving(p)' <=> BeforeGiving(p))
  BY DEF Uncreated, Awaits, Giving, BeforeGiving, Waits
<1>2. AwaitsRight(p)' <=> AwaitsRight(p)
  BY DEF AwaitsRight, AtRest, HasStart, Serving, Reporting, NoTokens, ToServe, Over
<1>3. RestedRight(p)' <=> RestedRight(p)
  BY <1>1 DEF RestedRight, AtRest, NoTokens, Past
<1>4. NoTokens(p)' <=> NoTokens(p)
  BY DEF NoTokens
<1> QED
  BY <1>1, <1>2, <1>3, <1>4

(* What the types say of one child and of the parent.                      *)
LEMMA Numbers ==
    ASSUME ProcessType, NEW p \in Proc
    PROVE  /\ Handed(start(p)) \in Nat /\ Handed(ready(p)) \in Nat
           /\ Len(served[p]) \in Nat /\ left[p] \in Nat /\ round \in Nat
           /\ i \in Nat /\ i \in Proc /\ p \in Nat
           /\ call[p].at \in At /\ call[Parent].at \in At
<1>1. word[start(p)] \in Word /\ word[ready(p)] \in Word
  BY Cast DEF ProcessType, SemType
<1>2. call[p] \in Call /\ call[Parent] \in Call
  BY Cast DEF ProcessType, SemType
<1>3. served[p] \in Seq(Nat) /\ left[p] \in Nat /\ round \in Nat /\ i \in Proc
  BY DEF ProcessType
<1>4. \A q \in Proc : q \in Nat
  BY Cast
<1> QED
  BY <1>1, <1>2, <1>3, <1>4 DEF Handed, Word, Call

(* Before anything has run the handshake is right, ...                     *)
LEMMA DeliveryInit == Init => Delivery
<1> SUFFICES ASSUME Init PROVE Delivery
  OBVIOUS
<1>1. /\ \A t \in Thread : call[t].at = "done" /\ ~call[t].timed
      /\ pc[Parent] = "create" /\ \A p \in Proc : pc[p] = "unborn"
  BY Cast, NoCallCall DEF Init
<1>2. Calls
  BY <1>1, Cast DEF Calls, Waits, InCall
<1>3. Edges
  BY <1>1 DEF Edges, Init
<1>4. ASSUME NEW p \in Proc PROVE InOrder(p) /\ Handshake(p)
  <2>1. Uncreated(p)
    BY <1>1, Cast DEF Init, Uncreated
  <2>2. Handed(start(p)) = 0 /\ Handed(ready(p)) = 0
    BY Cast DEF Init, Handed, Empty
  <2>3. served[p] = <<>>
    BY DEF Init
  <2>4. InOrder(p)
    BY <2>3 DEF InOrder
  <2>5. pc[p] = "unborn" /\ round = 0 /\ left[p] = 0
    BY <1>1 DEF Init
  <2> QED
    BY <2>1, <2>2, <2>3, <2>4, <2>5 DEF Handshake, NoTokens
<1> QED
  BY <1>2, <1>3, <1>4 DEF Delivery

(* ... a step inside a semaphore call keeps it: a token moves when, and    *)
(* only when, the handshake says it should, ...                            *)
LEMMA SemaphoreDelivers ==
    ASSUME ProcessType, SemInv, Delivery, NEW t \in Thread, SemStep(t), UNCHANGED Outside
    PROVE  Delivery'
<1>1. SemType' /\ SemInv' /\ SameCalls /\ (Quiet \/ Effect(t))
  BY SemaphoreStep DEF ProcessType
<1>2. UNCHANGED <<pc, i, round, workload, dead, iters, left, served>>
  BY DEF Outside, contextVars, childVars
<1>3. Calls'
  <2>1. \A u \in Thread : /\ call'[u].op = call[u].op /\ call'[u].sem = call[u].sem
                          /\ call'[u].timed = call[u].timed
                          /\ InCall(u)' => InCall(u)
                          /\ (call'[u].at = "timedOut" =>
                                \/ call[u].at = "timedOut"
                                \/ call[u].timed /\ InCall(u))
                          /\ call[u].at = "timedOut" => call'[u].at = "timedOut"
    BY <1>1 DEF SameCalls
  <2>2. Calls
    BY DEF Delivery
  <2>3. Waits' <=> Waits
    BY <1>2 DEF Waits
  <2>4. ASSUME NEW p \in Proc
        PROVE  /\ ~call'[p].timed /\ call'[p].at # "timedOut"
               /\ (InCall(p)' => InCall(p))
               /\ call'[p].op = call[p].op /\ call'[p].sem = call[p].sem
    BY <2>1, <2>2, Cast DEF Calls
  <2>5. /\ call'[Parent].op = call[Parent].op /\ call'[Parent].sem = call[Parent].sem
        /\ call'[Parent].timed = call[Parent].timed
        /\ (InCall(Parent)' => InCall(Parent))
        /\ (call[Parent].at = "timedOut" => call'[Parent].at = "timedOut")
    BY <2>1, Cast
  <2>6. call'[Parent].at = "timedOut" => Waits
    BY <2>1, <2>2, Cast DEF Calls, Waits
  <2> HIDE DEF InCall
  <2> QED
    BY <1>2, <2>2, <2>3, <2>4, <2>5, <2>6 DEF Calls
<1>4. Edges'
  BY <1>2 DEF Delivery, Edges
<1>5. \A p \in Proc : InOrder(p)'
  BY <1>2 DEF Delivery, InOrder
<1>6. ASSUME pc[Parent] # "gone", NEW p \in Proc PROVE Handshake(p)'
  <2>1. /\ Handshake(p) /\ Calls /\ start(p) \in Sem /\ ready(p) \in Sem
        /\ p \in Thread /\ Parent \in Thread /\ p # Parent
    BY <1>6, Cast DEF Delivery
  <2>2. CASE Quiet
    <3>1. SameChild(p) /\ SameParent
      BY <1>2, <2>1, <2>2 DEF SameChild, SameParent, Quiet
    <3> QED
      BY <2>1, <3>1, Untouched
  <2>3. CASE Effect(t) /\ t # p /\ t # Parent
    <3>1. t \in Proc
      BY <2>3, Cast
    <3>2. call[t].sem # start(p) /\ call[t].sem # ready(p)
      <4>1. /\ InCall(t)
            /\ NrProcs = 2 => Other(t) \in Proc
        BY <2>3, <3>1, Cast DEF Effect
      <4>2. call[t].sem \in {ready(t), start(t), ball(t), ball(Other(t))}
            /\ (call[t].sem = ball(Other(t)) =>
                  (NrProcs = 2 \/ call[t].sem \in {ready(t), start(t), ball(t)}))
        BY <2>1, <3>1, <4>1 DEF Calls
      <4> QED
        BY <2>3, <3>1, <4>1, <4>2, Cast
    <3>3. SameChild(p) /\ SameParent
      BY <1>2, <2>1, <2>3, <3>2 DEF SameChild, SameParent, Effect
    <3> QED
      BY <2>1, <3>3, Untouched
  <2>4. CASE Effect(Parent) /\ t = Parent
    <3>1. /\ ~Effected(Parent) /\ Effected(Parent)' /\ InCall(Parent)
          /\ (Effected(p)' <=> Effected(p))
      BY <2>1, <2>4 DEF Effect
    <3>2. pc[Parent] \in {"waiting", "started"}
      BY <2>1, <3>1 DEF Calls
    <3>3. CASE i # p
      <4>1. call[Parent].sem # start(p) /\ call[Parent].sem # ready(p)
        BY <2>1, <3>2, <3>3, Cast, SMTT(30) DEF Calls, Waits, ProcessType
      <4>2. SameChild(p)
        BY <1>2, <2>1, <2>4, <3>1, <4>1 DEF SameChild, Effect
      <4>3. (Uncreated(p)' <=> Uncreated(p)) /\ (Awaits(p)' <=> Awaits(p))
            /\ ~Giving(p)' /\ (BeforeGiving(p)' <=> BeforeGiving(p))
        BY <1>2, <3>3 DEF Uncreated, Awaits, Giving, BeforeGiving, Waits
      <4>4. AwaitsRight(p)' <=> AwaitsRight(p)
        BY <1>2, <4>2
        DEF SameChild, AwaitsRight, AtRest, HasStart, Serving, Reporting, NoTokens, ToServe, Over
      <4>5. RestedRight(p)' <=> RestedRight(p)
        BY <1>2, <4>2, <4>3 DEF SameChild, RestedRight, AtRest, NoTokens, Past
      <4>6. NoTokens(p)' <=> NoTokens(p)
        BY <4>2 DEF SameChild, NoTokens
      <4> QED
        BY <1>2, <2>1, <4>3, <4>4, <4>5, <4>6 DEF Handshake
    <3>4. CASE i = p /\ pc[Parent] = "waiting"
      <4>1. call[Parent].op = "consume" /\ call[Parent].sem = ready(p)
        BY <2>1, <3>4 DEF Calls, Waits
      <4>2. /\ Handed(ready(p)) >= 1 /\ Handed(ready(p))' = Handed(ready(p)) - 1
            /\ Handed(start(p))' = Handed(start(p))
        <5>1. /\ Possible(call[Parent], word[ready(p)])
              /\ Handed(ready(p))' = After(call[Parent], word[ready(p)])
              /\ Handed(start(p))' = Handed(start(p))
          BY <2>1, <2>4, <4>1, Cast DEF Effect
        <5> QED
          BY <4>1, <5>1 DEF Possible, After, Handed
      <4>3. ~Uncreated(p) /\ Awaits(p) /\ ~Uncreated(p)' /\ ~Awaits(p)' /\ ~Giving(p)'
            /\ ~BeforeGiving(p)'
        BY <1>2, <3>1, <3>4, Numbers DEF Uncreated, Awaits, Giving, BeforeGiving, Waits
      <4>4. /\ Handed(start(p)) = 0 /\ Handed(ready(p)) = 1 /\ Over(p)
            /\ AtRest(p) \/ pc[p] = "gone"
        BY <2>1, <4>2, <4>3 DEF Handshake, AwaitsRight, NoTokens
      <4>5. NoTokens(p)'
        BY <4>2, <4>4 DEF NoTokens
      <4>6. AtRest(p)' \/ pc'[p] = "gone"
        BY <1>2, <3>1, <4>4 DEF AtRest
      <4> QED
        BY <1>2, <4>3, <4>4, <4>5, <4>6 DEF Handshake, RestedRight, Past, Over
    <3>5. CASE i = p /\ pc[Parent] = "started"
      <4>1. call[Parent].op = "produce" /\ call[Parent].sem = start(p)
        BY <2>1, <3>5 DEF Calls, Waits
      <4>2. /\ Handed(start(p))' = Handed(start(p)) + 1
            /\ Handed(ready(p))' = Handed(ready(p))
        <5>1. /\ Possible(call[Parent], word[start(p)])
              /\ Handed(start(p))' = After(call[Parent], word[start(p)])
              /\ Handed(ready(p))' = Handed(ready(p))
          BY <2>1, <2>4, <4>1, Cast DEF Effect
        <5> QED
          BY <4>1, <5>1 DEF Possible, After, Handed
      <4>3. ~Uncreated(p) /\ ~Awaits(p) /\ ~Uncreated(p)' /\ Awaits(p)' /\ Giving(p)
            /\ BeforeGiving(p)
        BY <1>2, <3>1, <3>5, Numbers DEF Uncreated, Awaits, Giving, BeforeGiving, Waits
      <4>4. RestedRight(p) /\ iters[p] = round
        BY <2>1, <4>3 DEF Handshake
      <4>5. Handed(start(p))' = 1 /\ Handed(ready(p))' = 0
        BY <4>2, <4>4 DEF RestedRight, NoTokens
      <4>6. ToServe(p)'
        BY <1>2, <4>3, <4>4 DEF RestedRight, Past, ToServe
      <4>7. AtRest(p)' \/ pc'[p] = "gone"
        BY <1>2, <3>1, <4>4 DEF RestedRight, AtRest
      <4> QED
        BY <4>3, <4>5, <4>6, <4>7 DEF Handshake, AwaitsRight
    <3> QED
      BY <3>2, <3>3, <3>4, <3>5
  <2>5. CASE Effect(p) /\ t = p
    <3>1. /\ ~Effected(p) /\ Effected(p)' /\ InCall(p) /\ SameParent
      BY <1>2, <2>1, <2>5 DEF Effect, SameParent
    <3>2. pc[p] \in {"ready", "start", "ping", "pong"}
      BY <2>1, <3>1 DEF Calls
    <3>3. (Uncreated(p)' <=> Uncreated(p)) /\ (Awaits(p)' <=> Awaits(p)) /\ ~Uncreated(p)
      BY <2>1, <3>1, <3>2 DEF Uncreated, Awaits, Waits, SameParent, Handshake
    <3>4. CASE pc[p] = "ready"
      <4>1. call[p].op = "produce" /\ call[p].sem = ready(p)
        BY <2>1, <3>4 DEF Calls
      <4>2. /\ Handed(ready(p))' = Handed(ready(p)) + 1
            /\ Handed(start(p))' = Handed(start(p))
        <5>1. /\ Possible(call[p], word[ready(p)])
              /\ Handed(ready(p))' = After(call[p], word[ready(p)])
              /\ Handed(start(p))' = Handed(start(p))
          BY <2>1, <2>5, <4>1, Cast DEF Effect
        <5> QED
          BY <4>1, <5>1 DEF Possible, After, Handed
      <4>3. ~AtRest(p) /\ AtRest(p)' /\ pc[p] # "gone" /\ ~HasStart(p) /\ ~Serving(p)
        BY <1>2, <3>1, <3>4 DEF AtRest, HasStart, Serving
      <4>4. Awaits(p) /\ NoTokens(p) /\ Over(p)
        BY <2>1, <3>3, <4>3 DEF Handshake, AwaitsRight, RestedRight
      <4>5. Handed(ready(p))' = 1 /\ Handed(start(p))' = 0 /\ Over(p)'
        BY <1>2, <4>2, <4>4 DEF NoTokens, Over
      <4> QED
        BY <3>3, <4>3, <4>4, <4>5 DEF Handshake, AwaitsRight
    <3>5. CASE pc[p] = "start"
      <4>1. call[p].op = "consume" /\ call[p].sem = start(p)
        BY <2>1, <3>5 DEF Calls
      <4>2. /\ Handed(start(p)) >= 1 /\ Handed(start(p))' = Handed(start(p)) - 1
            /\ Handed(ready(p))' = Handed(ready(p))
        <5>1. /\ Possible(call[p], word[start(p)])
              /\ Handed(start(p))' = After(call[p], word[start(p)])
              /\ Handed(ready(p))' = Handed(ready(p))
          BY <2>1, <2>5, <4>1, Cast DEF Effect
        <5> QED
          BY <4>1, <5>1 DEF Possible, After, Handed
      <4>3. AtRest(p) /\ HasStart(p)' /\ pc[p] # "gone" /\ ~HasStart(p) /\ ~Serving(p) /\ ~Reporting(p)
        BY <1>2, <3>1, <3>5 DEF AtRest, HasStart, Serving, Reporting
      <4>4. Awaits(p) /\ Handed(start(p)) = 1 /\ Handed(ready(p)) = 0 /\ ToServe(p)
        BY <2>1, <3>3, <4>2, <4>3 DEF Handshake, AwaitsRight, RestedRight, NoTokens
      <4>5. NoTokens(p)' /\ ToServe(p)'
        BY <1>2, <4>2, <4>4 DEF NoTokens, ToServe
      <4> QED
        BY <3>3, <4>3, <4>4, <4>5 DEF Handshake, AwaitsRight
    <3>6. CASE pc[p] \in {"ping", "pong"}
      <4>1. call[p].sem # start(p) /\ call[p].sem # ready(p)
        BY <2>1, <3>6, Cast DEF Calls
      <4>2. Handed(start(p))' = Handed(start(p)) /\ Handed(ready(p))' = Handed(ready(p))
        BY <2>1, <2>5, <4>1 DEF Effect
      <4>3. ~AtRest(p) /\ pc[p] # "gone" /\ Serving(p)' /\ ~HasStart(p) /\ ~Reporting(p)
        BY <1>2, <3>6 DEF AtRest, Serving, HasStart, Reporting
      <4>4. Awaits(p) /\ NoTokens(p) /\ Len(served[p]) = round
        BY <2>1, <3>3, <4>3 DEF Handshake, AwaitsRight, RestedRight
      <4>5. NoTokens(p)' /\ (Len(served[p]) = round)'
        BY <1>2, <4>2, <4>4 DEF NoTokens
      <4> QED
        BY <3>3, <4>3, <4>4, <4>5 DEF Handshake, AwaitsRight
    <3> QED
      BY <3>2, <3>4, <3>5, <3>6
  <2> QED
    BY <1>1, <2>2, <2>3, <2>4, <2>5
<1> QED
  BY <1>2, <1>3, <1>4, <1>5, <1>6 DEF Delivery

(* ... and so does a step of the parent, ...                               *)
LEMMA ParentDelivers ==
    ASSUME ProcessType, SemInv, Delivery, ParentStep
    PROVE  Delivery'
<1> USE DEF ProcessType
<1>1. /\ Calls /\ Edges /\ Parent \in Thread /\ call \in [Thread -> Call]
      /\ pc \in [Thread -> ParentPc \cup ChildPc]
      /\ \A p \in Proc : p \in Thread /\ p # Parent /\ p \in Nat \ {0} /\ p <= NrProcs
      /\ i \in Proc /\ i \in Thread /\ i # Parent /\ i \in Nat \ {0} /\ i <= NrProcs
      /\ round \in Nat /\ NrProcs \in Nat
  BY Cast, ProcessAssumption DEF Delivery, SemType, PcType
<1>2. Reached(Parent, pc[Parent]) => (Effected(Parent) \/ (call[Parent].at = "timedOut" /\ Waits))
  <2>1. call[Parent].at \in At
    BY <1>1 DEF Call
  <2> QED
    BY <1>1, <2>1 DEF Reached, InCall, Effected, Calls
<1>3. ASSUME NEW to, Move(Parent, to)
      PROVE  /\ pc'[Parent] = to /\ call' = call /\ (Effected(Parent)' <=> Effected(Parent))
             /\ \A p \in Proc : /\ pc'[p] = pc[p] /\ (Effected(p)' <=> Effected(p))
                                /\ Handed(start(p))' = Handed(start(p))
                                /\ Handed(ready(p))' = Handed(ready(p))
  BY <1>1, <1>3 DEF Move, semVars, Effected, Handed
<1>4. ASSUME NEW to, NEW op \in {"produce", "consume"}, NEW s \in Sem, NEW timed \in BOOLEAN,
             Enter(Parent, op, s, timed, to)
      PROVE  /\ pc'[Parent] = to /\ ~Effected(Parent)'
             /\ call'[Parent].op = op /\ call'[Parent].sem = s /\ call'[Parent].timed = timed
             /\ call'[Parent].at = "load"
             /\ \A p \in Proc : /\ pc'[p] = pc[p] /\ (Effected(p)' <=> Effected(p)) /\ call'[p] = call[p]
                                /\ Handed(start(p))' = Handed(start(p))
                                /\ Handed(ready(p))' = Handed(ready(p))
  <2>1. call' = [call EXCEPT ![Parent] = Entered(op, s, timed)] /\ pc' = [pc EXCEPT ![Parent] = to]
        /\ UNCHANGED word
    BY <1>4 DEF Enter
  <2>2. Entered(op, s, timed).op = op /\ Entered(op, s, timed).sem = s
        /\ Entered(op, s, timed).timed = timed /\ Entered(op, s, timed).at = "load"
    BY EnteredCall
  <2> QED
    BY <1>1, <2>1, <2>2 DEF Effected, Handed
<1>5. \A p \in Proc : pc[Parent] # "gone" => Handshake(p)
  BY DEF Delivery
<1>6. \A p \in Proc : (InOrder(p)' <=> InOrder(p)) \/ served'[p] # served[p]
  BY DEF InOrder
<1>7. \A p \in Proc : InOrder(p)
  BY DEF Delivery
<1>8. ASSUME NEW p \in Proc
      PROVE  /\ Handed(start(p)) \in Nat /\ Handed(ready(p)) \in Nat
             /\ Len(served[p]) \in Nat /\ left[p] \in Nat
  BY <1>8, Numbers
<1> HIDE DEF ProcessType
<1>10. CASE Create
  <2>1. /\ pc[Parent] = "create" /\ Effected(Parent) /\ round = 0
        /\ UNCHANGED <<word, workload, i, round, dead, iters, left, served>>
    BY <1>1, <1>2, <1>10 DEF Create, Reached, Waits, Edges, contextVars, childVars
  <2> DEFINE x == Entered("consume", ready(i), TRUE)
             y == Entered("produce", ready(i), FALSE)
  <2>2. /\ ready(i) \in Sem
        /\ x.op = "consume" /\ x.sem = ready(i) /\ x.timed /\ x.at = "load"
        /\ y.op = "produce" /\ y.sem = ready(i) /\ ~y.timed /\ y.at = "load"
    BY <1>1, Cast, EnteredCall
  <2>3. call' = [call EXCEPT ![Parent] = x, ![i] = y]
        /\ pc' = [pc EXCEPT ![Parent] = "waiting", ![i] = "ready"]
    BY <1>10 DEF Create
  <2> HIDE DEF x, y
  <2>4. /\ pc'[Parent] = "waiting" /\ call'[Parent] = x /\ call'[i] = y /\ pc'[i] = "ready"
        /\ \A p \in Proc \ {i} : call'[p] = call[p] /\ pc'[p] = pc[p]
    BY <1>1, <2>3
  <2>5. Calls'
    BY <1>1, <2>1, <2>2, <2>4 DEF Calls, Waits, InCall
  <2>6. Edges'
    BY <2>4 DEF Edges
  <2>7. ASSUME NEW p \in Proc PROVE Handshake(p)'
    <3>1. Handshake(p)
      BY <1>5, <2>1
    <3>2. /\ Handed(start(p))' = Handed(start(p)) /\ Handed(ready(p))' = Handed(ready(p))
          /\ (p # i => (pc'[p] = pc[p] /\ (Effected(p)' <=> Effected(p))))
          /\ ~Effected(Parent)' /\ ~Effected(i)'
      BY <2>1, <2>2, <2>4 DEF Handed, Effected
    <3>3. CASE p = i
      <4>1. Uncreated(p) /\ ~Uncreated(p)' /\ Awaits(p)'
        BY <1>1, <2>1, <2>4, <3>2, <3>3 DEF Uncreated, Awaits, Waits
      <4>2. Reporting(p)' /\ NoTokens(p)' /\ Over(p)'
        BY <2>1, <2>4, <3>1, <3>2, <3>3, <4>1 DEF Reporting, NoTokens, Over, Handshake
      <4> QED
        BY <4>1, <4>2 DEF Handshake, AwaitsRight
    <3>4. CASE p > i
      <4>1. Uncreated(p) /\ Uncreated(p)'
        BY <1>1, <2>1, <2>4, <3>4 DEF Uncreated, Waits
      <4> QED
        BY <1>1, <2>1, <3>1, <3>2, <3>4, <4>1 DEF Handshake, NoTokens
    <3>5. CASE p < i
      <4>1. /\ ~Uncreated(p) /\ ~Uncreated(p)' /\ ~Awaits(p) /\ ~Awaits(p)' /\ ~Giving(p)'
            /\ ~BeforeGiving(p) /\ ~BeforeGiving(p)'
        BY <1>1, <2>1, <2>4, <3>2, <3>5 DEF Uncreated, Awaits, Waits, Giving, BeforeGiving
      <4> QED
        BY <1>1, <2>1, <3>1, <3>2, <3>5, <4>1 DEF Handshake, NoTokens, RestedRight, AtRest, Past
    <3> QED
      BY <1>1, <3>3, <3>4, <3>5
  <2> QED
    BY <1>6, <1>7, <2>1, <2>5, <2>6, <2>7 DEF Delivery
<1>11. CASE BeginRound
  <2>1. /\ pc[Parent] = "round" /\ Effected(Parent) /\ i = NrProcs /\ round' = round + 1 /\ i' = 1
        /\ Move(Parent, "store") /\ UNCHANGED <<workload, dead, iters, left, served>>
    BY <1>1, <1>2, <1>11 DEF BeginRound, Reached, Waits, Edges, childVars
  <2>2. /\ pc'[Parent] = "store" /\ call' = call
        /\ \A p \in Proc : /\ pc'[p] = pc[p] /\ (Effected(p)' <=> Effected(p))
                           /\ Handed(start(p))' = Handed(start(p))
                           /\ Handed(ready(p))' = Handed(ready(p))
    BY <1>3, <2>1
  <2>3. Calls'
    BY <1>1, <2>1, <2>2 DEF Calls, Waits, InCall, Effected
  <2>4. Edges'
    BY <1>1, <2>1, <2>2 DEF Edges
  <2>5. ASSUME NEW p \in Proc PROVE Handshake(p)'
    <3>1. Handshake(p) /\ Len(served[p]) \in Nat
      BY <1>5, <1>8, <2>1
    <3>2. /\ ~Uncreated(p) /\ ~Uncreated(p)' /\ ~Awaits(p) /\ ~Awaits(p)' /\ ~Giving(p)'
          /\ ~BeforeGiving(p) /\ BeforeGiving(p)'
      BY <1>1, <2>1, <2>2 DEF Uncreated, Awaits, Waits, Giving, BeforeGiving
    <3> QED
      BY <1>1, <2>1, <2>2, <3>1, <3>2 DEF Handshake, RestedRight, AtRest, NoTokens, Past
  <2> QED
    BY <1>6, <1>7, <2>1, <2>3, <2>4, <2>5 DEF Delivery
<1>12. CASE StoreIters
  <2>1. /\ pc[Parent] = "store" /\ Effected(Parent) /\ iters' = [iters EXCEPT ![i] = round]
        /\ Enter(Parent, "produce", start(i), FALSE, "started") /\ start(i) \in Sem
        /\ UNCHANGED <<workload, i, round, dead, left, served>>
    BY <1>1, <1>2, <1>12, Cast DEF StoreIters, Reached, Waits, contextVars
  <2>2. /\ pc'[Parent] = "started" /\ ~Effected(Parent)'
        /\ call'[Parent].op = "produce" /\ call'[Parent].sem = start(i) /\ ~call'[Parent].timed
        /\ call'[Parent].at = "load"
        /\ \A p \in Proc : /\ pc'[p] = pc[p] /\ (Effected(p)' <=> Effected(p)) /\ call'[p] = call[p]
                           /\ Handed(start(p))' = Handed(start(p))
                           /\ Handed(ready(p))' = Handed(ready(p))
    BY <1>4, <2>1
  <2>3. Calls'
    BY <1>1, <2>1, <2>2 DEF Calls, Waits, InCall
  <2>4. Edges'
    BY <1>1, <2>1, <2>2 DEF Edges
  <2>5. ASSUME NEW p \in Proc PROVE Handshake(p)'
    <3>1. Handshake(p)
      BY <1>5, <2>1
    <3>2. /\ ~Uncreated(p) /\ ~Uncreated(p)' /\ (Awaits(p) <=> i > p) /\ (Awaits(p)' <=> i > p)
          /\ (BeforeGiving(p) <=> i <= p) /\ (BeforeGiving(p)' <=> i <= p) /\ (Giving(p)' <=> i = p)
      BY <1>1, <2>1, <2>2 DEF Uncreated, Awaits, Waits, Giving, BeforeGiving
    <3>3. iters'[p] = IF p = i THEN round ELSE iters[p]
      BY <1>1, <2>1 DEF ProcessType
    <3>4. CASE i > p
      <4>1. AwaitsRight(p)
        BY <3>1, <3>2, <3>4 DEF Handshake
      <4>2. AwaitsRight(p)'
        BY <1>1, <2>1, <2>2, <3>3, <3>4, <4>1
        DEF AwaitsRight, AtRest, HasStart, Serving, Reporting, NoTokens, ToServe, Over
      <4> QED
        BY <3>2, <3>4, <4>2 DEF Handshake
    <3>5. CASE ~(i > p)
      <4>1. RestedRight(p)'
        BY <1>1, <2>1, <2>2, <3>1, <3>2, <3>5 DEF Handshake, RestedRight, AtRest, NoTokens, Past
      <4>2. Giving(p)' => (iters[p] = round)'
        BY <2>1, <3>2, <3>3
      <4> QED
        BY <3>2, <3>5, <4>1, <4>2 DEF Handshake
    <3> QED
      BY <3>4, <3>5
  <2> QED
    BY <1>6, <1>7, <2>1, <2>3, <2>4, <2>5 DEF Delivery
<1>13. CASE Started
  <2>1. /\ pc[Parent] = "started" /\ Effected(Parent) /\ round > 0
        /\ ~InCall(Parent) /\ call[Parent].at # "timedOut"
        /\ UNCHANGED <<workload, round, dead, iters, left, served>>
    BY <1>1, <1>2, <1>13 DEF Started, Reached, Waits, Edges, childVars, Effected
  <2>2. CASE i < NrProcs
    <3>1. i' = i + 1 /\ Move(Parent, "store")
      BY <1>13, <2>2 DEF Started
    <3>2. /\ pc'[Parent] = "store" /\ call' = call
          /\ \A p \in Proc : /\ pc'[p] = pc[p] /\ (Effected(p)' <=> Effected(p))
                             /\ Handed(start(p))' = Handed(start(p))
                             /\ Handed(ready(p))' = Handed(ready(p))
      BY <1>3, <3>1
    <3>3. Calls'
      BY <1>1, <2>1, <3>1, <3>2 DEF Calls, Waits, InCall, Effected
    <3>4. Edges'
      BY <1>1, <2>1, <3>1, <3>2 DEF Edges
    <3>5. ASSUME NEW p \in Proc PROVE Handshake(p)'
      <4>1. Handshake(p)
        BY <1>5, <2>1
      <4>2. /\ ~Uncreated(p) /\ ~Uncreated(p)' /\ (Awaits(p) <=> i >= p) /\ (Awaits(p)' <=> i >= p)
            /\ (i < p => (BeforeGiving(p) /\ BeforeGiving(p)')) /\ ~Giving(p)'
        BY <1>1, <2>1, <3>1, <3>2 DEF Uncreated, Awaits, Waits, Giving, BeforeGiving
      <4>3. AwaitsRight(p) => AwaitsRight(p)'
        BY <1>1, <2>1, <3>2
        DEF AwaitsRight, AtRest, HasStart, Serving, Reporting, NoTokens, ToServe, Over
      <4>4. i < p /\ RestedRight(p) => RestedRight(p)'
        BY <1>1, <2>1, <3>2, <4>2 DEF RestedRight, AtRest, NoTokens, Past
      <4>5. CASE Awaits(p)
        <5>1. AwaitsRight(p) /\ Awaits(p)'
          BY <4>1, <4>2, <4>5 DEF Handshake
        <5> QED
          BY <4>2, <4>3, <5>1 DEF Handshake
      <4>6. CASE ~Awaits(p)
        <5>1. RestedRight(p) /\ ~Awaits(p)' /\ i < p
          <6>1. RestedRight(p) /\ ~Awaits(p)'
            BY <4>1, <4>2, <4>6 DEF Handshake
          <6> QED
            BY <1>1, <2>1, <4>2, <4>6, <6>1 DEF ProcessType
        <5> QED
          BY <4>2, <4>4, <5>1 DEF Handshake
      <4> QED
        BY <4>5, <4>6
    <3> QED
      BY <1>6, <1>7, <2>1, <3>3, <3>4, <3>5 DEF Delivery
  <2>3. CASE ~(i < NrProcs)
    <3>1. i' = 1 /\ Enter(Parent, "consume", ready(1), TRUE, "waiting") /\ i = NrProcs /\ ready(1) \in Sem
      <4>1. ready(1) \in Sem
        BY Cast
      <4>2. i = NrProcs
        BY <1>1, <2>3
      <4> QED
        BY <1>13, <2>3, <4>1, <4>2 DEF Started
    <3>2. /\ pc'[Parent] = "waiting" /\ ~Effected(Parent)'
          /\ call'[Parent].op = "consume" /\ call'[Parent].sem = ready(1)
          /\ call'[Parent].at = "load"
          /\ \A p \in Proc : /\ pc'[p] = pc[p] /\ (Effected(p)' <=> Effected(p)) /\ call'[p] = call[p]
                             /\ Handed(start(p))' = Handed(start(p))
                             /\ Handed(ready(p))' = Handed(ready(p))
      BY <1>4, <3>1
    <3>3. Calls'
      BY <1>1, <2>1, <3>1, <3>2 DEF Calls, Waits, InCall
    <3>4. Edges'
      BY <1>1, <2>1, <3>1, <3>2 DEF Edges
    <3>5. ASSUME NEW p \in Proc PROVE Handshake(p)'
      <4>1. Handshake(p)
        BY <1>5, <2>1
      <4>2. ~Uncreated(p) /\ ~Uncreated(p)' /\ Awaits(p) /\ Awaits(p)'
        BY <1>1, <2>1, <3>1, <3>2 DEF Uncreated, Awaits, Waits
      <4>3. AwaitsRight(p) => AwaitsRight(p)'
        BY <1>1, <2>1, <3>2
        DEF AwaitsRight, AtRest, HasStart, Serving, Reporting, NoTokens, ToServe, Over
      <4> QED
        BY <4>1, <4>2, <4>3 DEF Handshake
    <3> QED
      BY <1>6, <1>7, <2>1, <3>3, <3>4, <3>5 DEF Delivery
  <2> QED
    BY <2>2, <2>3
<1>14. CASE Waited
  <2>1. /\ pc[Parent] = "waiting" /\ Effected(Parent) /\ call[Parent].at = "done"
        /\ UNCHANGED <<workload, round, dead, iters, left, served>>
    BY <1>1, <1>14 DEF Waited, WaitOk, Reached, Effected, childVars
  <2>2. \A p \in Proc : Handshake(p)
    BY <1>5, <2>1
  <2>3. \A p \in Proc : AwaitsRight(p) => (AwaitsRight(p)' \/ pc'[p] # pc[p] \/ ~(Effected(p)' <=> Effected(p))
           \/ Handed(start(p))' # Handed(start(p)) \/ Handed(ready(p))' # Handed(ready(p)))
    BY <2>1 DEF AwaitsRight, AtRest, HasStart, Serving, Reporting, NoTokens, ToServe, Over
  <2>4. CASE i = NrProcs
    <3>1. i' = i /\ Move(Parent, "round")
      BY <1>14, <2>4 DEF Waited, WaitOk
    <3>2. /\ pc'[Parent] = "round" /\ call' = call
          /\ \A p \in Proc : /\ pc'[p] = pc[p] /\ (Effected(p)' <=> Effected(p))
                             /\ Handed(start(p))' = Handed(start(p))
                             /\ Handed(ready(p))' = Handed(ready(p))
      BY <1>3, <3>1
    <3>3. Calls'
      BY <1>1, <2>1, <3>1, <3>2 DEF Calls, Waits, InCall
    <3>4. Edges'
      BY <1>1, <2>1, <2>4, <3>1, <3>2 DEF Edges
    <3>5. ASSUME NEW p \in Proc PROVE Handshake(p)'
      <4>1. /\ ~Uncreated(p) /\ ~Uncreated(p)' /\ ~Awaits(p) /\ ~Awaits(p)' /\ ~Giving(p)'
            /\ ~BeforeGiving(p) /\ ~BeforeGiving(p)'
        BY <1>1, <2>1, <2>4, <3>1, <3>2 DEF Uncreated, Awaits, Waits, Giving, BeforeGiving
      <4> QED
        BY <1>1, <2>1, <2>2, <3>2, <4>1 DEF Handshake, RestedRight, AtRest, NoTokens, Past
    <3> QED
      BY <1>6, <1>7, <2>1, <3>3, <3>4, <3>5 DEF Delivery
  <2>5. CASE i # NrProcs /\ round = 0
    <3>1. i' = i + 1 /\ Move(Parent, "create")
      BY <1>14, <2>5 DEF Waited, WaitOk
    <3>2. /\ pc'[Parent] = "create" /\ call' = call
          /\ \A p \in Proc : /\ pc'[p] = pc[p] /\ (Effected(p)' <=> Effected(p))
                             /\ Handed(start(p))' = Handed(start(p))
                             /\ Handed(ready(p))' = Handed(ready(p))
      BY <1>3, <3>1
    <3>3. Calls'
      BY <1>1, <2>1, <3>1, <3>2 DEF Calls, Waits, InCall
    <3>4. Edges'
      BY <1>1, <2>1, <2>5, <3>1, <3>2 DEF Edges
    <3>5. ASSUME NEW p \in Proc PROVE Handshake(p)'
      <4>1. /\ (Uncreated(p) <=> i < p) /\ (Uncreated(p)' <=> i < p)
            /\ ~Awaits(p) /\ ~Awaits(p)' /\ ~Giving(p)'
            /\ ~BeforeGiving(p) /\ ~BeforeGiving(p)'
        BY <1>1, <2>1, <2>5, <3>1, <3>2 DEF Uncreated, Awaits, Waits, Giving, BeforeGiving
      <4> QED
        BY <1>1, <2>1, <2>2, <3>2, <4>1 DEF Handshake, RestedRight, AtRest, NoTokens, Past
    <3> QED
      BY <1>6, <1>7, <2>1, <3>3, <3>4, <3>5 DEF Delivery
  <2>6. CASE i # NrProcs /\ round # 0
    <3>1. /\ i' = i + 1 /\ Enter(Parent, "consume", ready(i + 1), TRUE, "waiting")
          /\ i + 1 \in Proc /\ ready(i + 1) \in Sem
      <4>1. i + 1 \in Proc
        BY <1>1, <2>6 DEF Proc
      <4> QED
        BY <1>14, <2>6, <4>1, Cast DEF Waited, WaitOk
    <3>2. /\ pc'[Parent] = "waiting" /\ ~Effected(Parent)'
          /\ call'[Parent].op = "consume" /\ call'[Parent].sem = ready(i + 1)
          /\ call'[Parent].at = "load"
          /\ \A p \in Proc : /\ pc'[p] = pc[p] /\ (Effected(p)' <=> Effected(p)) /\ call'[p] = call[p]
                             /\ Handed(start(p))' = Handed(start(p))
                             /\ Handed(ready(p))' = Handed(ready(p))
      BY <1>4, <3>1
    <3>3. Calls'
      BY <1>1, <2>1, <3>1, <3>2 DEF Calls, Waits, InCall
    <3>4. Edges'
      BY <1>1, <2>1, <3>1, <3>2 DEF Edges
    <3>5. ASSUME NEW p \in Proc PROVE Handshake(p)'
      <4>1. /\ ~Uncreated(p) /\ ~Uncreated(p)' /\ (Awaits(p) <=> i < p) /\ (Awaits(p)' <=> i < p)
            /\ ~BeforeGiving(p) /\ ~BeforeGiving(p)' /\ ~Giving(p)'
        BY <1>1, <2>1, <2>6, <3>1, <3>2 DEF Uncreated, Awaits, Waits, Giving, BeforeGiving
      <4>2. RestedRight(p) => RestedRight(p)'
        BY <1>1, <2>1, <3>2, <4>1 DEF RestedRight, AtRest, NoTokens, Past
      <4>3. AwaitsRight(p) => AwaitsRight(p)'
        BY <2>3, <3>2
      <4> QED
        BY <2>2, <4>1, <4>2, <4>3 DEF Handshake
    <3> QED
      BY <1>6, <1>7, <2>1, <3>3, <3>4, <3>5 DEF Delivery
  <2> QED
    BY <2>4, <2>5, <2>6
<1>15. CASE Probe
  <2>1. /\ pc[Parent] = "waiting" /\ ~Effected(Parent) /\ call[Parent].at = "timedOut"
        /\ UNCHANGED <<workload, i, round, dead, iters, left, served>>
    BY <1>1, <1>15 DEF Probe, Reached, Effected, contextVars, childVars
  <2>2. ASSUME pc'[Parent] \in {"waiting", "failed"}, ~Effected(Parent)',
               NEW p \in Proc, pc'[p] = pc[p], Effected(p)' <=> Effected(p),
               Handed(start(p))' = Handed(start(p)), Handed(ready(p))' = Handed(ready(p))
        PROVE  Handshake(p)'
    <3>1. Handshake(p)
      BY <1>5, <2>1
    <3>2. /\ (Uncreated(p)' <=> Uncreated(p)) /\ (Awaits(p)' <=> Awaits(p))
          /\ ~BeforeGiving(p) /\ ~BeforeGiving(p)' /\ ~Giving(p)'
      BY <1>1, <2>1, <2>2 DEF Uncreated, Awaits, Waits, Giving, BeforeGiving
    <3>3. RestedRight(p) => RestedRight(p)'
      BY <1>1, <2>1, <2>2, <3>2 DEF RestedRight, AtRest, NoTokens, Past
    <3>4. AwaitsRight(p) => AwaitsRight(p)'
      BY <2>1, <2>2 DEF AwaitsRight, AtRest, HasStart, Serving, Reporting, NoTokens, ToServe, Over
    <3>5. NoTokens(p) => NoTokens(p)'
      BY <2>2 DEF NoTokens
    <3> QED
      BY <2>1, <2>2, <3>1, <3>2, <3>3, <3>4, <3>5 DEF Handshake
  <2>3. CASE i \in dead
    <3>1. Move(Parent, "failed")
      BY <1>15, <2>3 DEF Probe
    <3>2. /\ pc'[Parent] = "failed" /\ call' = call /\ ~Effected(Parent)'
          /\ \A p \in Proc : /\ pc'[p] = pc[p] /\ (Effected(p)' <=> Effected(p))
                             /\ Handed(start(p))' = Handed(start(p))
                             /\ Handed(ready(p))' = Handed(ready(p))
      BY <1>3, <2>1, <3>1
    <3>3. Calls'
      BY <1>1, <2>1, <3>2 DEF Calls, Waits, InCall
    <3>4. Edges'
      BY <1>1, <2>1, <3>2 DEF Edges
    <3> QED
      BY <1>6, <1>7, <2>1, <2>2, <3>2, <3>3, <3>4 DEF Delivery
  <2>4. CASE i \notin dead
    <3>1. Enter(Parent, "consume", ready(i), TRUE, "waiting") /\ ready(i) \in Sem
      BY <1>1, <1>15, <2>4, Cast DEF Probe
    <3>2. /\ pc'[Parent] = "waiting" /\ ~Effected(Parent)'
          /\ call'[Parent].op = "consume" /\ call'[Parent].sem = ready(i)
          /\ call'[Parent].at = "load"
          /\ \A p \in Proc : /\ pc'[p] = pc[p] /\ (Effected(p)' <=> Effected(p)) /\ call'[p] = call[p]
                             /\ Handed(start(p))' = Handed(start(p))
                             /\ Handed(ready(p))' = Handed(ready(p))
      BY <1>4, <3>1
    <3>3. Calls'
      BY <1>1, <2>1, <3>2 DEF Calls, Waits, InCall
    <3>4. Edges'
      BY <1>1, <2>1, <3>2 DEF Edges
    <3> QED
      BY <1>6, <1>7, <2>1, <2>2, <3>2, <3>3, <3>4 DEF Delivery
  <2> QED
    BY <2>3, <2>4
<1>16. CASE Drop
  <2>1. /\ \A t \in Thread : pc'[t] = "gone" /\ call'[t].at = "done" /\ ~call'[t].timed
        /\ UNCHANGED <<i, round, served, left, iters>>
    BY <1>16, NoCallCall DEF Drop, childVars
  <2>2. Calls'
    BY <1>1, <2>1 DEF Calls, Waits, InCall
  <2>3. Edges'
    BY <1>1, <2>1 DEF Edges
  <2> QED
    BY <1>1, <1>6, <1>7, <2>1, <2>2, <2>3 DEF Delivery
<1> QED
  BY <1>10, <1>11, <1>12, <1>13, <1>14, <1>15, <1>16 DEF ParentStep

(* ... a step of a child, ...                                              *)
LEMMA ChildDelivers ==
    ASSUME ProcessType, SemInv, Delivery, NEW p \in Proc, ChildStep(p) \/ Die(p)
    PROVE  Delivery'
<1>1. /\ Calls /\ Edges /\ p \in Thread /\ Parent \in Thread /\ p # Parent
      /\ call \in [Thread -> Call] /\ pc \in [Thread -> ParentPc \cup ChildPc]
      /\ \A q \in Proc : q \in Thread /\ q # Parent
      /\ start(p) \in Sem /\ ready(p) \in Sem /\ ball(p) \in Sem
      /\ (NrProcs = 2 => ball(Other(p)) \in Sem)
      /\ Handed(start(p)) \in Nat /\ Handed(ready(p)) \in Nat
      /\ Len(served[p]) \in Nat /\ left[p] \in Nat
      /\ round \in Nat /\ pc[p] \in ChildPc
  BY Cast, Numbers DEF Delivery, ProcessType, SemType, PcType
<1>2. pc[Parent] # "gone" /\ pc[p] \notin {"unborn", "gone"}
  <2>1. pc[p] \notin {"unborn", "gone"}
    BY DEF ChildStep, Die, Await, TakeIters, Iterate, Catch, Caught, Finished, Reached
  <2> QED
    BY <1>1, <2>1 DEF Edges
<1>3. /\ \A q \in Proc : Handshake(q)
      /\ \A q \in Proc : InOrder(q)
  BY <1>2 DEF Delivery
<1>4. /\ Handshake(p) /\ ~Uncreated(p)
      /\ (Awaits(p) => AwaitsRight(p))
      /\ (~Awaits(p) => RestedRight(p) /\ (Giving(p) => iters[p] = round))
  BY <1>2, <1>3 DEF Handshake
<1>5. /\ Reached(p, pc[p]) => call[p].at = "done"
      /\ call[p].at # "timedOut"
  BY <1>1 DEF Reached, InCall, Calls
<1>6. ASSUME UNCHANGED <<word, i, round>>, NEW to, NEW x, to # "unborn",
             pc' = [pc EXCEPT ![p] = to], call' = [call EXCEPT ![p] = x],
             \A q \in Proc \ {p} : served'[q] = served[q] /\ left'[q] = left[q] /\ iters'[q] = iters[q]
      PROVE  /\ pc'[p] = to /\ pc'[Parent] = pc[Parent] /\ call'[p] = x /\ call'[Parent] = call[Parent]
             /\ \A q \in Proc \ {p} : pc'[q] = pc[q] /\ call'[q] = call[q]
             /\ Handed(start(p))' = Handed(start(p)) /\ Handed(ready(p))' = Handed(ready(p))
             /\ (Effected(p)' <=> x.at \in {"wake", "done"})
             /\ ~Uncreated(p)' /\ (Awaits(p)' <=> Awaits(p)) /\ (Giving(p)' <=> Giving(p))
             /\ (BeforeGiving(p)' <=> BeforeGiving(p))
             /\ \A q \in Proc \ {p} : Handshake(q)'
  <2>1. /\ pc'[p] = to /\ pc'[Parent] = pc[Parent] /\ call'[p] = x /\ call'[Parent] = call[Parent]
        /\ \A q \in Proc \ {p} : pc'[q] = pc[q] /\ call'[q] = call[q]
    BY <1>1, <1>6
  <2>2. /\ Handed(start(p))' = Handed(start(p)) /\ Handed(ready(p))' = Handed(ready(p))
        /\ (Effected(p)' <=> x.at \in {"wake", "done"})
    BY <1>6, <2>1 DEF Handed, Effected
  <2>3. SameParent
    BY <1>6, <2>1 DEF SameParent, Effected
  <2>4. /\ ~Uncreated(p)' /\ (Awaits(p)' <=> Awaits(p)) /\ (Giving(p)' <=> Giving(p))
        /\ (BeforeGiving(p)' <=> BeforeGiving(p))
    BY <1>4, <2>3 DEF SameParent, Uncreated, Awaits, Giving, BeforeGiving, Waits
  <2>5. ASSUME NEW q \in Proc \ {p} PROVE Handshake(q)'
    <3>1. SameChild(q)
      BY <1>6, <2>1 DEF SameChild, Effected, Handed
    <3> QED
      BY <1>3, <2>3, <3>1, Untouched
  <2> QED
    BY <2>1, <2>2, <2>4, <2>5
<1>7. ASSUME UNCHANGED <<word, i, round>>, NEW to, NEW x,
             pc' = [pc EXCEPT ![p] = to], call' = [call EXCEPT ![p] = x],
             \A q \in Proc \ {p} : served'[q] = served[q] /\ left'[q] = left[q] /\ iters'[q] = iters[q],
             to # "unborn", ~x.timed, x.at # "timedOut",
             to = "ready" => x.op = "produce" /\ x.sem = ready(p),
             to = "start" => x.op = "consume" /\ x.sem = start(p),
             to = "ping" => x.op = "produce" /\ x.sem = ball(p),
             to = "pong" => x.op = "consume" /\ x.sem = ball(Other(p)),
             x.at \notin {"done", "timedOut"} => to \in {"ready", "start", "ping", "pong"},
             to \in {"ping", "pong"} => left'[p] > 0 /\ NrProcs = 2,
             InOrder(p)', Handshake(p)'
      PROVE  Delivery'
  <2>1. /\ pc'[p] = to /\ pc'[Parent] = pc[Parent] /\ call'[p] = x /\ call'[Parent] = call[Parent]
        /\ \A q \in Proc \ {p} : pc'[q] = pc[q] /\ call'[q] = call[q] /\ Handshake(q)'
    BY <1>6, <1>7
  <2>2. Calls'
    <3>1. ASSUME NEW q \in Proc
          PROVE  (/\ ~call[q].timed /\ call[q].at # "timedOut"
                  /\ pc[q] = "ready" => call[q].op = "produce" /\ call[q].sem = ready(q)
                  /\ pc[q] = "start" => call[q].op = "consume" /\ call[q].sem = start(q)
                  /\ pc[q] = "ping" => call[q].op = "produce" /\ call[q].sem = ball(q)
                  /\ pc[q] = "pong" => call[q].op = "consume" /\ call[q].sem = ball(Other(q))
                  /\ InCall(q) => pc[q] \in {"ready", "start", "ping", "pong"}
                  /\ pc[q] \in {"ping", "pong"} => left[q] > 0 /\ NrProcs = 2)'
      <4>1. CASE q = p
        BY <1>7, <2>1, <4>1 DEF InCall
      <4>2. CASE q # p
        BY <1>1, <1>7, <2>1, <4>2 DEF Calls, InCall
      <4> QED
        BY <4>1, <4>2
    <3>2. /\ (Waits' <=> Waits) /\ (InCall(Parent)' <=> InCall(Parent))
      BY <2>1 DEF Waits, InCall
    <3> HIDE DEF InCall
    <3> QED
      BY <1>1, <1>7, <2>1, <3>1, <3>2 DEF Calls
  <2>3. Edges'
    BY <1>1, <1>2, <1>7, <2>1 DEF Edges
  <2>4. \A q \in Proc : InOrder(q)'
    BY <1>3, <1>7 DEF InOrder
  <2> QED
    BY <1>7, <2>1, <2>2, <2>3, <2>4 DEF Delivery
<1>8. call = [call EXCEPT ![p] = call[p]]
  BY <1>1
<1>9. served'[p] = served[p] => InOrder(p)'
  BY <1>3 DEF InOrder
<1>10. CASE Await(p)
  <2> DEFINE x == Entered("consume", start(p), FALSE)
  <2>1. /\ pc[p] = "ready" /\ call[p].at = "done" /\ UNCHANGED <<word, i, round, served, left, iters>>
        /\ pc' = [pc EXCEPT ![p] = "start"] /\ call' = [call EXCEPT ![p] = x]
    BY <1>5, <1>10 DEF Await, Enter, Reached, contextVars, childVars
  <2>2. x.op = "consume" /\ x.sem = start(p) /\ ~x.timed /\ x.at = "load"
    BY <1>1, EnteredCall
  <2> HIDE DEF x
  <2>3. /\ pc'[p] = "start" /\ Handed(start(p))' = Handed(start(p)) /\ Handed(ready(p))' = Handed(ready(p))
        /\ ~Effected(p)' /\ ~Uncreated(p)' /\ (Awaits(p)' <=> Awaits(p)) /\ (Giving(p)' <=> Giving(p))
        /\ (BeforeGiving(p)' <=> BeforeGiving(p))
    BY <1>6, <2>1, <2>2
  <2>4. AtRest(p) /\ AtRest(p)' /\ ~HasStart(p) /\ ~Serving(p) /\ ~Reporting(p)
    BY <2>1, <2>3 DEF AtRest, HasStart, Serving, Reporting, Effected
  <2>5. Handshake(p)'
    BY <1>4, <2>1, <2>3, <2>4
    DEF Handshake, AwaitsRight, RestedRight, NoTokens, ToServe, Over, Past
  <2> QED
    BY <1>7, <1>9, <2>1, <2>2, <2>5
<1>11. CASE TakeIters(p)
  <2>1. /\ pc[p] = "start" /\ call[p].at = "done" /\ UNCHANGED <<word, call, i, round>>
        /\ pc' = [pc EXCEPT ![p] = "work"] /\ served' = [served EXCEPT ![p] = Append(served[p], iters[p])]
        /\ left' = [left EXCEPT ![p] = iters[p]] /\ iters' = [iters EXCEPT ![p] = 0]
    BY <1>5, <1>11 DEF TakeIters, Move, Reached, contextVars, semVars
  <2>2. /\ served \in [Proc -> Seq(Nat)] /\ left \in [Proc -> Nat] /\ iters \in [Proc -> Nat]
    BY DEF ProcessType
  <2>3. /\ served'[p] = Append(served[p], iters[p])
        /\ \A q \in Proc \ {p} : served'[q] = served[q] /\ left'[q] = left[q] /\ iters'[q] = iters[q]
    BY <2>1, <2>2
  <2>4. /\ pc'[p] = "work" /\ Handed(start(p))' = Handed(start(p)) /\ Handed(ready(p))' = Handed(ready(p))
        /\ ~Uncreated(p)' /\ (Awaits(p)' <=> Awaits(p))
    BY <1>6, <1>8, <2>1, <2>3
  <2>5. HasStart(p) /\ ~AtRest(p) /\ ~Serving(p) /\ ~Reporting(p)
    BY <2>1 DEF AtRest, HasStart, Serving, Reporting, Effected
  <2>6. Awaits(p) /\ NoTokens(p) /\ ToServe(p)
    BY <1>2, <1>4, <2>5 DEF AwaitsRight, RestedRight
  <2>7. /\ Len(served'[p]) = Len(served[p]) + 1 /\ served'[p] \in Seq(Nat) /\ served[p] \in Seq(Nat)
        /\ \A k \in 1 .. Len(served[p]) : served'[p][k] = served[p][k]
        /\ served'[p][Len(served[p]) + 1] = iters[p]
    BY <2>2, <2>3
  <2>8. InOrder(p)'
    <3>1. ASSUME NEW k \in DOMAIN served'[p] PROVE served'[p][k] = k
      <4>1. k \in 1 .. (Len(served[p]) + 1)
        BY <2>7
      <4>2. CASE k \in 1 .. Len(served[p])
        <5>1. k \in DOMAIN served[p]
          BY <2>7, <4>2
        <5>2. served[p][k] = k
          BY <1>3, <5>1 DEF InOrder
        <5> QED
          BY <2>7, <4>2, <5>2
      <4>3. CASE k = Len(served[p]) + 1
        <5>1. k = iters[p]
          BY <2>6, <4>3 DEF ToServe
        <5>2. served'[p][Len(served[p]) + 1] = iters[p]
          BY <2>7
        <5> QED
          BY <4>3, <5>1, <5>2
      <4> QED
        BY <1>1, <4>1, <4>2, <4>3
    <3> QED
      BY <3>1 DEF InOrder
  <2>9. Handshake(p)'
    BY <2>1, <2>4, <2>6, <2>7 DEF Handshake, AwaitsRight, Serving, NoTokens, ToServe
  <2> QED
    BY <1>1, <1>7, <1>8, <2>1, <2>3, <2>8, <2>9 DEF Calls
<1>12. ASSUME Serving(p), UNCHANGED <<word, i, round, served, iters>>,
              NEW to \in {"work", "ping", "pong"}, NEW x,
              \A q \in Proc \ {p} : left'[q] = left[q],
              pc' = [pc EXCEPT ![p] = to], call' = [call EXCEPT ![p] = x]
       PROVE  Handshake(p)'
  <2>1. /\ pc'[p] = to /\ Handed(start(p))' = Handed(start(p)) /\ Handed(ready(p))' = Handed(ready(p))
        /\ ~Uncreated(p)' /\ (Awaits(p)' <=> Awaits(p))
    BY <1>6, <1>12
  <2>2. ~AtRest(p) /\ ~HasStart(p) /\ ~Reporting(p) /\ Serving(p)'
    BY <1>12, <2>1 DEF AtRest, HasStart, Serving, Reporting
  <2>3. Awaits(p) /\ NoTokens(p) /\ Len(served[p]) = round
    BY <1>2, <1>4, <2>2 DEF AwaitsRight, RestedRight
  <2> QED
    BY <1>12, <2>1, <2>2, <2>3 DEF Handshake, AwaitsRight, NoTokens
<1>13. ~call[p].timed
  BY <1>1 DEF Calls
<1>14. CASE Iterate(p)
  <2>1. /\ pc[p] = "work" /\ call[p].at = "done" /\ left[p] > 0 /\ Serving(p)
        /\ UNCHANGED <<i, round, served, iters>>
    BY <1>5, <1>14 DEF Iterate, Reached, contextVars, Serving
  <2>2. CASE workload = "alone"
    <3>1. /\ pc' = [pc EXCEPT ![p] = "work"] /\ UNCHANGED <<word, call>>
          /\ \A q \in Proc \ {p} : left'[q] = left[q]
      BY <1>14, <2>2 DEF Iterate, Move, semVars, ProcessType
    <3>2. Handshake(p)'
      BY <1>8, <1>12, <2>1, <3>1
    <3> QED
      BY <1>7, <1>8, <1>9, <1>13, <2>1, <3>1, <3>2
  <2>3. CASE workload # "alone"
    <3> DEFINE x == Entered("produce", ball(p), FALSE)
    <3>1. /\ pc' = [pc EXCEPT ![p] = "ping"] /\ UNCHANGED <<word, left>>
          /\ call' = [call EXCEPT ![p] = x] /\ NrProcs = 2
      BY <1>14, <2>3 DEF Iterate, Enter, ProcessType, Workloads
    <3>2. x.op = "produce" /\ x.sem = ball(p) /\ ~x.timed /\ x.at = "load"
      BY <1>1, EnteredCall
    <3> HIDE DEF x
    <3>3. Handshake(p)'
      BY <1>12, <2>1, <3>1
    <3> QED
      BY <1>7, <1>9, <2>1, <3>1, <3>2, <3>3
  <2> QED
    BY <2>2, <2>3
<1>15. CASE Catch(p)
  <2> DEFINE x == Entered("consume", ball(Other(p)), FALSE)
  <2>1. /\ pc[p] = "ping" /\ UNCHANGED <<word, i, round, served, left, iters>> /\ Serving(p)
        /\ pc' = [pc EXCEPT ![p] = "pong"] /\ call' = [call EXCEPT ![p] = x]
    BY <1>15 DEF Catch, Enter, Reached, contextVars, childVars, Serving
  <2>2. left[p] > 0 /\ NrProcs = 2
    BY <1>1, <2>1 DEF Calls
  <2>3. x.op = "consume" /\ x.sem = ball(Other(p)) /\ ~x.timed /\ x.at = "load"
    BY <1>1, <2>2, EnteredCall
  <2> HIDE DEF x
  <2>4. Handshake(p)'
    BY <1>12, <2>1
  <2> QED
    BY <1>7, <1>9, <2>1, <2>2, <2>3, <2>4
<1>16. CASE Caught(p)
  <2>1. /\ pc[p] = "pong" /\ call[p].at = "done" /\ UNCHANGED <<word, call, i, round, served, iters>> /\ Serving(p)
        /\ pc' = [pc EXCEPT ![p] = "work"] /\ \A q \in Proc \ {p} : left'[q] = left[q]
    BY <1>5, <1>16 DEF Caught, Move, Reached, contextVars, semVars, Serving, ProcessType
  <2>2. Handshake(p)'
    BY <1>8, <1>12, <2>1
  <2> QED
    BY <1>7, <1>8, <1>9, <1>13, <2>1, <2>2
<1>17. CASE Finished(p)
  <2> DEFINE x == Entered("produce", ready(p), FALSE)
  <2>1. /\ pc[p] = "work" /\ left[p] = 0 /\ UNCHANGED <<word, i, round, served, left, iters>>
        /\ pc' = [pc EXCEPT ![p] = "ready"] /\ call' = [call EXCEPT ![p] = x]
    BY <1>17 DEF Finished, Enter, Reached, contextVars, childVars
  <2>2. x.op = "produce" /\ x.sem = ready(p) /\ ~x.timed /\ x.at = "load"
    BY <1>1, EnteredCall
  <2> HIDE DEF x
  <2>3. /\ pc'[p] = "ready" /\ Handed(start(p))' = Handed(start(p)) /\ Handed(ready(p))' = Handed(ready(p))
        /\ ~Effected(p)' /\ ~Uncreated(p)' /\ (Awaits(p)' <=> Awaits(p))
    BY <1>6, <2>1, <2>2
  <2>4. ~AtRest(p) /\ ~HasStart(p) /\ ~Reporting(p) /\ Reporting(p)'
    BY <2>1, <2>3 DEF AtRest, HasStart, Reporting
  <2>5. Awaits(p) /\ NoTokens(p) /\ Len(served[p]) = round
    BY <1>2, <1>4, <2>4 DEF AwaitsRight, RestedRight
  <2>6. Handshake(p)'
    BY <2>1, <2>3, <2>4, <2>5 DEF Handshake, AwaitsRight, NoTokens, Over
  <2> QED
    BY <1>7, <1>9, <2>1, <2>2, <2>6
<1>18. CASE Die(p)
  <2> DEFINE x == NoCall(ready(1))
  <2>1. /\ UNCHANGED <<word, i, round, served, left, iters>>
        /\ pc' = [pc EXCEPT ![p] = "gone"] /\ call' = [call EXCEPT ![p] = x]
    BY <1>18 DEF Die, childVars
  <2>2. ~x.timed /\ x.at = "done"
    BY NoCallCall
  <2> HIDE DEF x
  <2>3. /\ pc'[p] = "gone" /\ Handed(start(p))' = Handed(start(p)) /\ Handed(ready(p))' = Handed(ready(p))
        /\ ~Uncreated(p)' /\ (Awaits(p)' <=> Awaits(p)) /\ (Giving(p)' <=> Giving(p))
        /\ (BeforeGiving(p)' <=> BeforeGiving(p))
    BY <1>6, <2>1
  <2>4. AwaitsRight(p) => AwaitsRight(p)'
    BY <2>1, <2>3 DEF AwaitsRight, NoTokens, Over
  <2>5. RestedRight(p) => RestedRight(p)'
    BY <2>1, <2>3 DEF RestedRight, NoTokens, Past
  <2>6. Handshake(p)'
    BY <1>4, <2>1, <2>3, <2>4, <2>5 DEF Handshake
  <2> QED
    BY <1>7, <1>9, <2>1, <2>2, <2>6
<1> QED
  BY <1>10, <1>11, <1>14, <1>15, <1>16, <1>17, <1>18 DEF ChildStep

(* Every step keeps the types and the handshake.                           *)
LEMMA DeliveryStep ==
    ASSUME ProcessType, SemInv, Delivery, [Next]_vars
    PROVE  ProcessType' /\ SemInv' /\ Delivery'
<1>1. CASE ParentStep
  BY <1>1, ParentType, ParentDelivers
<1>2. ASSUME NEW p \in Proc, ChildStep(p) \/ Die(p)
      PROVE  ProcessType' /\ SemInv' /\ Delivery'
  <2>1. pc[p] \in {"ping", "pong"} => left[p] > 0 /\ NrProcs = 2
    BY DEF Delivery, Calls
  <2> QED
    BY <1>2, <2>1, ChildType, ChildDelivers
<1>3. ASSUME NEW t \in Thread, SemStep(t), UNCHANGED Outside
      PROVE  ProcessType' /\ SemInv' /\ Delivery'
  <2>1. SemType' /\ SemInv'
    BY <1>3, SemaphoreStep DEF ProcessType
  <2>2. UNCHANGED <<pc, i, round, workload, dead, iters, left, served>>
    BY <1>3 DEF Outside, contextVars, childVars
  <2>3. ProcessType'
    BY <2>1, <2>2 DEF ProcessType, PcType
  <2> QED
    BY <1>3, <2>1, <2>3, SemaphoreDelivers
<1>4. CASE UNCHANGED vars
  <2>1. UNCHANGED <<pc, i, round, workload, dead, iters, left, served>> /\ UNCHANGED semVars
    BY <1>4 DEF vars, contextVars, childVars
  <2>2. SemType' /\ SemInv'
    BY <2>1, StaysOut DEF ProcessType
  <2>3. ProcessType'
    BY <2>1, <2>2 DEF ProcessType, PcType
  <2>4. \A t \in Thread : (Effected(t)' <=> Effected(t)) /\ (InCall(t)' <=> InCall(t))
    BY <2>1 DEF semVars, Effected, InCall
  <2>5. Calls'
    BY <2>1 DEF Delivery, Calls, Waits, InCall, semVars
  <2>6. Edges' /\ \A p \in Proc : InOrder(p)'
    BY <2>1 DEF Delivery, Edges, InOrder
  <2>7. ASSUME pc[Parent] # "gone", NEW p \in Proc PROVE Handshake(p)'
    <3>1. SameChild(p) /\ SameParent /\ Handshake(p)
      BY <2>1, <2>4, <2>7, Cast DEF Delivery, SameChild, SameParent, Handed, semVars
    <3> QED
      BY <3>1, Untouched
  <2> QED
    BY <2>1, <2>2, <2>3, <2>5, <2>6, <2>7 DEF Delivery
<1> QED
  BY <1>1, <1>2, <1>3, <1>4 DEF Next, SemStep

(* The types, the semaphores and the handshake hold in every state.        *)
LEMMA DeliveryHolds == Spec => [](ProcessType /\ SemInv /\ Delivery)
<1>1. Init => ProcessType /\ SemInv /\ Delivery
  BY ProcessTypeInit, DeliveryInit
<1>2. ProcessType /\ SemInv /\ Delivery /\ [Next]_vars => (ProcessType /\ SemInv /\ Delivery)'
  BY DeliveryStep
<1> QED
  BY <1>1, <1>2, PTL DEF Spec

(* The type invariant: every variable holds a value of its type.           *)
THEOREM ProcessTypes == Spec => []ProcessType
BY DeliveryHolds, PTL

(* No semaphore is ever given more tokens than its maximum, whatever       *)
(* interleaving of loads, exchanges and futex calls its users make and     *)
(* whichever of them dies on the way.                                      *)
AmountsBounded == \A s \in Sem : word[s].amount \in 0 .. Max[s]

THEOREM SemaphoresBounded == Spec => []AmountsBounded
<1>1. ProcessType /\ SemInv => AmountsBounded
  <2> SUFFICES ASSUME ProcessType, SemInv, NEW s \in Sem PROVE word[s].amount \in 0 .. Max[s]
    BY DEF AmountsBounded
  <2>1. word[s].amount \in Nat /\ Max[s] \in Nat
    BY SemaphoreAssumption DEF ProcessType, SemType, Word
  <2> QED
    BY <2>1 DEF SemInv
<1> QED
  BY <1>1, DeliveryHolds, PTL

(* A round is over when, and only when, every child has done its           *)
(* iterations and those of every round before it, once each (RoundsDelivered).  *)
THEOREM RoundsAreDelivered == Spec => []RoundsDelivered
<1>1. ProcessType /\ Delivery => RoundsDelivered
  <2> SUFFICES ASSUME ProcessType, Delivery PROVE RoundsDelivered
    OBVIOUS
  <2>1. \A p \in Proc : \A k \in DOMAIN served[p] : served[p][k] = k
    BY DEF Delivery, InOrder
  <2>2. ASSUME pc[Parent] = "round", NEW p \in Proc, ~InCall(Parent)
        PROVE  Len(served[p]) = round /\ left[p] = 0
    <3>1. Handshake(p) /\ i = NrProcs
      BY <2>2 DEF Delivery, Edges
    <3>2. ~Uncreated(p) /\ ~Awaits(p) /\ ~BeforeGiving(p)
      BY <2>2 DEF Uncreated, Awaits, BeforeGiving, Waits
    <3> QED
      BY <3>1, <3>2 DEF Handshake, RestedRight, Past
  <2> QED
    BY <2>1, <2>2 DEF RoundsDelivered, Reached
<1> QED
  BY <1>1, DeliveryHolds, PTL

-----------------------------------------------------------------------------
(* Wake-ups.  At most two threads are ever in a call of the same           *)
(* semaphore: the parent and a child, or the two players of the ping-pong. *)
LEMMA TwoUsers ==
    ASSUME ProcessType, Calls, NEW t \in Thread, NEW u \in Thread, NEW v \in Thread,
           InCall(t), InCall(u), InCall(v),
           call[t].sem = call[u].sem, call[u].sem = call[v].sem
    PROVE  t = u \/ u = v \/ t = v
<1>1. ASSUME NEW p \in Proc, NEW q \in Proc, InCall(p), InCall(q), p # q, call[p].sem = call[q].sem
      PROVE  /\ NrProcs = 2 /\ pc[p] \in {"ping", "pong"}
             /\ \A r \in Proc : call[p].sem # start(r) /\ call[p].sem # ready(r)
  <2>1. \A r \in Proc : InCall(r) =>
           \/ pc[r] = "ready" /\ call[r].sem = ready(r)
           \/ pc[r] = "start" /\ call[r].sem = start(r)
           \/ pc[r] \in {"ping", "pong"} /\ NrProcs = 2 /\ \E b \in Proc : call[r].sem = ball(b)
    BY Cast DEF Calls
  <2> HIDE DEF InCall
  <2>5. call[q].sem = ready(q) \/ call[q].sem = start(q) \/ \E b \in Proc : call[q].sem = ball(b)
    BY <1>1, <2>1
  <2>6. /\ ready(p) # ready(q) /\ start(p) # start(q) /\ ready(p) # start(q) /\ start(p) # ready(q)
        /\ \A b \in Proc : ball(b) # ready(p) /\ ball(b) # start(p)
    BY <1>1, Cast
  <2>2. CASE pc[p] = "ready" /\ call[p].sem = ready(p)
    BY <1>1, <2>2, <2>5, <2>6
  <2>3. CASE pc[p] = "start" /\ call[p].sem = start(p)
    BY <1>1, <2>3, <2>5, <2>6
  <2>4. CASE pc[p] \in {"ping", "pong"} /\ NrProcs = 2 /\ \E b \in Proc : call[p].sem = ball(b)
    BY <2>4, Cast
  <2> QED
    BY <1>1, <2>1, <2>2, <2>3, <2>4
<1>2. InCall(Parent) => \E r \in Proc : call[Parent].sem \in {start(r), ready(r)}
  <2>1. i \in Proc
    BY DEF ProcessType
  <2> QED
    BY <2>1 DEF Calls, Waits
<1>3. \A p, q, r \in Proc : NrProcs = 2 => p = q \/ q = r \/ p = r
  BY Cast
<1>4. Thread = {Parent} \cup Proc
  BY Cast
<1> HIDE DEF InCall
<1> SUFFICES ASSUME t # u, u # v, t # v PROVE FALSE
  OBVIOUS
<1>5. CASE t \in Proc /\ u \in Proc /\ v \in Proc
  BY <1>1, <1>3, <1>5
<1>6. ASSUME NEW p \in Proc, NEW q \in Proc, InCall(p), InCall(q), InCall(Parent), p # q,
             call[p].sem = call[q].sem, call[Parent].sem = call[p].sem
      PROVE  FALSE
  BY <1>1, <1>2, <1>6
<1> QED
  BY <1>4, <1>5, <1>6

(* The conjunct of WakeComes that says what a sleeper can count on.        *)
WillWake(s) == word[s].waiter \/ \E u \in Thread : call[u].at = "wake" /\ call[u].sem = s

(* A semaphore step leaves no sleeper without its wake-up, ...             *)
LEMMA SemaphoreWakes ==
    ASSUME ProcessType, SemInv, Calls, NEW t \in Thread, SemStep(t),
           \A s \in Sem : Asleep(s) # {} => WillWake(s)
    PROVE  \A s \in Sem : Asleep(s)' # {} => WillWake(s)'
<1> DEFINE c == call[t]
<1>1. /\ call \in [Thread -> Call] /\ word \in [Sem -> Word]
      /\ c.sem \in Sem /\ \A u \in Thread : call[u] \in Call
  BY DEF ProcessType, SemType, Call
<1> SUFFICES ASSUME NEW s \in Sem, NEW z \in Thread, call'[z].at = "asleep", call'[z].sem = s
             PROVE  WillWake(s)'
  BY DEF Asleep
<1>2. ASSUME call[z].at = "asleep", call[z].sem = s PROVE WillWake(s)
  BY <1>2 DEF Asleep
<1>3. ASSUME NEW at \in At \ {"asleep"}, UNCHANGED word, Goto(t, at), c.at # "wake"
      PROVE  WillWake(s)'
  <2>1. \A u \in Thread : /\ call'[u].sem = call[u].sem
                          /\ call'[u].at = IF u = t THEN at ELSE call[u].at
    BY <1>1, <1>3 DEF Goto, Call
  <2>2. WillWake(s)
    BY <1>2, <1>3, <2>1
  <2> QED
    BY <1>3, <2>1, <2>2 DEF WillWake
<1>4. CASE Load(t)
  <2> DEFINE x == [c EXCEPT !.cur = word[c.sem],
                            !.at = IF Possible(c, word[c.sem]) THEN "swap"
                                   ELSE IF word[c.sem].waiter THEN "wait" ELSE "mark"]
  <2>1. call' = [call EXCEPT ![t] = x] /\ UNCHANGED word /\ c.at = "load"
    BY <1>4 DEF Load
  <2>2. x.sem = c.sem /\ x.at \in {"swap", "wait", "mark"}
    BY <1>1 DEF Call
  <2> HIDE DEF x
  <2>3. \A u \in Thread : /\ call'[u].sem = call[u].sem
                          /\ (u # t => call'[u].at = call[u].at)
                          /\ (u = t => call'[u].at = x.at)
    BY <1>1, <2>1, <2>2
  <2>4. WillWake(s)
    BY <1>2, <2>2, <2>3
  <2> QED
    BY <2>1, <2>3, <2>4 DEF WillWake
<1>5. CASE Wait(t)
  <2>1. CASE word[c.sem] = c.cur
    <3>1. Goto(t, "asleep") /\ UNCHANGED word /\ c.at = "wait" /\ word[c.sem].waiter
      BY <1>5, <2>1 DEF Wait, SemInv
    <3>2. \A u \in Thread : /\ call'[u].sem = call[u].sem
                            /\ call'[u].at = IF u = t THEN "asleep" ELSE call[u].at
      BY <1>1, <3>1 DEF Goto, Call
    <3>3. WillWake(s)
      BY <1>2, <3>1, <3>2 DEF WillWake
    <3> QED
      BY <3>1, <3>2, <3>3 DEF WillWake
  <2>2. CASE word[c.sem] # c.cur
    BY <1>3, <1>5, <2>2 DEF Wait, At
  <2> QED
    BY <2>1, <2>2
<1>6. CASE Wake(t)
  <2>1. CASE Goto(t, "done") /\ Asleep(c.sem) = {}
    <3>1. c.at = "wake" /\ UNCHANGED word
      BY <1>6 DEF Wake
    <3>2. \A u \in Thread : /\ call'[u].sem = call[u].sem
                            /\ call'[u].at = IF u = t THEN "done" ELSE call[u].at
      BY <1>1, <2>1 DEF Goto, Call
    <3>3. s # c.sem
      BY <2>1, <3>2 DEF Asleep
    <3>4. WillWake(s)
      BY <1>2, <3>2
    <3> QED
      BY <3>1, <3>2, <3>3, <3>4 DEF WillWake
  <2>2. ASSUME NEW y \in Asleep(c.sem), call' = [call EXCEPT ![t].at = "done", ![y].at = "load"]
        PROVE  WillWake(s)'
    <3>1. c.at = "wake" /\ UNCHANGED word /\ y \in Thread /\ y # t /\ call[y].at = "asleep"
          /\ call[y].sem = c.sem
      BY <1>6, <2>2 DEF Wake, Asleep
    <3>2. call' = [v \in Thread |-> IF v = t THEN [call[v] EXCEPT !.at = "done"]
                                    ELSE IF v = y THEN [call[v] EXCEPT !.at = "load"]
                                    ELSE call[v]]
      BY <1>1, <2>2, <3>1
    <3>3. \A v \in Thread : /\ call'[v].sem = call[v].sem
                            /\ call'[v].at = IF v = t THEN "done" ELSE IF v = y THEN "load" ELSE call[v].at
      BY <1>1, <3>2 DEF Call
    <3>4. z # t /\ z # y /\ call[z].at = "asleep" /\ call[z].sem = s
      BY <3>3
    <3>5. s # c.sem
      <4>1. InCall(t) /\ InCall(y) /\ InCall(z)
        BY <3>1, <3>4 DEF InCall
      <4> QED
        BY <3>1, <3>4, <4>1, TwoUsers
    <3>6. WillWake(s)
      BY <1>2, <3>4
    <3> QED
      BY <3>1, <3>3, <3>5, <3>6 DEF WillWake
  <2> QED
    BY <1>6, <2>1, <2>2 DEF Wake
<1>7. CASE Swap(t)
  <2>1. CASE word[c.sem] # c.cur
    BY <1>3, <1>7, <2>1 DEF Swap, At
  <2>2. CASE word[c.sem] = c.cur
    <3> DEFINE at == IF c.cur.waiter THEN "wake" ELSE "done"
    <3>1. /\ c.at = "swap" /\ Goto(t, at)
          /\ word' = [word EXCEPT ![c.sem] = [amount |-> After(c, c.cur), waiter |-> FALSE]]
      BY <1>7, <2>2 DEF Swap
    <3>2. \A u \in Thread : /\ call'[u].sem = call[u].sem
                            /\ call'[u].at = IF u = t THEN at ELSE call[u].at
      BY <1>1, <3>1 DEF Goto, Call
    <3>3. WillWake(s)
      BY <1>2, <3>2
    <3>4. CASE s = c.sem /\ c.cur.waiter
      BY <3>2, <3>4 DEF WillWake
    <3>5. CASE s = c.sem /\ ~c.cur.waiter
      BY <2>2, <3>1, <3>2, <3>3, <3>5 DEF WillWake
    <3>6. CASE s # c.sem
      <4>1. word'[s] = word[s]
        BY <1>1, <3>1, <3>6
      <4> QED
        BY <3>1, <3>2, <3>3, <4>1 DEF WillWake
    <3> QED
      BY <3>4, <3>5, <3>6
  <2> QED
    BY <2>1, <2>2
<1>8. CASE Mark(t)
  <2>1. CASE word[c.sem] # c.cur
    BY <1>3, <1>8, <2>1 DEF Mark, At
  <2>2. CASE word[c.sem] = c.cur
    <3> DEFINE x == [c EXCEPT !.cur = [c.cur EXCEPT !.waiter = TRUE], !.at = "wait"]
    <3>1. /\ c.at = "mark" /\ call' = [call EXCEPT ![t] = x]
          /\ word' = [word EXCEPT ![c.sem] = [word[c.sem] EXCEPT !.waiter = TRUE]]
      BY <1>8, <2>2 DEF Mark
    <3>2. x.at = "wait" /\ x.sem = c.sem
      BY <1>1 DEF Call
    <3> HIDE DEF x
    <3>3. \A u \in Thread : /\ call'[u].sem = call[u].sem
                            /\ (u # t => call'[u].at = call[u].at)
                            /\ (u = t => call'[u].at = "wait")
      BY <1>1, <3>1, <3>2
    <3>4. WillWake(s)
      BY <1>2, <3>3
    <3>5. word[s].waiter => word'[s].waiter
      BY <1>1, <3>1 DEF Word
    <3> QED
      BY <3>1, <3>3, <3>4, <3>5 DEF WillWake
  <2> QED
    BY <2>1, <2>2
<1>9. CASE Disturb(t)
  BY <1>3, <1>9 DEF Disturb, Weak, Interrupted, At
<1>10. CASE TimedOut(t)
  BY <1>3, <1>10 DEF TimedOut, At
<1> QED
  BY <1>4, <1>5, <1>6, <1>7, <1>8, <1>9, <1>10 DEF SemStep, Proceed

(* ... and neither does a thread that enters a call, when it was in none.  *)
LEMMA EntryWakes ==
    ASSUME UNCHANGED word, \A u \in Thread : call'[u] # call[u] => ~InCall(u) /\ call'[u].at = "load",
           \A s \in Sem : Asleep(s) # {} => WillWake(s)
    PROVE  \A s \in Sem : Asleep(s)' # {} => WillWake(s)'
<1> SUFFICES ASSUME NEW s \in Sem, NEW z \in Thread, call'[z].at = "asleep", call'[z].sem = s
             PROVE  WillWake(s)'
  BY DEF Asleep
<1>1. call'[z] = call[z]
  OBVIOUS
<1>2. WillWake(s)
  BY <1>1 DEF Asleep
<1>3. \A u \in Thread : call[u].at = "wake" => call'[u] = call[u]
  BY DEF InCall
<1> QED
  BY <1>2, <1>3 DEF WillWake

(* No wake-up is lost: while no child has died, a thread asleep in a       *)
(* semaphore has the WAITER bit set for it or another thread about to wake *)
(* it (WakeComes).                                                         *)
THEOREM WakeUpsCome == Spec => []WakeComes
<1>1. Init => WakeComes
  BY NoCallCall DEF Init, WakeComes, Asleep
<1>2. ProcessType /\ SemInv /\ Delivery /\ WakeComes /\ [Next]_vars => WakeComes'
  <2> SUFFICES ASSUME ProcessType, SemInv, Delivery, WakeComes, [Next]_vars, dead' = {}
               PROVE  \A s \in Sem : Asleep(s)' # {} => WillWake(s)'
    BY DEF WakeComes, WillWake
  <2>1. /\ Calls /\ Parent \in Thread /\ call \in [Thread -> Call]
        /\ \A p \in Proc : p \in Thread /\ p # Parent
    BY Cast DEF Delivery, ProcessType, SemType
  <2>2. ASSUME dead = {} PROVE \A s \in Sem : Asleep(s) # {} => WillWake(s)
    BY <2>2 DEF WakeComes, WillWake
  <2>3. ASSUME NEW u \in Thread, NEW op, NEW s, NEW timed, NEW to, NEW point,
               Reached(u, point), Enter(u, op, s, timed, to), dead = {}
        PROVE  \A r \in Sem : Asleep(r)' # {} => WillWake(r)'
    <3>1. /\ UNCHANGED word /\ ~InCall(u) /\ Entered(op, s, timed).at = "load"
          /\ call' = [call EXCEPT ![u] = Entered(op, s, timed)]
      BY <2>3 DEF Enter, Reached, Entered
    <3>2. \A v \in Thread : call'[v] # call[v] => ~InCall(v) /\ call'[v].at = "load"
      BY <2>1, <3>1
    <3> QED
      BY <2>2, <2>3, <3>1, <3>2, EntryWakes
  <2>4. ASSUME UNCHANGED semVars, dead = {}
        PROVE  \A s \in Sem : Asleep(s)' # {} => WillWake(s)'
    BY <2>2, <2>4 DEF semVars, Asleep, WillWake
  <2>5. CASE ParentStep
    <3>1. CASE Create
      <4>1. ~InCall(Parent) /\ ~InCall(i) /\ i \in Proc
        <5>1. pc[Parent] = "create" /\ ~InCall(Parent) /\ i \in Proc
          BY <3>1 DEF Create, Reached, ProcessType
        <5>2. Uncreated(i)
          BY <5>1, Cast DEF Uncreated
        <5>3. pc[i] = "unborn"
          BY <5>1, <5>2 DEF Delivery, Handshake
        <5> QED
          BY <2>1, <5>1, <5>3 DEF Calls
      <4>2. /\ call' = [call EXCEPT ![Parent] = Entered("consume", ready(i), TRUE),
                                    ![i] = Entered("produce", ready(i), FALSE)]
            /\ UNCHANGED <<word, dead>>
        BY <3>1 DEF Create, contextVars
      <4>3. Entered("consume", ready(i), TRUE).at = "load" /\ Entered("produce", ready(i), FALSE).at = "load"
        BY DEF Entered
      <4>4. \A v \in Thread : call'[v] # call[v] => ~InCall(v) /\ call'[v].at = "load"
        BY <2>1, <4>1, <4>2, <4>3
      <4> QED
        BY <2>2, <4>2, <4>4, EntryWakes
    <3>2. CASE BeginRound
      BY <2>4, <3>2 DEF BeginRound, Move
    <3>3. CASE StoreIters
      BY <2>1, <2>3, <3>3 DEF StoreIters, contextVars
    <3>4. CASE Started
      BY <2>1, <2>3, <2>4, <3>4 DEF Started, Move
    <3>5. CASE Waited
      <4>1. dead = {} /\ Reached(Parent, "waiting")
        BY <3>5 DEF Waited, WaitOk
      <4>2. \/ Move(Parent, "round") \/ Move(Parent, "create")
            \/ Enter(Parent, "consume", ready(i + 1), TRUE, "waiting")
        BY <3>5 DEF Waited, WaitOk
      <4> QED
        BY <2>1, <2>3, <2>4, <4>1, <4>2 DEF Move
    <3>6. CASE Probe
      BY <2>1, <2>3, <2>4, <3>6 DEF Probe, Move, contextVars
    <3>7. CASE Drop
      BY <3>7, Cast DEF Drop
    <3> QED
      BY <2>5, <3>1, <3>2, <3>3, <3>4, <3>5, <3>6, <3>7 DEF ParentStep
  <2>6. ASSUME NEW p \in Proc, ChildStep(p) PROVE \A s \in Sem : Asleep(s)' # {} => WillWake(s)'
    <3>1. dead = {}
      BY <2>6 DEF ChildStep, Await, TakeIters, Iterate, Catch, Caught, Finished, contextVars
    <3>2. \/ UNCHANGED semVars
          \/ \E op, s, to, point : Reached(p, point) /\ Enter(p, op, s, FALSE, to)
      BY <2>6 DEF ChildStep, Await, TakeIters, Iterate, Catch, Caught, Finished, Move
    <3> QED
      BY <2>1, <2>3, <2>4, <3>1, <3>2
  <2>7. ASSUME NEW p \in Proc, Die(p) PROVE FALSE
    BY <2>7 DEF Die
  <2>8. ASSUME NEW t \in Thread, SemStep(t), UNCHANGED Outside
        PROVE  \A s \in Sem : Asleep(s)' # {} => WillWake(s)'
    <3>1. dead = {}
      BY <2>8 DEF Outside, contextVars
    <3> QED
      BY <2>1, <2>2, <2>8, <3>1, SemaphoreWakes
  <2>9. CASE UNCHANGED vars
    BY <2>4, <2>9 DEF vars, contextVars
  <2> QED
    BY <2>5, <2>6, <2>7, <2>8, <2>9 DEF Next, SemStep
<1> QED
  BY <1>1, <1>2, DeliveryHolds, PTL DEF Spec

=============================================================================
