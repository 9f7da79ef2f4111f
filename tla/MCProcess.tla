----------------------------- MODULE MCProcess -----------------------------
(* Two processes; every semaphore of theirs has a maximum of one.          *)
EXTENDS Process

Threads == {Parent} \cup Proc
OneEach == [s \in Semaphores |-> 1]

=============================================================================
