----------------------------- MODULE WorkQueue -----------------------------
(***************************************************************************)
(* What the hand-off between the listening thread and the worker threads   *)
(* of example/util/simple_server.c promises: a bounded first-in first-out  *)
(* queue of accepted sockets.  SimpleServer is shown to implement it.      *)
(***************************************************************************)
EXTENDS Naturals, Sequences

CONSTANTS
    Capacity,   \* how many sockets may wait
    Sockets     \* the accepted sockets

VARIABLES
    queued,     \* the sockets that wait, oldest first
    taken       \* every socket a worker has taken, in the order of taking

vars == <<queued, taken>>

Init ==
    /\ queued = <<>>
    /\ taken = <<>>

Put(s) ==
    /\ Len(queued) < Capacity
    /\ queued' = Append(queued, s)
    /\ UNCHANGED taken

Take ==
    /\ queued # <<>>
    /\ taken' = Append(taken, Head(queued))
    /\ queued' = Tail(queued)

Next ==
    \/ \E s \in Sockets : Put(s)
    \/ Take

Spec == Init /\ [][Next]_vars
=============================================================================
