----------------------------- MODULE StreamFifo -----------------------------
(***************************************************************************)
(* What mTCP's stream queues promise: a bounded first-in first-out queue   *)
(* whose operations take effect at one instant and report what they did.   *)
(***************************************************************************)
EXTENDS Integers, Sequences

CONSTANTS Stream, NoStream, Cap
VARIABLES fifo,   \* what is in the queue, oldest first
          eret,   \* result of the last enqueue: 0 or -1
          dret    \* result of the last dequeue: a stream or NoStream

Init == fifo = <<>> /\ eret = 0 /\ dret = NoStream

Put(s) ==
  /\ Len(fifo) < Cap
  /\ fifo' = Append(fifo, s) /\ eret' = 0 /\ UNCHANGED dret

\* Refused only when the queue is full at that instant.
Full == Len(fifo) = Cap /\ eret' = -1 /\ UNCHANGED <<fifo, dret>>

Take ==
  /\ fifo # <<>>
  /\ dret' = Head(fifo) /\ fifo' = Tail(fifo) /\ UNCHANGED eret

\* NULL only when the queue is empty at that instant.
Empty == fifo = <<>> /\ dret' = NoStream /\ UNCHANGED <<fifo, eret>>

Next == (\E s \in Stream : Put(s)) \/ Full \/ Take \/ Empty

Spec == Init /\ [][Next]_<<fifo, eret, dret>>
=============================================================================
