---------------------------- MODULE StreamQueue -----------------------------
(***************************************************************************)
(* The lock-free ring of tcp_stream_queue.c by which an application thread *)
(* hands streams to its stack thread (connectq, sendq, ackq, closeq ...),  *)
(* and the stack thread accepted connections to the application (acceptq). *)
(* One thread enqueues at a time (applications hold the queue's lock) and  *)
(* one dequeues; the two share _head, _tail and _q.                        *)
(*                                                                         *)
(* Each access to what the other thread writes is a step.  Stores are seen *)
(* in program order: StreamMemoryBarrier() stops the compiler, and the x86 *)
(* processors mTCP runs on keep the order of stores and of loads.          *)
(***************************************************************************)
EXTENDS Integers, Sequences

CONSTANTS Stream, NoStream, Cap      \* Cap: sq->_capacity

ASSUME QueueAssumption == Cap \in Nat \ {0} /\ NoStream \notin Stream

Index == 0..Cap

VARIABLES
  q, head, tail,         \* sq->_q, sq->_head, sq->_tail
  ppc, pt, pstream,      \* StreamEnqueue(): where it is, t and stream
  cpc, ch, cstream,      \* StreamDequeue(): where it is, h and stream
  eret, dret             \* the last results

prodVars == <<ppc, pt, pstream, eret>>
consVars == <<cpc, ch, cstream, dret>>
vars == <<q, head, tail, prodVars, consVars>>

\* CreateStreamQueue(): capacity + 1 slots, all NULL.
Init ==
  /\ q = [i \in Index |-> NoStream] /\ head = 0 /\ tail = 0
  /\ ppc = "idle" /\ pt = 0 /\ pstream = NoStream /\ eret = 0
  /\ cpc = "idle" /\ ch = 0 /\ cstream = NoStream /\ dret = NoStream

WrapLate(i) == IF i # Cap + 1 THEN i + 1 ELSE 0
NextIndex(i) == IF i # Cap THEN i + 1 ELSE 0

\* nt != h: one slot stays free, or a full ring would look empty.
AnyRoom(t) == TRUE
HasRoom(t) == NextIndex(t) # head

\* StreamEnqueue(): h, t and nt are read; a full queue is refused ...
EnqLoad(s) ==
  /\ ppc = "idle" /\ HasRoom(tail)
  /\ ppc' = "store" /\ pt' = tail /\ pstream' = s
  /\ UNCHANGED <<q, head, tail, eret, consVars>>

EnqFull ==
  /\ ppc = "idle" /\ ~HasRoom(tail) /\ eret' = -1
  /\ UNCHANGED <<q, head, tail, ppc, pt, pstream, consVars>>

\* ... the slot is written, then the tail.
EnqStore ==
  /\ ppc = "store" /\ ppc' = "publish"
  /\ q' = [q EXCEPT ![pt] = pstream]
  /\ UNCHANGED <<head, tail, pt, pstream, eret, consVars>>

PublishFirst ==
  /\ tail' = NextIndex(pt)
  /\ \/ ppc = "publish" /\ ppc' = "idle" /\ eret' = 0
     \/ ppc = "store" /\ UNCHANGED <<ppc, eret>>
  /\ UNCHANGED <<q, head, pt, pstream, consVars>>
EnqPublish ==
  /\ ppc = "publish" /\ ppc' = "idle"
  /\ tail' = NextIndex(pt) /\ eret' = 0
  /\ UNCHANGED <<q, head, pt, pstream, consVars>>

\* StreamDequeue(): h and t are read; an empty queue gives NULL ...
DeqLoad ==
  /\ cpc = "idle" /\ head # tail
  /\ cpc' = "read" /\ ch' = head
  /\ UNCHANGED <<q, head, tail, cstream, dret, prodVars>>

DeqEmpty ==
  /\ cpc = "idle" /\ head = tail /\ dret' = NoStream
  /\ UNCHANGED <<q, head, tail, cpc, ch, cstream, prodVars>>

\* ... the slot is read, then the head moves on and the stream is returned.
DeqRead ==
  /\ cpc = "read" /\ cpc' = "advance" /\ cstream' = q[ch]
  /\ UNCHANGED <<q, head, tail, ch, dret, prodVars>>

DeqAdvance ==
  /\ cpc = "advance" /\ cpc' = "idle"
  /\ head' = NextIndex(ch) /\ dret' = cstream
  /\ UNCHANGED <<q, tail, ch, cstream, prodVars>>

Enqueue == (\E s \in Stream : EnqLoad(s)) \/ EnqFull \/ EnqStore \/ EnqPublish
Dequeue == DeqLoad \/ DeqEmpty \/ DeqRead \/ DeqAdvance

Next == Enqueue \/ Dequeue

Spec == Init /\ [][Next]_vars

-----------------------------------------------------------------------------

\* Type invariant of the ring and of the locals of both threads.
TypeOK ==
  /\ q \in [Index -> Stream \cup {NoStream}]
  /\ head \in Index /\ tail \in Index
  /\ ppc \in {"idle", "store", "publish"} /\ pt \in Index
  /\ pstream \in Stream \cup {NoStream} /\ eret \in {0, -1}
  /\ cpc \in {"idle", "read", "advance"} /\ ch \in Index
  /\ cstream \in Stream \cup {NoStream} /\ dret \in Stream \cup {NoStream}

\* assert(stream) in StreamDequeue() never fails: the slot that is read was
\* written before the tail went past it, and has not been written again.
StreamNotNull == cpc = "advance" => cstream \in Stream /\ cstream = q[head]

\* The streams between head and tail, oldest first.
Size == IF head <= tail THEN tail - head ELSE tail + Cap + 1 - head
Slot(i) == IF head + i - 1 <= Cap THEN head + i - 1 ELSE head + i - Cap - 2
Contents == [i \in 1..Size |-> q[Slot(i)]]

Fifo == INSTANCE StreamFifo WITH fifo <- Contents

\* The ring implements the queue: what is dequeued is what was enqueued, once
\* and in order, and full or empty is reported only when it is so.
IsFifo == Fifo!Spec
=============================================================================
