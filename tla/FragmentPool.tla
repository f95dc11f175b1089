---------------------------- MODULE FragmentPool ----------------------------
(***************************************************************************)
(* Where the fragment contexts of the receive buffers come from and go to  *)
(* (tcp_ring_buffer.c), with the memory pool they are cut from             *)
(* (memory_mgt.c).  The stack thread allocates a context with every        *)
(* segment and frees it when it merges; a context whose bytes have been    *)
(* read goes into one of two queues, one for each thread.  The queues are  *)
(* the ring of StreamQueue (tcp_rb_frag_queue.c has the same code), so     *)
(* enqueue and dequeue are single steps here.                              *)
(*                                                                         *)
(* A context is its address: 0..CNum-1 in the pool, above that from        *)
(* calloc().                                                               *)
(***************************************************************************)
EXTENDS Integers, Sequences, FiniteSets

CONSTANTS
  CNum,        \* rbm->cnum: chunks of frag_mp, and places of each queue
  MaxCalloc    \* bound on the contexts that come from calloc()

\* What the constants must satisfy; the modules that instantiate this one assume it.
PoolAssumption == CNum \in Nat \ {0} /\ MaxCalloc \in Nat

Null == -1
Own == 0..(CNum - 1)
Addr == 0..(CNum + MaxCalloc - 1)

VARIABLES
  freeptr, free_chunks,      \* mp_freeptr, mp_free_chunks
  mc_free, mc_next,          \* of the chunk at the head of a run of free ones
  fragq, fragq_int,          \* rbm->free_fragq, rbm->free_fragq_int
  is_calloc,                 \* the field of each context
  lists,                     \* the contexts in the lists of the buffers
  heap                       \* the blocks calloc() has given and not got back

pool == <<freeptr, free_chunks, mc_free, mc_next>>
vars == <<pool, fragq, fragq_int, is_calloc, lists, heap>>

\* RBManagerCreate(), MPCreate(): one run of free chunks.
Init ==
  /\ freeptr = 0 /\ free_chunks = CNum
  /\ mc_free = [a \in Addr |-> IF a = 0 THEN CNum ELSE 0]
  /\ mc_next = [a \in Addr |-> Null]
  /\ fragq = <<>> /\ fragq_int = <<>>
  /\ is_calloc = [a \in Addr |-> FALSE] /\ lists = {} /\ heap = {}

\* MPAllocateChunk(): the rest of the run moves one chunk to the right.
TakesFirst(p) ==
  IF mc_free[p] > 1
  THEN /\ freeptr' = p + 1
       /\ mc_free' = [mc_free EXCEPT ![p] = @ - 1, ![p + 1] = mc_free[p] - 1]
       /\ mc_next' = [mc_next EXCEPT ![p + 1] = mc_next[p]]
  ELSE /\ freeptr' = mc_next[p]
       /\ mc_free' = [mc_free EXCEPT ![p] = 0] /\ UNCHANGED mc_next

AllocateUncounted(a) ==
  /\ free_chunks # 0 /\ a = freeptr
  /\ UNCHANGED free_chunks
  /\ TakesFirst(a)
MPAllocateChunk(a) ==
  /\ free_chunks # 0 /\ a = freeptr
  /\ free_chunks' = free_chunks - 1
  /\ TakesFirst(a)

\* MPFreeChunk(): a run of one chunk in front of the others.
FreeUncounted(a) ==
  /\ mc_free' = [mc_free EXCEPT ![a] = 1]
  /\ mc_next' = [mc_next EXCEPT ![a] = freeptr]
  /\ freeptr' = a /\ UNCHANGED free_chunks
FreeUnlinked(a) ==
  /\ mc_free' = [mc_free EXCEPT ![a] = 1]
  /\ mc_next' = [mc_next EXCEPT ![a] = Null]
  /\ freeptr' = a /\ free_chunks' = free_chunks + 1
MPFreeChunk(a) ==
  /\ mc_free' = [mc_free EXCEPT ![a] = 1]
  /\ mc_next' = [mc_next EXCEPT ![a] = freeptr]
  /\ freeptr' = a /\ free_chunks' = free_chunks + 1

\* AllocateFragmentContext(), in the stack thread: the two queues, the pool,
\* calloc().  The memset() that follows clears the mark is_calloc again.
FromQueue(a) ==
  \/ fragq # <<>> /\ a = Head(fragq) /\ fragq' = Tail(fragq)
     /\ UNCHANGED <<fragq_int, pool, heap>>
  \/ fragq = <<>> /\ fragq_int # <<>> /\ a = Head(fragq_int)
     /\ fragq_int' = Tail(fragq_int) /\ UNCHANGED <<fragq, pool, heap>>
FromPool(a) ==
  /\ fragq = <<>> /\ fragq_int = <<>>
  /\ MPAllocateChunk(a) /\ UNCHANGED <<fragq, fragq_int, heap>>
FromHeap(a) ==
  /\ fragq = <<>> /\ fragq_int = <<>> /\ free_chunks = 0
  /\ a = CNum + Cardinality(heap) /\ a \in Addr
  /\ heap' = heap \cup {a} /\ UNCHANGED <<fragq, fragq_int, pool>>

AllocateFragmentContext(a) ==
  /\ FromQueue(a) \/ FromPool(a) \/ FromHeap(a)
  /\ is_calloc' = [is_calloc EXCEPT ![a] = FALSE]
  /\ lists' = lists \cup {a}

\* FreeFragmentContextSingle(), in the stack thread.
FreeFragmentContextSingle(a) ==
  /\ a \in lists /\ lists' = lists \ {a}
  /\ IF is_calloc[a] THEN heap' = heap \ {a} /\ UNCHANGED pool
     ELSE MPFreeChunk(a) /\ UNCHANGED heap
  /\ UNCHANGED <<fragq, fragq_int, is_calloc>>

\* RBFragEnqueue(): a full queue refuses, and RBRemove() does not look.
Enqueue(q, a) == IF Len(q) < CNum THEN Append(q, a) ELSE q

\* RBRemove() with AT_APP, in the application thread, and with AT_MTCP.
RemoveKeepsList(a) ==
  /\ a \in lists /\ fragq' = Enqueue(fragq, a)
  /\ UNCHANGED <<lists, fragq_int, pool, is_calloc, heap>>
RemoveAtApp(a) ==
  /\ a \in lists /\ lists' = lists \ {a}
  /\ fragq' = Enqueue(fragq, a)
  /\ UNCHANGED <<fragq_int, pool, is_calloc, heap>>
RemoveAtMtcp(a) ==
  /\ a \in lists /\ lists' = lists \ {a}
  /\ fragq_int' = Enqueue(fragq_int, a)
  /\ UNCHANGED <<fragq, pool, is_calloc, heap>>

Next == \E a \in Addr :
  \/ AllocateFragmentContext(a) \/ FreeFragmentContextSingle(a)
  \/ RemoveAtApp(a) \/ RemoveAtMtcp(a)

Spec == Init /\ [][Next]_vars

-----------------------------------------------------------------------------

\* Type invariant.
TypeOK ==
  /\ freeptr \in Addr \cup {Null} /\ free_chunks \in 0..Cardinality(Addr)
  /\ mc_free \in [Addr -> 0..CNum] /\ mc_next \in [Addr -> Addr \cup {Null}]
  /\ fragq \in Seq(Addr) /\ fragq_int \in Seq(Addr)
  /\ is_calloc \in [Addr -> BOOLEAN] /\ lists \subseteq Addr /\ heap \subseteq Addr \ Own

\* The chunks of the runs that start at p, in the order they will be given.
Chunks[n \in 0..Cardinality(Addr), p \in Addr \cup {Null}] ==
  IF n = 0 \/ p = Null THEN <<>>
  ELSE [i \in 1..mc_free[p] |-> p + i - 1] \o Chunks[n - 1, mc_next[p]]
FreeChunks == Chunks[Cardinality(Addr), freeptr]

\* All the places where a context can lie, one after the other.
Places == FreeChunks \o fragq \o fragq_int
OnceIn(s) == \A i, j \in 1..Len(s) : s[i] = s[j] => i = j

\* No fragment is used twice: a context in a buffer's list is in no queue and
\* not free, and no context is free or queued twice, although two threads give
\* contexts back in three ways.
NotTwice == OnceIn(Places) /\ \A i \in 1..Len(Places) : Places[i] \notin lists

\* The counter the pool decides by agrees with its runs: MPAllocateChunk()
\* neither follows a NULL mp_freeptr nor reports an empty pool too early.
CountsFree == Len(FreeChunks) = free_chunks

\* Unless calloc() had to help out, no context is ever lost: neither queue
\* overflows, although RBRemove() would ignore it.
NoneLost == heap = {} => {Places[i] : i \in 1..Len(Places)} \cup lists = Own

\* What is_calloc is for ("mark it as allocated by calloc"): a context from
\* calloc() goes back to free(), not into the pool it was not cut from.
PoolHasOwn == \A i \in 1..Len(FreeChunks) : FreeChunks[i] \in Own
=============================================================================
