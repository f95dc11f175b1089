----------------------------- MODULE SendBuffer -----------------------------
(***************************************************************************)
(* The send buffers of tcp_send_buffer.c and their manager.  A stream      *)
(* takes a buffer with its first write (SBInit), appends what the          *)
(* application writes (SBPut, under the stream's write_lock), drops what   *)
(* the peer has acknowledged (SBRemove, same lock) and gives the buffer    *)
(* back when it is destroyed (SBFree).  The bytes lie contiguously in a    *)
(* chunk of `size` bytes, from head_off up to tail_off, so that the stack  *)
(* can send any part of them from one address.                             *)
(*                                                                         *)
(* The k-th byte a stream writes (from 0) is represented by the number k,  *)
(* so a cell shows which byte of the stream it holds.  Sequence numbers    *)
(* wrap at SeqSpace (2^32 in the code).                                      *)
(***************************************************************************)
EXTENDS Integers, Sequences, FiniteSets

CONSTANTS
  Bufs,        \* the structs tcp_send_buffer with a chunk of sbm->mp
  Size,        \* sbm->chunk_size
  CNum,        \* sbm->cnum, the places of freeq and the chunks of the pool
  SeqSpace,      \* the number of sequence numbers
  InitSeqs,    \* iss + 1 of the streams that come and go
  Junk,        \* what an unwritten chunk may hold
  MaxWritten   \* bound on cum_len, for model checking

ASSUME BufferAssumption ==
  /\ Size \in Nat \ {0} /\ SeqSpace \in Nat \ {0} /\ MaxWritten \in Nat
  /\ InitSeqs \subseteq 0..(SeqSpace - 1) /\ CNum \in Nat /\ Junk \subseteq Nat

VARIABLES
  data, head_off, tail_off, len, cum_len, head_seq, init_seq,
  freeq,       \* sbm->freeq
  inuse,       \* the buffers that are some stream's sndbuf
  cur_num      \* sbm->cur_num

fields == <<data, head_off, tail_off, len, cum_len, head_seq, init_seq>>
vars == <<fields, freeq, inuse, cur_num>>

Min(a, b) == IF a < b THEN a ELSE b
Cell == 0..(Size - 1)

\* SBManagerCreate(): no buffer yet; the pool's chunks are not cleared.
Init ==
  /\ data \in [Bufs -> [Cell -> Junk]]
  /\ head_off = [b \in Bufs |-> 0] /\ tail_off = [b \in Bufs |-> 0]
  /\ len = [b \in Bufs |-> 0] /\ cum_len = [b \in Bufs |-> 0]
  /\ head_seq = [b \in Bufs |-> 0] /\ init_seq = [b \in Bufs |-> 0]
  /\ freeq = <<>> /\ inuse = {} /\ cur_num = 0

\* SBInit(): where the buffer comes from: freeq first, else a chunk of the
\* pool that no buffer has.
Created == inuse \cup {freeq[i] : i \in 1..Len(freeq)}
TakeCounted(b) ==
  freeq # <<>> /\ b = Head(freeq) /\ freeq' = Tail(freeq) /\ cur_num' = cur_num + 1
TakeFreed(b) == freeq # <<>> /\ b = Head(freeq) /\ freeq' = Tail(freeq) /\ UNCHANGED cur_num
TakeNew(b) ==
  /\ freeq = <<>> /\ b \notin Created /\ cur_num < CNum
  /\ cur_num' = cur_num + 1 /\ UNCHANGED freeq

\* SBInit(): every field is reset; the bytes of the last owner stay in data.
Reset(b, seq) ==
  /\ head_off' = [head_off EXCEPT ![b] = 0]
  /\ tail_off' = [tail_off EXCEPT ![b] = 0]
  /\ len' = [len EXCEPT ![b] = 0] /\ cum_len' = [cum_len EXCEPT ![b] = 0]
  /\ head_seq' = [head_seq EXCEPT ![b] = seq]
  /\ init_seq' = [init_seq EXCEPT ![b] = seq]
  /\ UNCHANGED data

SBInit(b, seq) ==
  /\ TakeFreed(b) \/ TakeNew(b)
  /\ inuse' = inuse \cup {b}
  /\ Reset(b, seq)

\* SBFree(): the result of SBEnqueue() is ignored.
FreeKept(b) ==
  /\ b \in inuse /\ Len(freeq) < CNum /\ freeq' = Append(freeq, b)
  /\ UNCHANGED <<fields, inuse, cur_num>>
SBFree(b) ==
  /\ b \in inuse /\ inuse' = inuse \ {b}
  /\ freeq' = IF Len(freeq) < CNum THEN Append(freeq, b) ELSE freeq
  /\ UNCHANGED <<fields, cur_num>>

\* memcpy(): n new bytes of the stream from cell `at` on.
WithNew(d, b, at, n) ==
  [c \in Cell |-> IF at <= c /\ c < at + n THEN cum_len[b] + (c - at) ELSE d[c]]
\* memmove(): the buffered bytes to the start of the chunk.
Moved(b) ==
  [c \in Cell |-> IF c < len[b] THEN data[b][head_off[b] + c] ELSE data[b][c]]

\* SBPut(): the data fits behind the tail ...
PutFits(b, n) ==
  /\ tail_off[b] + n < Size
  /\ data' = [data EXCEPT ![b] = WithNew(data[b], b, tail_off[b], n)]
  /\ tail_off' = [tail_off EXCEPT ![b] = @ + n]
  /\ UNCHANGED head_off
\* ... or the payload is moved to the front first.
PutUnmoved(b, n) ==
  /\ tail_off[b] + n >= Size
  /\ data' = [data EXCEPT ![b] = WithNew(data[b], b, len[b], n)]
  /\ head_off' = [head_off EXCEPT ![b] = 0]
  /\ tail_off' = [tail_off EXCEPT ![b] = len[b] + n]
PutMoves(b, n) ==
  /\ tail_off[b] + n >= Size
  /\ data' = [data EXCEPT ![b] = WithNew(Moved(b), b, len[b], n)]
  /\ head_off' = [head_off EXCEPT ![b] = 0]
  /\ tail_off' = [tail_off EXCEPT ![b] = len[b] + n]

ToPutAny(b, want) == Min(want, Size)
ToPut(b, want) == Min(want, Size - len[b])

SBPut(b, want) ==
  LET n == ToPut(b, want) IN
  /\ b \in inuse /\ n > 0 /\ cum_len[b] + n <= MaxWritten
  /\ PutFits(b, n) \/ PutMoves(b, n)
  /\ len' = [len EXCEPT ![b] = @ + n]
  /\ cum_len' = [cum_len EXCEPT ![b] = @ + n]
  /\ UNCHANGED <<head_seq, init_seq, freeq, inuse, cur_num>>

\* SBRemove(): the head moves on; an empty buffer starts at 0 again.
SeqNoWrap(seq, n) == seq + n
SeqAdd(seq, n) == (seq + n) % SeqSpace
SBRemove(b, want) ==
  LET n == Min(want, len[b])
      empty == n = len[b] IN
  /\ b \in inuse /\ n > 0
  /\ len' = [len EXCEPT ![b] = @ - n]
  /\ head_off' = [head_off EXCEPT ![b] = IF empty THEN 0 ELSE @ + n]
  /\ tail_off' = [tail_off EXCEPT ![b] = IF empty THEN 0 ELSE @]
  /\ head_seq' = [head_seq EXCEPT ![b] = SeqAdd(@, n)]
  /\ UNCHANGED <<data, cum_len, init_seq, freeq, inuse, cur_num>>

Next == \E b \in Bufs :
  \/ \E seq \in InitSeqs : SBInit(b, seq)
  \/ SBFree(b)
  \/ \E want \in 1..(Size + 1) : SBPut(b, want) \/ SBRemove(b, want)

Spec == Init /\ [][Next]_vars

-----------------------------------------------------------------------------

\* Type invariant: offsets and counts are natural numbers, cells hold bytes.
TypeOK ==
  /\ data \in [Bufs -> [Cell -> Nat]]
  /\ head_off \in [Bufs -> Nat] /\ tail_off \in [Bufs -> Nat]
  /\ len \in [Bufs -> Nat] /\ cum_len \in [Bufs -> Nat]
  /\ head_seq \in [Bufs -> 0..(SeqSpace - 1)]
  /\ init_seq \in [Bufs -> 0..(SeqSpace - 1)]
  /\ freeq \in Seq(Bufs) /\ inuse \subseteq Bufs /\ cur_num \in Nat

\* Every buffer in use keeps inside its chunk, whatever was put, moved and
\* removed before: no memcpy() or memmove() leaves it.
InChunk == \A b \in inuse :
  tail_off[b] = head_off[b] + len[b] /\ tail_off[b] <= Size

\* The byte the stack finds at the address it computes from a sequence number
\* (head + (seq - head_seq), FlushTCPSendingBuffer()) is the byte the stream
\* wrote with that sequence number: the first bytes not yet acknowledged are
\* buffered, each once and in order, and head_seq is the first one's number.
HoldsTheStream == \A b \in inuse :
  /\ len[b] <= cum_len[b]
  /\ head_seq[b] = (init_seq[b] + (cum_len[b] - len[b])) % SeqSpace
  /\ \A i \in 0..(len[b] - 1) : data[b][head_off[b] + i] = cum_len[b] - len[b] + i

\* No buffer is in two places at once: freeq holds each buffer at most once
\* and none that a stream still has.
NotShared ==
  /\ \A i, j \in 1..Len(freeq) : freeq[i] = freeq[j] => i = j
  /\ \A i \in 1..Len(freeq) : freeq[i] \notin inuse

\* The ignored result of SBEnqueue() in SBFree() never loses a buffer: all
\* that were created are in use or in freeq.
NoneLost == cur_num = Cardinality(Created)

\* What FlushTCPSendingBuffer() reads: inside the chunk, and the stream's own bytes.
StreamKept == InChunk /\ HoldsTheStream

\* What the pool of buffers promises: none is shared and none is lost.
BuffersKept == NotShared /\ NoneLost
=============================================================================
