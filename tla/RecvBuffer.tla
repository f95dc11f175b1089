----------------------------- MODULE RecvBuffer -----------------------------
(***************************************************************************)
(* The receive buffer of a stream (tcp_ring_buffer.c) with the two places  *)
(* that use it: ProcessTCPPayload() in the stack puts segments in, in any  *)
(* order and with any overlap, CopyToUser() in the application takes the   *)
(* contiguous bytes out.  Both hold the stream's read_lock, so each is one *)
(* step.                                                                   *)
(*                                                                         *)
(* The k-th byte of the peer's stream (from 0) is the number k; its        *)
(* sequence number is init_seq + k, modulo SeqSpace (2^32 in the code).      *)
(***************************************************************************)
EXTENDS Integers, Sequences, FiniteSets, SequencesExt

CONSTANTS
  Size,       \* rbm->chunk_size, the size of the buffer
  SeqSpace,     \* the number of sequence numbers
  InitSeq,    \* irs + 1
  MaxSeg,     \* the longest payload of a segment
  MaxByte,    \* bound: the peer's stream has MaxByte bytes
  Junk        \* what an unwritten cell holds

\* What the constants must satisfy; the modules that instantiate this one assume it.
RecvAssumption ==
  /\ Size \in Nat \ {0} /\ MaxSeg \in 1..Size
  /\ SeqSpace \in Nat /\ 2 * (Size + MaxSeg) < SeqSpace
  /\ InitSeq \in 0..(SeqSpace - 1) /\ MaxByte \in Nat /\ Junk \notin 0..MaxByte

VARIABLES
  data, head_offset, tail_offset, merged_len, cum_len, last_len, head_seq,
  fctx,       \* the list of fragments, each with its seq and len
  rcv_nxt, rcv_wnd,
  got         \* history: the bytes taken into the buffer and not read yet

rb == <<data, head_offset, tail_offset, merged_len, cum_len, last_len, head_seq, fctx>>
vars == <<rb, rcv_nxt, rcv_wnd, got>>

Cell == 0..(Size - 1)
Add(a, n) == (a + n) % SeqSpace
Seq32(k) == Add(InitSeq, k)
MAXSEQ == SeqSpace - 1

\* RBInit(), from ProcessTCPPayload() with the first segment.
Init ==
  /\ data = [c \in Cell |-> Junk]
  /\ head_offset = 0 /\ tail_offset = 0
  /\ merged_len = 0 /\ cum_len = 0 /\ last_len = 0
  /\ head_seq = InitSeq /\ fctx = <<>>
  /\ rcv_nxt = InitSeq /\ rcv_wnd = Size /\ got = {}

-----------------------------------------------------------------------------
(* Comparison of sequence numbers and fragments.                           *)

MinPlain(a, b) == IF a < b THEN a ELSE b
GetMinSeq(a, b) ==
  IF a <= b THEN IF b - a <= MAXSEQ \div 2 THEN a ELSE b
            ELSE IF a - b <= MAXSEQ \div 2 THEN b ELSE a
GetMaxSeq(a, b) ==
  IF a <= b THEN IF b - a <= MAXSEQ \div 2 THEN b ELSE a
            ELSE IF a - b <= MAXSEQ \div 2 THEN a ELSE b

\* TCP_SEQ_LT(): the sign of the difference as a 32-bit number.
SeqLT(a, b) == (a - b) % SeqSpace > MAXSEQ \div 2

\* Adjacent fragments merge, too: *_end is one past the end.
OverlapOnly(a, b) ==
  LET a_end == Add(a.seq, a.len)
      b_end == Add(b.seq, b.len)
  IN  GetMinSeq(a_end, b.seq) # a_end /\ GetMinSeq(b_end, a.seq) # b_end
CanMerge(a, b) ==
  LET a_end == Add(a.seq, a.len + 1)
      b_end == Add(b.seq, b.len + 1)
  IN  GetMinSeq(a_end, b.seq) # a_end /\ GetMinSeq(b_end, a.seq) # b_end

MergeFragments(a, b) ==
  LET min_seq == GetMinSeq(a.seq, b.seq)
      max_seq == GetMaxSeq(Add(a.seq, a.len), Add(b.seq, b.len))
  IN  [seq |-> min_seq, len |-> (max_seq - min_seq) % SeqSpace]

\* The for loop of RBPut(): pre are the fragments passed, cur is new_ctx (with
\* what it was merged with), post starts with the fragment that stopped it.
MergeOne(new, w, it) ==
  IF w.post = <<>> /\ CanMerge(w.cur, it)
  THEN [w EXCEPT !.cur = MergeFragments(w.cur, it), !.merged = TRUE, !.post = <<it>>]
  ELSE IF w.post # <<>> \/ GetMaxSeq(Add(new.seq, new.len), it.seq) = it.seq
  THEN [w EXCEPT !.post = Append(@, it)]
  ELSE [w EXCEPT !.pre = Append(@, it)]
Visit(new, w, it) ==
  IF w.post = <<>> /\ CanMerge(w.cur, it)
  THEN [w EXCEPT !.cur = MergeFragments(w.cur, it), !.merged = TRUE]
  ELSE IF w.post # <<>> \/ w.merged
          \/ GetMaxSeq(Add(new.seq, new.len), it.seq) = it.seq
  THEN [w EXCEPT !.post = Append(@, it)]
  ELSE [w EXCEPT !.pre = Append(@, it)]

Walk(new) ==
  FoldLeft(LAMBDA w, it : Visit(new, w, it),
           [pre |-> <<>>, cur |-> new, merged |-> FALSE, post |-> <<>>], fctx)

\* A fragment that merged with none goes in front or behind prev.
GoesFirst(new) == fctx = <<>> \/ GetMinSeq(new.seq, Head(fctx).seq) = new.seq
Inserted(new) ==
  LET w == Walk(new)
  IN  IF ~w.merged /\ GoesFirst(new) THEN <<new>> \o fctx
      ELSE w.pre \o <<w.cur>> \o w.post

-----------------------------------------------------------------------------
(* ProcessTCPPayload() and CopyToUser().                                   *)

\* The early returns: all of it is old, or it ends beyond the window.
InWindow(seq, len) ==
  /\ ~SeqLT(Add(seq, len), rcv_nxt)
  /\ ~SeqLT(Add(rcv_nxt, rcv_wnd), Add(seq, len))

\* RBPut() drops what starts before the head, and what does not fit.
Fits(seq, len) ==
  /\ GetMinSeq(head_seq, seq) = head_seq
  /\ ((seq - head_seq) % SeqSpace) + len <= Size

\* memmove() of the last_len bytes in the buffer, memcpy() of the payload
\* whose first byte is the k-th of the stream.
Shifted(n) == [c \in Cell |-> IF c < n THEN data[head_offset + c] ELSE data[c]]
KeptMerged == merged_len
Kept == last_len

Store(k, putx, len) ==
  LET end_off == putx + len
      moved   == Size <= head_offset + end_off
      base    == IF moved THEN 0 ELSE head_offset
      tail    == IF moved THEN tail_offset - head_offset ELSE tail_offset
      old     == IF moved THEN Shifted(Kept) ELSE data
      newtail == IF tail < base + end_off THEN base + end_off ELSE tail
  IN
  /\ data' = [c \in Cell |-> IF base + putx <= c /\ c < base + end_off
                             THEN k + (c - (base + putx)) ELSE old[c]]
  /\ head_offset' = base /\ tail_offset' = newtail
  /\ last_len' = newtail - base

\* RBPut() at the end: the first fragment starts at the head.
MergeHead ==
  LET first == Head(fctx')
      ready == head_seq = first.seq
  IN  /\ cum_len' = IF ready THEN cum_len + first.len - merged_len ELSE cum_len
      /\ merged_len' = IF ready THEN first.len ELSE merged_len

ProcessTCPPayload(k, len) ==
  LET seq == Seq32(k) IN
  /\ InWindow(seq, len) /\ Fits(seq, len)
  /\ Store(k, ((seq - head_seq) % SeqSpace), len)
  /\ fctx' = Inserted([seq |-> seq, len |-> len])
  /\ MergeHead
  /\ rcv_nxt' = Add(head_seq, merged_len')
  /\ rcv_wnd' = Size - merged_len'
  /\ got' = got \cup k..(k + len - 1)
  /\ UNCHANGED head_seq

\* RBRemove(): the first fragment goes or shrinks.
ShrinkAlways(n) ==
  <<[seq |-> Add(fctx[1].seq, n), len |-> fctx[1].len - n]>> \o Tail(fctx)
ShrinkFirst(n) ==
  IF n = fctx[1].len THEN Tail(fctx)
  ELSE <<[seq |-> Add(fctx[1].seq, n), len |-> fctx[1].len - n]>> \o Tail(fctx)

CopyToUser(n) ==
  /\ n \in 1..merged_len
  /\ head_offset' = head_offset + n /\ head_seq' = Add(head_seq, n)
  /\ merged_len' = merged_len - n /\ last_len' = last_len - n
  /\ fctx' = ShrinkFirst(n)
  /\ rcv_wnd' = Size - merged_len'
  /\ got' = {k \in got : k >= cum_len - merged_len + n}
  /\ UNCHANGED <<data, tail_offset, cum_len, rcv_nxt>>

\* A segment of the peer: any part of its stream, also an old one, that
\* starts at most one segment before the first byte not read.
Base == cum_len - merged_len
Starts == {k \in 0..(MaxByte - 1) : Base - MaxSeg <= k /\ k <= Base + Size}

Next ==
  \/ \E k \in Starts, len \in 1..MaxSeg : k + len <= MaxByte /\ ProcessTCPPayload(k, len)
  \/ \E n \in 1..Size : CopyToUser(n)

Spec == Init /\ [][Next]_vars

-----------------------------------------------------------------------------

\* Type invariant.
TypeOK ==
  /\ data \in [Cell -> 0..MaxByte \cup {Junk}]
  /\ head_offset \in 0..Size /\ tail_offset \in 0..Size
  /\ merged_len \in 0..Size /\ last_len \in 0..Size /\ cum_len \in 0..MaxByte
  /\ head_seq \in 0..MAXSEQ /\ rcv_nxt \in 0..MAXSEQ /\ rcv_wnd \in 0..Size
  /\ fctx \in Seq([seq : 0..MAXSEQ, len : 1..Size])
  /\ got \subseteq 0..(MaxByte - 1)

\* Reassembly is complete: what may be read, acknowledged (rcv_nxt) and still
\* be sent (rcv_wnd) is exactly what the bytes received so far allow, whatever
\* the order, the overlap and the repetition of the segments.
Ready == CHOOSE n \in 0..Size : Base..(Base + n - 1) \subseteq got /\ Base + n \notin got
MergesAll ==
  /\ merged_len = Ready
  /\ rcv_nxt = Seq32(Base + Ready) /\ rcv_wnd = Size - Ready
  /\ head_seq = Seq32(Base)

\* Every received byte is kept in its place behind the head, through every
\* memmove(), and last_len covers it: the header's promise of physically
\* contiguous data.
BytesInPlace ==
  /\ last_len = tail_offset - head_offset
  /\ \A k \in got : k - Base < last_len /\ data[head_offset + (k - Base)] = k

\* The list is the received bytes: its fragments are sorted, none overlaps or
\* touches the next, and together they are exactly what was received.
Bytes(f) == LET first == Base + ((f.seq - head_seq) % SeqSpace)
            IN  first..(first + f.len - 1)
FragmentsAreRuns ==
  /\ \A i \in 1..(Len(fctx) - 1) :
       \A x \in Bytes(fctx[i]), y \in Bytes(fctx[i + 1]) : x + 1 < y
  /\ UNION {Bytes(fctx[i]) : i \in 1..Len(fctx)} = got

\* The assert() of RBPut() where a fragment is inserted behind prev holds for
\* every segment that can come next.
InsertAsserts == \A k \in Starts, len \in 1..MaxSeg :
  LET new == [seq |-> Seq32(k), len |-> len]
      w   == Walk(new)
      prev == Last(w.pre)
  IN  (InWindow(new.seq, len) /\ Fits(new.seq, len) /\ ~w.merged /\ ~GoesFirst(new)) =>
        w.pre # <<>> /\
        GetMinSeq(new.seq, Add(prev.seq, prev.len)) = Add(prev.seq, prev.len)
=============================================================================
