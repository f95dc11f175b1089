----------------------------- MODULE PoolsProofs -----------------------------
(***************************************************************************)
(* Proofs about what mTCP gives out and takes back, for every number of    *)
(* buffers, hosts, cores, ports and sockets: the send buffers of the       *)
(* streams, the entries of the ARP table and the source addresses of       *)
(* outgoing connections.                                                   *)
(***************************************************************************)
EXTENDS SendBuffer, ArpRequests, AddressPool, FiniteSetTheorems,
        WellFoundedInduction, TLAPS

-----------------------------------------------------------------------------
(* The send buffers: InChunk, HoldsTheStream and NotShared hold each other *)
(* up.  The cells a step leaves alone are the right ones only if the       *)
(* offsets are, and a buffer keeps its contents only while no other stream *)
(* is given the same one.                                                  *)

IInv == TypeOK /\ InChunk /\ HoldsTheStream /\ NotShared

\* The fields of one buffer, and what IInv says of them.
GoodBuf(d, ho, to, l, cl, hs, is) ==
  /\ to = ho + l /\ to <= Size
  /\ l <= cl
  /\ hs = (is + (cl - l)) % SeqSpace
  /\ \A i \in 0..(l - 1) : d[ho + i] = cl - l + i

LEMMA GoodBufs ==
  (InChunk /\ HoldsTheStream) <=> \A b \in inuse :
    GoodBuf(data[b], head_off[b], tail_off[b], len[b], cum_len[b], head_seq[b], init_seq[b])
BY DEF InChunk, HoldsTheStream, GoodBuf

\* (x % m + n) % m = (x + n) % m: head_seq wraps as the sum of all lengths does.
LEMMA ModAdd ==
  ASSUME NEW m \in Nat \ {0}, NEW x \in Nat, NEW n \in Nat
  PROVE  ((x % m) + n) % m = (x + n) % m
<1> DEFINE q == x \div m
           y == (x % m) + n
           p == y \div m
           z == (x + n) \div m
<1>1. x = m * q + (x % m) /\ q \in Int /\ x % m \in 0..(m - 1)
  OBVIOUS
<1>2. y = m * p + (y % m) /\ p \in Int /\ y % m \in 0..(m - 1)
  <2>1. y \in Nat
    BY <1>1
  <2> HIDE DEF y
  <2>2. y = m * (y \div m) + (y % m) /\ y \div m \in Int /\ y % m \in 0..(m - 1)
    BY <2>1
  <2> QED
    BY <2>2
<1>3. x + n = m * z + ((x + n) % m) /\ z \in Int /\ (x + n) % m \in 0..(m - 1)
  <2> DEFINE w == x + n
  <2>1. w \in Nat
    OBVIOUS
  <2> HIDE DEF w
  <2>2. w = m * (w \div m) + (w % m) /\ w \div m \in Int /\ w % m \in 0..(m - 1)
    BY <2>1
  <2> QED
    BY <2>2 DEF w
<1> DEFINE k == z - q - p
<1>4. m * k = (y % m) - ((x + n) % m) /\ k \in Int
  <2>1. m * (z - q - p) = m * z - m * q - m * p
    BY <1>1, <1>2, <1>3
  <2>2. m * q \in Int /\ m * p \in Int /\ m * z \in Int
    BY <1>1, <1>2, <1>3
  <2>3. y % m \in Int /\ (x + n) % m \in Int /\ x % m \in Int
    BY <1>1, <1>2, <1>3
  <2> HIDE DEF q, p, z
  <2> QED
    BY <1>1, <1>2, <1>3, <2>1, <2>2, <2>3
<1>5. k = 0
  <2> HIDE DEF k
  <2>1. m * k < m /\ -m < m * k
    BY <1>1, <1>2, <1>3, <1>4
  <2>2. k >= 1 => m * k >= m
    BY <1>4
  <2>3. k <= -1 => m * k <= -m
    BY <1>4
  <2> QED
    BY <1>4, <2>1, <2>2, <2>3
<1> QED
  <2> HIDE DEF k
  <2>1. m * k = 0
    BY <1>5
  <2> QED
    BY <1>2, <1>3, <1>4, <2>1

-----------------------------------------------------------------------------

\* SBInit() gives a stream an empty buffer that no other stream has.
LEMMA InitStep ==
  ASSUME IInv, NEW b \in Bufs, NEW seq \in InitSeqs, SBInit(b, seq)
  PROVE  IInv'
<1> USE BufferAssumption
<1>1. TypeOK'
  <2>1. freeq' \in Seq(Bufs) /\ cur_num' \in Nat
    <3>1. CASE TakeFreed(b)
      BY <3>1 DEF IInv, TypeOK, TakeFreed
    <3>2. CASE TakeNew(b)
      BY <3>2 DEF IInv, TypeOK, TakeNew
    <3> QED
      BY <3>1, <3>2 DEF SBInit
  <2> QED
    BY <2>1, Zenon DEF IInv, TypeOK, SBInit, Reset
<1>2. b \notin inuse
  <2>1. CASE TakeFreed(b)
    <3>1. freeq \in Seq(Bufs) /\ freeq # <<>>
      BY <2>1 DEF TakeFreed, IInv, TypeOK
    <3>2. 1 \in 1..Len(freeq) /\ b = freeq[1]
      BY <2>1, <3>1 DEF TakeFreed
    <3> QED
      BY <3>2 DEF IInv, NotShared
  <2>2. CASE TakeNew(b)
    BY <2>2 DEF TakeNew, Created
  <2> QED
    BY <2>1, <2>2 DEF SBInit
<1>3. InChunk' /\ HoldsTheStream'
  <2> SUFFICES ASSUME NEW c \in inuse'
               PROVE  GoodBuf(data[c], head_off[c], tail_off[c], len[c],
                              cum_len[c], head_seq[c], init_seq[c])'
    BY DEF InChunk, HoldsTheStream, GoodBuf
  <2>1. CASE c = b
    <3>1. seq % SeqSpace = seq /\ seq \in Nat
      BY DEF BufferAssumption
    <3> QED
      BY <2>1, <3>1 DEF GoodBuf, SBInit, Reset, IInv, TypeOK
  <2>2. CASE c # b
    <3>1. c \in inuse
      BY <2>2 DEF SBInit
    <3> QED
      BY <2>2, <3>1, Zenon DEF GoodBuf, SBInit, Reset, IInv, TypeOK, InChunk, HoldsTheStream
  <2> QED
    BY <2>1, <2>2
<1>4. NotShared'
  <2>1. CASE TakeFreed(b)
    <3>1. freeq \in Seq(Bufs) /\ freeq # <<>> /\ freeq' = Tail(freeq) /\ b = freeq[1]
      BY <2>1 DEF TakeFreed, IInv, TypeOK
    <3>2. /\ Len(freeq') = Len(freeq) - 1 /\ Len(freeq) \in Nat
          /\ \A i \in 1..Len(freeq') : freeq'[i] = freeq[i + 1]
      BY <3>1
    <3>3. \A i \in 1..Len(freeq') : i + 1 \in 1..Len(freeq) /\ i + 1 # 1
      BY <3>2
    <3>4. 1 \in 1..Len(freeq)
      BY <3>1
    <3>5. \A i \in 1..Len(freeq') : freeq'[i] # b /\ freeq'[i] \notin inuse
      BY <3>1, <3>2, <3>3, <3>4 DEF IInv, NotShared
    <3>6. \A i, j \in 1..Len(freeq') : freeq'[i] = freeq'[j] => i = j
      BY <3>2, <3>3 DEF IInv, NotShared
    <3> QED
      BY <3>5, <3>6 DEF NotShared, SBInit
  <2>2. CASE TakeNew(b)
    BY <2>2 DEF TakeNew, IInv, NotShared, SBInit
  <2> QED
    BY <2>1, <2>2 DEF SBInit
<1> QED
  BY <1>1, <1>3, <1>4 DEF IInv

\* SBFree() takes the buffer away from its stream before it can be reused.
LEMMA FreeStep ==
  ASSUME IInv, NEW b \in Bufs, SBFree(b)
  PROVE  IInv'
<1> USE BufferAssumption
<1>1. TypeOK'
  <2>1. freeq' \in Seq(Bufs)
    <3>1. freeq \in Seq(Bufs)
      BY DEF IInv, TypeOK
    <3>2. freeq' = freeq \/ freeq' = Append(freeq, b)
      BY DEF SBFree
    <3> QED
      BY <3>1, <3>2
  <2>2. inuse' \subseteq Bufs
    BY DEF IInv, TypeOK, SBFree
  <2>3. UNCHANGED <<fields, cur_num>>
    BY DEF SBFree
  <2> QED
    BY <2>1, <2>2, <2>3 DEF IInv, TypeOK, fields
<1>2. InChunk' /\ HoldsTheStream'
  BY DEF IInv, InChunk, HoldsTheStream, SBFree, fields
<1>3. NotShared'
  <2>1. CASE freeq' = freeq
    BY <2>1 DEF IInv, NotShared, SBFree
  <2>2. CASE freeq' = Append(freeq, b)
    <3>1. freeq \in Seq(Bufs) /\ Len(freeq) \in Nat
      BY DEF IInv, TypeOK
    <3>2. /\ Len(freeq') = Len(freeq) + 1 /\ freeq'[Len(freeq) + 1] = b
          /\ \A i \in 1..Len(freeq) : freeq'[i] = freeq[i]
      BY <2>2, <3>1
    <3>3. \A i \in 1..Len(freeq) : freeq'[i] # b
      BY <3>2 DEF IInv, NotShared, SBFree
    <3>4. \A i \in 1..Len(freeq') : i \in 1..Len(freeq) \/ i = Len(freeq) + 1
      BY <3>1, <3>2
    <3>5. \A i \in 1..Len(freeq') : freeq'[i] \notin inuse'
      BY <3>2, <3>4 DEF IInv, NotShared, SBFree
    <3>6. \A i, j \in 1..Len(freeq') : freeq'[i] = freeq'[j] => i = j
      BY <3>2, <3>3, <3>4 DEF IInv, NotShared
    <3> QED
      BY <3>5, <3>6 DEF NotShared
  <2> QED
    BY <2>1, <2>2 DEF SBFree
<1> QED
  BY <1>1, <1>2, <1>3 DEF IInv

\* The number of bytes SBPut() takes fits into the free space.
LEMMA ToPutFits ==
  ASSUME IInv, NEW b \in inuse, NEW req \in Nat
  PROVE  ToPut(b, req) \in Nat /\ len[b] + ToPut(b, req) <= Size /\ len[b] \in Nat
<1>1. len[b] \in Nat /\ len[b] <= Size /\ b \in Bufs
  BY BufferAssumption DEF IInv, TypeOK, InChunk
<1> QED
  BY <1>1, BufferAssumption DEF ToPut, Min

\* SBPut() appends the next bytes of the stream, in place or after moving.
LEMMA PutStep ==
  ASSUME IInv, NEW b \in Bufs, NEW req \in Nat, SBPut(b, req)
  PROVE  IInv'
<1> DEFINE n == ToPut(b, req)
<1>1. b \in inuse /\ inuse' = inuse
  BY DEF SBPut
<1>2. n \in Nat /\ n > 0 /\ len[b] + n <= Size
  BY <1>1, ToPutFits DEF SBPut
<1>3. /\ len[b] \in Nat /\ head_off[b] \in Nat /\ tail_off[b] \in Nat
      /\ tail_off[b] = head_off[b] + len[b] /\ tail_off[b] <= Size
  BY <1>1 DEF IInv, TypeOK, InChunk
<1>4. data[b] \in [Cell -> Nat] /\ cum_len[b] \in Nat
  BY DEF IInv, TypeOK
<1>5. /\ len[b] \in Nat /\ head_off[b] \in Nat /\ tail_off[b] \in Nat
      /\ cum_len[b] \in Nat /\ data[b] \in [Cell -> Nat]
      /\ tail_off[b] = head_off[b] + len[b] /\ tail_off[b] <= Size
      /\ len[b] <= cum_len[b]
      /\ \A i \in 0..(len[b] - 1) : data[b][head_off[b] + i] = cum_len[b] - len[b] + i
      /\ head_seq[b] = (init_seq[b] + (cum_len[b] - len[b])) % SeqSpace
  BY <1>1, <1>3, <1>4 DEF IInv, HoldsTheStream
<1> HIDE DEF n
<1>6. /\ len' = [len EXCEPT ![b] = len[b] + n]
      /\ cum_len' = [cum_len EXCEPT ![b] = cum_len[b] + n]
      /\ PutFits(b, n) \/ PutMoves(b, n)
  BY DEF SBPut, n
<1>7. ASSUME NEW d \in [Cell -> Nat], NEW at \in Nat
      PROVE  WithNew(d, b, at, n) \in [Cell -> Nat]
  <2>1. \A c \in Cell : c \in Nat /\ (at <= c => cum_len[b] + (c - at) \in Nat)
    BY <1>4 DEF Cell
  <2> QED
    BY <2>1 DEF WithNew
<1>8. Moved(b) \in [Cell -> Nat]
  <2>1. \A c \in Cell : c < len[b] => head_off[b] + c \in Cell
    BY <1>3, BufferAssumption DEF Cell
  <2> QED
    BY <1>3, <1>4, <2>1 DEF Moved
<1>9. /\ data' \in [Bufs -> [Cell -> Nat]]
      /\ head_off' \in [Bufs -> Nat] /\ tail_off' \in [Bufs -> Nat]
  <2>1. CASE PutFits(b, n)
    <3>1. WithNew(data[b], b, tail_off[b], n) \in [Cell -> Nat] /\ tail_off[b] + n \in Nat
      BY <1>2, <1>3, <1>4, <1>7
    <3> QED
      BY <2>1, <3>1 DEF PutFits, IInv, TypeOK
  <2>2. CASE PutMoves(b, n)
    <3>1. WithNew(Moved(b), b, len[b], n) \in [Cell -> Nat] /\ len[b] + n \in Nat
      BY <1>2, <1>3, <1>7, <1>8
    <3> QED
      BY <2>2, <3>1 DEF PutMoves, IInv, TypeOK
  <2> QED
    BY <1>6, <2>1, <2>2
<1>10. TypeOK'
  <2>1. len[b] + n \in Nat /\ cum_len[b] + n \in Nat
    BY <1>2, <1>3, <1>4
  <2>2. len' \in [Bufs -> Nat] /\ cum_len' \in [Bufs -> Nat]
    BY <1>6, <2>1 DEF IInv, TypeOK
  <2> QED
    BY <1>9, <2>2, Zenon DEF SBPut, IInv, TypeOK
<1>11. GoodBuf(data[b], head_off[b], tail_off[b], len[b], cum_len[b], head_seq[b], init_seq[b])'
  <2>1. /\ len'[b] = len[b] + n /\ cum_len'[b] = cum_len[b] + n
        /\ head_seq'[b] = head_seq[b] /\ init_seq'[b] = init_seq[b]
    BY <1>6, Zenon DEF SBPut, IInv, TypeOK
  <2>2. (cum_len[b] + n) - (len[b] + n) = cum_len[b] - len[b]
    BY <1>2, <1>5, SMTT(30)
  <2>3. CASE PutFits(b, n)
    <3>1. /\ head_off'[b] = head_off[b] /\ tail_off'[b] = tail_off[b] + n
          /\ data'[b] = WithNew(data[b], b, tail_off[b], n)
      BY <2>3, Zenon DEF PutFits, IInv, TypeOK
    <3>2. tail_off[b] + n <= Size
      BY <1>2, <1>3, <2>3, BufferAssumption DEF PutFits
    <3>3. ASSUME NEW i \in 0..(len'[b] - 1)
          PROVE  data'[b][head_off[b] + i] = cum_len[b] - len[b] + i
      <4>1. head_off[b] + i \in Cell /\ i \in Nat
        BY <1>2, <1>3, <2>1, <3>2, BufferAssumption DEF Cell
      <4>2. CASE i < len[b]
        <5>1. i \in 0..(len[b] - 1) /\ head_off[b] + i < tail_off[b]
          BY <1>3, <4>1, <4>2
        <5>2. data'[b][head_off[b] + i] = data[b][head_off[b] + i]
          BY <1>5, <3>1, <4>1, <5>1 DEF WithNew
        <5> QED
          BY <1>5, <5>1, <5>2
      <4>3. CASE i >= len[b]
        <5>1. tail_off[b] <= head_off[b] + i /\ head_off[b] + i < tail_off[b] + n
          BY <1>2, <1>3, <2>1, <4>1, <4>3
        <5>2. data'[b][head_off[b] + i] = cum_len[b] + ((head_off[b] + i) - tail_off[b])
          BY <3>1, <4>1, <5>1, ZenonT(30) DEF WithNew
        <5> QED
          BY <1>5, <4>1, <5>2
      <4> QED
        BY <1>5, <4>1, <4>2, <4>3, SMTT(30)
    <3> QED
      BY <1>2, <1>5, <2>1, <2>2, <3>1, <3>2, <3>3 DEF GoodBuf
  <2>4. CASE PutMoves(b, n)
    <3>1. /\ head_off'[b] = 0 /\ tail_off'[b] = len[b] + n
          /\ data'[b] = WithNew(Moved(b), b, len[b], n)
      BY <2>4, Zenon DEF PutMoves, IInv, TypeOK
    <3>3. ASSUME NEW i \in 0..(len'[b] - 1)
          PROVE  data'[b][i] = cum_len[b] - len[b] + i
      <4>1. i \in Cell /\ i \in Nat
        BY <1>2, <1>3, <2>1, BufferAssumption DEF Cell
      <4>2. CASE i < len[b]
        <5>1. i \in 0..(len[b] - 1)
          BY <1>3, <4>1, <4>2
        <5>2. data'[b][i] = data[b][head_off[b] + i]
          BY <1>5, <3>1, <4>1, <5>1, SMTT(30) DEF WithNew, Moved
        <5> QED
          BY <1>5, <5>1, <5>2
      <4>3. CASE i >= len[b]
        <5>1. len[b] <= i /\ i < len[b] + n
          BY <1>2, <1>3, <2>1, <4>1, <4>3
        <5>2. data'[b][i] = cum_len[b] + (i - len[b])
          BY <3>1, <4>1, <5>1, Zenon DEF WithNew
        <5> QED
          BY <1>5, <4>1, <5>2
      <4> QED
        BY <1>5, <4>1, <4>2, <4>3, SMTT(30)
    <3>4. \A i \in 0..(len'[b] - 1) : data'[b][0 + i] = cum_len[b] - len[b] + i
      BY <3>3, <1>2, <1>5, <2>1
    <3> QED
      BY <1>2, <1>5, <2>1, <2>2, <3>1, <3>4 DEF GoodBuf
  <2> QED
    BY <1>6, <2>3, <2>4
<1>12. InChunk' /\ HoldsTheStream'
  <2> SUFFICES ASSUME NEW c \in inuse'
               PROVE  GoodBuf(data[c], head_off[c], tail_off[c], len[c],
                              cum_len[c], head_seq[c], init_seq[c])'
    BY Zenon DEF InChunk, HoldsTheStream, GoodBuf
  <2>1. CASE c = b
    BY <1>11, <2>1, Zenon
  <2>2. CASE c # b
    <3>1. /\ len'[c] = len[c] /\ cum_len'[c] = cum_len[c]
          /\ head_seq'[c] = head_seq[c] /\ init_seq'[c] = init_seq[c]
          /\ data'[c] = data[c] /\ head_off'[c] = head_off[c] /\ tail_off'[c] = tail_off[c]
      BY <1>1, <1>6, <2>2, Zenon DEF SBPut, PutFits, PutMoves, IInv, TypeOK
    <3> QED
      BY <1>1, <3>1, ZenonT(30) DEF GoodBuf, IInv, InChunk, HoldsTheStream
  <2> QED
    BY <2>1, <2>2, Zenon
<1>13. NotShared'
  BY DEF IInv, NotShared, SBPut
<1> QED
  BY <1>10, <1>12, <1>13 DEF IInv

\* SBRemove() drops the first bytes and leaves the rest where they are.
LEMMA RemoveStep ==
  ASSUME IInv, NEW b \in Bufs, NEW req \in Nat, SBRemove(b, req)
  PROVE  IInv'
<1> DEFINE n == Min(req, len[b])
<1>1. b \in inuse /\ inuse' = inuse
  BY DEF SBRemove
<1>2. /\ len[b] \in Nat /\ head_off[b] \in Nat /\ tail_off[b] \in Nat
      /\ tail_off[b] = head_off[b] + len[b] /\ tail_off[b] <= Size
  BY <1>1 DEF IInv, TypeOK, InChunk
<1>3. n \in Nat /\ n > 0 /\ n <= len[b]
  BY <1>2 DEF SBRemove, Min
<1>4. /\ cum_len[b] \in Nat /\ head_seq[b] \in Nat /\ init_seq[b] \in Nat
      /\ len[b] <= cum_len[b]
  BY <1>1, BufferAssumption DEF IInv, TypeOK, HoldsTheStream
<1> HIDE DEF n
<1>5. /\ len' = [len EXCEPT ![b] = len[b] - n]
      /\ head_off' = [head_off EXCEPT ![b] = IF n = len[b] THEN 0 ELSE head_off[b] + n]
      /\ tail_off' = [tail_off EXCEPT ![b] = IF n = len[b] THEN 0 ELSE tail_off[b]]
      /\ head_seq' = [head_seq EXCEPT ![b] = SeqAdd(head_seq[b], n)]
      /\ data' = data /\ cum_len' = cum_len /\ init_seq' = init_seq
      /\ freeq' = freeq /\ inuse' = inuse /\ cur_num' = cur_num
  BY DEF SBRemove, n
<1>6. SeqAdd(head_seq[b], n) \in 0..(SeqSpace - 1)
  <2>1. head_seq[b] + n \in Nat
    BY <1>3, <1>4
  <2> QED
    BY <2>1, BufferAssumption DEF SeqAdd
<1>7. TypeOK'
  <2>1. len' \in [Bufs -> Nat]
    BY <1>2, <1>3, <1>5 DEF IInv, TypeOK
  <2>2. head_off' \in [Bufs -> Nat] /\ tail_off' \in [Bufs -> Nat]
    BY <1>2, <1>3, <1>5, SMTT(30) DEF IInv, TypeOK
  <2>3. head_seq' \in [Bufs -> 0..(SeqSpace - 1)]
    BY <1>5, <1>6 DEF IInv, TypeOK
  <2> QED
    BY <1>5, <2>1, <2>2, <2>3, Zenon DEF IInv, TypeOK
<1>8. GoodBuf(data[b], head_off[b], tail_off[b], len[b], cum_len[b], head_seq[b], init_seq[b])'
  <2>1. /\ len'[b] = len[b] - n /\ head_seq'[b] = SeqAdd(head_seq[b], n)
        /\ head_off'[b] = (IF n = len[b] THEN 0 ELSE head_off[b] + n)
        /\ tail_off'[b] = (IF n = len[b] THEN 0 ELSE tail_off[b])
        /\ cum_len'[b] = cum_len[b] /\ init_seq'[b] = init_seq[b] /\ data'[b] = data[b]
    BY <1>5, Zenon DEF IInv, TypeOK
  <2>2. tail_off'[b] = head_off'[b] + len'[b] /\ tail_off'[b] <= Size
    BY <1>2, <1>3, <2>1, BufferAssumption
  <2>3. len'[b] <= cum_len'[b]
    BY <1>2, <1>3, <1>4, <2>1, SMTT(30)
  <2>4. head_seq'[b] = (init_seq'[b] + (cum_len'[b] - len'[b])) % SeqSpace
    <3> DEFINE x == init_seq[b] + (cum_len[b] - len[b])
    <3>1. x \in Nat /\ x + n = init_seq[b] + (cum_len[b] - (len[b] - n))
      BY <1>2, <1>3, <1>4, SMTT(30)
    <3>2. head_seq[b] = x % SeqSpace
      BY <1>1 DEF IInv, HoldsTheStream
    <3> HIDE DEF x
    <3>3. ((x % SeqSpace) + n) % SeqSpace = (x + n) % SeqSpace
      BY <1>3, <3>1, ModAdd, BufferAssumption
    <3> QED
      BY <2>1, <3>1, <3>2, <3>3 DEF SeqAdd
  <2>5. ASSUME NEW i \in 0..(len'[b] - 1)
        PROVE  data'[b][head_off'[b] + i] = cum_len'[b] - len'[b] + i
    <3>1. n < len[b] /\ i \in Nat /\ n + i \in 0..(len[b] - 1)
      BY <1>2, <1>3, <2>1
    <3>2. head_off'[b] + i = head_off[b] + (n + i)
      BY <1>2, <1>3, <2>1, <3>1
    <3>3. data[b][head_off[b] + (n + i)] = cum_len[b] - len[b] + (n + i)
      BY <1>1, <3>1, Zenon DEF IInv, HoldsTheStream
    <3>4. cum_len'[b] - len'[b] + i = cum_len[b] - len[b] + (n + i)
      BY <1>2, <1>3, <1>4, <2>1, <3>1, SMTT(30)
    <3> QED
      BY <2>1, <3>2, <3>3, <3>4
  <2> QED
    BY <2>2, <2>3, <2>4, <2>5 DEF GoodBuf
<1>9. InChunk' /\ HoldsTheStream'
  <2> SUFFICES ASSUME NEW c \in inuse'
               PROVE  GoodBuf(data[c], head_off[c], tail_off[c], len[c],
                              cum_len[c], head_seq[c], init_seq[c])'
    BY DEF InChunk, HoldsTheStream, GoodBuf
  <2>1. CASE c = b
    BY <1>8, <2>1
  <2>2. CASE c # b
    <3>1. /\ len'[c] = len[c] /\ head_off'[c] = head_off[c]
          /\ tail_off'[c] = tail_off[c] /\ head_seq'[c] = head_seq[c]
      BY <1>5, <2>2 DEF IInv, TypeOK
    <3> QED
      BY <1>5, <3>1, Zenon DEF GoodBuf, IInv, InChunk, HoldsTheStream
  <2> QED
    BY <2>1, <2>2
<1>10. NotShared'
  BY <1>5 DEF IInv, NotShared
<1> QED
  BY <1>7, <1>9, <1>10 DEF IInv

-----------------------------------------------------------------------------

LEMMA Inductive == Spec => []IInv
<1>1. Init => IInv
  <2> SUFFICES ASSUME Init PROVE IInv
    OBVIOUS
  <2>1. TypeOK
    <3>1. data \in [Bufs -> [Cell -> Nat]]
      BY BufferAssumption, Zenon DEF Init
    <3>2. /\ head_off \in [Bufs -> Nat] /\ tail_off \in [Bufs -> Nat]
          /\ len \in [Bufs -> Nat] /\ cum_len \in [Bufs -> Nat]
      BY DEF Init
    <3>3. /\ 0 \in 0..(SeqSpace - 1)
          /\ head_seq = [b \in Bufs |-> 0] /\ init_seq = [b \in Bufs |-> 0]
      BY BufferAssumption DEF Init
    <3>4. /\ head_seq \in [Bufs -> 0..(SeqSpace - 1)]
          /\ init_seq \in [Bufs -> 0..(SeqSpace - 1)]
      BY <3>3
    <3>5. freeq \in Seq(Bufs) /\ inuse \subseteq Bufs /\ cur_num \in Nat
      BY DEF Init
    <3> QED
      BY <3>1, <3>2, <3>4, <3>5 DEF TypeOK
  <2>2. InChunk /\ HoldsTheStream /\ NotShared
    BY DEF Init, InChunk, HoldsTheStream, NotShared
  <2> QED
    BY <2>1, <2>2 DEF IInv
<1>2. IInv /\ [Next]_vars => IInv'
  <2> SUFFICES ASSUME IInv, [Next]_vars PROVE IInv'
    OBVIOUS
  <2>1. ASSUME NEW b \in Bufs, NEW seq \in InitSeqs, SBInit(b, seq) PROVE IInv'
    BY <2>1, InitStep
  <2>2. ASSUME NEW b \in Bufs, SBFree(b) PROVE IInv'
    BY <2>2, FreeStep
  <2>3. ASSUME NEW b \in Bufs, NEW req \in 1..(Size + 1), SBPut(b, req) PROVE IInv'
    BY <2>3, PutStep, BufferAssumption
  <2>4. ASSUME NEW b \in Bufs, NEW req \in 1..(Size + 1), SBRemove(b, req) PROVE IInv'
    BY <2>4, RemoveStep, BufferAssumption, SMTT(30)
  <2>5. CASE UNCHANGED vars
    BY <2>5 DEF IInv, TypeOK, InChunk, HoldsTheStream, NotShared, vars, fields
  <2> QED
    BY <2>1, <2>2, <2>3, <2>4, <2>5 DEF Next
<1> QED
  BY <1>1, <1>2, PTL DEF Spec

\* Offsets, counts and sequence numbers stay what their types say.
THEOREM BuffersTyped == Spec => []TypeOK
<1>1. IInv => TypeOK
  BY DEF IInv
<1> QED
  BY <1>1, Inductive, PTL

\* For every number of buffers and every chunk size, no memcpy() or memmove()
\* of SBPut() leaves the chunk.
THEOREM StaysInChunk == Spec => []InChunk
<1>1. IInv => InChunk
  BY DEF IInv
<1> QED
  BY <1>1, Inductive, PTL

\* For every history of writes and acknowledgements, also past the wrap of the
\* sequence numbers, the stack finds at an unacknowledged sequence number the
\* byte the application wrote there.
THEOREM SendsTheStream == Spec => []HoldsTheStream
<1>1. IInv => HoldsTheStream
  BY DEF IInv
<1> QED
  BY <1>1, Inductive, PTL

\* Two streams never have the same send buffer: SBFree() and SBInit() hand a
\* buffer on to one owner at a time.
THEOREM OneOwner == Spec => []NotShared
<1>1. IInv => NotShared
  BY DEF IInv
<1> QED
  BY <1>1, Inductive, PTL

-----------------------------------------------------------------------------
(* No buffer is lost.  freeq holds different buffers and none of those in  *)
(* use, so while a stream has one it is shorter than cnum, and SBEnqueue() *)
(* in SBFree() finds room.                                                 *)

PoolInv == IsFiniteSet(Created) /\ NoneLost /\ cur_num <= CNum

Queued == {freeq[i] : i \in 1..Len(freeq)}

\* A queue of different buffers is as long as the set of them is large.
LEMMA QueuedCount ==
  ASSUME IInv
  PROVE  IsFiniteSet(Queued) /\ Cardinality(Queued) = Len(freeq)
<1>1. freeq \in Seq(Bufs) /\ Len(freeq) \in Nat /\ freeq \in [1..Len(freeq) -> Bufs]
  BY DEF IInv, TypeOK
<1>2. freeq \in Bijection(1..Len(freeq), Queued)
  <2>1. freeq \in [1..Len(freeq) -> Queued]
    BY <1>1 DEF Queued
  <2>2. \A i, j \in 1..Len(freeq) : freeq[i] = freeq[j] => i = j
    BY DEF IInv, NotShared
  <2>3. freeq \in Injection(1..Len(freeq), Queued)
    BY <2>1, <2>2 DEF Injection, IsInjective
  <2>4. \A q \in Queued : \E i \in 1..Len(freeq) : freeq[i] = q
    BY DEF Queued
  <2>5. freeq \in Surjection(1..Len(freeq), Queued)
    BY <2>1, <2>4 DEF Surjection
  <2> QED
    BY <2>3, <2>5 DEF Bijection
<1>3. ExistsBijection(1..Len(freeq), Queued)
  BY <1>2 DEF ExistsBijection
<1>4. IsFiniteSet(Queued)
  BY <1>1, <1>3, FS_NatBijection
<1>5. Cardinality(Queued) = Len(freeq)
  BY <1>1, <1>3, FS_CountingElements
<1> QED
  BY <1>4, <1>5

\* As long as some stream has a buffer there is room in freeq for it.
LEMMA RoomInFreeq ==
  ASSUME IInv, PoolInv, NEW b \in inuse
  PROVE  Len(freeq) < CNum
<1>1. IsFiniteSet(Queued) /\ Cardinality(Queued) = Len(freeq)
  BY QueuedCount
<1>2. b \notin Queued /\ Queued \cup {b} \subseteq Created
  BY DEF IInv, NotShared, Queued, Created
<1>3. Cardinality(Queued \cup {b}) = Len(freeq) + 1
  BY <1>1, <1>2, FS_AddElement, Zenon
<1>4. Cardinality(Queued \cup {b}) <= Cardinality(Created)
  BY <1>2, FS_Subset DEF PoolInv
<1> QED
  BY <1>3, <1>4, BufferAssumption DEF PoolInv, NoneLost, IInv, TypeOK, BufferAssumption

\* SBInit(): a buffer that comes from freeq was created before, and a new one counts.
LEMMA PoolInitStep ==
  ASSUME IInv, PoolInv, NEW b \in Bufs, NEW seq \in InitSeqs, SBInit(b, seq)
  PROVE  PoolInv'
<1>1. CASE TakeFreed(b)
  <2>1. freeq \in Seq(Bufs) /\ freeq # <<>> /\ freeq' = Tail(freeq) /\ b = freeq[1]
    BY <1>1 DEF TakeFreed, IInv, TypeOK
  <2>2. /\ Len(freeq') = Len(freeq) - 1 /\ Len(freeq) \in Nat \ {0}
        /\ \A i \in 1..Len(freeq') : freeq'[i] = freeq[i + 1]
    BY <2>1
  <2>3. \A i \in 1..Len(freeq) : i = 1 \/ (i - 1 \in 1..Len(freeq') /\ freeq'[i - 1] = freeq[i])
    BY <2>2
  <2>4. \A i \in 1..Len(freeq') : i + 1 \in 1..Len(freeq)
    BY <2>2
  <2>5. Queued = Queued' \cup {b}
    <3>1. Queued \subseteq Queued' \cup {b}
      BY <2>1, <2>3 DEF Queued
    <3>2. Queued' \cup {b} \subseteq Queued
      BY <2>1, <2>2, <2>4 DEF Queued
    <3> QED
      BY <3>1, <3>2
  <2>6. Created' = Created
    BY <2>5, Zenon DEF Created, Queued, SBInit
  <2> QED
    BY <1>1, <2>6 DEF PoolInv, NoneLost, TakeFreed
<1>2. CASE TakeNew(b)
  <2>1. Created' = Created \cup {b} /\ b \notin Created
    BY <1>2 DEF TakeNew, Created, SBInit
  <2>2. IsFiniteSet(Created') /\ Cardinality(Created') = Cardinality(Created) + 1
    BY <2>1, FS_AddElement DEF PoolInv
  <2> QED
    BY <1>2, <2>2, BufferAssumption DEF PoolInv, NoneLost, TakeNew, BufferAssumption, IInv, TypeOK
<1> QED
  BY <1>1, <1>2 DEF SBInit

\* SBFree(): the buffer moves from its stream to freeq.
LEMMA PoolFreeStep ==
  ASSUME IInv, PoolInv, NEW b \in Bufs, SBFree(b)
  PROVE  PoolInv'
<1>1. freeq' = Append(freeq, b) /\ b \in inuse /\ inuse' = inuse \ {b}
  BY RoomInFreeq DEF SBFree
<1>2. freeq \in Seq(Bufs)
  BY DEF IInv, TypeOK
<1>3. /\ Len(freeq') = Len(freeq) + 1 /\ Len(freeq) \in Nat
      /\ freeq'[Len(freeq) + 1] = b /\ \A i \in 1..Len(freeq) : freeq'[i] = freeq[i]
  BY <1>1, <1>2
<1>4. Queued' = Queued \cup {b}
  <2>1. Queued' \subseteq Queued \cup {b}
    BY <1>3 DEF Queued
  <2>2. Queued \cup {b} \subseteq Queued'
    BY <1>3 DEF Queued
  <2> QED
    BY <2>1, <2>2
<1>5. Created' = Created
  BY <1>1, <1>4 DEF Created, Queued
<1> QED
  BY <1>5 DEF PoolInv, NoneLost, SBFree

\* The buffers of the pool are in use or in freeq, whatever streams come and go.
THEOREM PoolWhole == Spec => []PoolInv
<1>1. Init => PoolInv
  <2> SUFFICES ASSUME Init PROVE PoolInv
    OBVIOUS
  <2>1. Created = {}
    BY DEF Init, Created
  <2> QED
    BY <2>1, FS_EmptySet, BufferAssumption DEF PoolInv, NoneLost, Init, BufferAssumption
<1>2. IInv /\ PoolInv /\ [Next]_vars => PoolInv'
  <2> SUFFICES ASSUME IInv, PoolInv, [Next]_vars
               PROVE  PoolInv'
    OBVIOUS
  <2>1. CASE UNCHANGED <<freeq, inuse, cur_num>>
    BY <2>1 DEF PoolInv, NoneLost, Created
  <2>2. ASSUME NEW b \in Bufs, NEW seq \in InitSeqs, SBInit(b, seq) PROVE PoolInv'
    BY <2>2, PoolInitStep
  <2>3. ASSUME NEW b \in Bufs, SBFree(b) PROVE PoolInv'
    BY <2>3, PoolFreeStep, Zenon
  <2>4. ASSUME NEW b \in Bufs, NEW req \in 1..(Size + 1), SBPut(b, req) \/ SBRemove(b, req)
        PROVE  UNCHANGED <<freeq, inuse, cur_num>>
    BY <2>4 DEF SBPut, SBRemove
  <2>5. CASE UNCHANGED vars
    BY <2>1, <2>5 DEF vars
  <2> QED
    BY <2>1, <2>2, <2>3, <2>4, <2>5 DEF Next
<1> QED
  BY <1>1, <1>2, Inductive, PTL DEF Spec

\* For every number of buffers and streams: no buffer is free twice or free and in use,
\* and the ignored result of SBEnqueue() in SBFree() never loses one.
THEOREM BuffersAreKept == Spec => []BuffersKept
<1>1. PoolInv => NoneLost
  BY DEF PoolInv
<1> QED
  BY <1>1, PoolWhole, OneOwner, PTL DEF BuffersKept

\* For every chunk size and history: what FlushTCPSendingBuffer() reads lies inside the
\* chunk and is what the application wrote under that sequence number.
THEOREM StreamIsKept == Spec => []StreamKept
BY StaysInChunk, SendsTheStream, PTL DEF StreamKept

-----------------------------------------------------------------------------
(* ARP: the threads read the table without a lock while the ARP core       *)
(* writes an entry, and yet every packet goes to the right hardware        *)
(* address, because an entry is counted, and becomes the gateway's, only   *)
(* when it is complete.                                                    *)

LEMMA Addresses ==
  /\ Gateway \in Hosts /\ Timeout \in Nat /\ Timeout > 0 /\ MaxLost \in Nat
  /\ IsFiniteSet(Hosts) /\ Hosts \cap Outside = {}
  /\ NoHost \notin Hosts \cup Outside /\ "NULL" \notin Hosts
BY ArpAssumption DEF NoHost

Entry == [prefix : {0, 32}, haddr : Hosts \cup {NoHost}, mask : BOOLEAN,
          masked : Hosts \cup {NoHost}]

ArpTypes ==
  /\ entry \in [Slots -> Entry] /\ entries \in 0..Cardinality(Hosts)
  /\ list \in [Hosts -> -1..(Timeout + 1)]
  /\ want \in [Cores -> Hosts \cup Outside \cup {NoHost}]
  /\ reg \in [at : 0..7, idx : 0..(Cardinality(Hosts) + 1), ip : Hosts \cup {NoHost},
              reply : BOOLEAN]
  /\ gateway \in 0..Cardinality(Hosts) /\ net \subseteq Message

\* The entries that count are complete, and of different hosts.
Complete ==
  /\ \A i \in 1..entries : \E h \in Hosts : entry[i] = Filled(4, h)
  /\ OneEntry

\* While the ARP core registers a host, the entry behind those that count has the
\* assignments done so far, and the host has no other.
Registering ==
  /\ reg.at > 0 => reg.ip \in Hosts
  /\ reg.at \in 1..6 =>
       /\ reg.idx = entries + 1
       /\ \A i \in 1..entries : entry[i].masked # reg.ip
  /\ reg.at \in 5..6 => entry[reg.idx] = Filled(4, reg.ip)

\* The gateway's entry is complete before it is the gateway's: it is one of those that
\* count, or the one that is counted next.
GatewayKnown ==
  gateway # 0 => /\ gateway \in 1..entries \/ (reg.at = 6 /\ gateway = reg.idx)
                 /\ entry[gateway].haddr = Gateway

ArpInv == ArpTypes /\ Complete /\ Registering /\ GatewayKnown /\ RightAddress

-----------------------------------------------------------------------------
(* Reading the table *)

LEMMA FilledWhole ==
  ASSUME NEW h
  PROVE  /\ Filled(4, h).prefix = 32 /\ Filled(4, h).haddr = h /\ Filled(4, h).masked = h
         /\ Filled(4, h).mask
<1>1. 4 >= 1 /\ 4 >= 2 /\ (4 >= 3) = TRUE /\ 4 >= 4
  OBVIOUS
<1>2. Filled(4, h) = [prefix |-> 32, haddr |-> h, mask |-> TRUE, masked |-> h]
  BY <1>1, Zenon DEF Filled
<1> QED
  BY <1>2

LEMMA FilledType ==
  ASSUME NEW k \in 0..4, NEW h \in Hosts \cup {NoHost}
  PROVE  Filled(k, h) \in Entry
<1>1. /\ (IF k >= 1 THEN 32 ELSE 0) \in {0, 32} /\ (IF k >= 2 THEN h ELSE NoHost) \in Hosts \cup {NoHost}
      /\ (k >= 3) \in BOOLEAN /\ (IF k >= 4 THEN h ELSE NoHost) \in Hosts \cup {NoHost}
  OBVIOUS
<1> QED
  BY <1>1, Zenon DEF Filled, Entry

\* GetDestinationHWaddr() of a complete table: the address of the host or of the gateway,
\* or nothing.
LEMMA LookedUp ==
  ASSUME ArpTypes, Complete, GatewayKnown,
         NEW h \in Hosts \cup Outside, NEW external \in BOOLEAN, external <=> h \in Outside
  PROVE  /\ GetDestinationHWaddr(h, external) \in {"NULL", NextHop(h)}
         /\ h \in Hosts /\ GetDestinationHWaddr(h, external) = "NULL" =>
              \A i \in 1..entries : entry[i].masked # h
<1> DEFINE found == {i \in 1..entries :
                       entry[i].prefix > 0 /\ entry[i].masked = (IF entry[i].mask THEN h ELSE NoHost)}
           first == CHOOSE i \in found : \A j \in found : i <= j
<1>1. GetDestinationHWaddr(h, external) =
        (IF external /\ gateway # 0 THEN entry[gateway].haddr
         ELSE IF found = {} THEN "NULL" ELSE entry[first].haddr)
  BY DEF GetDestinationHWaddr
<1>2. \A i \in 1..entries : /\ entry[i].prefix > 0 /\ entry[i].mask
                            /\ entry[i].haddr = entry[i].masked /\ entry[i].masked \in Hosts
  <2> SUFFICES ASSUME NEW i \in 1..entries
               PROVE  /\ entry[i].prefix > 0 /\ entry[i].mask
                      /\ entry[i].haddr = entry[i].masked /\ entry[i].masked \in Hosts
    OBVIOUS
  <2>1. PICK g \in Hosts : entry[i] = Filled(4, g)
    BY DEF Complete
  <2> QED
    BY <2>1, FilledWhole
<1>3. found = {i \in 1..entries : entry[i].masked = h}
  BY <1>2
<1>4. ASSUME found # {} PROVE h \in Hosts /\ entry[first].haddr = h
  <2>1. found \subseteq Nat
    BY DEF ArpTypes
  <2>2. \E i \in found : \A j \in found : i <= j
    <3>1. PICK i \in found : \A j \in found : <<j, i>> \notin OpToRel(<, Nat)
      BY <1>4, <2>1, NatLessThanWellFounded, WFMin, Zenon
    <3>2. \A j \in found : ~(j < i)
      BY <2>1, <3>1, Zenon DEF OpToRel
    <3> QED
      BY <2>1, <3>2
  <2>3. first \in found
    BY <2>2, Zenon
  <2> QED
    BY <1>2, <1>3, <2>3, Zenon
<1> HIDE DEF found, first
<1>5. CASE h \in Hosts
  <2>1. ~external /\ NextHop(h) = h
    BY <1>5, Addresses, Zenon DEF NextHop
  <2>2. GetDestinationHWaddr(h, external) = IF found = {} THEN "NULL" ELSE entry[first].haddr
    BY <1>1, <2>1
  <2> QED
    BY <1>3, <1>4, <1>5, <2>1, <2>2, Addresses, Zenon
<1>6. CASE h \in Outside
  <2>1. external /\ NextHop(h) = Gateway /\ h \notin Hosts
    BY <1>6, Addresses DEF NextHop
  <2>2. found = {}
    BY <1>4, <2>1
  <2>3. GetDestinationHWaddr(h, external) = IF gateway # 0 THEN entry[gateway].haddr ELSE "NULL"
    <3>1. CASE gateway # 0
      BY <1>1, <2>1, <3>1, Zenon
    <3>2. CASE gateway = 0
      BY <1>1, <2>2, <3>2, Zenon
    <3> QED
      BY <3>1, <3>2, Zenon
  <2> QED
    BY <2>1, <2>3, Zenon DEF GatewayKnown
<1> QED
  BY <1>5, <1>6

-----------------------------------------------------------------------------
(* The invariant *)

LEMMA ArpStarts == ArpInit => ArpInv
<1> SUFFICES ASSUME ArpInit PROVE ArpInv
  OBVIOUS
<1>1. Cardinality(Hosts) \in Nat
  BY FS_CardinalityType, Addresses, Zenon
<1>2. ArpTypes
  <2>1. Filled(0, NoHost) \in Entry
    <3>1. 0 \in 0..4
      OBVIOUS
    <3> QED
      BY <3>1, FilledType, Zenon
  <2>2. Idle \in [at : 0..7, idx : 0..(Cardinality(Hosts) + 1), ip : Hosts \cup {NoHost},
                  reply : BOOLEAN]
    BY <1>1 DEF Idle
  <2>3. -1 \in -1..(Timeout + 1)
    BY Addresses, SMTT(30)
  <2> QED
    BY <1>1, <2>1, <2>2, <2>3 DEF ArpInit, ArpTypes
<1>3. Complete /\ Registering /\ GatewayKnown
  BY DEF ArpInit, Complete, OneEntry, Registering, GatewayKnown, Idle
<1>4. RightAddress
  BY Addresses, Zenon DEF ArpInit, RightAddress, NextHop
<1> QED
  BY <1>2, <1>3, <1>4 DEF ArpInv

\* Distinct hosts: an entry more than hosts cannot be.
LEMMA RoomForAll ==
  ASSUME ArpTypes, Complete
  PROVE  \A h \in Hosts : (\A i \in 1..entries : entry[i].masked # h) => entries < Cardinality(Hosts)
<1> SUFFICES ASSUME NEW h \in Hosts, \A i \in 1..entries : entry[i].masked # h
             PROVE  entries < Cardinality(Hosts)
  OBVIOUS
<1> DEFINE f == [i \in 1..entries |-> entry[i].masked]
           others == Hosts \ {h}
<1>1. IsFiniteSet(Hosts) /\ Cardinality(Hosts) \in Nat /\ entries \in Nat
  BY FS_CardinalityType, Addresses, SMTT(30) DEF ArpTypes
<1>2. \A i \in 1..entries : entry[i].masked \in others
  BY FilledWhole DEF Complete
<1>3. f \in Injection(1..entries, others)
  <2>1. f \in [1..entries -> others]
    BY <1>2
  <2>2. \A i, j \in 1..entries : f[i] = f[j] => i = j
    BY DEF Complete, OneEntry
  <2> HIDE DEF f, others
  <2> QED
    BY <2>1, <2>2 DEF Injection, IsInjective
<1>4. IsFiniteSet(others) /\ Cardinality(others) = Cardinality(Hosts) - 1
  BY <1>1, FS_RemoveElement
<1>5. Cardinality(1..entries) = entries
  <2>1. 1 \in Int /\ entries \in Int /\ (IF 1 > entries THEN 0 ELSE entries - 1 + 1) = entries
    BY <1>1
  <2> QED
    BY <2>1, FS_Interval, Zenon
<1>6. Cardinality(1..entries) <= Cardinality(others)
  <2> HIDE DEF f, others
  <2> QED
    BY <1>3, <1>4, FS_Injection, Zenon
<1> QED
  BY <1>1, <1>4, <1>5, <1>6

\* The steps that write neither the table nor the registration.
LEMMA ArpQuiet ==
  ASSUME ArpInv, UNCHANGED <<table, reg, sent>>,
         list' \in [Hosts -> -1..(Timeout + 1)],
         want' \in [Cores -> Hosts \cup Outside \cup {NoHost}], net' \subseteq Message
  PROVE  ArpInv'
<1>1. ArpTypes' /\ RightAddress'
  BY ZenonT(30) DEF ArpInv, ArpTypes, RightAddress, table
<1>2. Complete' /\ Registering' /\ GatewayKnown'
  BY DEF ArpInv, Complete, OneEntry, Registering, GatewayKnown, table
<1> QED
  BY <1>1, <1>2 DEF ArpInv

LEMMA ArpOutput ==
  ASSUME ArpInv, NEW c \in Cores, IPOutput(c)
  PROVE  ArpInv'
<1> DEFINE h == want[c]
           haddr == GetDestinationHWaddr(h, h \in Outside)
<1>1. /\ h \in Hosts \cup Outside /\ UNCHANGED <<table, reg>>
      /\ list \in [Hosts -> -1..(Timeout + 1)] /\ net \subseteq Message
      /\ want \in [Cores -> Hosts \cup Outside \cup {NoHost}]
  BY DEF IPOutput, ArpInv, ArpTypes
<1>2. haddr \in {"NULL", NextHop(h)}
  <2>1. (h \in Outside) \in BOOLEAN
    OBVIOUS
  <2> QED
    BY <1>1, <2>1, LookedUp, Zenon DEF ArpInv
<1>3. CASE haddr # "NULL"
  <2>1. /\ want' = [want EXCEPT ![c] = NoHost] /\ sent' = [ip |-> h, haddr |-> haddr]
        /\ UNCHANGED <<list, net>>
    BY <1>3 DEF IPOutput
  <2>2. want' \in [Cores -> Hosts \cup Outside \cup {NoHost}]
    BY <1>1, <2>1
  <2>3. RightAddress'
    <3> HIDE DEF h, haddr
    <3> QED
      BY <1>2, <1>3, <2>1 DEF RightAddress, NextHop
  <2>4. ArpTypes'
    BY <1>1, <2>1, <2>2, ZenonT(30) DEF ArpInv, ArpTypes, table
  <2>5. Complete' /\ Registering' /\ GatewayKnown'
    BY <1>1 DEF ArpInv, Complete, OneEntry, Registering, GatewayKnown, table
  <2> QED
    BY <2>3, <2>4, <2>5, Zenon DEF ArpInv
<1>4. CASE haddr = "NULL"
  <2>1. RequestARP(NextHop(h)) /\ UNCHANGED <<want, sent>>
    BY <1>4 DEF IPOutput
  <2>2. NextHop(h) \in Hosts
    BY <1>1, Addresses DEF NextHop
  <2>3. 0 \in -1..(Timeout + 1)
    BY Addresses
  <2>4. list' \in [Hosts -> -1..(Timeout + 1)]
    BY <1>1, <2>1, <2>3, Zenon DEF RequestARP
  <2>5. [op |-> "request", host |-> NextHop(h)] \in Message
    BY <2>2 DEF Message
  <2>6. net' \subseteq Message
    BY <1>1, <2>1, <2>5 DEF RequestARP
  <2> QED
    BY <1>1, <2>1, <2>4, <2>6, ArpQuiet, Zenon
<1> QED
  BY <1>3, <1>4, Zenon

LEMMA ArpReceive ==
  ASSUME ArpInv, NEW m \in Message, Receive(m)
  PROVE  ArpInv'
<1> DEFINE haddr == GetDestinationHWaddr(m.host, FALSE)
<1>1. m.host \in Hosts /\ m.host \notin Outside /\ (m.op = "reply") \in BOOLEAN
  BY Addresses DEF Message
<1>2. haddr = "NULL" => \A i \in 1..entries : entry[i].masked # m.host
  BY <1>1, LookedUp, Zenon DEF ArpInv
<1>3. /\ reg' = [at |-> IF haddr = "NULL" THEN 1 ELSE 7, idx |-> entries + 1, ip |-> m.host,
                 reply |-> m.op = "reply"]
      /\ net' = net \ {m} /\ UNCHANGED <<table, list, want, sent>> /\ reg = Idle
  BY DEF Receive
<1>4. entries + 1 \in 0..(Cardinality(Hosts) + 1)
  BY FS_CardinalityType, Addresses DEF ArpInv, ArpTypes
<1>5. reg'.at \in {1, 7} /\ reg'.idx = entries + 1 /\ reg'.ip = m.host /\ (reg'.at = 1 => haddr = "NULL")
  <2> HIDE DEF haddr
  <2>1. reg'.at = (IF haddr = "NULL" THEN 1 ELSE 7) /\ reg'.idx = entries + 1 /\ reg'.ip = m.host
    BY <1>3, Zenon
  <2> QED
    BY <2>1
<1>6. ArpTypes'
  <2>1. reg' \in [at : 0..7, idx : 0..(Cardinality(Hosts) + 1), ip : Hosts \cup {NoHost}, reply : BOOLEAN]
    <3>1. (IF haddr = "NULL" THEN 1 ELSE 7) \in 0..7
      OBVIOUS
    <3> QED BY <1>1, <1>3, <1>4, <3>1, Zenon
  <2> QED
    BY <1>3, <2>1, Zenon DEF ArpInv, ArpTypes, table
<1>7. Registering'
  <2>1. UNCHANGED <<entries, entry>>
    BY <1>3 DEF table
  <2> HIDE DEF haddr
  <2>2. reg'.at \notin 5..6 /\ (reg'.at \in 1..6 => haddr = "NULL")
    BY <1>5, SMTT(30)
  <2> QED
    BY <1>1, <1>2, <1>5, <2>1, <2>2, Zenon DEF Registering
<1>8. Complete' /\ GatewayKnown' /\ RightAddress'
  BY <1>3 DEF ArpInv, Complete, OneEntry, GatewayKnown, RightAddress, table, Idle
<1> QED
  BY <1>6, <1>7, <1>8 DEF ArpInv

LEMMA ArpRegister ==
  ASSUME ArpInv, RegisterARPEntry
  PROVE  ArpInv'
<1>1. /\ reg.at \in 1..6 /\ reg.ip \in Hosts /\ reg.idx = entries + 1 /\ entries \in Nat
      /\ \A i \in 1..entries : entry[i].masked # reg.ip
      /\ Cardinality(Hosts) \in Nat /\ entries \in 0..Cardinality(Hosts)
  BY FS_CardinalityType, Addresses, SMTT(30) DEF RegisterARPEntry, ArpInv, ArpTypes, Registering
<1>2. entries < Cardinality(Hosts)
  BY <1>1, RoomForAll DEF ArpInv
<1>3. entry \in [Slots -> Entry] /\ reg.idx \in Slots /\ 1..entries \subseteq Slots /\ gateway \in Nat
  BY <1>1, <1>2 DEF ArpInv, ArpTypes, Slots
<1>4. /\ reg' = [reg EXCEPT !.at = reg.at + 1]
      /\ entry' = [entry EXCEPT ![reg.idx] = IF reg.at <= 4 THEN Filled(reg.at, reg.ip) ELSE @]
      /\ gateway' = (IF reg.at = 5 /\ reg.ip = Gateway THEN reg.idx ELSE gateway)
      /\ entries' = (IF reg.at = 6 THEN reg.idx ELSE entries)
      /\ UNCHANGED <<list, want, net, sent>>
  BY DEF RegisterARPEntry, CountAt
<1>5. /\ reg'.at = reg.at + 1 /\ reg'.idx = reg.idx /\ reg'.ip = reg.ip
      /\ reg' \in [at : 0..7, idx : 0..(Cardinality(Hosts) + 1), ip : Hosts \cup {NoHost}, reply : BOOLEAN]
  BY <1>1, <1>4 DEF ArpInv, ArpTypes
<1>6. /\ \A i \in Slots : i # reg.idx => entry'[i] = entry[i]
      /\ entry'[reg.idx] = IF reg.at <= 4 THEN Filled(reg.at, reg.ip) ELSE entry[reg.idx]
  BY <1>3, <1>4, Zenon
<1>7. \A i \in 1..entries : entry'[i] = entry[i] /\ i # reg.idx
  BY <1>1, <1>3, <1>6, SMTT(30)
<1>8. reg.at \in 4..6 => entry'[reg.idx] = Filled(4, reg.ip)
  BY <1>1, <1>6 DEF ArpInv, Registering
<1>9. ArpTypes'
  <2>1. reg.at <= 4 => Filled(reg.at, reg.ip) \in Entry
    BY <1>1, FilledType
  <2>2. entry' \in [Slots -> Entry]
    BY <1>3, <1>4, <2>1
  <2>3. entries' \in 0..Cardinality(Hosts) /\ gateway' \in 0..Cardinality(Hosts)
    BY <1>1, <1>2, <1>4 DEF ArpInv, ArpTypes
  <2> QED
    BY <1>4, <1>5, <2>2, <2>3, Zenon DEF ArpInv, ArpTypes
<1>10. CASE reg.at = 6
  <2>1. entries' = entries + 1 /\ reg'.at = 7 /\ gateway' = gateway
    BY <1>1, <1>4, <1>5, <1>10, SMTT(30)
  <2>2. entry'[reg.idx] = Filled(4, reg.ip) /\ entry'[reg.idx].masked = reg.ip
    BY <1>8, <1>10, FilledWhole
  <2>3. \A i \in 1..entries' : i \in 1..entries \/ i = reg.idx
    BY <1>1, <2>1
  <2>4. \A i \in 1..entries' : \E h \in Hosts : entry'[i] = Filled(4, h)
    BY <1>1, <1>7, <2>2, <2>3, ZenonT(30) DEF ArpInv, Complete
  <2>5. \A i, j \in 1..entries' : i # j => entry'[i].masked # entry'[j].masked
    BY <1>1, <1>7, <2>2, <2>3 DEF ArpInv, Complete, OneEntry
  <2>6. Complete'
    BY <2>4, <2>5, Zenon DEF Complete, OneEntry
  <2>7. Registering'
    BY <1>1, <1>5, <2>1 DEF Registering
  <2>8. GatewayKnown'
    <3> SUFFICES ASSUME gateway # 0
                 PROVE  gateway \in 1..entries' /\ entry'[gateway].haddr = Gateway
      BY <2>1 DEF GatewayKnown
    <3>1. gateway \in 1..entries \/ gateway = reg.idx
      BY DEF ArpInv, GatewayKnown
    <3>2. entry'[gateway] = entry[gateway]
      BY <1>6, <1>7, <1>10, <3>1
    <3> QED
      BY <1>1, <2>1, <3>1, <3>2 DEF ArpInv, GatewayKnown
  <2> QED
    BY <1>4, <1>9, <2>6, <2>7, <2>8 DEF ArpInv, RightAddress
<1>11. CASE reg.at # 6
  <2>1. entries' = entries /\ reg'.at \in 2..6
    BY <1>1, <1>4, <1>5, <1>11, SMTT(30)
  <2>2. Complete'
    BY <1>7, <2>1, SMTT(30) DEF ArpInv, Complete, OneEntry
  <2>3. Registering'
    <3>1. reg'.at \in 5..6 => reg.at \in 4..6
      BY <1>1, <1>5
    <3> QED
      BY <1>1, <1>5, <1>7, <1>8, <2>1, <3>1, Zenon DEF Registering
  <2>4. GatewayKnown'
    <3>1. CASE reg.at = 5 /\ reg.ip = Gateway
      <4>1. gateway' = reg.idx /\ reg'.at = 6 /\ entry'[reg.idx].haddr = Gateway
        BY <1>4, <1>5, <1>8, <3>1, FilledWhole, SMTT(30)
      <4> QED
        BY <1>5, <4>1 DEF GatewayKnown
    <3>2. CASE ~(reg.at = 5 /\ reg.ip = Gateway)
      <4>1. gateway' = gateway
        BY <1>4, <3>2
      <4>2. gateway # 0 => gateway \in 1..entries /\ entry[gateway].haddr = Gateway
        BY <1>11 DEF ArpInv, GatewayKnown
      <4> QED
        BY <1>7, <2>1, <4>1, <4>2 DEF GatewayKnown
    <3> QED
      BY <3>1, <3>2
  <2> QED
    BY <1>4, <1>9, <2>2, <2>3, <2>4 DEF ArpInv, RightAddress
<1> QED
  BY <1>10, <1>11

LEMMA ArpReplyEnds ==
  ASSUME ArpInv, ProcessARPReply
  PROVE  ArpInv'
<1>1. /\ reg' = Idle /\ UNCHANGED <<table, want, net, sent>> /\ reg.at = 7
      /\ list' = IF reg.reply THEN [list EXCEPT ![reg.ip] = -1] ELSE list
  BY DEF ProcessARPReply
<1>2. -1 \in -1..(Timeout + 1) /\ Cardinality(Hosts) \in Nat
  BY FS_CardinalityType, Addresses
<1>3. list' \in [Hosts -> -1..(Timeout + 1)]
  BY <1>1, <1>2, Zenon DEF ArpInv, ArpTypes
<1>4. reg' \in [at : 0..7, idx : 0..(Cardinality(Hosts) + 1), ip : Hosts \cup {NoHost}, reply : BOOLEAN]
  BY <1>1, <1>2 DEF Idle
<1>5. ArpTypes'
  BY <1>1, <1>3, <1>4, ZenonT(30) DEF ArpInv, ArpTypes, table
<1>6. Registering' /\ Complete' /\ GatewayKnown' /\ RightAddress'
  BY <1>1 DEF ArpInv, Registering, Complete, OneEntry, GatewayKnown, RightAddress, table, Idle
<1> QED
  BY <1>5, <1>6 DEF ArpInv

LEMMA ArpStep ==
  ASSUME ArpInv, [ArpNext]_arpvars
  PROVE  ArpInv'
<1>0. /\ list \in [Hosts -> -1..(Timeout + 1)] /\ net \subseteq Message
      /\ want \in [Cores -> Hosts \cup Outside \cup {NoHost}] /\ Timeout \in Nat
  BY Addresses DEF ArpInv, ArpTypes
<1>1. ASSUME NEW c \in Cores, NEW h \in Hosts \cup Outside, Packet(c, h) PROVE ArpInv'
  <2>1. UNCHANGED <<table, reg, sent, list, net>> /\ want' = [want EXCEPT ![c] = h]
    BY <1>1 DEF Packet
  <2> QED
    BY <1>0, <2>1, ArpQuiet
<1>2. CASE ARPTimer \/ Tick
  <2>1. UNCHANGED <<table, reg, sent, want, net>>
    BY <1>2 DEF ARPTimer, Tick
  <2>2. list' \in [Hosts -> -1..(Timeout + 1)]
    <3>1. \A h \in Hosts : /\ list[h] \in -1..(Timeout + 1) /\ -1 \in -1..(Timeout + 1)
                           /\ list[h] \in 0..Timeout => list[h] + 1 \in -1..(Timeout + 1)
      BY <1>0
    <3> QED
      BY <1>2, <3>1 DEF ARPTimer, Tick
  <2> QED
    BY <1>0, <2>1, <2>2, ArpQuiet, Zenon
<1>3. ASSUME NEW h \in Hosts, HostReplies(h) \/ HostAsks(h) PROVE ArpInv'
  <2>1. [op |-> "reply", host |-> h] \in Message /\ [op |-> "ask", host |-> h] \in Message
    BY Zenon DEF Message
  <2>2. UNCHANGED <<table, reg, sent, want, list>> /\ net' \subseteq Message
    BY <1>0, <1>3, <2>1 DEF HostReplies, HostAsks
  <2> QED
    BY <1>0, <2>2, ArpQuiet
<1>4. ASSUME NEW m \in Message, Lose(m) PROVE ArpInv'
  <2>1. UNCHANGED <<table, reg, sent, want, list>> /\ net' \subseteq Message
    BY <1>0, <1>4 DEF Lose
  <2> QED
    BY <1>0, <2>1, ArpQuiet
<1>5. CASE UNCHANGED arpvars
  BY <1>0, <1>5, ArpQuiet DEF arpvars, table
<1> QED
  BY <1>1, <1>2, <1>3, <1>4, <1>5, ArpOutput, ArpReceive, ArpRegister, ArpReplyEnds, ZenonT(30)
  DEF ArpNext, Learns

LEMMA ArpInvHolds == ArpSpec => []ArpInv
<1>1. ArpInit => ArpInv
  BY ArpStarts, Zenon
<1>2. ArpInv /\ [ArpNext]_arpvars => ArpInv'
  BY ArpStep
<1> QED
  BY <1>1, <1>2, PTL DEF ArpSpec

\* GetDestinationHWaddr() without a lock while RegisterARPEntry() writes, for any number of
\* hosts and threads: a packet goes to the hardware address of its host or of the gateway,
\* no host is entered twice, and the table has room for every host.
THEOREM TableIsKept == ArpSpec => []TableKept
<1>1. ArpInv => TableKept
  BY DEF ArpInv, ArpTypes, ArpTypeOK, Complete, TableKept
<1> QED
  BY <1>1, ArpInvHolds, PTL

-----------------------------------------------------------------------------
(* The source addresses: the pools. *)

PoolRecord ==
  [entries : SUBSET Port, free : Seq(Port), used : SUBSET Port, num_entry : Nat, num_free : Int,
   num_used : Int, dst : Nat]

SockRecord ==
  [open : BOOLEAN, ip : BOOLEAN, sport : Port \cup {ANY}, asked : Port \cup {ANY},
   dst : Dests \cup {0}, stream : BOOLEAN, is_bound_addr : BOOLEAN, fetched : BOOLEAN]

PoolTypes ==
  /\ ap \in PoolRecord /\ core_ap \in [Core -> PoolRecord] /\ sock \in [Socket -> SockRecord]
  /\ failed = FALSE /\ broken = FALSE

\* The lists and the counters of one pool.
Balanced(pool) ==
  /\ IsInjective(pool.free) /\ Range(pool.free) \cap pool.used = {}
  /\ Range(pool.free) \cup pool.used = pool.entries
  /\ pool.num_free = Len(pool.free) /\ IsFiniteSet(pool.used)
  /\ pool.num_used = Cardinality(pool.used)
  /\ pool.num_free + pool.num_used = pool.num_entry

\* A pool of a core has the addresses whose packets from its destination come to it.
PoolsInv ==
  /\ Balanced(ap) /\ \A c \in Core : Balanced(core_ap[c])
  /\ \A c \in Core :
       /\ core_ap[c] # NoPool <=> core_ap[c].dst # 0
       /\ \A p \in core_ap[c].entries : RssCore(p, core_ap[c].dst) = c

\* Where a socket is: one that is closed has nothing, one with an address of a pool has
\* an IP address, one that has an IP address got it from a pool or was bound, and one that
\* will give it back is connected.
SockInv(r) ==
  /\ r.stream \/ r.fetched \/ r.ip => r.open
  /\ r.fetched => r.ip
  /\ r.ip => r.sport \in Port /\ (r.fetched \/ r.asked # ANY)
  /\ r.stream => r.ip
  /\ r.is_bound_addr => r.stream /\ r.fetched

SocksInv == \A s \in Socket : SockInv(sock[s])

\* Two sockets get their addresses from one pool.
Shares(s, t) ==
  \/ CoreOf(s) = CoreOf(t)
  \/ core_ap[CoreOf(s)] = NoPool /\ core_ap[CoreOf(t)] = NoPool

\* An address that a socket got is in use in its pool, and no other socket of that pool
\* has got it.
HeldInv ==
  /\ \A s \in Socket : sock[s].fetched => sock[s].sport \in PoolOf(s).used
  /\ \A s, t \in Socket :
       s # t /\ sock[s].fetched /\ sock[t].fetched /\ Shares(s, t) => sock[s].sport # sock[t].sport

AddressInv == PoolTypes /\ PoolsInv /\ SocksInv /\ HeldInv /\ SameCore

-----------------------------------------------------------------------------
(* One pool *)

LEMMA PoolNums ==
  /\ NumCores \in Nat /\ NumCores > 0 /\ Ports \in Nat /\ Sockets \in Nat
  /\ \A d \in Dests : d \in Nat /\ d # 0
  /\ Port \subseteq Nat /\ ANY \notin Port
BY AddressPoolAssumption DEF Port, ANY

LEMMA CoreIs == \A s \in Socket : CoreOf(s) \in Core
BY PoolNums DEF Socket, CoreOf, Core

LEMMA RemovedIs ==
  ASSUME NEW S, NEW f \in Seq(S), NEW i \in 1..Len(f), IsInjective(f)
  PROVE  /\ Removed(f, i) \in Seq(S) /\ Len(Removed(f, i)) = Len(f) - 1
         /\ IsInjective(Removed(f, i)) /\ Range(Removed(f, i)) = Range(f) \ {f[i]}
         /\ f[i] \in Range(f) /\ f[i] \in S
<1> DEFINE g == Removed(f, i)
           n == Len(f)
<1>1. /\ n \in Nat /\ DOMAIN f = 1..n /\ DOMAIN g = 1..(n - 1) /\ n >= 1
      /\ \A j \in 1..(n - 1) : j \in 1..n /\ j + 1 \in 1..n
  BY DEF Removed
<1>2. \A j \in 1..(n - 1) : /\ j < i => g[j] = f[j]
                            /\ ~(j < i) => g[j] = f[j + 1]
  BY <1>1 DEF Removed
<1>3. \A j \in 1..n : f[j] \in S
  BY <1>1
<1>4. \A j \in 1..n : j # i => (j < i /\ j \in 1..(n - 1))
                               \/ (~(j - 1 < i) /\ j - 1 \in 1..(n - 1) /\ (j - 1) + 1 = j)
  BY <1>1
<1>5. \A j, k \in 1..n : f[j] = f[k] => j = k
  BY <1>1, ZenonT(30) DEF IsInjective
<1>6. \A j \in 1..(n - 1) : g[j] \in S
  BY <1>1, <1>2, <1>3
<1>7. g \in Seq(S) /\ Len(g) = n - 1
  <2>1. g = [j \in 1..(n - 1) |-> g[j]]
    BY <1>1 DEF Removed
  <2>2. n - 1 \in Nat
    BY <1>1
  <2> QED BY <1>6, <2>1, <2>2, SMTT(30)
<1>8. IsInjective(g)
  <2> DEFINE e(j) == IF j < i THEN j ELSE j + 1
  <2>1. \A j \in 1..(n - 1) : e(j) \in 1..n /\ g[j] = f[e(j)]
    BY <1>1, <1>2
  <2>2. \A j, k \in 1..(n - 1) : e(j) = e(k) => j = k
    BY <1>1
  <2> HIDE DEF e, g
  <2>3. \A j, k \in 1..(n - 1) : g[j] = g[k] => j = k
    BY <1>5, <2>1, <2>2, Zenon
  <2> QED BY <1>1, <2>3, Zenon DEF IsInjective
<1>9. Range(g) = Range(f) \ {f[i]}
  <2>1. \A j \in 1..(n - 1) : g[j] \in Range(f) /\ g[j] # f[i]
    <3> DEFINE e(j) == IF j < i THEN j ELSE j + 1
    <3>1. \A j \in 1..(n - 1) : e(j) \in 1..n /\ e(j) # i /\ g[j] = f[e(j)]
      BY <1>1, <1>2, SMTT(30)
    <3> HIDE DEF e, g
    <3> QED BY <1>1, <1>5, <3>1, Zenon DEF Range
  <2>2. ASSUME NEW j \in 1..n, f[j] # f[i] PROVE \E k \in 1..(n - 1) : g[k] = f[j]
    <3>1. j # i
      BY <2>2, Zenon
    <3>2. CASE j < i /\ j \in 1..(n - 1)
      BY <1>2, <3>2, Zenon
    <3>3. CASE ~(j - 1 < i) /\ j - 1 \in 1..(n - 1) /\ (j - 1) + 1 = j
      BY <1>2, <3>3, ZenonT(30)
    <3> QED BY <1>4, <3>1, <3>2, <3>3
  <2> HIDE DEF g
  <2>3. Range(g) \subseteq Range(f) \ {f[i]}
    BY <1>1, <2>1 DEF Range
  <2>4. ASSUME NEW x \in Range(f), x # f[i] PROVE x \in Range(g)
    <3>1. PICK j \in 1..n : x = f[j]
      BY <1>1, <2>4, Zenon DEF Range
    <3>2. PICK k \in 1..(n - 1) : g[k] = f[j]
      BY <2>2, <2>4, <3>1, Zenon
    <3> QED BY <1>1, <3>1, <3>2, Zenon DEF Range
  <2> QED BY <2>3, <2>4
<1>10. f[i] \in Range(f) /\ f[i] \in S
  BY <1>1, <1>3 DEF Range
<1> QED BY <1>7, <1>8, <1>9, <1>10

\* Balanced, said of the fields.
Even(e, f, u, n, nf, nu) ==
  /\ IsInjective(f) /\ Range(f) \cap u = {} /\ Range(f) \cup u = e
  /\ nf = Len(f) /\ IsFiniteSet(u) /\ nu = Cardinality(u) /\ nf + nu = n

EvenPorts(e, f, u, n, nf, nu) ==
  /\ Even(e, f, u, n, nf, nu) /\ f \in Seq(Port) /\ u \in SUBSET Port
  /\ n \in Nat /\ nf \in Int /\ nu \in Int

LEMMA EvenIs ==
  ASSUME NEW pool
  PROVE  Balanced(pool) <=>
           Even(pool.entries, pool.free, pool.used, pool.num_entry, pool.num_free, pool.num_used)
BY Zenon DEF Balanced, Even

LEMMA PoolFields ==
  ASSUME NEW pool \in PoolRecord
  PROVE  /\ pool.entries \in SUBSET Port /\ pool.free \in Seq(Port) /\ pool.used \in SUBSET Port
         /\ pool.num_entry \in Nat /\ pool.num_free \in Int /\ pool.num_used \in Int
         /\ pool.dst \in Nat
BY DEF PoolRecord

LEMMA Moves ==
  ASSUME NEW e, NEW f, NEW u, NEW g, NEW p,
         f \cap u = {}, f \cup u = e, p \in f, g = f \ {p}
  PROVE  /\ p \in e /\ p \notin u
         /\ g \cap (u \cup {p}) = {} /\ g \cup (u \cup {p}) = e
BY Zenon

LEMMA MovesBack ==
  ASSUME NEW e, NEW f, NEW u, NEW g, NEW p,
         f \cap u = {}, f \cup u = e, p \in u, g = f \cup {p}
  PROVE  /\ p \in e /\ p \notin f
         /\ g \cap (u \ {p}) = {} /\ g \cup (u \ {p}) = e
BY Zenon

LEMMA CountsOn ==
  ASSUME NEW nf \in Int, NEW nu \in Int, NEW n \in Nat, NEW lf, NEW lg, NEW cu, NEW cv,
         nf = lf, nu = cu, nf + nu = n
  PROVE  /\ lg = lf - 1 /\ cv = cu + 1 => nf - 1 = lg /\ nu + 1 = cv /\ (nf - 1) + (nu + 1) = n
         /\ lg = lf + 1 /\ cv = cu - 1 => nf + 1 = lg /\ nu - 1 = cv /\ (nf + 1) + (nu - 1) = n
OBVIOUS

EvenAfterTake(e, f, u, n, nf, nu, i) ==
  /\ Even(e, Removed(f, i), u \cup {f[i]}, n, nf - 1, nu + 1)
  /\ Removed(f, i) \in Seq(Port) /\ f[i] \in Port /\ f[i] \in e /\ f[i] \notin u

EvenAfterGive(e, f, u, n, nf, nu, p) ==
  /\ Even(e, Append(f, p), u \ {p}, n, nf + 1, nu - 1)
  /\ Append(f, p) \in Seq(Port) /\ p \in e

LEMMA EvenTaken ==
  ASSUME NEW e, NEW f, NEW u, NEW n, NEW nf, NEW nu, EvenPorts(e, f, u, n, nf, nu),
         NEW i \in 1..Len(f)
  PROVE  EvenAfterTake(e, f, u, n, nf, nu, i)
<1> DEFINE p == f[i]
           r == Removed(f, i)
<1>0. /\ Even(e, f, u, n, nf, nu) /\ f \in Seq(Port) /\ u \in SUBSET Port
      /\ n \in Nat /\ nf \in Int /\ nu \in Int
  BY Zenon DEF EvenPorts
<1>1. /\ r \in Seq(Port) /\ Len(r) = Len(f) - 1 /\ IsInjective(r)
      /\ Range(r) = Range(f) \ {p} /\ p \in Range(f) /\ p \in Port
  <2>1. IsInjective(f)
    BY <1>0, Zenon DEF Even
  <2> QED BY <1>0, <2>1, RemovedIs
<1> HIDE DEF p, r
<1>2. /\ p \in e /\ p \notin u
      /\ Range(r) \cap (u \cup {p}) = {} /\ Range(r) \cup (u \cup {p}) = e
  <2>1. Range(f) \cap u = {} /\ Range(f) \cup u = e
    BY <1>0, Zenon DEF Even
  <2> QED BY <1>1, <2>1, Moves
<1>3. IsFiniteSet(u \cup {p}) /\ Cardinality(u \cup {p}) = Cardinality(u) + 1
  <2>1. IsFiniteSet(u)
    BY <1>0, Zenon DEF Even
  <2> QED BY <1>2, <2>1, FS_AddElement
<1>4. nf - 1 = Len(r) /\ nu + 1 = Cardinality(u \cup {p}) /\ (nf - 1) + (nu + 1) = n
  <2>1. nf = Len(f) /\ nu = Cardinality(u) /\ nf + nu = n
    BY <1>0, Zenon DEF Even
  <2> QED BY <1>0, <1>1, <1>3, <2>1, CountsOn
<1>5. Even(e, r, u \cup {p}, n, nf - 1, nu + 1)
  BY <1>1, <1>2, <1>3, <1>4, Zenon DEF Even
<1> QED BY <1>1, <1>2, <1>5, Zenon DEF p, r, EvenAfterTake

LEMMA TakenIs ==
  ASSUME NEW pool \in PoolRecord, Balanced(pool), NEW i \in 1..Len(pool.free)
  PROVE  LET q == Taken(pool, i) IN
         /\ q \in PoolRecord /\ Balanced(q) /\ q.entries = pool.entries /\ q.dst = pool.dst
         /\ q.used = pool.used \cup {pool.free[i]}
         /\ pool.free[i] \in Port /\ pool.free[i] \in pool.entries /\ pool.free[i] \notin pool.used
<1> DEFINE p == pool.free[i]
           r == Removed(pool.free, i)
           q == Taken(pool, i)
<1>1. /\ pool.entries \in SUBSET Port /\ pool.free \in Seq(Port) /\ pool.used \in SUBSET Port
      /\ pool.num_entry \in Nat /\ pool.num_free \in Int /\ pool.num_used \in Int /\ pool.dst \in Nat
  BY PoolFields, Zenon
<1>2. /\ Even(pool.entries, r, pool.used \cup {p}, pool.num_entry, pool.num_free - 1,
              pool.num_used + 1)
      /\ r \in Seq(Port) /\ p \in Port /\ p \in pool.entries /\ p \notin pool.used
  <2>1. EvenPorts(pool.entries, pool.free, pool.used, pool.num_entry, pool.num_free,
                  pool.num_used)
    BY <1>1, EvenIs, Zenon DEF EvenPorts
  <2>2. EvenAfterTake(pool.entries, pool.free, pool.used, pool.num_entry, pool.num_free,
                       pool.num_used, i)
    BY <2>1, EvenTaken, ZenonT(30)
  <2> QED BY <2>2, Zenon DEF EvenAfterTake
<1>3. /\ q.entries = pool.entries /\ q.free = r /\ q.used = pool.used \cup {p}
      /\ q.num_entry = pool.num_entry /\ q.num_free = pool.num_free - 1
      /\ q.num_used = pool.num_used + 1 /\ q.dst = pool.dst
  BY Zenon DEF Taken
<1>4. Balanced(q)
  <2> HIDE DEF q, p, r
  <2> QED BY <1>2, <1>3, EvenIs, Zenon
<1>5. q \in PoolRecord
  <2>1. pool.used \cup {p} \in SUBSET Port
    BY <1>1, <1>2, Zenon
  <2>2. pool.num_free - 1 \in Int /\ pool.num_used + 1 \in Int
    <3> HIDE DEF p, r, q
    <3> QED BY <1>1, SMTT(30)
  <2> QED BY <1>1, <1>2, <2>1, <2>2, Zenon DEF Taken, PoolRecord
<1> QED BY <1>2, <1>3, <1>4, <1>5, Zenon

LEMMA GivenList ==
  ASSUME NEW S, NEW f \in Seq(S), NEW p \in S, IsInjective(f), p \notin Range(f)
  PROVE  LET a == Append(f, p) IN
         /\ a \in Seq(S) /\ Len(a) = Len(f) + 1 /\ IsInjective(a) /\ Range(a) = Range(f) \cup {p}
<1> DEFINE a == Append(f, p)
           n == Len(f)
<1>1. /\ a \in Seq(S) /\ Len(a) = n + 1 /\ n \in Nat /\ DOMAIN a = 1..(n + 1) /\ DOMAIN f = 1..n
      /\ a[n + 1] = p /\ \A i \in 1..n : a[i] = f[i]
  OBVIOUS
<1>2. \A i \in 1..(n + 1) : i = n + 1 \/ i \in 1..n
  BY <1>1, SMTT(30)
<1>3. n + 1 \in 1..(n + 1) /\ \A i \in 1..n : i \in 1..(n + 1)
  BY <1>1
<1>4. \A i \in 1..n : f[i] # p
  BY <1>1, Zenon DEF Range
<1>5. \A i, j \in 1..n : f[i] = f[j] => i = j
  BY <1>1, Zenon DEF IsInjective
<1> HIDE DEF a
<1>6. IsInjective(a)
  BY <1>1, <1>2, <1>4, <1>5 DEF IsInjective
<1>7. Range(a) = Range(f) \cup {p}
  <2>1. \A i \in 1..(n + 1) : a[i] \in Range(f) \cup {p}
    BY <1>1, <1>2 DEF Range
  <2>2. p \in Range(a) /\ \A i \in 1..n : f[i] \in Range(a)
    BY <1>1, <1>3 DEF Range
  <2> QED BY <1>1, <2>1, <2>2, Zenon DEF Range
<1> QED BY <1>1, <1>6, <1>7, ZenonT(30) DEF a

LEMMA EvenGiven ==
  ASSUME NEW e, NEW f, NEW u, NEW n, NEW nf, NEW nu, EvenPorts(e, f, u, n, nf, nu), NEW p \in u
  PROVE  EvenAfterGive(e, f, u, n, nf, nu, p)
<1> DEFINE a == Append(f, p)
<1>0. /\ Even(e, f, u, n, nf, nu) /\ f \in Seq(Port) /\ u \in SUBSET Port
      /\ n \in Nat /\ nf \in Int /\ nu \in Int
  BY Zenon DEF EvenPorts
<1>1. p \in Port /\ p \notin Range(f)
  BY <1>0, Zenon DEF Even
<1>2. a \in Seq(Port) /\ Len(a) = Len(f) + 1 /\ IsInjective(a) /\ Range(a) = Range(f) \cup {p}
  <2>1. IsInjective(f)
    BY <1>0, Zenon DEF Even
  <2> QED BY <1>0, <1>1, <2>1, GivenList
<1> HIDE DEF a
<1>3. p \in e /\ Range(a) \cap (u \ {p}) = {} /\ Range(a) \cup (u \ {p}) = e
  <2>1. Range(f) \cap u = {} /\ Range(f) \cup u = e
    BY <1>0, Zenon DEF Even
  <2> QED BY <1>2, <2>1, MovesBack
<1>4. IsFiniteSet(u \ {p}) /\ Cardinality(u \ {p}) = Cardinality(u) - 1
  <2>1. IsFiniteSet(u)
    BY <1>0, Zenon DEF Even
  <2> QED BY <2>1, FS_RemoveElement
<1>5. nf + 1 = Len(a) /\ nu - 1 = Cardinality(u \ {p}) /\ (nf + 1) + (nu - 1) = n
  <2>1. nf = Len(f) /\ nu = Cardinality(u) /\ nf + nu = n
    BY <1>0, Zenon DEF Even
  <2> QED BY <1>0, <1>2, <1>4, <2>1, CountsOn
<1>6. Even(e, a, u \ {p}, n, nf + 1, nu - 1)
  BY <1>2, <1>3, <1>4, <1>5, Zenon DEF Even
<1> QED BY <1>2, <1>3, <1>6, Zenon DEF a, EvenAfterGive

LEMMA GivenIs ==
  ASSUME NEW pool \in PoolRecord, Balanced(pool), NEW p \in pool.used
  PROVE  LET q == Given(pool, p) IN
         /\ q \in PoolRecord /\ Balanced(q) /\ q.entries = pool.entries /\ q.dst = pool.dst
         /\ q.used = pool.used \ {p} /\ p \in pool.entries
<1> DEFINE a == Append(pool.free, p)
           q == Given(pool, p)
<1>1. /\ pool.entries \in SUBSET Port /\ pool.free \in Seq(Port) /\ pool.used \in SUBSET Port
      /\ pool.num_entry \in Nat /\ pool.num_free \in Int /\ pool.num_used \in Int /\ pool.dst \in Nat
  BY PoolFields, Zenon
<1>2. /\ Even(pool.entries, a, pool.used \ {p}, pool.num_entry, pool.num_free + 1,
              pool.num_used - 1)
      /\ a \in Seq(Port) /\ p \in pool.entries
  <2>1. EvenPorts(pool.entries, pool.free, pool.used, pool.num_entry, pool.num_free,
                  pool.num_used)
    BY <1>1, EvenIs, Zenon DEF EvenPorts
  <2>2. EvenAfterGive(pool.entries, pool.free, pool.used, pool.num_entry, pool.num_free,
                       pool.num_used, p)
    BY <2>1, EvenGiven, ZenonT(30)
  <2> QED BY <2>2, Zenon DEF EvenAfterGive
<1>3. /\ q.entries = pool.entries /\ q.free = a /\ q.used = pool.used \ {p}
      /\ q.num_entry = pool.num_entry /\ q.num_free = pool.num_free + 1
      /\ q.num_used = pool.num_used - 1 /\ q.dst = pool.dst
  BY Zenon DEF Given
<1>4. Balanced(q)
  <2> HIDE DEF q, a
  <2> QED BY <1>2, <1>3, EvenIs, Zenon
<1>5. q \in PoolRecord
  <2>1. pool.used \ {p} \in SUBSET Port
    BY <1>1, Zenon
  <2>2. pool.num_free + 1 \in Int /\ pool.num_used - 1 \in Int
    <3> HIDE DEF a, q
    <3> QED BY <1>1
  <2> QED BY <1>1, <1>2, <2>1, <2>2, Zenon DEF Given, PoolRecord
<1> QED BY <1>2, <1>3, <1>4, <1>5, Zenon

LEMMA NewPoolIs ==
  ASSUME NEW f \in Seq(Port), IsInjective(f), NEW d \in Nat
  PROVE  LET q == NewPool(f, d) IN
         q \in PoolRecord /\ Balanced(q) /\ q.entries = Range(f) /\ q.dst = d
<1> DEFINE q == NewPool(f, d)
<1>1. /\ q.entries = Range(f) /\ q.free = f /\ q.used = {} /\ q.num_entry = Len(f)
      /\ q.num_free = Len(f) /\ q.num_used = 0 /\ q.dst = d
  BY Zenon DEF NewPool
<1>2. Len(f) \in Nat /\ Range(f) \subseteq Port /\ Len(f) + 0 = Len(f)
  BY DEF Range
<1>3. q \in PoolRecord
  <2>1. Len(f) \in Int /\ 0 \in Int /\ {} \in SUBSET Port /\ Range(f) \in SUBSET Port
    BY <1>2
  <2> QED BY <1>2, <2>1, Zenon DEF NewPool, PoolRecord
<1>4. Balanced(q)
  <2>1. IsFiniteSet({}) /\ Cardinality({}) = 0
    BY FS_EmptySet, Zenon
  <2>2. Range(f) \cap {} = {} /\ Range(f) \cup {} = Range(f)
    BY Zenon
  <2>3. Even(Range(f), f, {}, Len(f), Len(f), 0)
    BY <1>2, <2>1, <2>2, Zenon DEF Even
  <2> HIDE DEF q
  <2> QED BY <1>1, <2>3, EvenIs, Zenon
<1> QED BY <1>1, <1>3, <1>4, Zenon

-----------------------------------------------------------------------------
(* The sockets and their pools *)

\* Of two records of sockets that differ in some fields.
LEMMA SockFields ==
  ASSUME NEW r \in SockRecord
  PROVE  /\ r.open \in BOOLEAN /\ r.ip \in BOOLEAN /\ r.sport \in Port \cup {ANY}
         /\ r.asked \in Port \cup {ANY} /\ r.dst \in Dests \cup {0} /\ r.stream \in BOOLEAN
         /\ r.is_bound_addr \in BOOLEAN /\ r.fetched \in BOOLEAN
BY DEF SockRecord

\* A pool of a core stays one, and no other becomes one, when its lists change.
LEMMA StillPool ==
  ASSUME AddressInv, NEW c \in Core, NEW pool, core_ap[c] # NoPool, pool.dst = core_ap[c].dst
  PROVE  pool # NoPool /\ pool.dst # 0
<1>1. core_ap[c].dst # 0
  BY ZenonT(30) DEF AddressInv, PoolsInv
<1>2. NoPool.dst = 0
  BY DEF NoPool
<1> QED BY <1>1, <1>2, SMTT(30)

\* One socket changes, and the lists of the pool that it gets its address from.
LEMMA AddressStep ==
  ASSUME AddressInv, NEW s \in Socket, NEW r \in SockRecord, NEW pool \in PoolRecord,
         SockInv(r), r.stream => RssCore(r.sport, r.dst) = CoreOf(s),
         sock' = [sock EXCEPT ![s] = r], UNCHANGED <<failed, broken>>,
         Balanced(pool), pool.entries = PoolOf(s).entries, pool.dst = PoolOf(s).dst,
         core_ap[CoreOf(s)] # NoPool =>
           core_ap' = [core_ap EXCEPT ![CoreOf(s)] = pool] /\ ap' = ap,
         core_ap[CoreOf(s)] = NoPool => core_ap' = core_ap /\ ap' = pool,
         \A t \in Socket : t # s /\ Shares(s, t) /\ sock[t].fetched => sock[t].sport \in pool.used,
         r.fetched =>
           /\ r.sport \in pool.used
           /\ \A t \in Socket : t # s /\ Shares(s, t) /\ sock[t].fetched => sock[t].sport # r.sport
  PROVE  AddressInv'
<1> DEFINE c == CoreOf(s)
<1>0. c \in Core /\ \A t \in Socket : CoreOf(t) \in Core
  BY CoreIs, Zenon
<1>1. \A t \in Socket : sock'[t] = IF t = s THEN r ELSE sock[t]
  BY Zenon DEF AddressInv, PoolTypes
<1>2. \A b \in Core : core_ap'[b] = IF b = c /\ core_ap[c] # NoPool THEN pool ELSE core_ap[b]
  BY <1>0, Zenon DEF AddressInv, PoolTypes
<1>3. PoolTypes'
  <2>1. sock' \in [Socket -> SockRecord]
    BY Zenon DEF AddressInv, PoolTypes
  <2>2. ap' \in PoolRecord /\ core_ap' \in [Core -> PoolRecord]
    BY <1>0, Zenon DEF AddressInv, PoolTypes
  <2> QED BY <2>1, <2>2, Zenon DEF AddressInv, PoolTypes
<1>4. core_ap[c] # NoPool => pool # NoPool /\ pool.dst # 0
  BY <1>0, StillPool, Zenon DEF PoolOf
<1>5. \A b \in Core : core_ap'[b] = NoPool <=> core_ap[b] = NoPool
  BY <1>2, <1>4, Zenon
<1>6. PoolsInv'
  <2>1. Balanced(ap)'
    <3>1. Balanced(ap')
      BY Zenon DEF AddressInv, PoolsInv
    <3> QED BY <3>1, Zenon DEF Balanced
  <2>2. \A b \in Core : Balanced(core_ap'[b])
    BY <1>2, Zenon DEF AddressInv, PoolsInv
  <2>3. ASSUME NEW b \in Core
        PROVE  /\ core_ap'[b] # NoPool <=> core_ap'[b].dst # 0
               /\ \A p \in core_ap'[b].entries : RssCore(p, core_ap'[b].dst) = b
    <3>1. CASE b = c /\ core_ap[c] # NoPool
      <4>1. core_ap'[b] = pool /\ pool.entries = core_ap[c].entries /\ pool.dst = core_ap[c].dst
        BY <1>2, <3>1, Zenon DEF PoolOf
      <4>2. \A p \in core_ap[c].entries : RssCore(p, core_ap[c].dst) = c
        BY <1>0, Zenon DEF AddressInv, PoolsInv
      <4> QED BY <1>4, <3>1, <4>1, <4>2, Zenon
    <3>2. CASE ~(b = c /\ core_ap[c] # NoPool)
      <4>1. core_ap'[b] = core_ap[b]
        BY <1>2, <3>2, Zenon
      <4> QED BY <4>1, Zenon DEF AddressInv, PoolsInv
    <3> QED BY <3>1, <3>2, Zenon
  <2> QED BY <2>1, <2>2, <2>3, Zenon DEF PoolsInv, Balanced, NoPool, RssCore
<1>7. SocksInv'
  <2>1. \A t \in Socket : SockInv(sock'[t])
    BY <1>1, Zenon DEF AddressInv, SocksInv
  <2> QED BY <2>1, Zenon DEF SocksInv, SockInv
<1>8. SameCore'
  <2>1. \A t \in Socket : sock'[t].stream => RssCore(sock'[t].sport, sock'[t].dst) = CoreOf(t)
    BY <1>1, ZenonT(30) DEF AddressInv, SameCore
  <2> QED BY <2>1 DEF SameCore, RssCore, CoreOf
<1>9. HeldInv'
  <2>1. \A t, u \in Socket : Shares(t, u)' <=> Shares(t, u)
    BY <1>0, <1>5, Zenon DEF Shares, CoreOf, NoPool
  <2>2. ASSUME NEW t \in Socket PROVE PoolOf(t)' = IF Shares(s, t) THEN pool ELSE PoolOf(t)
    <3>1. PoolOf(t)' = IF core_ap'[CoreOf(t)] # NoPool THEN core_ap'[CoreOf(t)] ELSE ap'
      BY Zenon DEF PoolOf, CoreOf, NoPool
    <3>2. CASE CoreOf(t) = c
      BY <1>0, <1>2, <1>5, <3>1, <3>2, Zenon DEF Shares
    <3>3. CASE CoreOf(t) # c
      BY <1>0, <1>2, <1>5, <3>1, <3>3, Zenon DEF Shares, PoolOf
    <3> QED BY <3>2, <3>3, Zenon
  <2>3. ASSUME NEW t \in Socket, sock'[t].fetched PROVE sock'[t].sport \in PoolOf(t)'.used
    <3>1. CASE t = s
      <4>1. Shares(s, s)
        BY Zenon DEF Shares
      <4> QED BY <1>1, <2>2, <2>3, <3>1, <4>1, Zenon
    <3>2. CASE t # s
      <4>1. sock'[t] = sock[t] /\ sock[t].sport \in PoolOf(t).used
        BY <1>1, <2>3, <3>2, Zenon DEF AddressInv, HeldInv
      <4> QED BY <2>2, <2>3, <3>2, <4>1, Zenon
    <3> QED BY <3>1, <3>2, Zenon
  <2>4. \A t, u \in Socket : Shares(t, u) => Shares(u, t)
    BY Zenon DEF Shares
  <2>5. ASSUME NEW t \in Socket, NEW u \in Socket, t # u, sock'[t].fetched, sock'[u].fetched, Shares(t, u)
        PROVE  sock'[t].sport # sock'[u].sport
    <3>1. CASE t = s
      BY <1>1, <2>5, <3>1, ZenonT(30)
    <3>2. CASE u = s
      BY <1>1, <2>4, <2>5, <3>2, Zenon
    <3>3. CASE t # s /\ u # s
      <4>1. sock'[t] = sock[t] /\ sock'[u] = sock[u]
        BY <1>1, <3>3, Zenon
      <4> QED BY <2>5, <4>1, Zenon DEF AddressInv, HeldInv
    <3> QED BY <3>1, <3>2, <3>3, Zenon
  <2> QED BY <2>1, <2>3, <2>5, Zenon DEF HeldInv
<1> QED BY <1>3, <1>6, <1>7, <1>8, <1>9, Zenon DEF AddressInv

\* One socket changes and no pool does.
LEMMA SockStep ==
  ASSUME AddressInv, NEW s \in Socket, NEW r \in SockRecord, SockInv(r),
         r.stream => RssCore(r.sport, r.dst) = CoreOf(s),
         r.fetched => sock[s].fetched /\ r.sport = sock[s].sport,
         sock' = [sock EXCEPT ![s] = r], UNCHANGED <<ap, core_ap, failed, broken>>
  PROVE  AddressInv'
<1> DEFINE pool == PoolOf(s)
<1>1. CoreOf(s) \in Core
  BY CoreIs
<1>2. pool \in PoolRecord /\ Balanced(pool)
  BY <1>1, Zenon DEF PoolOf, AddressInv, PoolTypes, PoolsInv
<1>3. core_ap[CoreOf(s)] # NoPool => pool = core_ap[CoreOf(s)]
  BY DEF PoolOf
<1>4. core_ap[CoreOf(s)] = NoPool => pool = ap
  BY Zenon DEF PoolOf
<1>5. core_ap[CoreOf(s)] # NoPool => core_ap' = [core_ap EXCEPT ![CoreOf(s)] = pool] /\ ap' = ap
  BY <1>1, <1>3, Zenon DEF AddressInv, PoolTypes
<1>6. core_ap[CoreOf(s)] = NoPool => core_ap' = core_ap /\ ap' = pool
  BY <1>4, Zenon
<1>7. \A t \in Socket : Shares(s, t) => PoolOf(t) = pool
  BY DEF Shares, PoolOf
<1>8. \A t \in Socket : t # s /\ Shares(s, t) /\ sock[t].fetched => sock[t].sport \in pool.used
  BY <1>7, Zenon DEF AddressInv, HeldInv
<1>9. r.fetched => /\ r.sport \in pool.used
                   /\ \A t \in Socket : t # s /\ Shares(s, t) /\ sock[t].fetched => sock[t].sport # r.sport
  BY Zenon DEF AddressInv, HeldInv
<1> HIDE DEF pool
<1>10. pool.entries = PoolOf(s).entries /\ pool.dst = PoolOf(s).dst /\ UNCHANGED <<failed, broken>>
  BY ZenonT(30) DEF pool
<1> QED BY <1>2, <1>5, <1>6, <1>8, <1>9, <1>10, AddressStep, Zenon

LEMMA ClosedIs ==
  /\ Closed \in SockRecord /\ SockInv(Closed) /\ ~Closed.stream /\ ~Closed.fetched /\ ~Closed.ip
  /\ ~Closed.is_bound_addr
BY DEF Closed, SockRecord, SockInv

LEMMA SocketStep ==
  ASSUME AddressInv, NEW s \in Socket, mtcp_socket(s)
  PROVE  AddressInv'
<1> DEFINE r == [Closed EXCEPT !.open = TRUE]
<1>1. r \in SockRecord /\ SockInv(r) /\ ~r.stream /\ ~r.fetched
  BY Zenon DEF Closed, SockRecord, SockInv
<1>2. sock' = [sock EXCEPT ![s] = r] /\ UNCHANGED <<ap, core_ap, failed, broken>>
  BY DEF mtcp_socket
<1> HIDE DEF r
<1> QED BY <1>1, <1>2, SockStep, Zenon

\* What mtcp_bind() sets.
BindTo(w, p, ip) == [w EXCEPT !.sport = p, !.asked = p, !.ip = ip]
IsBound(r, w, p, ip) ==
  /\ r \in SockRecord /\ r.sport = p /\ r.asked = p /\ r.ip = ip /\ r.open = w.open
  /\ r.stream = w.stream /\ r.fetched = w.fetched
  /\ r.is_bound_addr = w.is_bound_addr /\ r.dst = w.dst

LEMMA BoundIs ==
  ASSUME NEW w \in SockRecord, NEW p \in Port, NEW ip \in BOOLEAN
  PROVE  IsBound(BindTo(w, p, ip), w, p, ip)
<1> DEFINE r == BindTo(w, p, ip)
<1> USE DEF BindTo
<1>1. r \in SockRecord
  BY Zenon DEF SockRecord
<1>2. r.sport = p /\ r.asked = p /\ r.ip = ip
  BY DEF SockRecord
<1>3. r.open = w.open /\ r.stream = w.stream /\ r.fetched = w.fetched
  BY DEF SockRecord
<1>4. r.is_bound_addr = w.is_bound_addr /\ r.dst = w.dst
  BY DEF SockRecord
<1> QED BY <1>1, <1>2, <1>3, <1>4, Zenon DEF IsBound

LEMMA BindStep ==
  ASSUME AddressInv, NEW s \in Socket, mtcp_bind(s)
  PROVE  AddressInv'
<1>0. sock[s] \in SockRecord /\ ~sock[s].fetched /\ sock[s].open /\ ~sock[s].stream /\ ~sock[s].is_bound_addr
  BY DEF AddressInv, PoolTypes, SocksInv, SockInv, mtcp_bind
<1>1. PICK p \in Port, ip \in BOOLEAN :
        sock' = [sock EXCEPT ![s] = [sock[s] EXCEPT !.sport = p, !.asked = p, !.ip = ip]]
  BY Zenon DEF mtcp_bind, AddressInv, PoolTypes
<1> DEFINE r == BindTo(sock[s], p, ip)
<1>2. sock' = [sock EXCEPT ![s] = r]
  BY <1>1, Zenon DEF BindTo
<1>3. UNCHANGED <<ap, core_ap, failed, broken>>
  BY DEF mtcp_bind
<1>b. IsBound(r, sock[s], p, ip)
  BY <1>0, BoundIs, Zenon
<1> HIDE DEF r
<1>4. /\ r \in SockRecord /\ r.sport = p /\ r.asked = p /\ r.ip = ip /\ r.open = sock[s].open
      /\ r.stream = sock[s].stream /\ r.fetched = sock[s].fetched
      /\ r.is_bound_addr = sock[s].is_bound_addr /\ r.dst = sock[s].dst
  BY <1>b, Zenon DEF IsBound
<1>5. ~r.fetched /\ ~r.stream /\ ~r.is_bound_addr /\ r.open
  BY <1>0, <1>4, ZenonT(30)
<1>6. SockInv(r)
  <2>1. p # ANY
    BY DEF Port, ANY
  <2> QED BY <1>4, <1>5, <2>1 DEF SockInv
<1> QED BY <1>0, <1>2, <1>3, <1>4, <1>5, <1>6, SockStep, Zenon

LEMMA CloseStep ==
  ASSUME AddressInv, NEW s \in Socket, CloseUnconnected(s)
  PROVE  AddressInv'
<1>1. sock' = [sock EXCEPT ![s] = Closed] /\ UNCHANGED <<ap, core_ap, failed, broken>>
  BY DEF CloseUnconnected
<1> QED BY <1>1, ClosedIs, SockStep, Zenon

\* What Connected() sets.
IsConnected(r, s, p, d, dyn) ==
  /\ r \in SockRecord /\ r.asked = sock[s].asked /\ r.sport = p /\ r.dst = d /\ r.stream
  /\ r.is_bound_addr = dyn /\ r.fetched = (sock[s].fetched \/ dyn) /\ r.ip /\ r.open

LEMMA ConnectedIs ==
  ASSUME NEW s \in Socket, sock[s] \in SockRecord, NEW p \in Port, NEW d \in Dests,
         NEW dyn \in BOOLEAN, sock[s].open
  PROVE  IsConnected(Connected(s, p, d, dyn), s, p, d, dyn)
<1> DEFINE r == Connected(s, p, d, dyn)
<1>1. sock[s].fetched \in BOOLEAN
  BY DEF SockRecord
<1>2. r \in SockRecord
  BY <1>1, ZenonT(30) DEF SockRecord, Connected
<1>3. /\ r.sport = p /\ r.dst = d /\ r.stream = TRUE /\ r.is_bound_addr = dyn
      /\ r.ip = TRUE /\ r.open = sock[s].open /\ r.asked = sock[s].asked
  BY Zenon DEF SockRecord, Connected
<1>4. r.fetched = (sock[s].fetched \/ dyn)
  BY Zenon DEF SockRecord, Connected
<1> HIDE DEF r
<1>5. IsConnected(r, s, p, d, dyn)
  BY <1>2, <1>3, <1>4 DEF IsConnected
<1> QED BY <1>5, SMTT(30) DEF r

LEMMA BoundStep ==
  ASSUME AddressInv, NEW s \in Socket, NEW d \in Dests, sock[s].open, ~sock[s].stream,
         ConnectBound(s, d), UNCHANGED <<failed, broken>>
  PROVE  AddressInv'
<1> DEFINE p == sock[s].sport
           r == Connected(s, p, d, FALSE)
<1>0. sock[s] \in SockRecord /\ SockInv(sock[s]) /\ sock[s].ip
  BY DEF AddressInv, PoolTypes, SocksInv, ConnectBound
<1>1. p \in Port /\ sock[s].fetched \in BOOLEAN
  BY <1>0, Zenon DEF SockInv, SockRecord
<1>2. /\ sock' = [sock EXCEPT ![s] = r]
      /\ UNCHANGED <<ap, core_ap, failed, broken>> /\ RssCore(p, d) = CoreOf(s)
  BY DEF ConnectBound, AddressInv, PoolTypes
<1>c. IsConnected(r, s, p, d, FALSE)
  BY <1>0, <1>1, ConnectedIs, Zenon
<1> HIDE DEF r
<1>3. /\ r \in SockRecord /\ r.asked = sock[s].asked /\ r.sport = p /\ r.dst = d /\ r.stream
      /\ r.is_bound_addr = FALSE /\ r.fetched = (sock[s].fetched \/ FALSE) /\ r.ip /\ r.open
  BY <1>c, Zenon DEF IsConnected
<1>4. r.fetched = sock[s].fetched
  BY <1>1, <1>3
<1>5. SockInv(r)
  BY <1>0, <1>1, <1>3, <1>4, Zenon DEF SockInv
<1> QED BY <1>2, <1>3, <1>4, <1>5, SockStep, Zenon

\* The first of the positions that will do.
LEMMA FirstIs ==
  ASSUME NEW F, F \subseteq Nat, F # {}
  PROVE  (CHOOSE i \in F : \A j \in F : i <= j) \in F
<1>1. PICK i \in F : \A j \in F : <<j, i>> \notin OpToRel(<, Nat)
  BY NatLessThanWellFounded, WFMin, Zenon
<1>2. \A j \in F : ~(j < i)
  BY <1>1, Zenon DEF OpToRel
<1>3. \A j \in F : i <= j
  BY <1>2
<1> QED BY <1>3, Zenon

\* A connection that got an address and no memory keeps the address.
FetchTo(w, p) == [w EXCEPT !.sport = p, !.ip = TRUE, !.fetched = TRUE]
IsFetched(r, w, p) ==
  /\ r \in SockRecord /\ r.sport = p /\ r.ip /\ r.fetched /\ r.open = w.open
  /\ r.stream = w.stream /\ r.is_bound_addr = w.is_bound_addr

LEMMA FetchedIs ==
  ASSUME NEW w \in SockRecord, NEW p \in Port
  PROVE  IsFetched(FetchTo(w, p), w, p)
<1> DEFINE r == FetchTo(w, p)
<1> USE DEF FetchTo
<1>1. r \in SockRecord
  BY Zenon DEF SockRecord
<1>2. r.sport = p /\ r.ip = TRUE /\ r.fetched = TRUE
  BY DEF SockRecord
<1>3. r.open = w.open /\ r.stream = w.stream /\ r.is_bound_addr = w.is_bound_addr
  BY DEF SockRecord
<1> QED BY <1>1, <1>2, <1>3 DEF IsFetched

LEMMA FetchStep ==
  ASSUME AddressInv, NEW s \in Socket, NEW d \in Dests, sock[s].open, ~sock[s].stream,
         ConnectFetched(s, d), UNCHANGED <<failed, broken>>
  PROVE  AddressInv'
<1> DEFINE c == CoreOf(s)
           old == PoolOf(s)
           found == IF core_ap[c] # NoPool THEN FetchAddressPerCore(c) ELSE FetchAddress(s, d)
           first == CHOOSE i \in found : \A j \in found : i <= j
           p == old.free[first]
           new == Taken(old, first)
<1>0. /\ c \in Core /\ sock[s] \in SockRecord /\ SockInv(sock[s]) /\ ~sock[s].ip
      /\ ~sock[s].fetched /\ ~sock[s].is_bound_addr
  BY CoreIs, Zenon DEF AddressInv, PoolTypes, SocksInv, SockInv, ConnectFetched
<1>1. old \in PoolRecord /\ Balanced(old) /\ old.free \in Seq(Port)
  BY <1>0, Zenon DEF PoolOf, AddressInv, PoolTypes, PoolsInv, PoolRecord
<1>2. found # {} /\ found \subseteq 1..Len(old.free)
  <2>1. found # {}
    BY DEF ConnectFetched
  <2>2. ASSUME core_ap[c] # NoPool PROVE old = core_ap[c] /\ found = FetchAddressPerCore(c)
    BY <2>2, Zenon DEF PoolOf
  <2>3. ASSUME core_ap[c] = NoPool PROVE old = ap /\ found = FetchAddress(s, d)
    BY <2>3, ZenonT(30) DEF PoolOf
  <2> HIDE DEF found, old, c
  <2>4. CASE core_ap[c] # NoPool
    <3>1. found = IF old.free = <<>> THEN {} ELSE {1}
      BY <2>2, <2>4, Zenon DEF FetchAddressPerCore
    <3>2. old.free # <<>> /\ found = {1}
      BY <2>1, <3>1, Zenon
    <3>3. Len(old.free) \in Nat \ {0}
      BY <1>1, <3>2
    <3> QED BY <2>1, <3>2, <3>3
  <2>5. CASE core_ap[c] = NoPool
    <3>1. found \subseteq DOMAIN old.free
      BY <2>3, <2>5, Zenon DEF FetchAddress
    <3>2. DOMAIN old.free = 1..Len(old.free)
      BY <1>1
    <3> QED BY <2>1, <3>1, <3>2, Zenon
  <2> QED BY <2>4, <2>5
<1>3. first \in found
  <2>1. found \subseteq Nat
    BY <1>1, <1>2, SMTT(30)
  <2> QED BY <1>2, <2>1, FirstIs, Zenon
<1>4. first \in 1..Len(old.free)
  BY <1>2, <1>3
<1>5. /\ new \in PoolRecord /\ Balanced(new) /\ new.entries = old.entries /\ new.dst = old.dst
      /\ new.used = old.used \cup {p} /\ p \in Port /\ p \in old.entries /\ p \notin old.used
  BY <1>1, <1>4, TakenIs, ZenonT(30)
<1>6. /\ core_ap[c] # NoPool => core_ap' = [core_ap EXCEPT ![c] = new] /\ ap' = ap /\ d = old.dst
      /\ core_ap[c] = NoPool => core_ap' = core_ap /\ ap' = new
  BY Zenon DEF ConnectFetched, PoolOf
<1>7. RssCore(p, d) = c
  <2>1. CASE core_ap[c] # NoPool
    <3>1. old = core_ap[c]
      BY <2>1 DEF PoolOf
    <3> QED BY <1>0, <1>5, <1>6, <2>1, <3>1, ZenonT(30) DEF AddressInv, PoolsInv
  <2>2. CASE core_ap[c] = NoPool
    <3>1. old = ap /\ found = FetchAddress(s, d)
      BY <2>2 DEF PoolOf
    <3> QED BY <1>3, <3>1, Zenon DEF FetchAddress
  <2> QED BY <2>1, <2>2
<1>8. PICK memory \in BOOLEAN :
        sock' = [sock EXCEPT ![s] = IF memory THEN Connected(s, p, d, TRUE)
                                    ELSE [sock[s] EXCEPT !.sport = p, !.ip = TRUE, !.fetched = TRUE]]
  BY Zenon DEF ConnectFetched, PoolOf, AddressInv, PoolTypes
<1> DEFINE r == IF memory THEN Connected(s, p, d, TRUE) ELSE FetchTo(sock[s], p)
<1> HIDE DEF found, first, p, new
<1>r. /\ memory => r = Connected(s, p, d, TRUE)
      /\ ~memory => r = FetchTo(sock[s], p)
      /\ sock' = [sock EXCEPT ![s] = r]
  BY <1>8, Zenon DEF FetchTo
<1> HIDE DEF r
<1>9. /\ r \in SockRecord /\ r.sport = p /\ r.ip /\ r.fetched /\ r.open
      /\ r.stream => r.dst = d
      /\ r.is_bound_addr => r.stream
  <2>1. CASE memory
    <3>1. r = Connected(s, p, d, TRUE)
      BY <1>r, <2>1
    <3>2. IsConnected(Connected(s, p, d, TRUE), s, p, d, TRUE)
      BY <1>0, <1>5, ConnectedIs, Zenon
    <3>3. IsConnected(r, s, p, d, TRUE)
      BY <3>1, <3>2, Zenon
    <3>4. r.fetched = (sock[s].fetched \/ TRUE)
      BY <3>3, Zenon DEF IsConnected
    <3>5. r.fetched
      BY <3>4, Zenon
    <3> QED BY <3>3, <3>5, Zenon DEF IsConnected
  <2>2. CASE ~memory
    <3>1. r = FetchTo(sock[s], p)
      BY <1>r, <2>2
    <3>2. IsFetched(r, sock[s], p)
      BY <1>0, <1>5, <3>1, FetchedIs, Zenon
    <3> QED BY <1>0, <3>2 DEF IsFetched
  <2> QED BY <2>1, <2>2
<1>10. SockInv(r)
  BY <1>5, <1>9, Zenon DEF SockInv
<1>11. \A t \in Socket : Shares(s, t) => PoolOf(t) = old
  BY DEF Shares, PoolOf
<1>12. \A t \in Socket : t # s /\ Shares(s, t) /\ sock[t].fetched =>
         sock[t].sport \in new.used /\ sock[t].sport # p
  BY <1>5, <1>11, Zenon DEF AddressInv, HeldInv
<1>13. r.stream => RssCore(r.sport, r.dst) = CoreOf(s)
  BY <1>7, <1>9, ZenonT(30)
<1>14. r.sport \in new.used
  BY <1>5, <1>9
<1> QED BY <1>5, <1>6, <1>9, <1>10, <1>12, <1>13, <1>14, <1>r, AddressStep, Zenon

LEMMA DestroyStep ==
  ASSUME AddressInv, NEW s \in Socket, DestroyTCPStream(s)
  PROVE  AddressInv'
<1> DEFINE c == CoreOf(s)
           old == PoolOf(s)
           p == sock[s].sport
           new == Given(old, p)
<1>0. c \in Core /\ sock[s] \in SockRecord /\ SockInv(sock[s]) /\ sock' = [sock EXCEPT ![s] = Closed]
  BY CoreIs, Zenon DEF AddressInv, PoolTypes, SocksInv, DestroyTCPStream
<1>1. CASE ~sock[s].is_bound_addr
  <2>1. UNCHANGED <<ap, core_ap, failed, broken>>
    BY <1>1, Zenon DEF DestroyTCPStream
  <2> QED BY <1>0, <2>1, ClosedIs, SockStep, Zenon
<1>2. CASE sock[s].is_bound_addr
  <2>1. old \in PoolRecord /\ Balanced(old)
    BY <1>0, Zenon DEF PoolOf, AddressInv, PoolTypes, PoolsInv, PoolRecord
  <2>2. sock[s].fetched /\ p \in old.used
    BY <1>0, <1>2, Zenon DEF SockInv, AddressInv, HeldInv
  <2>3. /\ new \in PoolRecord /\ Balanced(new) /\ new.entries = old.entries /\ new.dst = old.dst
        /\ new.used = old.used \ {p} /\ p \in old.entries
    BY <2>1, <2>2, GivenIs, Zenon
  <2>4. FreeAddress(old, p) = new
    BY <2>2, <2>3 DEF FreeAddress
  <2>5. UNCHANGED <<failed, broken>>
    <3>1. failed' = (failed \/ p \notin old.entries) /\ broken' = (broken \/ p \in old.entries \ old.used)
      BY <1>2, Zenon DEF DestroyTCPStream, PoolOf
    <3> QED BY <2>2, <2>3, <3>1, Zenon DEF AddressInv, PoolTypes
  <2>6. ASSUME core_ap[c] # NoPool PROVE core_ap' = [core_ap EXCEPT ![c] = new] /\ ap' = ap
    <3>1. old = core_ap[c]
      BY <2>6 DEF PoolOf
    <3>2. core_ap' = [core_ap EXCEPT ![c] = FreeAddress(core_ap[c], p)] /\ ap' = ap
      BY <1>0, <1>2, <2>6, Zenon DEF DestroyTCPStream, AddressInv, PoolTypes
    <3> QED BY <2>4, <2>6, <3>1, <3>2, Zenon
  <2>7. ASSUME core_ap[c] = NoPool PROVE core_ap' = core_ap /\ ap' = new
    <3>1. old = ap
      BY <2>7 DEF PoolOf
    <3>2. core_ap' = core_ap /\ ap' = FreeAddress(ap, p)
      BY <1>2, <2>7, Zenon DEF DestroyTCPStream
    <3> QED BY <2>4, <2>7, <3>1, <3>2, ZenonT(30)
  <2>8. /\ core_ap[c] # NoPool => core_ap' = [core_ap EXCEPT ![c] = new] /\ ap' = ap
        /\ core_ap[c] = NoPool => core_ap' = core_ap /\ ap' = new
    BY <2>6, <2>7, Zenon
  <2>9. \A t \in Socket : Shares(s, t) => PoolOf(t) = old
    BY DEF Shares, PoolOf
  <2> HIDE DEF new
  <2>10. \A t \in Socket : t # s /\ Shares(s, t) /\ sock[t].fetched => sock[t].sport \in new.used
    BY <2>2, <2>3, <2>9, Zenon DEF AddressInv, HeldInv
  <2> QED BY <1>0, <2>3, <2>5, <2>8, <2>10, ClosedIs, AddressStep, Zenon
<1> QED BY <1>1, <1>2

\* The list of a new pool of a core.
LEMMA ShareIs ==
  ASSUME NEW c \in Core, NEW d \in Dests, NEW f \in CreateAddressPoolPerCore(c, d)
  PROVE  f \in Seq(Port) /\ IsInjective(f) /\ \A p \in Range(f) : RssCore(p, d) = c
<1> DEFINE own == {p \in Port : RssCore(p, d) = c}
           share == Ports \div NumCores
<1>1. f \in UNION {[1..n -> own] : n \in 0..share} /\ \A i, j \in DOMAIN f : i < j => f[i] < f[j]
  BY DEF CreateAddressPoolPerCore
<1>2. PICK n \in 0..share : f \in [1..n -> own]
  BY <1>1, Zenon
<1>3. own \subseteq Port /\ n \in Nat /\ DOMAIN f = 1..n /\ \A i \in 1..n : f[i] \in own
  <2>1. n \in Nat
    BY <1>2
  <2>2. own \subseteq Port
    OBVIOUS
  <2> HIDE DEF own
  <2> QED BY <1>2, <2>1, <2>2, Zenon
<1> HIDE DEF own
<1>4. f \in Seq(Port)
  BY <1>2, <1>3, SMTT(30)
<1>5. IsInjective(f)
  <2>1. ASSUME NEW i \in 1..n, NEW j \in 1..n, f[i] = f[j] PROVE i = j
    <3>1. f[i] \in Nat /\ f[j] \in Nat
      BY <1>3, PoolNums, Zenon
    <3>2. ~(i < j) /\ ~(j < i)
      BY <1>1, <1>3, <2>1, <3>1, SMTT(30)
    <3> QED BY <3>2
  <2> QED BY <1>3, <2>1 DEF IsInjective
<1>6. Range(f) \subseteq own
  BY <1>3, Zenon DEF Range
<1> QED BY <1>4, <1>5, <1>6, ZenonT(30) DEF own

\* A core gets its pool while it has no socket open: no address of its sockets is of
\* another pool.
LEMMA InitRssStep ==
  ASSUME ~Late, AddressInv, NEW c \in Core, NEW d \in Dests, mtcp_init_rss(c, d)
  PROVE  AddressInv'
<1>1. core_ap[c] = NoPool /\ \A s \in Socket : CoreOf(s) = c => ~sock[s].open
  BY DEF mtcp_init_rss
<1>2. PICK f \in CreateAddressPoolPerCore(c, d) : core_ap' = [core_ap EXCEPT ![c] = NewPool(f, d)]
  BY Zenon DEF mtcp_init_rss
<1> DEFINE q == NewPool(f, d)
<1>3. f \in Seq(Port) /\ IsInjective(f) /\ \A p \in Range(f) : RssCore(p, d) = c
  BY ShareIs
<1>4. q \in PoolRecord /\ Balanced(q) /\ q.entries = Range(f) /\ q.dst = d
  BY <1>3, PoolNums, NewPoolIs, Zenon
<1> HIDE DEF q
<1>5. q.dst # 0 /\ q # NoPool /\ \A p \in q.entries : RssCore(p, q.dst) = c
  BY <1>3, <1>4, PoolNums, SMTT(30) DEF NoPool
<1>6. /\ core_ap' = [core_ap EXCEPT ![c] = q] /\ UNCHANGED <<ap, sock, failed, broken>>
      /\ core_ap \in [Core -> PoolRecord]
  BY <1>2 DEF q, mtcp_init_rss, AddressInv, PoolTypes
<1>7. core_ap'[c] = q /\ \A b \in Core : b # c => core_ap'[b] = core_ap[b]
  BY <1>6
<1>8. PoolTypes'
  <2>1. core_ap' \in [Core -> PoolRecord]
    BY <1>4, <1>6
  <2> QED BY <1>6, <2>1, Zenon DEF AddressInv, PoolTypes, PoolRecord, SockRecord
<1>9. PoolsInv'
  <2>1. \A b \in Core : Balanced(core_ap'[b])
    BY <1>4, <1>7, Zenon DEF AddressInv, PoolsInv
  <2>2. Balanced(ap')
    BY <1>6, Zenon DEF AddressInv, PoolsInv
  <2>3. ASSUME NEW b \in Core
        PROVE  /\ core_ap'[b] # NoPool <=> core_ap'[b].dst # 0
               /\ \A p \in core_ap'[b].entries : RssCore(p, core_ap'[b].dst) = b
    BY <1>5, <1>7, Zenon DEF AddressInv, PoolsInv
  <2> QED BY <2>1, <2>2, <2>3, Zenon DEF PoolsInv, Balanced, NoPool, RssCore
<1>10. SocksInv' /\ SameCore'
  BY <1>6, Zenon DEF AddressInv, SocksInv, SockInv, SameCore, RssCore, CoreOf
<1>11. HeldInv'
  <2>1. ASSUME NEW s \in Socket, sock[s].fetched PROVE CoreOf(s) # c /\ CoreOf(s) \in Core
    BY <1>1, <2>1, CoreIs, Zenon DEF AddressInv, SocksInv, SockInv
  <2>2. ASSUME NEW s \in Socket, sock[s].fetched PROVE PoolOf(s)' = PoolOf(s)
    <3>1. PoolOf(s)' = IF core_ap'[CoreOf(s)] # NoPool THEN core_ap'[CoreOf(s)] ELSE ap'
      BY Zenon DEF PoolOf, CoreOf, NoPool
    <3>2. core_ap'[CoreOf(s)] = core_ap[CoreOf(s)]
      BY <1>7, <2>1, <2>2, Zenon
    <3> QED BY <1>6, <3>1, <3>2, ZenonT(30) DEF PoolOf
  <2>3. ASSUME NEW s \in Socket, NEW t \in Socket, sock[s].fetched, sock[t].fetched, Shares(s, t)'
        PROVE  Shares(s, t)
    <3>1. \/ CoreOf(s) = CoreOf(t)
          \/ core_ap'[CoreOf(s)] = NoPool /\ core_ap'[CoreOf(t)] = NoPool
      BY <2>3, Zenon DEF Shares, CoreOf, NoPool
    <3>2. /\ core_ap'[CoreOf(s)] = core_ap[CoreOf(s)]
          /\ core_ap'[CoreOf(t)] = core_ap[CoreOf(t)]
      BY <1>7, <2>1, <2>3, Zenon
    <3> QED BY <3>1, <3>2 DEF Shares
  <2>4. \A s \in Socket : sock[s].fetched => sock[s].sport \in PoolOf(s)'.used
    BY <2>2, Zenon DEF AddressInv, HeldInv
  <2>5. \A s, t \in Socket : s # t /\ sock[s].fetched /\ sock[t].fetched /\ Shares(s, t)' =>
          sock[s].sport # sock[t].sport
    BY <2>3, Zenon DEF AddressInv, HeldInv
  <2> QED BY <1>6, <2>4, <2>5, Zenon DEF HeldInv
<1> QED BY <1>8, <1>9, <1>10, <1>11, ZenonT(30) DEF AddressInv

LEMMA AddressStarts == PoolInit => AddressInv
<1> SUFFICES ASSUME PoolInit PROVE AddressInv
  OBVIOUS
<1> DEFINE f == [i \in Port |-> i]
<1>1. f \in Seq(Port) /\ IsInjective(f)
  BY PoolNums DEF Port, IsInjective
<1>2. ap = NewPool(f, 0)
  BY DEF PoolInit
<1>3. ap \in PoolRecord /\ Balanced(ap)
  BY <1>1, <1>2, NewPoolIs, Zenon
<1>4. /\ core_ap = [c \in Core |-> NoPool] /\ sock = [s \in Socket |-> Closed]
      /\ failed = FALSE /\ broken = FALSE
  BY DEF PoolInit
<1>5. NoPool \in PoolRecord /\ Balanced(NoPool) /\ NoPool.dst = 0 /\ NoPool.entries = {}
  <2>1. <<>> \in Seq(Port) /\ IsInjective(<<>>) /\ Range(<<>>) = {} /\ Len(<<>>) = 0
    BY DEF IsInjective, Range
  <2>2. NoPool = NewPool(<<>>, 0)
    BY <2>1, Zenon DEF NoPool, NewPool
  <2> QED BY <2>1, <2>2, NewPoolIs, Zenon
<1>6. PoolTypes
  BY <1>3, <1>4, <1>5, ClosedIs, ZenonT(30) DEF PoolTypes
<1>7. PoolsInv
  BY <1>3, <1>4, <1>5, ZenonT(30) DEF PoolsInv
<1>8. \A s \in Socket : SockInv(sock[s]) /\ ~sock[s].stream /\ ~sock[s].fetched
  BY <1>4, ClosedIs
<1> QED BY <1>6, <1>7, <1>8, Zenon DEF AddressInv, SocksInv, HeldInv, SameCore

LEMMA AddressKeeps ==
  ASSUME ~Late, AddressInv, [PoolNext]_poolvars
  PROVE  AddressInv'
<1>1. ASSUME NEW c \in Core, NEW d \in Dests, mtcp_init_rss(c, d) PROVE AddressInv'
  BY <1>1, InitRssStep
<1>2. ASSUME NEW s \in Socket, mtcp_socket(s) PROVE AddressInv'
  BY <1>2, SocketStep
<1>3. ASSUME NEW s \in Socket, mtcp_bind(s) PROVE AddressInv'
  BY <1>3, BindStep, Zenon
<1>4. ASSUME NEW s \in Socket, mtcp_connect(s) PROVE AddressInv'
  <2>1. PICK d \in Dests : ConnectBound(s, d) \/ ConnectFetched(s, d)
    BY <1>4, Zenon DEF mtcp_connect
  <2>2. sock[s].open /\ ~sock[s].stream /\ UNCHANGED <<failed, broken>>
    BY <1>4, Zenon DEF mtcp_connect
  <2>3. CASE ConnectBound(s, d)
    BY <2>2, <2>3, BoundStep
  <2>4. CASE ConnectFetched(s, d)
    BY <2>2, <2>4, FetchStep, ZenonT(30)
  <2> QED BY <2>1, <2>3, <2>4, Zenon
<1>5. ASSUME NEW s \in Socket, CloseUnconnected(s) PROVE AddressInv'
  BY <1>5, CloseStep
<1>6. ASSUME NEW s \in Socket, DestroyTCPStream(s) PROVE AddressInv'
  BY <1>6, DestroyStep
<1>7. CASE UNCHANGED poolvars
  <2>1. UNCHANGED <<ap, core_ap, sock, failed, broken>>
    BY <1>7 DEF poolvars
  <2>2. PoolTypes'
    BY <2>1, Zenon DEF AddressInv, PoolTypes, PoolRecord, SockRecord
  <2>3. PoolsInv'
    BY <2>1, Zenon DEF AddressInv, PoolsInv, Balanced, NoPool, RssCore
  <2>4. SocksInv' /\ SameCore'
    BY <2>1, Zenon DEF AddressInv, SocksInv, SockInv, SameCore, RssCore, CoreOf
  <2>5. HeldInv'
    BY <2>1, Zenon DEF AddressInv, HeldInv, PoolOf, Shares, CoreOf, NoPool
  <2> QED BY <2>2, <2>3, <2>4, <2>5, Zenon DEF AddressInv
<1> QED BY <1>1, <1>2, <1>3, <1>4, <1>5, <1>6, <1>7, ZenonT(30) DEF PoolNext

LEMMA LenNat == \A S : \A f \in Seq(S) : Len(f) \in Nat
BY SMTT(30)

\* A pool that balances counts what it has.
LEMMA CountsIs ==
  ASSUME NEW pool \in PoolRecord, Balanced(pool)
  PROVE  /\ pool.num_free \in 0..pool.num_entry /\ pool.num_used \in 0..pool.num_entry
         /\ pool.entries \subseteq Port
<1>1. pool.free \in Seq(Port) /\ pool.num_entry \in Nat /\ pool.entries \subseteq Port
  BY DEF PoolRecord
<1>2. Len(pool.free) \in Nat /\ Cardinality(pool.used) \in Nat
  <2>1. Len(pool.free) \in Nat
    BY <1>1, LenNat, Zenon
  <2>2. IsFiniteSet(pool.used)
    BY Zenon DEF Balanced
  <2> QED BY <2>1, <2>2, FS_CardinalityType, Zenon
<1>3. pool.num_free \in Nat /\ pool.num_used \in Nat /\ pool.num_free + pool.num_used = pool.num_entry
  BY <1>2, Zenon DEF Balanced
<1> QED BY <1>1, <1>3

LEMMA PoolsFollow == AddressInv => PoolsKept
<1> SUFFICES ASSUME AddressInv PROVE PoolsKept
  OBVIOUS
<1>1. ASSUME NEW pool \in Pools PROVE pool \in PoolRecord /\ Balanced(pool)
  BY <1>1, Zenon DEF Pools, AddressInv, PoolTypes, PoolsInv
<1>2. \A s \in Socket : sock[s].sport \in Port \cup {ANY} /\ sock[s].dst \in Dests \cup {0}
  BY SockFields, Zenon DEF AddressInv, PoolTypes
<1>3. PoolTypeOK
  BY <1>1, <1>2, CountsIs, ZenonT(30) DEF PoolTypeOK
<1>4. Partition
  BY <1>1 DEF Partition, Balanced
<1>5. HeldIsUsed
  BY Zenon DEF HeldIsUsed, AddressInv, SocksInv, SockInv, HeldInv
<1> QED BY <1>3, <1>4, <1>5 DEF PoolsKept

\* Two connections with the same ports are of one core, and so of one pool.
LEMMA OwnFollows == AddressInv => OwnAddress
<1> SUFFICES ASSUME AddressInv PROVE OwnAddress
  OBVIOUS
<1>1. ASSUME NEW s \in Socket, NEW t \in Socket, s # t, sock[s].stream, sock[t].stream,
             sock[s].fetched, sock[t].fetched, sock[s].sport = sock[t].sport, sock[s].dst = sock[t].dst
      PROVE  FALSE
  <2>1. CoreOf(s) = CoreOf(t)
    BY <1>1 DEF AddressInv, SameCore
  <2>2. Shares(s, t)
    BY <2>1 DEF Shares
  <2> QED BY <1>1, <2>2, SMTT(30) DEF AddressInv, HeldInv
<1>2. Distinct
  BY <1>1 DEF Distinct
<1> QED BY <1>2, ZenonT(30) DEF OwnAddress, AddressInv

\* The pools are kept: whatever the order in which the cores connect, run out of memory,
\* close and give back, every entry of an address pool is on one of its two lists, once,
\* the counters count them, and DestroyTCPStream() gives an address back to the pool it
\* came from.  For every number of cores, ports and sockets, if mtcp_init_rss() is called
\* as its users do, before the sockets of the core are opened.
THEOREM PoolsAreKept ==
  ASSUME ~Late
  PROVE  PoolSpec => []PoolsKept
<1>1. PoolInit => AddressInv
  BY AddressStarts
<1>2. AddressInv /\ [PoolNext]_poolvars => AddressInv'
  BY AddressKeeps
<1>3. AddressInv => PoolsKept
  BY PoolsFollow, ZenonT(30)
<1> QED BY <1>1, <1>2, <1>3, PTL DEF PoolSpec

\* The addresses are their owners': the packets of a connection come to the core that
\* opened it, and no two connections whose addresses mtcp_connect() took from a pool have
\* the same address and destination, although two pools may have the same port.
THEOREM AddressesAreOwn ==
  ASSUME ~Late
  PROVE  PoolSpec => []OwnAddress
<1>1. PoolInit => AddressInv
  BY AddressStarts
<1>2. AddressInv /\ [PoolNext]_poolvars => AddressInv'
  BY AddressKeeps
<1>3. AddressInv => OwnAddress
  BY OwnFollows
<1> QED BY <1>1, <1>2, <1>3, PTL DEF PoolSpec

=============================================================================
