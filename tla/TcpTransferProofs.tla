------------------------- MODULE TcpTransferProofs -------------------------
(***************************************************************************)
(* Proofs about a transfer in one direction, for every size of the         *)
(* buffers, windows, queues and of what is written, with and without       *)
(* losses.  KeepInv holds whatever the network does: acknowledgements were *)
(* true when they were sent, and the receiver only moves up.  OrderInv     *)
(* needs packets to stay in order (~Instant): an acknowledgement that is   *)
(* overtaken would bring back an old window, and snd_nxt below snd_una.    *)
(***************************************************************************)
EXTENDS TcpTransfer, SequenceTheorems, WellFoundedInduction, TLAPS

\* What the receiver has, and what is on its way to it, was written by the application
\* and fits into the receive buffer; what is on its way back was true when it was sent.
\* This much holds whatever the network does.
ReceiverInv ==
  /\ rcv.read <= rcv.nxt /\ rcv.nxt <= rcv.read + RcvSize
  /\ rcv.got \subseteq (rcv.nxt + 1)..(snd.put - 1)
  /\ \A n \in rcv.got : n < rcv.read + RcvSize
  /\ \A i \in 1..Len(wire) : wire[i].kind = "data" => wire[i].seq \in 0..(snd.put - 1)
  /\ \A i \in 1..Len(back) : /\ back[i].ack <= rcv.nxt
                             /\ back[i].ack + back[i].wnd <= rcv.read + RcvSize
KeepInv == TypeOK /\ KeepsUnreceived /\ ReceiverInv

\* When packets stay in order: acknowledgements do not go back, so that no old window is
\* taken for a new one, and snd_nxt stays between snd_una and the end of the buffer.
BackInOrder ==
  /\ \A i \in 1..Len(back) : snd.una <= back[i].ack
  /\ \A i, j \in 1..Len(back) : i <= j => back[i].ack <= back[j].ack
OrderInv ==
  /\ snd.una <= snd.nxt /\ snd.nxt <= snd.put
  /\ snd.una + snd.peer_wnd <= rcv.read + RcvSize
  /\ BackInOrder /\ RespectsWindow

\* Between a flush that left nothing and its end the stream is on the list, and what is
\* written meanwhile is noticed by its writer or missed.
FlushInv ==
  snd.pc = "flushed" =>
    /\ snd.on_send_list
    /\ snd.nxt < snd.put => missed \/ app = "copied" \/ snd.on_sendq

-----------------------------------------------------------------------------
(* The operators. *)

LEMMA DivNat == ASSUME NEW a \in Nat, NEW b \in Nat \ {0} PROVE a \div b \in Nat
OBVIOUS

LEMMA HalfPos == ASSUME NEW s \in SenderVar PROVE HalfWindow(s) \in Nat \ {0, 1}
BY TransferAssumption DEF HalfWindow, SenderVar, Min, Max

\* What is left alone by the steps of ProcessACK().
SameBut(s, t) ==
  /\ t \in SenderVar
  /\ t.put = s.put /\ t.peer_wnd = s.peer_wnd /\ t.open = s.open
  /\ t.on_sendq = s.on_sendq /\ t.pc = s.pc /\ t.is_wack = s.is_wack

LEMMA CountedSame ==
  ASSUME NEW s \in SenderVar, NEW ack \in 0..MaxPut
  PROVE  /\ SameBut(s, Counted(s, ack))
         /\ Counted(s, ack).una = s.una /\ Counted(s, ack).nxt = s.nxt
         /\ Counted(s, ack).on_send_list = s.on_send_list
<1> DEFINE w == Max(s.wl2, ack)
           d == Min(s.dup_acks + 1, 4)
<1>1. w \in 0..MaxPut /\ d \in 0..4 /\ 0 \in 0..4
  BY TransferAssumption DEF SenderVar, Min, Max
<1>2. \/ Counted(s, ack) = [s EXCEPT !.wl2 = w, !.dup_acks = d]
      \/ Counted(s, ack) = [s EXCEPT !.wl2 = w, !.dup_acks = 0, !.last_ack = ack]
  BY DEF Counted
<1> HIDE DEF w, d
<1>3. Counted(s, ack) \in SenderVar
  <2>1. [s EXCEPT !.wl2 = w, !.dup_acks = d] \in SenderVar
    BY <1>1, Zenon DEF SenderVar
  <2>2. [s EXCEPT !.wl2 = w, !.dup_acks = 0, !.last_ack = ack] \in SenderVar
    BY <1>1, Zenon DEF SenderVar
  <2> QED
    BY <1>2, <2>1, <2>2
<1> QED
  BY <1>2, <1>3, Zenon DEF SenderVar, SameBut

LEMMA FastSame ==
  ASSUME NEW s \in SenderVar, NEW ack \in 0..MaxPut, NEW dup \in BOOLEAN
  PROVE  LET t == FastRetransmit(s, ack, dup) IN
         /\ SameBut(s, t) /\ t.una = s.una
         /\ \/ t.nxt = s.nxt /\ t.on_send_list = s.on_send_list
            \/ t.nxt = ack /\ t.on_send_list /\ dup
<1> DEFINE h == HalfWindow(s)
           w == Min(h + 3, MaxCwnd)
           v == Min(s.cwnd + 1, MaxCwnd)
           n == Min(s.nrtx + 1, TCP_MAX_RTX)
           t == FastRetransmit(s, ack, dup)
<1>1. h \in Nat \ {0}
  BY HalfPos
<1>2. \/ t = [s EXCEPT !.nxt = ack, !.ssthresh = h, !.cwnd = w, !.nrtx = n,
                     !.on_send_list = TRUE] /\ dup
      \/ t = [s EXCEPT !.cwnd = v]
      \/ t = s
  BY DEF FastRetransmit
<1> HIDE DEF h, t
<1>3. w \in 1..MaxCwnd /\ v \in 1..MaxCwnd /\ n \in 0..TCP_MAX_RTX
  BY <1>1, TransferAssumption DEF SenderVar, Min
<1> HIDE DEF w, v, n
<1>4. t \in SenderVar
  <2>1. [s EXCEPT !.nxt = ack, !.ssthresh = h, !.cwnd = w, !.nrtx = n,
                  !.on_send_list = TRUE] \in SenderVar
    BY <1>1, <1>3, Zenon DEF SenderVar
  <2>2. [s EXCEPT !.cwnd = v] \in SenderVar
    BY <1>3, Zenon DEF SenderVar
  <2> QED
    BY <1>2, <2>1, <2>2
<1>5. SameBut(s, t) /\ t.una = s.una
  <2>1. CASE t = [s EXCEPT !.nxt = ack, !.ssthresh = h, !.cwnd = w, !.nrtx = n,
                           !.on_send_list = TRUE]
    BY <1>4, <2>1, Zenon DEF SenderVar, SameBut
  <2>2. CASE t = [s EXCEPT !.cwnd = v]
    BY <1>4, <2>2, Zenon DEF SenderVar, SameBut
  <2> QED
    BY <1>2, <2>1, <2>2 DEF SameBut
<1>6. \/ t.nxt = s.nxt /\ t.on_send_list = s.on_send_list
      \/ t.nxt = ack /\ t.on_send_list /\ dup
  BY <1>2, Zenon DEF SenderVar
<1> QED
  BY <1>5, <1>6 DEF t

LEMMA RecoveredSame ==
  ASSUME NEW s \in SenderVar, NEW ack \in 0..MaxPut
  PROVE  LET t == Recovered(s, ack) IN
         /\ SameBut(s, t) /\ t.una = s.una
         /\ IF ack > s.nxt
            THEN t.nxt = ack /\ t.on_send_list = (s.on_send_list /\ s.put # s.una)
            ELSE t.nxt = s.nxt /\ t.on_send_list = s.on_send_list
BY TransferAssumption, ZenonT(30) DEF Recovered, SenderVar, SameBut

LEMMA RemovedSame ==
  ASSUME NEW s \in SenderVar, NEW ack \in 0..MaxPut
  PROVE  LET t == Removed(s, ack) IN
         /\ SameBut(s, t) /\ t.una = Max(s.una, ack)
         /\ t.nxt = s.nxt /\ t.on_send_list = s.on_send_list
<1>1. CASE s.una >= ack
  BY <1>1 DEF Removed, SenderVar, SameBut, Max
<1>2. CASE s.una < ack
  <2> DEFINE w == Min(s.cwnd + (IF s.cwnd < s.ssthresh THEN ack - s.una
                                ELSE (ack - s.una) \div s.cwnd), MaxCwnd)
             a == s.nxt > ack
             t == Removed(s, ack)
  <2>1. (ack - s.una) \div s.cwnd \in Nat
    BY <1>2, DivNat DEF SenderVar
  <2>2. w \in 1..MaxCwnd /\ a \in BOOLEAN /\ 0 \in 0..TCP_MAX_RTX
    BY <1>2, <2>1, TransferAssumption DEF SenderVar, Min
  <2>3. t = [s EXCEPT !.una = ack, !.nrtx = 0, !.rto = a, !.cwnd = w]
    BY <1>2 DEF Removed, SenderVar
  <2> HIDE DEF w, a, t
  <2>4. t \in SenderVar
    BY <2>2, <2>3, Zenon DEF SenderVar
  <2>5. SameBut(s, t) /\ t.una = ack /\ t.nxt = s.nxt /\ t.on_send_list = s.on_send_list
    BY <2>3, <2>4, Zenon DEF SenderVar, SameBut
  <2> QED
    BY <1>2, <2>5 DEF t, Max, SenderVar
<1> QED
  BY <1>1, <1>2 DEF SenderVar

\* ProcessACK() as a whole: snd_una moves up to the ACK, snd_nxt stays, falls back to a
\* duplicate ACK or is pulled up to one, and a stream that falls back is on the list.
LEMMA AckEffect ==
  ASSUME NEW s \in SenderVar, NEW ack \in 0..MaxPut
  PROVE  LET t == ProcessACK(s, ack) IN
         /\ SameBut(s, t)
         /\ ack <= s.put => t.una = Max(s.una, ack)
         /\ ack > s.put => t = s
         /\ (s.una <= ack /\ s.una <= s.nxt /\ s.nxt <= s.put)
              => /\ t.una <= t.nxt /\ t.nxt <= t.put
                 /\ t.nxt < t.put => t.on_send_list \/ (~s.on_send_list /\ s.nxt < s.put)
<1> DEFINE a == Counted(s, ack)
           dup == IsDup(s, ack)
           b == FastRetransmit(a, ack, dup)
           c == Recovered(b, ack)
           d == Removed(c, ack)
<1>1. /\ SameBut(s, a) /\ a.una = s.una /\ a.nxt = s.nxt
      /\ a.on_send_list = s.on_send_list
  BY CountedSame
<1>2. dup \in BOOLEAN /\ (dup => ack < s.nxt)
  BY DEF IsDup
<1> HIDE DEF a, dup
<1>3. /\ SameBut(a, b) /\ b.una = a.una
      /\ \/ b.nxt = a.nxt /\ b.on_send_list = a.on_send_list
         \/ b.nxt = ack /\ b.on_send_list /\ dup
  BY <1>1, <1>2, FastSame DEF SameBut
<1> HIDE DEF b
<1>4. /\ SameBut(b, c) /\ c.una = b.una
      /\ IF ack > b.nxt
         THEN c.nxt = ack /\ c.on_send_list = (b.on_send_list /\ b.put # b.una)
         ELSE c.nxt = b.nxt /\ c.on_send_list = b.on_send_list
  BY <1>3, RecoveredSame DEF SameBut
<1> HIDE DEF c
<1>5. /\ SameBut(c, d) /\ d.una = Max(c.una, ack)
      /\ d.nxt = c.nxt /\ d.on_send_list = c.on_send_list
  BY <1>4, RemovedSame DEF SameBut
<1> HIDE DEF d
<1>6. ack <= s.put => ProcessACK(s, ack) = d
  BY DEF ProcessACK, a, b, c, d, dup, SenderVar
<1>7. ack > s.put => ProcessACK(s, ack) = s
  BY DEF ProcessACK
<1>8. CASE ack <= s.put
  <2>1. /\ s \in SenderVar /\ a \in SenderVar /\ b \in SenderVar /\ c \in SenderVar
        /\ d \in SenderVar
    BY <1>1, <1>3, <1>4, <1>5 DEF SameBut
  <2>2. SameBut(s, d)
    BY <1>1, <1>3, <1>4, <1>5 DEF SameBut
  <2>3. d.una = Max(s.una, ack)
    BY <1>1, <1>3, <1>4, <1>5
  <2>4. ASSUME s.una <= ack, s.una <= s.nxt, s.nxt <= s.put
        PROVE  /\ d.una <= d.nxt /\ d.nxt <= d.put
               /\ d.nxt < d.put => d.on_send_list \/ (~s.on_send_list /\ s.nxt < s.put)
    BY <1>1, <1>2, <1>3, <1>4, <1>5, <1>8, <2>1, <2>4 DEF SameBut, SenderVar, Max
  <2> QED
    BY <1>6, <1>8, <2>2, <2>3, <2>4 DEF SenderVar
<1>9. CASE ack > s.put
  BY <1>7, <1>9 DEF SameBut, SenderVar
<1> QED
  BY <1>8, <1>9 DEF SenderVar

\* Merged() is there: the receiver's queue has an end.
LEMMA MergedIs ==
  ASSUME NEW r \in SUBSET (0..(MaxPut - 1)), NEW n \in 0..MaxPut
  PROVE  /\ Merged(r, n) \in n..MaxPut /\ Merged(r, n) \notin r
         /\ \A k \in n..(Merged(r, n) - 1) : k \in r
<1> DEFINE B == (n..MaxPut) \ r
<1>1. B \subseteq Nat /\ MaxPut \in B
  BY TransferAssumption
<1>2. PICK m \in B : \A y \in B : ~(<<y, m>> \in OpToRel(<, Nat))
  BY <1>1, WFMin, NatLessThanWellFounded, Zenon
<1>3. \A y \in B : ~(y < m)
  BY <1>1, <1>2, Zenon DEF OpToRel
<1>4. m \in n..MaxPut /\ m \notin r /\ \A k \in n..(m - 1) : k \in r
  BY <1>3, TransferAssumption
<1> QED
  BY <1>4 DEF Merged

\* A sequence without its i-th element.
LEMMA WithoutIs ==
  ASSUME NEW S, NEW s \in Seq(S), NEW i \in 1..Len(s)
  PROVE  /\ Without(s, i) \in Seq(S) /\ Len(Without(s, i)) = Len(s) - 1
         /\ \A j \in 1..(Len(s) - 1) : Without(s, i)[j] = IF j < i THEN s[j] ELSE s[j + 1]
<1> DEFINE a == SubSeq(s, 1, i - 1)
           b == SubSeq(s, i + 1, Len(s))
<1>1. a \in Seq(S) /\ Len(a) = i - 1 /\ \A j \in 1..(i - 1) : a[j] = s[j]
  OBVIOUS
<1>2. b \in Seq(S) /\ Len(b) = Len(s) - i /\ \A j \in 1..(Len(s) - i) : b[j] = s[i + j]
  OBVIOUS
<1> HIDE DEF a, b
<1>3. /\ a \o b \in Seq(S) /\ Len(a \o b) = Len(s) - 1
      /\ \A j \in 1..(Len(s) - 1) : (a \o b)[j] = IF j < i THEN a[j] ELSE b[j - i + 1]
  <2>1. /\ a \o b \in Seq(S) /\ Len(a \o b) = Len(a) + Len(b)
        /\ \A j \in 1..(Len(a) + Len(b)) :
             (a \o b)[j] = IF j <= Len(a) THEN a[j] ELSE b[j - Len(a)]
    BY <1>1, <1>2, ConcatProperties, Zenon
  <2> HIDE DEF a, b
  <2> QED
    BY <1>1, <1>2, <2>1
<1>4. \A j \in 1..(Len(s) - 1) : (a \o b)[j] = IF j < i THEN s[j] ELSE s[j + 1]
  BY <1>1, <1>2, <1>3
<1> QED
  BY <1>3, <1>4, Zenon DEF Without, a, b

-----------------------------------------------------------------------------
(* What holds whatever the network does. *)

LEMMA Sizes ==
  /\ MaxPut \in Nat \ {0} /\ SndSize \in Nat \ {0} /\ RcvSize \in Nat \ {0}
  /\ TxBufs \in Nat \ {0} /\ MaxCwnd \in Nat \ {0} /\ TCP_MAX_RTX \in Nat
BY TransferAssumption

LEMMA SenderNums ==
  ASSUME NEW s \in SenderVar
  PROVE  /\ s.una \in 0..MaxPut /\ s.nxt \in 0..MaxPut /\ s.put \in 0..MaxPut
         /\ s.cwnd \in 1..MaxCwnd /\ s.peer_wnd \in 0..RcvSize
BY DEF SenderVar

LEMMA ReceiverNums ==
  ASSUME NEW r \in ReceiverVar
  PROVE  /\ r.nxt \in 0..MaxPut /\ r.read \in 0..MaxPut /\ r.got \subseteq 0..(MaxPut - 1)
         /\ r.ack_cnt \in 0..(TxBufs + 1)
BY DEF ReceiverVar

LEMMA AckNums ==
  ASSUME NEW s \in Seq(Ack), NEW i \in 1..Len(s)
  PROVE  s[i].ack \in 0..MaxPut /\ s[i].wnd \in 0..RcvSize
<1>1. s[i] \in Ack
  BY ElementOfSeq
<1> QED
  BY <1>1 DEF Ack

LEMMA SegmentNums ==
  ASSUME NEW s \in Seq(Segment), NEW i \in 1..Len(s)
  PROVE  s[i].kind \in {"data", "probe"} /\ s[i].seq \in -1..(MaxPut - 1)
<1>1. s[i] \in Segment
  BY ElementOfSeq
<1> QED
  BY <1>1 DEF Segment

LEMMA KeepInit == Init => KeepInv
<1> SUFFICES ASSUME Init PROVE KeepInv
  OBVIOUS
<1>1. TypeOK
  <2>1. snd \in SenderVar
    BY TransferAssumption DEF Init, SenderVar
  <2>2. rcv \in ReceiverVar
    BY TransferAssumption DEF Init, ReceiverVar
  <2>3. /\ wire \in Seq(Segment) /\ Len(wire) <= TxBufs
        /\ back \in Seq(Ack) /\ Len(back) <= TxBufs
    BY Sizes DEF Init
  <2> QED
    BY <2>1, <2>2, <2>3, Zenon DEF Init, TypeOK
<1> QED
  BY <1>1, TransferAssumption DEF Init, KeepInv, KeepsUnreceived, ReceiverInv

\* Steps that leave the two windows and the network alone.
LEMMA KeepSender ==
  ASSUME KeepInv, snd' \in SenderVar, snd'.put = snd.put, snd'.una = snd.una,
         app' \in {"idle", "copied"}, missed' \in BOOLEAN, UNCHANGED <<wire, back, rcv>>
  PROVE  KeepInv'
BY DEF KeepInv, TypeOK, KeepsUnreceived, ReceiverInv

LEMMA KeepReceiver ==
  ASSUME KeepInv, rcv' \in ReceiverVar, rcv'.nxt = rcv.nxt, rcv'.got = rcv.got,
         rcv'.read \in rcv.read..rcv.nxt, UNCHANGED <<app, missed, snd, wire, back>>
  PROVE  KeepInv'
<1>1. /\ rcv \in ReceiverVar /\ snd \in SenderVar /\ back \in Seq(Ack)
      /\ KeepsUnreceived /\ ReceiverInv
  BY DEF KeepInv, TypeOK
<1>2. TypeOK'
  BY DEF KeepInv, TypeOK
<1>3. KeepsUnreceived'
  BY <1>1 DEF KeepsUnreceived
<1>4. ReceiverInv'
  <2>1. \A i \in 1..Len(back) : back[i].ack \in Nat /\ back[i].wnd \in Nat
    BY <1>1, Sizes, AckNums
  <2>2. rcv.read \in Nat /\ rcv'.read \in Nat /\ rcv.read <= rcv'.read /\ RcvSize \in Nat
    BY <1>1, Sizes, ReceiverNums
  <2>3. \A i \in 1..Len(back) : back[i].ack + back[i].wnd <= rcv'.read + RcvSize
    <3>1. \A i \in 1..Len(back) : back[i].ack + back[i].wnd <= rcv.read + RcvSize
      BY <1>1 DEF ReceiverInv
    <3> QED
      BY <2>1, <2>2, <3>1, SMTT(30)
  <2>4. rcv'.read <= rcv.nxt /\ rcv.nxt <= rcv'.read + RcvSize
    BY <1>1, <2>2, ReceiverNums, Sizes, SMTT(30) DEF ReceiverInv
  <2>5. \A n \in rcv.got : n < rcv'.read + RcvSize
    <3>1. rcv.got \subseteq Int
      BY <1>1, ReceiverNums
    <3> QED
      BY <1>1, <2>2, <3>1 DEF ReceiverInv
  <2> QED
    BY <1>1, <2>3, <2>4, <2>5 DEF ReceiverInv
<1> QED
  BY <1>2, <1>3, <1>4 DEF KeepInv

LEMMA KeepWrite == ASSUME KeepInv, NEW n \in 1..SndSize, Write(n) PROVE KeepInv'
<1> DEFINE m == snd.put + n
<1>0. snd \in SenderVar /\ rcv \in ReceiverVar /\ KeepsUnreceived /\ ReceiverInv
  BY DEF KeepInv, TypeOK
<1>1. snd' = [snd EXCEPT !.put = m] /\ UNCHANGED <<wire, back, rcv>>
  BY DEF Write
<1>2. m \in 0..MaxPut /\ m > snd.put /\ m - snd.una <= SndSize
  BY <1>0, Sizes, SenderNums DEF Write
<1> HIDE DEF m
<1>3. snd' \in SenderVar /\ snd'.put = m /\ snd'.una = snd.una
  BY <1>0, <1>1, <1>2 DEF SenderVar
<1>4. KeepsUnreceived'
  BY <1>0, <1>1, <1>2, <1>3, Sizes, SenderNums, ReceiverNums DEF KeepsUnreceived
<1>5. ReceiverInv'
  <2>1. snd.put \in Nat /\ m \in Nat
    BY <1>0, <1>2, Sizes, SenderNums
  <2>2. \A i \in 1..Len(wire) : wire[i].kind = "data" => wire[i].seq \in 0..(m - 1)
    BY <1>0, <1>2, <2>1 DEF ReceiverInv
  <2>3. rcv.got \subseteq (rcv.nxt + 1)..(m - 1)
    BY <1>0, <1>2, <2>1 DEF ReceiverInv
  <2> QED
    BY <1>0, <1>1, <1>3, <2>2, <2>3 DEF ReceiverInv
<1>6. TypeOK'
  BY <1>3 DEF Write, KeepInv, TypeOK
<1> QED
  BY <1>4, <1>5, <1>6 DEF KeepInv

LEMMA KeepSteps ==
  ASSUME KeepInv, Wake \/ SendQueue \/ LeaveSendList \/ CheckRtmTimeout
  PROVE  KeepInv'
<1>0. snd \in SenderVar
  BY DEF KeepInv, TypeOK
<1>1. CASE Wake
  <2> DEFINE b == snd.on_sendq \/ ~snd.on_send_list
  <2>1. b \in BOOLEAN /\ snd' = [snd EXCEPT !.on_sendq = b]
    BY <1>1 DEF Wake
  <2> HIDE DEF b
  <2>2. snd' \in SenderVar /\ snd'.put = snd.put /\ snd'.una = snd.una
    BY <1>0, <2>1 DEF SenderVar
  <2> QED
    BY <1>1, <2>2, KeepSender DEF Wake, KeepInv, TypeOK
<1>2. CASE SendQueue
  <2>1. snd' \in SenderVar /\ snd'.put = snd.put /\ snd'.una = snd.una
    BY <1>0, <1>2, Zenon DEF SendQueue, Dequeue, SenderVar
  <2> QED
    BY <1>2, <2>1, KeepSender DEF SendQueue, KeepInv, TypeOK
<1>3. CASE LeaveSendList
  <2>1. snd' \in SenderVar /\ snd'.put = snd.put /\ snd'.una = snd.una
    BY <1>0, <1>3, Zenon DEF LeaveSendList, SenderVar
  <2> QED
    BY <1>3, <2>1, KeepSender DEF LeaveSendList, KeepInv, TypeOK
<1>4. CASE CheckRtmTimeout
  <2> DEFINE h == HalfWindow([snd EXCEPT !.rto = FALSE])
             n == snd.nrtx + 1
             t == [snd EXCEPT !.rto = FALSE]
  <2>1. t \in SenderVar /\ t.put = snd.put /\ t.una = snd.una /\ t.nrtx = snd.nrtx
    BY <1>0, Zenon DEF SenderVar
  <2>2. h \in Nat \ {0} /\ 1 \in 1..MaxCwnd /\ t.una \in 0..MaxPut
    BY <2>1, HalfPos, TransferAssumption DEF SenderVar
  <2> HIDE DEF h, t
  <2>3. \/ snd' = [t EXCEPT !.open = FALSE]
        \/ /\ n \in 0..TCP_MAX_RTX
           /\ snd' = [t EXCEPT !.nrtx = n, !.ssthresh = h, !.cwnd = 1, !.nxt = t.una,
                               !.on_send_list = TRUE]
    BY <1>0, <1>4, <2>1, TransferAssumption DEF CheckRtmTimeout, HandleRTO, SenderVar, h, t
  <2> HIDE DEF n
  <2>4. snd' \in SenderVar
    <3>1. [t EXCEPT !.open = FALSE] \in SenderVar
      BY <2>1, Zenon DEF SenderVar
    <3>2. n \in 0..TCP_MAX_RTX =>
            [t EXCEPT !.nrtx = n, !.ssthresh = h, !.cwnd = 1, !.nxt = t.una,
                      !.on_send_list = TRUE] \in SenderVar
      BY <2>1, <2>2, Zenon DEF SenderVar
    <3> QED
      BY <2>3, <3>1, <3>2, Zenon
  <2>5. snd'.put = snd.put /\ snd'.una = snd.una
    BY <2>1, <2>3, ZenonT(30) DEF SenderVar
  <2> QED
    BY <1>4, <2>4, <2>5, KeepSender DEF CheckRtmTimeout, KeepInv, TypeOK
<1> QED
  BY <1>1, <1>2, <1>3, <1>4

\* A step that changes the wire and what is not the window of the sender.
LEMMA KeepWire ==
  ASSUME KeepInv, snd' \in SenderVar, snd'.put = snd.put, snd'.una = snd.una,
         wire' \in Seq(Segment), Len(wire') <= TxBufs,
         \A i \in 1..Len(wire') : wire'[i].kind = "data" => wire'[i].seq \in 0..(snd.put - 1),
         UNCHANGED <<app, missed, back, rcv>>
  PROVE  KeepInv'
<1>1. TypeOK'
  BY DEF KeepInv, TypeOK
<1>2. KeepsUnreceived' /\ ReceiverInv'
  BY DEF KeepInv, KeepsUnreceived, ReceiverInv
<1> QED
  BY <1>1, <1>2 DEF KeepInv

LEMMA SegmentsAre ==
  ASSUME NEW a \in 0..MaxPut, NEW b \in 0..MaxPut, a <= b
  PROVE  /\ Segments(a, b) \in Seq(Segment) /\ Len(Segments(a, b)) = b - a
         /\ \A i \in 1..(b - a) : /\ Segments(a, b)[i].kind = "data"
                                  /\ Segments(a, b)[i].seq = a + i - 1
<1>1. \A i \in 1..(b - a) : [kind |-> "data", seq |-> a + i - 1] \in Segment
  BY Sizes DEF Segment
<1>2. b - a \in Nat
  BY Sizes
<1> QED
  BY <1>1, <1>2 DEF Segments

\* What FlushTCPSendingBuffer() may do to the sender and what it puts on the wire.
LEMMA FlushIs ==
  ASSUME KeepInv, NEW upto \in 0..MaxPut, FlushTCPSendingBuffer(upto)
  PROVE  /\ snd' \in SenderVar /\ snd'.put = snd.put /\ snd'.una = snd.una
         /\ snd'.nxt = upto /\ snd.nxt <= upto
         /\ snd'.on_sendq = snd.on_sendq /\ snd'.on_send_list = snd.on_send_list
         /\ snd'.open = snd.open /\ snd'.peer_wnd = snd.peer_wnd
         /\ snd'.pc = "flushed" => upto = snd.put \/ snd.put = snd.una
         /\ upto > snd.nxt => upto <= snd.put /\ upto <= snd.una + snd.peer_wnd
         /\ wire' \in Seq(Segment) /\ Len(wire') = Len(wire) + (upto - snd.nxt)
         /\ Len(wire') <= TxBufs
         /\ \A i \in 1..Len(wire') :
              wire'[i] = IF i <= Len(wire) THEN wire[i]
                         ELSE Segments(snd.nxt, upto)[i - Len(wire)]
<1>0. snd \in SenderVar /\ wire \in Seq(Segment) /\ Len(wire) <= TxBufs
  BY DEF KeepInv, TypeOK
<1>1. /\ snd.una \in Nat /\ snd.nxt \in Nat /\ snd.put \in Nat /\ snd.cwnd \in Nat
      /\ snd.peer_wnd \in Nat /\ snd.nxt \in 0..MaxPut
  BY <1>0, SenderNums, Sizes, SMTT(30)
<1>2. snd.nxt <= upto /\ (upto > snd.nxt => upto <= snd.put /\ upto <= snd.una + snd.peer_wnd)
  BY <1>1, SMTT(30) DEF FlushTCPSendingBuffer, Sendable, Min, Max
<1>3. /\ snd'.put = snd.put /\ snd'.una = snd.una /\ snd'.nxt = upto
      /\ snd'.on_sendq = snd.on_sendq /\ snd'.on_send_list = snd.on_send_list
      /\ snd'.open = snd.open /\ snd'.peer_wnd = snd.peer_wnd /\ snd' \in SenderVar
      /\ snd'.pc = "flushed" => upto = snd.put \/ snd.put = snd.una
  <2>1. PICK probe \in BOOLEAN :
          snd' = [snd EXCEPT !.nxt = upto, !.rto = @ \/ upto > snd.nxt,
                             !.is_wack = @ \/ probe,
                             !.pc = IF upto = snd.put \/ snd.put = snd.una
                                    THEN "flushed" ELSE "idle"]
    BY Zenon DEF FlushTCPSendingBuffer
  <2> DEFINE r == snd.rto \/ upto > snd.nxt
             w == snd.is_wack \/ probe
             pc == IF upto = snd.put \/ snd.put = snd.una THEN "flushed" ELSE "idle"
  <2>2. /\ r \in BOOLEAN /\ w \in BOOLEAN /\ pc \in {"idle", "flushed"}
        /\ pc = "flushed" => upto = snd.put \/ snd.put = snd.una
    OBVIOUS
  <2>3. snd' = [snd EXCEPT !.nxt = upto, !.rto = r, !.is_wack = w, !.pc = pc]
    BY <2>1
  <2> HIDE DEF r, w, pc
  <2>4. snd' \in SenderVar
    BY <1>0, <2>2, <2>3, Zenon DEF SenderVar
  <2>5. /\ snd'.put = snd.put /\ snd'.una = snd.una /\ snd'.nxt = upto
        /\ snd'.on_sendq = snd.on_sendq /\ snd'.on_send_list = snd.on_send_list
        /\ snd'.open = snd.open /\ snd'.peer_wnd = snd.peer_wnd /\ snd'.pc = pc
    BY <1>0, <2>3 DEF SenderVar
  <2> QED
    BY <2>2, <2>4, <2>5
<1> DEFINE t == Segments(snd.nxt, upto)
<1>4. t \in Seq(Segment) /\ Len(t) = upto - snd.nxt
  BY <1>1, <1>2, SegmentsAre, Zenon
<1>5. wire' = wire \o t /\ upto - snd.nxt <= TxBufs - Len(wire)
  BY DEF FlushTCPSendingBuffer
<1> HIDE DEF t
<1>6. /\ wire' \in Seq(Segment) /\ Len(wire') = Len(wire) + Len(t)
      /\ \A i \in 1..(Len(wire) + Len(t)) :
           wire'[i] = IF i <= Len(wire) THEN wire[i] ELSE t[i - Len(wire)]
  BY <1>0, <1>4, <1>5, ConcatProperties, Zenon
<1>7. Len(wire) \in Nat
  BY <1>0
<1>8. Len(wire') = Len(wire) + (upto - snd.nxt) /\ Len(wire') <= TxBufs
  BY <1>1, <1>4, <1>5, <1>6, <1>7, Sizes, SMTT(30)
<1> QED
  BY <1>2, <1>3, <1>6, <1>8, Zenon DEF t

LEMMA KeepFlush ==
  ASSUME KeepInv, NEW upto \in 0..MaxPut, FlushTCPSendingBuffer(upto)
  PROVE  KeepInv'
<1>0. /\ snd \in SenderVar /\ wire \in Seq(Segment) /\ Len(wire) \in Nat
      /\ \A i \in 1..Len(wire) : wire[i].kind = "data" => wire[i].seq \in 0..(snd.put - 1)
  BY DEF KeepInv, TypeOK, ReceiverInv
<1>1. /\ snd' \in SenderVar /\ snd'.put = snd.put /\ snd'.una = snd.una
      /\ snd.nxt <= upto /\ (upto > snd.nxt => upto <= snd.put)
      /\ wire' \in Seq(Segment) /\ Len(wire') = Len(wire) + (upto - snd.nxt)
      /\ Len(wire') <= TxBufs
      /\ \A i \in 1..Len(wire') :
           wire'[i] = IF i <= Len(wire) THEN wire[i]
                      ELSE Segments(snd.nxt, upto)[i - Len(wire)]
  BY FlushIs
<1>2. /\ snd.nxt \in 0..MaxPut /\ snd.put \in Nat
  BY <1>0, SenderNums, Sizes
<1>3. \A i \in 1..(upto - snd.nxt) : Segments(snd.nxt, upto)[i].seq = snd.nxt + i - 1
  BY <1>1, <1>2, SegmentsAre, Zenon
<1>4. ASSUME NEW i \in 1..Len(wire'), wire'[i].kind = "data"
      PROVE  wire'[i].seq \in 0..(snd.put - 1)
  <2>1. CASE i <= Len(wire)
    BY <1>0, <1>1, <1>4, <2>1
  <2>2. CASE i > Len(wire)
    <3>1. i - Len(wire) \in 1..(upto - snd.nxt) /\ upto > snd.nxt
      BY <1>0, <1>1, <1>2, <2>2, Sizes, SMTT(30)
    <3> DEFINE k == i - Len(wire)
    <3>3. wire'[i] = Segments(snd.nxt, upto)[k] /\ k \in 1..(upto - snd.nxt)
      BY <1>0, <1>1, <2>2, <3>1
    <3> HIDE DEF k
    <3>2. wire'[i].seq = snd.nxt + k - 1
      BY <1>3, <3>3
    <3>4. upto <= snd.put /\ snd.nxt \in Nat /\ upto \in Nat
      BY <1>1, <1>2, <3>1, Sizes
    <3>5. snd.nxt + k - 1 \in 0..(snd.put - 1)
      BY <1>2, <3>3, <3>4, SMTT(30)
    <3> QED
      BY <3>2, <3>5
  <2> QED
    BY <1>0, <2>1, <2>2
<1>5. UNCHANGED <<app, missed, back, rcv>>
  BY DEF FlushTCPSendingBuffer
<1> QED
  BY <1>1, <1>4, <1>5, KeepWire

LEMMA KeepProbe == ASSUME KeepInv, WriteProbe PROVE KeepInv'
<1>0. /\ snd \in SenderVar /\ wire \in Seq(Segment) /\ Len(wire) \in Nat /\ Len(wire) <= TxBufs
      /\ \A i \in 1..Len(wire) : wire[i].kind = "data" => wire[i].seq \in 0..(snd.put - 1)
  BY DEF KeepInv, TypeOK, ReceiverInv
<1>1. snd' \in SenderVar /\ snd'.put = snd.put /\ snd'.una = snd.una
  BY <1>0, Zenon DEF WriteProbe, SenderVar
<1>2. UNCHANGED <<app, missed, back, rcv>>
  BY DEF WriteProbe
<1>3. CASE wire' = wire
  BY <1>0, <1>1, <1>2, <1>3, KeepWire
<1>4. CASE Talked
  <2> DEFINE e == [kind |-> "probe", seq |-> snd.nxt - 1]
  <2>1. e \in Segment /\ e.kind = "probe"
    BY <1>0, SenderNums, Sizes DEF Segment
  <2>2. wire' = Append(wire, e) /\ Len(wire) < TxBufs
    BY <1>4 DEF WriteProbe
  <2> HIDE DEF e
  <2>3. wire' \in Seq(Segment) /\ Len(wire') = Len(wire) + 1 /\ Len(wire') <= TxBufs
    BY <1>0, <2>1, <2>2, Sizes
  <2>4. \A i \in 1..Len(wire') : wire'[i] = IF i <= Len(wire) THEN wire[i] ELSE e
    BY <1>0, <2>1, <2>2, <2>3
  <2>5. \A i \in 1..Len(wire') : wire'[i].kind = "data" => wire'[i].seq \in 0..(snd.put - 1)
    BY <1>0, <2>1, <2>3, <2>4
  <2> QED
    BY <1>1, <1>2, <2>3, <2>5, KeepWire
<1> QED
  BY <1>3, <1>4 DEF WriteProbe

\* What a step leaves of the acknowledgements was among them before.
LEMMA KeepBack ==
  ASSUME KeepInv, snd' \in SenderVar, snd'.put = snd.put,
         snd'.una \in snd.una..rcv.nxt, back' \in Seq(Ack), Len(back') <= Len(back),
         \A i \in 1..Len(back') : \E j \in 1..Len(back) : back'[i] = back[j],
         UNCHANGED <<app, missed, wire, rcv>>
  PROVE  KeepInv'
<1>0. /\ snd \in SenderVar /\ rcv \in ReceiverVar /\ Len(back) \in Nat /\ Len(back) <= TxBufs
      /\ Len(back') \in Nat
  BY DEF KeepInv, TypeOK
<1>1. TypeOK'
  <2>1. Len(back') <= TxBufs
    BY <1>0, Sizes
  <2> QED
    BY <2>1 DEF KeepInv, TypeOK
<1>2. KeepsUnreceived'
  BY <1>0, SenderNums, ReceiverNums, Sizes, SMTT(30) DEF KeepInv, KeepsUnreceived
<1>3. \A i \in 1..Len(back') : /\ back'[i].ack <= rcv.nxt
                               /\ back'[i].ack + back'[i].wnd <= rcv.read + RcvSize
  BY DEF KeepInv, ReceiverInv
<1>4. ReceiverInv'
  BY <1>3 DEF KeepInv, ReceiverInv
<1> QED
  BY <1>1, <1>2, <1>4 DEF KeepInv

\* An acknowledgement on its way, as the sender's ProcessTCPPacket() meets it.
LEMMA ReceiveAckIs ==
  ASSUME KeepInv, NEW i \in 1..TxBufs, ReceiveAck(i)
  PROVE  LET s == [snd EXCEPT !.peer_wnd = back[i].wnd] IN
         /\ i \in 1..Len(back) /\ back[i].ack \in 0..MaxPut /\ back[i].wnd \in 0..RcvSize
         /\ back[i].ack <= snd.put /\ back[i].ack <= rcv.nxt
         /\ s \in SenderVar /\ s.peer_wnd = back[i].wnd
         /\ s.put = snd.put /\ s.una = snd.una /\ s.nxt = snd.nxt /\ s.open = snd.open
         /\ s.on_sendq = snd.on_sendq /\ s.on_send_list = snd.on_send_list /\ s.pc = snd.pc
         /\ snd' = ProcessACK(s, back[i].ack)
<1> DEFINE w == back[i].wnd
           a == back[i].ack
           s == [snd EXCEPT !.peer_wnd = w]
<1>0. /\ snd \in SenderVar /\ rcv \in ReceiverVar /\ back \in Seq(Ack)
      /\ KeepsUnreceived /\ ReceiverInv
  BY DEF KeepInv, TypeOK
<1>1. i \in 1..Len(back)
  BY DEF ReceiveAck, Arrives
<1>2. a \in 0..MaxPut /\ w \in 0..RcvSize
  BY <1>0, <1>1, AckNums
<1>3. a <= rcv.nxt /\ a <= snd.put
  BY <1>0, <1>1, <1>2, SenderNums, ReceiverNums, Sizes, SMTT(30) DEF ReceiverInv, KeepsUnreceived
<1>4. snd' = ProcessACK(s, a)
  BY DEF ReceiveAck
<1> HIDE DEF w, a
<1>5. s \in SenderVar
  BY <1>0, <1>2, Zenon DEF SenderVar
<1>6. /\ s.peer_wnd = w
      /\ s.put = snd.put /\ s.una = snd.una /\ s.nxt = snd.nxt /\ s.open = snd.open
      /\ s.on_sendq = snd.on_sendq /\ s.on_send_list = snd.on_send_list /\ s.pc = snd.pc
  BY <1>0 DEF SenderVar
<1> QED
  BY <1>1, <1>2, <1>3, <1>4, <1>5, <1>6 DEF w, a

LEMMA KeepReceiveAck == ASSUME KeepInv, NEW i \in 1..TxBufs, ReceiveAck(i) PROVE KeepInv'
<1> DEFINE s == [snd EXCEPT !.peer_wnd = back[i].wnd]
           a == back[i].ack
<1>0. /\ snd \in SenderVar /\ rcv \in ReceiverVar /\ back \in Seq(Ack)
      /\ KeepsUnreceived
  BY DEF KeepInv, TypeOK
<1>1. /\ i \in 1..Len(back) /\ a \in 0..MaxPut /\ a <= snd.put /\ a <= rcv.nxt
      /\ s \in SenderVar /\ s.put = snd.put /\ s.una = snd.una /\ snd' = ProcessACK(s, a)
  BY ReceiveAckIs
<1> HIDE DEF s, a
<1>2. snd' \in SenderVar /\ snd'.put = snd.put /\ snd'.una = Max(snd.una, a)
  BY <1>1, AckEffect DEF SameBut
<1>3. snd'.una \in snd.una..rcv.nxt
  BY <1>0, <1>1, <1>2, SenderNums, ReceiverNums, Sizes, SMTT(30) DEF Max, KeepsUnreceived
<1>4. back' = Without(back, i) /\ UNCHANGED <<app, missed, wire, rcv>>
  BY DEF ReceiveAck
<1>5. /\ back' \in Seq(Ack) /\ Len(back') = Len(back) - 1 /\ Len(back) \in Nat
      /\ \A j \in 1..(Len(back) - 1) : back'[j] = IF j < i THEN back[j] ELSE back[j + 1]
  BY <1>0, <1>1, <1>4, WithoutIs
<1>6. \A j \in 1..Len(back') : \E k \in 1..Len(back) : back'[j] = back[k]
  BY <1>1, <1>5
<1> QED
  BY <1>2, <1>3, <1>4, <1>5, <1>6, KeepBack

LEMMA KeepLose == ASSUME KeepInv, Lose PROVE KeepInv'
<1>0. /\ snd \in SenderVar /\ wire \in Seq(Segment) /\ back \in Seq(Ack) /\ KeepsUnreceived
      /\ rcv \in ReceiverVar /\ Len(wire) \in Nat /\ Len(wire) <= TxBufs
      /\ \A i \in 1..Len(wire) : wire[i].kind = "data" => wire[i].seq \in 0..(snd.put - 1)
  BY DEF KeepInv, TypeOK, ReceiverInv
<1>1. CASE wire # <<>> /\ wire' = Tail(wire) /\ UNCHANGED back
  <2>1. /\ wire' \in Seq(Segment) /\ Len(wire') = Len(wire) - 1
        /\ \A i \in 1..Len(wire') : wire'[i] = wire[i + 1]
    BY <1>0, <1>1, HeadTailProperties
  <2>2. Len(wire') <= TxBufs
    BY <1>0, <2>1, Sizes
  <2>3. \A i \in 1..Len(wire') : wire'[i] = wire[i + 1] /\ i + 1 \in 1..Len(wire)
    BY <1>0, <2>1
  <2>4. \A i \in 1..Len(wire') : wire'[i].kind = "data" => wire'[i].seq \in 0..(snd.put - 1)
    BY <1>0, <2>3
  <2>5. UNCHANGED <<app, missed, snd, back, rcv>>
    BY <1>1 DEF Lose
  <2> QED
    BY <1>0, <2>1, <2>2, <2>4, <2>5, KeepWire
<1>2. CASE back # <<>> /\ back' = Tail(back) /\ UNCHANGED wire
  <2>1. /\ back' \in Seq(Ack) /\ Len(back') = Len(back) - 1 /\ Len(back) \in Nat
        /\ \A i \in 1..Len(back') : back'[i] = back[i + 1]
    BY <1>0, <1>2, HeadTailProperties
  <2>2. snd.una \in snd.una..rcv.nxt
    BY <1>0, SenderNums, ReceiverNums, Sizes DEF KeepsUnreceived
  <2>3. \A i \in 1..Len(back') : \E j \in 1..Len(back) : back'[i] = back[j]
    BY <2>1
  <2>4. UNCHANGED <<app, missed, snd, wire, rcv>>
    BY <1>2 DEF Lose
  <2>5. Len(back') <= Len(back)
    BY <2>1
  <2> QED
    BY <1>0, <2>1, <2>2, <2>3, <2>4, <2>5, KeepBack
<1> QED
  BY <1>1, <1>2 DEF Lose

\* The receiver: what ValidateSequence() lets through is merged as far as it goes.
LEMMA AckCounts ==
  ASSUME NEW r \in ReceiverVar
  PROVE  /\ AckNow(r) \in ReceiverVar /\ AckAggregate(r) \in ReceiverVar
         /\ \A t \in {AckNow(r), AckAggregate(r)} :
              t.nxt = r.nxt /\ t.got = r.got /\ t.read = r.read /\ t.pc = r.pc
<1> DEFINE a == Min(r.ack_cnt + 1, TxBufs + 1)
           b == Max(r.ack_cnt, 1)
<1>1. a \in 0..(TxBufs + 1) /\ b \in 0..(TxBufs + 1)
  BY ReceiverNums, Sizes DEF Min, Max
<1>2. AckNow(r) = [r EXCEPT !.ack_cnt = a] /\ AckAggregate(r) = [r EXCEPT !.ack_cnt = b]
  BY DEF AckNow, AckAggregate
<1> HIDE DEF a, b
<1> QED
  BY <1>1, <1>2 DEF ReceiverVar

LEMMA PayloadIs ==
  ASSUME KeepInv, NEW p \in Segment, p.seq \in 0..(snd.put - 1), Validate(p, 1)
  PROVE  LET r == Payload(p) IN
         /\ r \in ReceiverVar /\ r.read = rcv.read /\ r.pc = rcv.pc
         /\ rcv.nxt <= r.nxt /\ r.nxt <= snd.put /\ r.nxt <= rcv.read + RcvSize
         /\ r.got \subseteq (r.nxt + 1)..(snd.put - 1)
         /\ \A n \in r.got : n < rcv.read + RcvSize
<1> DEFINE got == rcv.got \cup ({p.seq} \ 0..(rcv.nxt - 1))
           nxt == Merged(got, rcv.nxt)
           left == got \ (0..(nxt - 1))
           t == [rcv EXCEPT !.nxt = nxt, !.got = left]
<1>0. /\ snd \in SenderVar /\ rcv \in ReceiverVar /\ KeepsUnreceived /\ ReceiverInv
  BY DEF KeepInv, TypeOK
<1>1. /\ rcv.nxt \in 0..MaxPut /\ rcv.read \in Nat /\ snd.put \in 0..MaxPut
      /\ rcv.read <= rcv.nxt /\ rcv.nxt <= rcv.read + RcvSize /\ rcv.nxt <= snd.put
      /\ p.seq \in Int /\ p.seq < rcv.read + RcvSize
  BY <1>0, SenderNums, ReceiverNums, Sizes, SMTT(30)
     DEF KeepsUnreceived, ReceiverInv, Validate, rcv_wnd
<1>2. got \subseteq rcv.nxt..(snd.put - 1) /\ got \in SUBSET (0..(MaxPut - 1))
  BY <1>0, <1>1, Sizes, SMTT(30) DEF ReceiverInv
<1>3. /\ nxt \in rcv.nxt..MaxPut /\ nxt \notin got /\ \A k \in rcv.nxt..(nxt - 1) : k \in got
  BY <1>1, <1>2, MergedIs
<1> HIDE DEF got, nxt
<1>3a. nxt > rcv.nxt => nxt - 1 \in got
  BY <1>1, <1>3, Sizes
<1>4. nxt <= snd.put
  BY <1>1, <1>2, <1>3, <1>3a, Sizes
<1>5. nxt <= rcv.read + RcvSize
  <2>1. \A n \in got : n \in Int /\ n < rcv.read + RcvSize
    BY <1>0, <1>1, <1>2 DEF ReceiverInv, got
  <2> QED
    BY <1>1, <1>3, <1>3a, <2>1, Sizes, SMTT(30)
<1>6. left \subseteq (nxt + 1)..(snd.put - 1) /\ left \in SUBSET (0..(MaxPut - 1))
  BY <1>1, <1>2, <1>3, Sizes, SMTT(30)
<1>7. \A n \in left : n < rcv.read + RcvSize
  BY <1>0, <1>1, <1>2 DEF ReceiverInv, got
<1>8. nxt \in 0..MaxPut /\ rcv.nxt <= nxt
  BY <1>1, <1>3, Sizes
<1>9. Payload(p) = AckAggregate(t) \/ Payload(p) = AckNow(t)
  BY DEF Payload, got, nxt
<1> HIDE DEF left
<1>10. t \in ReceiverVar /\ t.nxt = nxt /\ t.got = left /\ t.read = rcv.read /\ t.pc = rcv.pc
  BY <1>0, <1>6, <1>8, Zenon DEF ReceiverVar
<1> HIDE DEF t
<1> DEFINE r == Payload(p)
<1>11. /\ r \in ReceiverVar /\ r.nxt = nxt /\ r.got = left /\ r.read = rcv.read
       /\ r.pc = rcv.pc
  BY <1>9, <1>10, AckCounts
<1> HIDE DEF r
<1>12. /\ r \in ReceiverVar /\ r.read = rcv.read /\ r.pc = rcv.pc
       /\ rcv.nxt <= r.nxt /\ r.nxt <= snd.put /\ r.nxt <= rcv.read + RcvSize
       /\ r.got \subseteq (r.nxt + 1)..(snd.put - 1)
       /\ \A n \in r.got : n < rcv.read + RcvSize
  BY <1>4, <1>5, <1>6, <1>7, <1>8, <1>11, Zenon
<1> QED
  BY <1>12 DEF r

\* Any segment, as the receiver meets it.
LEMMA ReceiveIs ==
  ASSUME KeepInv, NEW p \in Segment, p.kind = "data" => p.seq \in 0..(snd.put - 1)
  PROVE  LET r == Receive(p) IN
         /\ r \in ReceiverVar /\ r.read = rcv.read /\ r.pc = rcv.pc
         /\ rcv.nxt <= r.nxt /\ r.nxt <= snd.put /\ r.nxt <= rcv.read + RcvSize
         /\ r.got \subseteq (r.nxt + 1)..(snd.put - 1)
         /\ \A n \in r.got : n < rcv.read + RcvSize
<1>0. /\ snd \in SenderVar /\ rcv \in ReceiverVar /\ KeepsUnreceived /\ ReceiverInv
  BY DEF KeepInv, TypeOK
<1> DEFINE r == Receive(p)
<1>1. CASE p.kind = "data" /\ Validate(p, 1)
  <2>1. r = Payload(p)
    BY <1>1 DEF Receive
  <2> HIDE DEF r
  <2>2. p.seq \in 0..(snd.put - 1)
    BY <1>1
  <2> QED
    BY <1>1, <2>1, <2>2, PayloadIs DEF r
<1>2. CASE ~(p.kind = "data" /\ Validate(p, 1))
  <2>1. r = rcv \/ r = AckNow(rcv) \/ r = AckAggregate(rcv)
    BY <1>2 DEF Receive, Refused, Segment
  <2> HIDE DEF r
  <2>2. /\ r \in ReceiverVar /\ r.nxt = rcv.nxt /\ r.got = rcv.got /\ r.read = rcv.read
        /\ r.pc = rcv.pc
    BY <1>0, <2>1, AckCounts
  <2>3. rcv.nxt \in Int
    BY <1>0, ReceiverNums
  <2> QED
    BY <1>0, <2>2, <2>3 DEF KeepsUnreceived, ReceiverInv, r
<1> QED
  BY <1>1, <1>2

LEMMA KeepReceiveData == ASSUME KeepInv, NEW i \in 1..TxBufs, ReceiveData(i) PROVE KeepInv'
<1> DEFINE p == wire[i]
<1>0. /\ snd \in SenderVar /\ rcv \in ReceiverVar /\ wire \in Seq(Segment) /\ back \in Seq(Ack)
      /\ KeepsUnreceived /\ ReceiverInv /\ Len(wire) \in Nat /\ Len(wire) <= TxBufs
  BY DEF KeepInv, TypeOK
<1>1. i \in 1..Len(wire) /\ wire' = Without(wire, i) /\ rcv' = Receive(p)
  BY DEF ReceiveData, Arrives
<1>2. p \in Segment /\ (p.kind = "data" => p.seq \in 0..(snd.put - 1))
  BY <1>0, <1>1, ElementOfSeq DEF ReceiverInv
<1>3. UNCHANGED <<app, missed, snd, back>>
  BY DEF ReceiveData
<1> HIDE DEF p
<1>4. /\ rcv' \in ReceiverVar /\ rcv'.read = rcv.read
      /\ rcv.nxt <= rcv'.nxt /\ rcv'.nxt <= snd.put /\ rcv'.nxt <= rcv.read + RcvSize
      /\ rcv'.got \subseteq (rcv'.nxt + 1)..(snd.put - 1)
      /\ \A n \in rcv'.got : n < rcv.read + RcvSize
  BY <1>1, <1>2, ReceiveIs
<1>5. /\ wire' \in Seq(Segment) /\ Len(wire') = Len(wire) - 1 /\ Len(wire) \in Nat
      /\ \A j \in 1..(Len(wire) - 1) : wire'[j] = IF j < i THEN wire[j] ELSE wire[j + 1]
  BY <1>0, <1>1, WithoutIs
<1>6. TypeOK'
  <2>1. Len(wire') <= TxBufs
    BY <1>0, <1>5, Sizes
  <2> QED
    BY <1>3, <1>4, <1>5, <2>1 DEF KeepInv, TypeOK
<1>7. KeepsUnreceived'
  BY <1>0, <1>3, <1>4, SenderNums, ReceiverNums, Sizes, SMTT(30) DEF KeepsUnreceived
<1>8. ReceiverInv'
  <2>1. \A j \in 1..Len(wire') : \E k \in 1..Len(wire) : wire'[j] = wire[k]
    BY <1>1, <1>5
  <2>2. \A j \in 1..Len(wire') : wire'[j].kind = "data" => wire'[j].seq \in 0..(snd.put - 1)
    BY <1>0, <2>1 DEF ReceiverInv
  <2>3. rcv.read <= rcv'.nxt
    BY <1>0, <1>4, ReceiverNums, SMTT(30) DEF ReceiverInv
  <2>4. \A j \in 1..Len(back) : back[j].ack <= rcv'.nxt
    <3>1. rcv.nxt \in Int /\ rcv'.nxt \in Int /\ rcv.nxt <= rcv'.nxt
      BY <1>0, <1>4, ReceiverNums
    <3>2. \A j \in 1..Len(back) : back[j].ack \in Int /\ back[j].ack <= rcv.nxt
      BY <1>0, AckNums DEF ReceiverInv
    <3> QED
      BY <3>1, <3>2
  <2> QED
    BY <1>0, <1>3, <1>4, <2>2, <2>3, <2>4 DEF ReceiverInv
<1> QED
  BY <1>6, <1>7, <1>8 DEF KeepInv

LEMMA KeepSendsAck == ASSUME KeepInv, NEW n \in 1..TxBufs, WriteTCPACKList(n) PROVE KeepInv'
<1> DEFINE e == [ack |-> rcv.nxt, wnd |-> rcv_wnd]
           t == [i \in 1..n |-> e]
<1>0. /\ snd \in SenderVar /\ rcv \in ReceiverVar /\ back \in Seq(Ack)
      /\ KeepsUnreceived /\ ReceiverInv /\ Len(back) \in Nat
  BY DEF KeepInv, TypeOK
<1>1. /\ rcv.nxt \in 0..MaxPut /\ rcv.read \in Nat /\ rcv.ack_cnt \in 0..(TxBufs + 1)
      /\ rcv.read <= rcv.nxt /\ rcv.nxt <= rcv.read + RcvSize
  BY <1>0, ReceiverNums, Sizes DEF ReceiverInv
<1>2. /\ e \in Ack /\ e.ack <= rcv.nxt /\ e.ack + e.wnd <= rcv.read + RcvSize
  BY <1>1, Sizes DEF Ack, rcv_wnd
<1>3. /\ back' = back \o t /\ n <= TxBufs - Len(back) /\ n <= rcv.ack_cnt
      /\ UNCHANGED <<app, missed, snd, wire>>
  BY DEF WriteTCPACKList
<1> HIDE DEF e
<1>4. t \in Seq(Ack) /\ Len(t) = n /\ \A i \in 1..n : t[i] = e
  BY <1>2
<1> HIDE DEF t
<1>5. /\ back' \in Seq(Ack) /\ Len(back') = Len(back) + n
      /\ \A i \in 1..(Len(back) + n) : back'[i] = IF i <= Len(back) THEN back[i]
                                                 ELSE t[i - Len(back)]
  BY <1>0, <1>3, <1>4, ConcatProperties
<1>6. \A i \in 1..Len(back') : back'[i] = IF i <= Len(back) THEN back[i] ELSE e
  BY <1>0, <1>4, <1>5
<1>7. Len(back') <= TxBufs
  BY <1>0, <1>3, <1>5, Sizes
<1>8. /\ rcv' \in ReceiverVar /\ rcv'.nxt = rcv.nxt /\ rcv'.got = rcv.got
      /\ rcv'.read = rcv.read
  <2> DEFINE c == rcv.ack_cnt - n
             pc == IF rcv_wnd = 0 THEN "closed" ELSE "idle"
  <2>1. c \in 0..(TxBufs + 1) /\ pc \in {"idle", "closed"}
    BY <1>1, <1>3, Sizes, SMTT(30)
  <2>2. rcv' = [rcv EXCEPT !.ack_cnt = c, !.pc = pc]
    BY DEF WriteTCPACKList
  <2> HIDE DEF c, pc
  <2> QED
    BY <1>0, <2>1, <2>2, Zenon DEF ReceiverVar
<1>9. TypeOK'
  BY <1>3, <1>5, <1>7, <1>8 DEF KeepInv, TypeOK
<1>10. KeepsUnreceived'
  BY <1>0, <1>3, <1>8 DEF KeepsUnreceived
<1>11. ReceiverInv'
  <2>1. \A i \in 1..Len(back') : /\ back'[i].ack <= rcv.nxt
                                 /\ back'[i].ack + back'[i].wnd <= rcv.read + RcvSize
    BY <1>0, <1>2, <1>5, <1>6, SMTT(30) DEF ReceiverInv
  <2> QED
    BY <1>0, <1>3, <1>8, <2>1, Zenon DEF ReceiverInv
<1> QED
  BY <1>9, <1>10, <1>11 DEF KeepInv

LEMMA KeepReceiverSteps ==
  ASSUME KeepInv, NoteClosed \/ AckQueue \/ Read
  PROVE  KeepInv'
<1>0. /\ rcv \in ReceiverVar /\ ReceiverInv /\ rcv.nxt \in 0..MaxPut /\ rcv.read \in 0..MaxPut
      /\ rcv.read <= rcv.nxt /\ rcv.read \in rcv.read..rcv.nxt
  <2>1. rcv \in ReceiverVar /\ ReceiverInv
    BY DEF KeepInv, TypeOK
  <2> QED
    BY <2>1, ReceiverNums, Sizes DEF ReceiverInv
<1>1. CASE NoteClosed
  <2>1. /\ rcv' \in ReceiverVar /\ rcv'.nxt = rcv.nxt /\ rcv'.got = rcv.got
        /\ rcv'.read = rcv.read
    BY <1>0, <1>1, Zenon DEF NoteClosed, ReceiverVar
  <2> QED
    BY <1>0, <1>1, <2>1, KeepReceiver DEF NoteClosed
<1>2. CASE AckQueue
  <2> DEFINE t == [rcv EXCEPT !.on_ackq = FALSE]
  <2>1. t \in ReceiverVar /\ t.nxt = rcv.nxt /\ t.got = rcv.got /\ t.read = rcv.read
    BY <1>0, Zenon DEF ReceiverVar
  <2>2. rcv' = AckAggregate(t)
    BY <1>2 DEF AckQueue
  <2> HIDE DEF t
  <2>3. /\ rcv' \in ReceiverVar /\ rcv'.nxt = rcv.nxt /\ rcv'.got = rcv.got
        /\ rcv'.read = rcv.read
    BY <2>1, <2>2, AckCounts
  <2> QED
    BY <1>0, <1>2, <2>3, KeepReceiver DEF AckQueue
<1>3. CASE Read
  <2>1. PICK n \in 1..RcvSize : CopyToUser(n)
    BY <1>3 DEF Read
  <2> DEFINE m == rcv.read + n
             announce == rcv.need_wnd_adv /\ rcv_wnd + n > 1 /\ ~rcv.on_ackq
             q == rcv.on_ackq \/ announce
             w == rcv.need_wnd_adv /\ ~announce
  <2>2. m \in rcv.read..rcv.nxt /\ m \in 0..MaxPut
    BY <1>0, <2>1, Sizes DEF CopyToUser
  <2>3. q \in BOOLEAN /\ w \in BOOLEAN
    OBVIOUS
  <2>4. rcv' = [rcv EXCEPT !.read = m, !.on_ackq = q, !.need_wnd_adv = w]
    BY <2>1 DEF CopyToUser
  <2> HIDE DEF m, q, w
  <2>5. rcv' \in ReceiverVar
    BY <1>0, <2>2, <2>3, <2>4, Zenon DEF ReceiverVar
  <2>6. rcv'.nxt = rcv.nxt /\ rcv'.got = rcv.got /\ rcv'.read = m
    BY <1>0, <2>4 DEF ReceiverVar
  <2> QED
    BY <2>1, <2>2, <2>5, <2>6, KeepReceiver DEF CopyToUser
<1> QED
  BY <1>1, <1>2, <1>3

LEMMA KeepNext == KeepInv /\ [Next]_vars => KeepInv'
<1> SUFFICES ASSUME KeepInv, [Next]_vars PROVE KeepInv'
  OBVIOUS
<1>1. CASE \E n \in 1..SndSize : Write(n)
  BY <1>1, KeepWrite
<1>2. CASE Wake \/ SendQueue \/ LeaveSendList \/ CheckRtmTimeout
  BY <1>2, KeepSteps
<1>3. CASE WriteProbe
  BY <1>3, KeepProbe
<1>4. CASE \E upto \in 0..MaxPut : FlushTCPSendingBuffer(upto)
  BY <1>4, KeepFlush, Zenon
<1>5. CASE \E i \in 1..TxBufs : ReceiveAck(i)
  BY <1>5, KeepReceiveAck
<1>6. CASE \E i \in 1..TxBufs : ReceiveData(i)
  BY <1>6, KeepReceiveData
<1>7. CASE \E n \in 1..TxBufs : WriteTCPACKList(n)
  BY <1>7, KeepSendsAck
<1>8. CASE NoteClosed \/ AckQueue \/ Read
  BY <1>8, KeepReceiverSteps, Zenon
<1>9. CASE Lose
  BY <1>9, KeepLose
<1>10. CASE UNCHANGED vars
  BY <1>10 DEF vars, KeepInv, TypeOK, KeepsUnreceived, ReceiverInv
<1> QED
  BY <1>1, <1>2, <1>3, <1>4, <1>5, <1>6, <1>7, <1>8, <1>9, <1>10, Zenon
     DEF Next, SenderStep, ReceiverStep

LEMMA KeepHolds == Spec => []KeepInv
BY KeepInit, KeepNext, PTL DEF Spec

-----------------------------------------------------------------------------
(* What holds as long as no packet overtakes another. *)

LEMMA OrderInit == Init => OrderInv
BY Sizes DEF Init, OrderInv, BackInOrder, RespectsWindow

LEMMA OrderWrite ==
  ASSUME KeepInv, OrderInv, NEW n \in 1..SndSize, Write(n)
  PROVE  OrderInv'
<1>0. snd \in SenderVar /\ UNCHANGED <<wire, back, rcv>>
  BY DEF KeepInv, TypeOK, Write
<1> DEFINE m == snd.put + n
<1>1. snd' = [snd EXCEPT !.put = m]
  BY DEF Write
<1>2. snd.nxt <= m
  BY <1>0, SenderNums, Sizes DEF OrderInv
<1> HIDE DEF m
<1>3. snd'.put = m /\ snd'.una = snd.una /\ snd'.nxt = snd.nxt /\ snd'.peer_wnd = snd.peer_wnd
  BY <1>0, <1>1 DEF SenderVar
<1> QED
  BY <1>0, <1>2, <1>3 DEF OrderInv, BackInOrder, RespectsWindow

\* The sender's steps that neither send data nor receive.
LEMMA SmallSteps ==
  ASSUME KeepInv, Wake \/ SendQueue \/ LeaveSendList \/ WriteProbe \/ CheckRtmTimeout
  PROVE  /\ snd'.put = snd.put /\ snd'.una = snd.una /\ snd'.peer_wnd = snd.peer_wnd
         /\ snd'.nxt = snd.nxt \/ snd'.nxt = snd.una
<1>0. snd \in SenderVar
  BY DEF KeepInv, TypeOK
<1>1. CASE Wake
  BY <1>0, <1>1 DEF Wake, SenderVar
<1>2. CASE SendQueue
  BY <1>0, <1>2 DEF SendQueue, Dequeue, SenderVar
<1>3. CASE LeaveSendList
  BY <1>0, <1>3 DEF LeaveSendList, SenderVar
<1>4. CASE WriteProbe
  BY <1>0, <1>4 DEF WriteProbe, SenderVar
<1>5. CASE CheckRtmTimeout
  <2> DEFINE h == HalfWindow([snd EXCEPT !.rto = FALSE])
             t == [snd EXCEPT !.rto = FALSE]
  <2>1. /\ t \in SenderVar /\ t.put = snd.put /\ t.una = snd.una /\ t.nxt = snd.nxt
        /\ t.peer_wnd = snd.peer_wnd
    BY <1>0, Zenon DEF SenderVar
  <2>2. \/ snd' = [t EXCEPT !.open = FALSE]
        \/ snd' = [t EXCEPT !.nrtx = @ + 1, !.ssthresh = h, !.cwnd = 1, !.nxt = t.una,
                            !.on_send_list = TRUE]
    BY <1>5 DEF CheckRtmTimeout, HandleRTO
  <2> HIDE DEF h, t
  <2> QED
    BY <2>1, <2>2, ZenonT(30) DEF SenderVar
<1> QED
  BY <1>1, <1>2, <1>3, <1>4, <1>5

LEMMA OrderSmall ==
  ASSUME KeepInv, OrderInv, Wake \/ SendQueue \/ LeaveSendList \/ WriteProbe \/ CheckRtmTimeout
  PROVE  OrderInv'
<1>0. snd \in SenderVar /\ wire \in Seq(Segment) /\ Len(wire) \in Nat
  BY DEF KeepInv, TypeOK
<1>1. UNCHANGED <<back, rcv>>
  BY DEF Wake, SendQueue, LeaveSendList, WriteProbe, CheckRtmTimeout
<1>2. RespectsWindow'
  <2>1. CASE wire' = wire
    BY <1>1, <2>1 DEF OrderInv, RespectsWindow
  <2>2. CASE WriteProbe /\ Talked
    <3> DEFINE e == [kind |-> "probe", seq |-> snd.nxt - 1]
    <3>1. e \in Segment /\ e.kind = "probe"
      BY <1>0, SenderNums, Sizes DEF Segment
    <3>2. wire' = Append(wire, e)
      BY <2>2 DEF WriteProbe
    <3> HIDE DEF e
    <3>3. Len(wire') = Len(wire) + 1
      BY <1>0, <3>1, <3>2
    <3>4. \A i \in 1..Len(wire') : wire'[i] = IF i <= Len(wire) THEN wire[i] ELSE e
      BY <1>0, <3>1, <3>2, <3>3
    <3> QED
      BY <1>0, <1>1, <3>1, <3>3, <3>4, SMTT(30) DEF OrderInv, RespectsWindow
  <2> QED
    BY <2>1, <2>2 DEF Wake, SendQueue, LeaveSendList, WriteProbe, CheckRtmTimeout
<1>3. /\ snd'.put = snd.put /\ snd'.una = snd.una /\ snd'.peer_wnd = snd.peer_wnd
      /\ snd'.nxt = snd.nxt \/ snd'.nxt = snd.una
  BY SmallSteps
<1>4. snd'.una <= snd'.nxt /\ snd'.nxt <= snd'.put
  BY <1>0, <1>3, SenderNums, SMTT(30) DEF OrderInv
<1> QED
  BY <1>1, <1>2, <1>3, <1>4 DEF OrderInv, BackInOrder

LEMMA OrderFlush ==
  ASSUME KeepInv, OrderInv, NEW upto \in 0..MaxPut, FlushTCPSendingBuffer(upto)
  PROVE  OrderInv'
<1>0. /\ snd \in SenderVar /\ wire \in Seq(Segment) /\ Len(wire) \in Nat /\ rcv \in ReceiverVar
  BY SMTT(30) DEF KeepInv, TypeOK
<1>1. /\ snd'.put = snd.put /\ snd'.una = snd.una /\ snd'.nxt = upto /\ snd.nxt <= upto
      /\ snd'.peer_wnd = snd.peer_wnd
      /\ upto > snd.nxt => upto <= snd.put /\ upto <= snd.una + snd.peer_wnd
      /\ Len(wire') = Len(wire) + (upto - snd.nxt)
      /\ \A i \in 1..Len(wire') :
           wire'[i] = IF i <= Len(wire) THEN wire[i]
                      ELSE Segments(snd.nxt, upto)[i - Len(wire)]
  BY FlushIs
<1>2. /\ snd.nxt \in 0..MaxPut /\ snd.put \in Nat /\ snd.una \in Nat /\ snd.peer_wnd \in Nat
      /\ rcv.read \in Nat
  BY <1>0, SenderNums, ReceiverNums, Sizes
<1>3. \A i \in 1..(upto - snd.nxt) : Segments(snd.nxt, upto)[i].seq = snd.nxt + i - 1
  BY <1>1, <1>2, SegmentsAre, Zenon
<1>4. UNCHANGED <<back, rcv>>
  BY DEF FlushTCPSendingBuffer
<1>5. ASSUME NEW i \in 1..Len(wire'), wire'[i].kind = "data"
      PROVE  wire'[i].seq < rcv.read + RcvSize
  <2>1. CASE i <= Len(wire)
    BY <1>0, <1>1, <1>5, <2>1, SMTT(30) DEF OrderInv, RespectsWindow
  <2>2. CASE i > Len(wire)
    <3> DEFINE k == i - Len(wire)
    <3>1. k \in 1..(upto - snd.nxt) /\ upto > snd.nxt
      BY <1>0, <1>1, <1>2, <2>2, Sizes, SMTT(30)
    <3>2. wire'[i] = Segments(snd.nxt, upto)[k]
      BY <1>0, <1>1, <2>2
    <3> HIDE DEF k
    <3>3. wire'[i].seq = snd.nxt + k - 1
      BY <1>3, <3>1, <3>2
    <3>4. upto <= snd.una + snd.peer_wnd /\ snd.una + snd.peer_wnd <= rcv.read + RcvSize
      BY <1>1, <3>1 DEF OrderInv
    <3>5. snd.nxt + k - 1 < upto /\ snd.nxt + k - 1 \in Int /\ upto \in Int
      BY <1>2, <3>1, Sizes
    <3>6. snd.nxt + k - 1 < rcv.read + RcvSize
      BY <1>2, <3>4, <3>5, Sizes
    <3> QED
      BY <3>3, <3>6
  <2> QED
    BY <1>0, <2>1, <2>2, SMTT(30)
<1>6. snd'.una <= snd'.nxt /\ snd'.nxt <= snd'.put
  BY <1>1, <1>2, Sizes, SMTT(30) DEF OrderInv
<1> QED
  BY <1>1, <1>4, <1>5, <1>6 DEF OrderInv, BackInOrder, RespectsWindow

LEMMA OrderReceiveAck ==
  ASSUME ~Instant, KeepInv, OrderInv, NEW i \in 1..TxBufs, ReceiveAck(i)
  PROVE  OrderInv'
<1> DEFINE s == [snd EXCEPT !.peer_wnd = back[i].wnd]
           a == back[i].ack
           w == back[i].wnd
<1>0. /\ snd \in SenderVar /\ rcv \in ReceiverVar /\ back \in Seq(Ack)
      /\ ReceiverInv /\ BackInOrder
  BY DEF KeepInv, TypeOK, OrderInv
<1>1. /\ i \in 1..Len(back) /\ a \in 0..MaxPut /\ w \in 0..RcvSize /\ a <= snd.put
      /\ s \in SenderVar /\ s.put = snd.put /\ s.una = snd.una /\ s.nxt = snd.nxt
      /\ s.peer_wnd = w /\ snd' = ProcessACK(s, a)
  BY ReceiveAckIs
<1>2. i = 1
  BY DEF ReceiveAck, Arrives
<1>3. snd.una <= a /\ a + w <= rcv.read + RcvSize
  BY <1>0, <1>1 DEF BackInOrder, ReceiverInv
<1>4. \A j \in 1..Len(back) : a <= back[j].ack
  BY <1>0, <1>1, <1>2 DEF BackInOrder
<1> HIDE DEF s, a, w
<1>5. /\ SameBut(s, snd') /\ snd'.una = Max(s.una, a)
      /\ snd'.una <= snd'.nxt /\ snd'.nxt <= snd'.put
  BY <1>1, <1>3, AckEffect DEF OrderInv
<1>6. snd'.una = a /\ snd'.peer_wnd = w
  BY <1>0, <1>1, <1>3, <1>5, SenderNums DEF Max, SameBut
<1>7. back' = Without(back, i) /\ UNCHANGED <<wire, rcv>>
  BY DEF ReceiveAck
<1>8. /\ back' \in Seq(Ack) /\ Len(back') = Len(back) - 1 /\ Len(back) \in Nat
      /\ \A j \in 1..(Len(back) - 1) : back'[j] = IF j < i THEN back[j] ELSE back[j + 1]
  <2>1. back \in Seq(Ack) /\ i \in 1..Len(back) /\ Len(back) \in Nat
    BY <1>0, <1>1
  <2>2. /\ Without(back, i) \in Seq(Ack) /\ Len(Without(back, i)) = Len(back) - 1
        /\ \A j \in 1..(Len(back) - 1) :
             Without(back, i)[j] = IF j < i THEN back[j] ELSE back[j + 1]
    BY <2>1, WithoutIs, Zenon
  <2> QED
    BY <1>7, <2>1, <2>2, Zenon
<1>9. \A j \in 1..Len(back') : back'[j] = back[j + 1] /\ j + 1 \in 1..Len(back)
  BY <1>2, <1>8
<1>10. BackInOrder'
  <2>1. \A j \in 1..Len(back') : snd'.una <= back'[j].ack
    BY <1>4, <1>6, <1>9
  <2>2. \A j, k \in 1..Len(back') : j <= k => back'[j].ack <= back'[k].ack
    BY <1>0, <1>8, <1>9, SMTT(30) DEF BackInOrder
  <2> QED
    BY <2>1, <2>2 DEF BackInOrder
<1> QED
  BY <1>3, <1>5, <1>6, <1>7, <1>10 DEF OrderInv, RespectsWindow

LEMMA OrderLose ==
  ASSUME KeepInv, OrderInv, Lose
  PROVE  OrderInv'
<1>0. /\ wire \in Seq(Segment) /\ back \in Seq(Ack) /\ BackInOrder /\ RespectsWindow
      /\ UNCHANGED <<snd, rcv>>
  BY DEF KeepInv, TypeOK, OrderInv, Lose
<1>1. CASE wire # <<>> /\ wire' = Tail(wire) /\ UNCHANGED back
  <2>1. /\ Len(wire') = Len(wire) - 1 /\ Len(wire) \in Nat
        /\ \A i \in 1..Len(wire') : wire'[i] = wire[i + 1]
    BY <1>0, <1>1, HeadTailProperties
  <2>2. \A i \in 1..Len(wire') : wire'[i] = wire[i + 1] /\ i + 1 \in 1..Len(wire)
    BY <2>1
  <2>3. RespectsWindow'
    BY <1>0, <2>2 DEF RespectsWindow
  <2> QED
    BY <1>0, <1>1, <2>3 DEF OrderInv, BackInOrder
<1>2. CASE back # <<>> /\ back' = Tail(back) /\ UNCHANGED wire
  <2>1. /\ Len(back') = Len(back) - 1 /\ Len(back) \in Nat
        /\ \A i \in 1..Len(back') : back'[i] = back[i + 1]
    BY <1>0, <1>2, HeadTailProperties
  <2>2. \A i \in 1..Len(back') : back'[i] = back[i + 1] /\ i + 1 \in 1..Len(back)
    BY <2>1
  <2>3. \A j \in 1..Len(back') : snd'.una <= back'[j].ack
    BY <1>0, <2>2 DEF BackInOrder
  <2>4. \A j, k \in 1..Len(back') : j <= k => back'[j].ack <= back'[k].ack
    <3> SUFFICES ASSUME NEW j \in 1..Len(back'), NEW k \in 1..Len(back'), j <= k
                 PROVE  back'[j].ack <= back'[k].ack
      OBVIOUS
    <3>1. j + 1 \in 1..Len(back) /\ k + 1 \in 1..Len(back) /\ j + 1 <= k + 1
      BY <2>1, <2>2
    <3>2. back[j + 1].ack <= back[k + 1].ack
      BY <1>0, <3>1, Zenon DEF BackInOrder
    <3> QED
      BY <2>2, <3>2, Zenon
  <2>5. BackInOrder'
    BY <2>3, <2>4 DEF BackInOrder
  <2> QED
    BY <1>0, <1>2, <2>5 DEF OrderInv, RespectsWindow
<1> QED
  BY <1>1, <1>2 DEF Lose

LEMMA OrderReceiveData ==
  ASSUME KeepInv, OrderInv, NEW i \in 1..TxBufs, ReceiveData(i)
  PROVE  OrderInv'
<1> DEFINE p == wire[i]
<1>0. /\ wire \in Seq(Segment) /\ ReceiverInv /\ RespectsWindow
  BY DEF KeepInv, TypeOK, OrderInv
<1>1. i \in 1..Len(wire) /\ wire' = Without(wire, i) /\ rcv' = Receive(p)
  BY DEF ReceiveData, Arrives
<1>2. p \in Segment /\ (p.kind = "data" => p.seq \in 0..(snd.put - 1))
  BY <1>0, <1>1, ElementOfSeq DEF ReceiverInv
<1>3. UNCHANGED <<snd, back>>
  BY DEF ReceiveData
<1> HIDE DEF p
<1>4. rcv'.read = rcv.read
  BY <1>1, <1>2, ReceiveIs
<1>5. /\ wire' \in Seq(Segment) /\ Len(wire') = Len(wire) - 1 /\ Len(wire) \in Nat
      /\ \A j \in 1..(Len(wire) - 1) : wire'[j] = IF j < i THEN wire[j] ELSE wire[j + 1]
  <2>1. wire \in Seq(Segment) /\ i \in 1..Len(wire) /\ Len(wire) \in Nat
    BY <1>0, <1>1
  <2>2. /\ Without(wire, i) \in Seq(Segment) /\ Len(Without(wire, i)) = Len(wire) - 1
        /\ \A j \in 1..(Len(wire) - 1) :
             Without(wire, i)[j] = IF j < i THEN wire[j] ELSE wire[j + 1]
    BY <2>1, WithoutIs, Zenon
  <2> QED
    BY <1>1, <2>1, <2>2, Zenon
<1>6. \A j \in 1..Len(wire') : \E k \in 1..Len(wire) : wire'[j] = wire[k]
  BY <1>1, <1>5
<1>7. RespectsWindow'
  BY <1>0, <1>4, <1>6 DEF RespectsWindow
<1> QED
  BY <1>3, <1>4, <1>7 DEF OrderInv, BackInOrder

LEMMA OrderSendsAck ==
  ASSUME KeepInv, OrderInv, NEW n \in 1..TxBufs, WriteTCPACKList(n)
  PROVE  OrderInv'
<1> DEFINE e == [ack |-> rcv.nxt, wnd |-> rcv_wnd]
           t == [i \in 1..n |-> e]
<1>0. /\ snd \in SenderVar /\ rcv \in ReceiverVar /\ back \in Seq(Ack)
      /\ KeepsUnreceived /\ ReceiverInv /\ Len(back) \in Nat /\ BackInOrder
  BY DEF KeepInv, TypeOK, OrderInv
<1>1. e \in Ack /\ e.ack = rcv.nxt
  BY <1>0, ReceiverNums, Sizes DEF ReceiverInv, Ack, rcv_wnd
<1>2. back' = back \o t /\ UNCHANGED <<snd, wire>>
  BY DEF WriteTCPACKList
<1> HIDE DEF e
<1>3. t \in Seq(Ack) /\ Len(t) = n /\ \A i \in 1..n : t[i] = e
  BY <1>1
<1> HIDE DEF t
<1>4. /\ Len(back') = Len(back) + n
      /\ \A i \in 1..(Len(back) + n) : back'[i] = IF i <= Len(back) THEN back[i]
                                                 ELSE t[i - Len(back)]
  BY <1>0, <1>2, <1>3, ConcatProperties, ZenonT(30)
<1>5. \A i \in 1..Len(back') : back'[i] = IF i <= Len(back) THEN back[i] ELSE e
  BY <1>0, <1>3, <1>4
<1>6. rcv'.read = rcv.read
  BY <1>0 DEF WriteTCPACKList, ReceiverVar
<1>7. BackInOrder'
  <2>1. \A i \in 1..Len(back) : back[i].ack <= rcv.nxt
    BY <1>0 DEF ReceiverInv
  <2>2. snd.una <= rcv.nxt
    BY <1>0 DEF KeepsUnreceived
  <2>3. \A i \in 1..Len(back') : snd'.una <= back'[i].ack
    <3>1. SUFFICES ASSUME NEW i \in 1..Len(back') PROVE snd'.una <= back'[i].ack
      BY Zenon
    <3>2. snd' = snd
      BY <1>2, Zenon
    <3>3. CASE i <= Len(back)
      <4>1. i \in 1..Len(back) /\ back'[i] = back[i]
        BY <1>0, <1>5, <3>3
      <4>2. snd.una <= back[i].ack
        BY <1>0, <4>1, Zenon DEF BackInOrder
      <4> QED
        BY <3>2, <4>1, <4>2, Zenon
    <3>4. CASE ~(i <= Len(back))
      <4>1. back'[i] = e
        BY <1>5, <3>4, Zenon
      <4> QED
        BY <1>1, <2>2, <3>2, <4>1, Zenon
    <3> QED
      BY <3>3, <3>4, Zenon
  <2>4. ASSUME NEW i \in 1..Len(back'), NEW j \in 1..Len(back'), i <= j
        PROVE  back'[i].ack <= back'[j].ack
    <3>1. rcv.nxt \in Int
      BY <1>0, ReceiverNums
    <3>2. CASE j <= Len(back)
      BY <1>0, <1>4, <1>5, <2>4, <3>2, SMTT(30) DEF BackInOrder
    <3>3. CASE j > Len(back)
      BY <1>0, <1>1, <1>4, <1>5, <2>1, <3>1, <3>3, SMTT(30)
    <3> QED
      BY <1>0, <1>4, <3>2, <3>3
  <2> QED
    BY <2>3, <2>4 DEF BackInOrder
<1> QED
  BY <1>2, <1>6, <1>7 DEF OrderInv, RespectsWindow

LEMMA OrderReceiver ==
  ASSUME KeepInv, OrderInv, NoteClosed \/ AckQueue \/ Read
  PROVE  OrderInv'
<1>0. snd \in SenderVar /\ rcv \in ReceiverVar /\ wire \in Seq(Segment)
  BY DEF KeepInv, TypeOK
<1>1. UNCHANGED <<snd, wire, back>>
  BY Zenon DEF NoteClosed, AckQueue, Read, CopyToUser
<1>2. rcv'.read \in Int /\ rcv.read <= rcv'.read /\ rcv.read \in Int
  <2>1. rcv.read \in Int
    BY <1>0, ReceiverNums
  <2>2. CASE NoteClosed
    BY <1>0, <2>1, <2>2 DEF NoteClosed, ReceiverVar
  <2>3. CASE AckQueue
    BY <1>0, <2>1, <2>3 DEF AckQueue, AckAggregate, ReceiverVar
  <2>4. CASE Read
    <3>1. PICK n \in 1..RcvSize : CopyToUser(n)
      BY <2>4 DEF Read
    <3>2. rcv'.read = rcv.read + n
      BY <1>0, <3>1 DEF CopyToUser, ReceiverVar
    <3> QED
      BY <2>1, <3>2, Sizes
  <2> QED
    BY <2>2, <2>3, <2>4
<1>3. snd'.una + snd'.peer_wnd <= rcv'.read + RcvSize
  BY <1>0, <1>1, <1>2, SenderNums, Sizes, SMTT(30) DEF OrderInv
<1>4. RespectsWindow'
  <2>1. \A i \in 1..Len(wire) : wire[i].seq \in Int
    BY <1>0, SegmentNums
  <2> QED
    BY <1>1, <1>2, <2>1, Sizes DEF OrderInv, RespectsWindow
<1> QED
  BY <1>1, <1>3, <1>4 DEF OrderInv, BackInOrder

LEMMA OrderNext == ASSUME ~Instant, KeepInv, OrderInv, [Next]_vars PROVE OrderInv'
<1>1. CASE \E n \in 1..SndSize : Write(n)
  BY <1>1, OrderWrite
<1>2. CASE Wake \/ SendQueue \/ LeaveSendList \/ WriteProbe \/ CheckRtmTimeout
  BY <1>2, OrderSmall
<1>3. CASE \E upto \in 0..MaxPut : FlushTCPSendingBuffer(upto)
  BY <1>3, OrderFlush
<1>4. CASE \E i \in 1..TxBufs : ReceiveAck(i)
  BY <1>4, OrderReceiveAck, Zenon
<1>5. CASE \E i \in 1..TxBufs : ReceiveData(i)
  BY <1>5, OrderReceiveData
<1>6. CASE \E n \in 1..TxBufs : WriteTCPACKList(n)
  BY <1>6, OrderSendsAck
<1>7. CASE NoteClosed \/ AckQueue \/ Read
  BY <1>7, OrderReceiver
<1>8. CASE Lose
  BY <1>8, OrderLose, Zenon
<1>9. CASE UNCHANGED vars
  BY <1>9, ZenonT(30) DEF vars, OrderInv, BackInOrder, RespectsWindow
<1> QED
  BY <1>1, <1>2, <1>3, <1>4, <1>5, <1>6, <1>7, <1>8, <1>9, ZenonT(30) DEF Next, SenderStep, ReceiverStep

-----------------------------------------------------------------------------
(* Data to send is on the send list, or will be put there. *)

\* What the two properties of the send list need of each other.
StallInv == FlushInv /\ StallsOnlyInRace

LEMMA StallInit == Init => StallInv
BY DEF Init, StallInv, FlushInv, StallsOnlyInRace

\* Steps that leave the sender and its application alone.
LEMMA StallOther ==
  ASSUME StallInv, UNCHANGED <<app, missed, snd>>
  PROVE  StallInv'
BY DEF StallInv, FlushInv, StallsOnlyInRace

LEMMA StallApp ==
  ASSUME KeepInv, OrderInv, StallInv, Wake \/ \E n \in 1..SndSize : Write(n)
  PROVE  StallInv'
<1>0. snd \in SenderVar
  BY DEF KeepInv, TypeOK
<1>1. CASE Wake
  <2>1. /\ snd'.open = snd.open /\ snd'.nxt = snd.nxt /\ snd'.put = snd.put
        /\ snd'.on_send_list = snd.on_send_list /\ snd'.pc = snd.pc
        /\ snd'.on_sendq = (snd.on_sendq \/ ~snd.on_send_list)
        /\ missed' = (missed \/ (snd.pc = "flushed" /\ ~snd.on_sendq))
    BY <1>0, <1>1 DEF Wake, SenderVar
  <2>2. FlushInv'
    BY <2>1, Zenon DEF StallInv, FlushInv
  <2>3. StallsOnlyInRace'
    BY <2>1, Zenon DEF StallInv, StallsOnlyInRace
  <2> QED
    BY <2>2, <2>3 DEF StallInv
<1>2. CASE \E n \in 1..SndSize : Write(n)
  <2>1. PICK n \in 1..SndSize : Write(n)
    BY <1>2
  <2>2. snd'.on_send_list = snd.on_send_list /\ snd'.pc = snd.pc /\ app' = "copied"
    BY <1>0, <2>1 DEF Write, SenderVar
  <2> QED
    BY <2>2 DEF StallInv, FlushInv, StallsOnlyInRace
<1> QED
  BY <1>1, <1>2

LEMMA StallSmall ==
  ASSUME KeepInv, OrderInv, StallInv, SendQueue \/ LeaveSendList \/ WriteProbe \/ CheckRtmTimeout
  PROVE  StallInv'
<1>0. snd \in SenderVar /\ UNCHANGED <<app, missed>>
  BY DEF KeepInv, TypeOK, SendQueue, LeaveSendList, WriteProbe, CheckRtmTimeout
<1>1. CASE SendQueue
  <2>1. snd'.on_send_list /\ snd'.pc = "idle"
    BY <1>0, <1>1 DEF SendQueue, Dequeue, SenderVar
  <2> QED
    BY <2>1 DEF StallInv, FlushInv, StallsOnlyInRace
<1>2. CASE LeaveSendList
  <2>1. /\ snd'.pc = "idle" /\ snd.pc = "flushed" /\ snd'.on_sendq = snd.on_sendq
        /\ snd'.nxt = snd.nxt /\ snd'.put = snd.put
    BY <1>0, <1>2 DEF LeaveSendList, SenderVar
  <2>2. FlushInv'
    BY <2>1 DEF FlushInv
  <2>3. StallsOnlyInRace'
    BY <1>0, <2>1, Zenon DEF StallInv, FlushInv, StallsOnlyInRace
  <2> QED
    BY <2>2, <2>3 DEF StallInv
<1>3. CASE WriteProbe
  <2>1. /\ snd'.pc = snd.pc /\ snd'.on_sendq = snd.on_sendq /\ snd'.open = snd.open
        /\ snd'.nxt = snd.nxt /\ snd'.put = snd.put /\ snd'.on_send_list = snd.on_send_list
    BY <1>0, <1>3, Zenon DEF WriteProbe, SenderVar
  <2> QED
    BY <1>0, <2>1 DEF StallInv, FlushInv, StallsOnlyInRace
<1>4. CASE CheckRtmTimeout
  <2> DEFINE h == HalfWindow([snd EXCEPT !.rto = FALSE])
             t == [snd EXCEPT !.rto = FALSE]
  <2>1. t \in SenderVar /\ t.pc = "idle"
    BY <1>0, <1>4, Zenon DEF CheckRtmTimeout, SenderVar
  <2>2. \/ snd' = [t EXCEPT !.open = FALSE]
        \/ snd' = [t EXCEPT !.nrtx = @ + 1, !.ssthresh = h, !.cwnd = 1, !.nxt = t.una,
                            !.on_send_list = TRUE]
    BY <1>4 DEF CheckRtmTimeout, HandleRTO
  <2> HIDE DEF h, t
  <2>3. snd'.pc = "idle" /\ (snd'.open = FALSE \/ snd'.on_send_list)
    BY <2>1, <2>2, ZenonT(30) DEF SenderVar
  <2> QED
    BY <2>3 DEF StallInv, FlushInv, StallsOnlyInRace
<1> QED
  BY <1>1, <1>2, <1>3, <1>4

LEMMA StallFlush ==
  ASSUME KeepInv, OrderInv, StallInv, NEW upto \in 0..MaxPut, FlushTCPSendingBuffer(upto)
  PROVE  StallInv'
<1>0. snd \in SenderVar /\ snd.on_send_list /\ UNCHANGED <<app, missed>>
  BY DEF KeepInv, TypeOK, FlushTCPSendingBuffer
<1>1. /\ snd'.put = snd.put /\ snd'.nxt = upto /\ snd.nxt <= upto
      /\ snd'.on_send_list = snd.on_send_list
      /\ snd'.pc = "flushed" => upto = snd.put \/ snd.put = snd.una
      /\ upto > snd.nxt => upto <= snd.put
  BY FlushIs
<1>2. snd'.pc = "flushed" => ~(snd'.nxt < snd'.put)
  BY <1>0, <1>1, SenderNums, SMTT(30) DEF OrderInv
<1> QED
  BY <1>0, <1>1, <1>2 DEF StallInv, FlushInv, StallsOnlyInRace

LEMMA StallReceiveAck ==
  ASSUME ~Instant, KeepInv, OrderInv, StallInv, NEW i \in 1..TxBufs, ReceiveAck(i)
  PROVE  StallInv'
<1> DEFINE s == [snd EXCEPT !.peer_wnd = back[i].wnd]
           a == back[i].ack
<1>0. snd \in SenderVar /\ snd.pc = "idle" /\ UNCHANGED <<app, missed>>
  BY DEF KeepInv, TypeOK, ReceiveAck
<1>1. /\ i \in 1..Len(back) /\ a \in 0..MaxPut /\ a <= snd.put
      /\ s \in SenderVar /\ s.put = snd.put /\ s.una = snd.una /\ s.nxt = snd.nxt
      /\ s.open = snd.open /\ s.on_sendq = snd.on_sendq /\ s.on_send_list = snd.on_send_list
      /\ s.pc = snd.pc /\ snd' = ProcessACK(s, a)
  BY ReceiveAckIs
<1>2. snd.una <= a
  BY <1>1, ZenonT(30) DEF OrderInv, BackInOrder
<1> HIDE DEF s, a
<1>3. /\ SameBut(s, snd')
      /\ snd'.nxt < snd'.put => snd'.on_send_list \/ (~s.on_send_list /\ s.nxt < s.put)
  BY <1>1, <1>2, AckEffect DEF OrderInv
<1>4. /\ snd'.pc = "idle" /\ snd'.open = snd.open /\ snd'.on_sendq = snd.on_sendq
  BY <1>0, <1>1, <1>3 DEF SameBut
<1> QED
  BY <1>0, <1>1, <1>3, <1>4 DEF StallInv, FlushInv, StallsOnlyInRace

LEMMA StallNext == ASSUME ~Instant, KeepInv, OrderInv, StallInv, [Next]_vars PROVE StallInv'
<1>1. CASE Wake \/ \E n \in 1..SndSize : Write(n)
  BY <1>1, StallApp
<1>2. CASE SendQueue \/ LeaveSendList \/ WriteProbe \/ CheckRtmTimeout
  BY <1>2, StallSmall
<1>3. CASE \E upto \in 0..MaxPut : FlushTCPSendingBuffer(upto)
  BY <1>3, StallFlush
<1>4. CASE \E i \in 1..TxBufs : ReceiveAck(i)
  BY <1>4, StallReceiveAck
<1>5. CASE ReceiverStep \/ Read \/ Lose \/ UNCHANGED vars
  BY <1>5, StallOther, Zenon DEF ReceiverStep, NoteClosed, AckQueue, ReceiveData, WriteTCPACKList,
                          Read, CopyToUser, Lose, vars
<1> QED
  BY <1>1, <1>2, <1>3, <1>4, <1>5 DEF Next, SenderStep

LEMMA OrderHolds == ASSUME ~Instant PROVE Spec => [](KeepInv /\ OrderInv /\ StallInv)
<1>1. Init => KeepInv /\ OrderInv /\ StallInv
  BY KeepInit, OrderInit, StallInit
<1>2. KeepInv /\ OrderInv /\ StallInv /\ [Next]_vars => (KeepInv /\ OrderInv /\ StallInv)'
  BY KeepNext, OrderNext, StallNext
<1> QED
  BY <1>1, <1>2, PTL DEF Spec

-----------------------------------------------------------------------------
(* The theorems. *)

\* For all sizes, sequence numbers, windows and counters of ProcessACK(),
\* HandleRTO() and ProcessTCPPayload() keep their ranges, and no device or list holds
\* more packets than it has room for.
THEOREM TransferTyped == Spec => []TypeOK
<1>1. KeepInv => TypeOK
  BY DEF KeepInv
<1> QED
  BY <1>1, KeepHolds, PTL

\* SBRemove() in ProcessACK() frees nothing that ProcessTCPPayload() of the other
\* side has not merged, and nothing is merged that mtcp_write() did not put into the
\* buffer, whatever is lost or overtaken.
THEOREM NothingForgotten == Spec => []KeepsUnreceived
<1>1. KeepInv => KeepsUnreceived
  BY DEF KeepInv
<1> QED
  BY <1>1, KeepHolds, PTL

\* When no packet overtakes another, besides that no segment of
\* FlushTCPSendingBuffer() lies beyond the receive buffer: the window of the last ACK is
\* never larger than what is free now.
THEOREM TransferIsKept == ASSUME ~Instant PROVE Spec => []TransferKept
<1>1. KeepInv /\ OrderInv => TransferKept
  BY DEF KeepInv, OrderInv, TransferKept
<1> QED
  BY <1>1, OrderHolds, PTL

\* When no packet overtakes another, the assertions of FlushTCPSendingBuffer()
\* hold after any duplicate ACKs, time-outs and recovery, and a stream with data to send
\* is on the send list, in the send queue or in its writer's hands, except after the race
\* of mtcp_write() with the end of a flush.
THEOREM SendListIsKept == ASSUME ~Instant PROVE Spec => []SendListKept
<1>1. KeepInv /\ OrderInv /\ StallInv => SendListKept
  <2> SUFFICES ASSUME KeepInv, OrderInv, StallInv PROVE SendListKept
    OBVIOUS
  <2>1. snd \in SenderVar
    BY DEF KeepInv, TypeOK
  <2>2. FlushAsserts
    BY <2>1, SenderNums DEF OrderInv, FlushAsserts
  <2> QED
    BY <2>2 DEF StallInv, SendListKept
<1> QED
  BY <1>1, OrderHolds, PTL

====
