---------------------------- MODULE TcpTransfer ----------------------------
(***************************************************************************)
(* Data in one direction between two mTCP stacks in ESTABLISHED: the       *)
(* sending application (mtcp_write), the sending stack thread (sendq,      *)
(* send list, FlushTCPSendingBuffer, ProcessACK, HandleRTO), the network,  *)
(* the receiving stack thread (ValidateSequence, ProcessTCPPayload, ack    *)
(* list) and the receiving application (CopyToUser).                       *)
(*                                                                         *)
(* The unit is one full segment, so mss = eff_mss = 1, and byte n of the   *)
(* stream has sequence number n.  That the buffers keep the right bytes    *)
(* under the right, wrapping, numbers is the subject of SendBuffer and     *)
(* RecvBuffer.  Connection set-up and close are not part of this module,   *)
(* and the idle timeout is off (tcp_timeout = -1).                         *)
(***************************************************************************)
EXTENDS Integers, Sequences, FiniteSets

CONSTANTS
  MaxPut,          \* bound: how much the application writes
  SndSize,         \* sndbuf->size
  RcvSize,         \* rcvbuf->size
  InitCwnd, InitSsthresh,
  MaxCwnd,         \* bound on cwnd
  TCP_MAX_RTX,
  TxBufs,          \* packets the device takes before IPOutput() fails
  Lossy,           \* may the network lose packets?
  Instant,         \* all within one clock tick: packets may overtake each
                   \* other (their timestamps are equal), no timer fires
  Talked           \* has the sender ever received data (has it a rcvbuf)?

ASSUME TransferAssumption ==
  /\ {MaxPut, SndSize, RcvSize, InitCwnd, InitSsthresh, MaxCwnd, TxBufs} \subseteq Nat \ {0}
  /\ InitCwnd <= MaxCwnd
  /\ TCP_MAX_RTX \in Nat /\ {Lossy, Instant, Talked} \subseteq BOOLEAN

VARIABLES
  app,     \* the writer: "idle", or "copied" between its unlock and its test
  missed,  \* history: the writer's test fell between a flush and its end
  snd,     \* sndvar and the stack thread's place in WriteTCPDataList()
  wire,    \* data segments and window probes on their way
  back,    \* acknowledgements on their way
  rcv      \* rcvvar of the receiver and its stack thread's place

vars == <<app, missed, snd, wire, back, rcv>>

Min(a, b) == IF a < b THEN a ELSE b
Max(a, b) == IF a < b THEN b ELSE a

Init ==
  /\ app = "idle" /\ missed = FALSE /\ wire = <<>> /\ back = <<>>
  /\ snd = [open |-> TRUE, una |-> 0, nxt |-> 0, put |-> 0,
            cwnd |-> InitCwnd, ssthresh |-> InitSsthresh, peer_wnd |-> RcvSize,
            wl2 |-> 0, last_ack |-> 0, dup_acks |-> 0, nrtx |-> 0, rto |-> FALSE,
            on_sendq |-> FALSE, on_send_list |-> FALSE, is_wack |-> FALSE,
            pc |-> "idle"]
  /\ rcv = [nxt |-> 0, got |-> {}, read |-> 0, ack_cnt |-> 0, on_ackq |-> FALSE,
            need_wnd_adv |-> FALSE, pc |-> "idle"]

rcv_wnd == RcvSize - (rcv.nxt - rcv.read)

-----------------------------------------------------------------------------
(* The sending application. *)

\* mtcp_write() up to its unlock: CopyFromUser() puts what there is room for.
Write(n) ==
  /\ app = "idle" /\ snd.open
  /\ n <= SndSize - (snd.put - snd.una) /\ snd.put + n <= MaxPut
  /\ snd' = [snd EXCEPT !.put = @ + n] /\ app' = "copied"
  /\ UNCHANGED <<missed, wire, back, rcv>>

\* The rest of mtcp_write(), without the lock.
Wake ==
  /\ app = "copied" /\ app' = "idle"
  /\ snd' = [snd EXCEPT !.on_sendq = @ \/ ~snd.on_send_list]
  /\ missed' = (missed \/ (snd.pc = "flushed" /\ ~snd.on_sendq))
  /\ UNCHANGED <<wire, back, rcv>>

-----------------------------------------------------------------------------
(* The sending stack. *)

\* HandleApplicationCalls(): the send queue.
DequeueOnly(s) == [s EXCEPT !.on_sendq = FALSE]
Dequeue(s) == [s EXCEPT !.on_sendq = FALSE, !.on_send_list = TRUE]

SendQueue ==
  /\ snd.pc = "idle" /\ snd.on_sendq
  /\ snd' = Dequeue(snd) /\ UNCHANGED <<app, missed, wire, back, rcv>>

\* How far the windows and the buffer let snd_nxt go.
SendableCwnd(s) == Max(s.nxt, Min(s.put, s.una + s.cwnd))
Sendable(s) == Max(s.nxt, Min(s.put, s.una + Min(s.cwnd, s.peer_wnd)))

Segments(from, to) == [i \in 1..(to - from) |-> [kind |-> "data", seq |-> from + i - 1]]

\* WriteTCPDataList() with FlushTCPSendingBuffer(): sends up to upto and stops
\* there because the device is full (-3), a window is (-3, and after half a
\* second without an ACK a probe is queued), or nothing is left.
FlushTCPSendingBuffer(upto) ==
  /\ snd.pc = "idle" /\ snd.open /\ snd.on_send_list
  /\ upto \in snd.nxt..Sendable(snd)
  /\ upto - snd.nxt <= TxBufs - Len(wire)
  /\ upto < Sendable(snd) => Len(wire) + upto - snd.nxt = TxBufs
  /\ wire' = wire \o Segments(snd.nxt, upto)
  /\ \E probe \in BOOLEAN :
       /\ probe => /\ upto = Sendable(snd) /\ upto < snd.put
                   /\ snd.peer_wnd <= snd.cwnd /\ ~snd.is_wack /\ ~Instant
       /\ snd' = [snd EXCEPT !.nxt = upto, !.rto = @ \/ upto > snd.nxt,
                             !.is_wack = @ \/ probe,
                             !.pc = IF upto = snd.put \/ snd.put = snd.una
                                    THEN "flushed" ELSE "idle"]
  /\ UNCHANGED <<app, missed, back, rcv>>

\* The end of WriteTCPDataList(), after the flush has given up the lock.
LeaveSendList ==
  /\ snd.pc = "flushed"
  /\ snd' = [snd EXCEPT !.on_send_list = FALSE, !.pc = "idle"]
  /\ UNCHANGED <<app, missed, wire, back, rcv>>

\* WriteTCPACKList(): the window probe; without a rcvbuf it is dropped.
WriteProbe ==
  /\ snd.pc = "idle" /\ snd.open /\ snd.is_wack
  /\ Talked => Len(wire) < TxBufs
  /\ snd' = [snd EXCEPT !.is_wack = FALSE]
  /\ wire' = IF Talked THEN Append(wire, [kind |-> "probe", seq |-> snd.nxt - 1]) ELSE wire
  /\ UNCHANGED <<app, missed, back, rcv>>

\* HandleRTO(): gives up after TCP_MAX_RTX, or goes back to snd_una.
HalfWindow(s) == Max(Min(s.cwnd, s.peer_wnd) \div 2, 2)
RtoOnceMore(s) ==
  IF s.nrtx > TCP_MAX_RTX THEN [s EXCEPT !.open = FALSE]
  ELSE [s EXCEPT !.nrtx = @ + 1, !.ssthresh = HalfWindow(s), !.cwnd = 1,
                 !.nxt = s.una, !.on_send_list = TRUE]
HandleRTO(s) ==
  IF s.nrtx >= TCP_MAX_RTX THEN [s EXCEPT !.open = FALSE]
  ELSE [s EXCEPT !.nrtx = @ + 1, !.ssthresh = HalfWindow(s), !.cwnd = 1,
                 !.nxt = s.una, !.on_send_list = TRUE]

CheckRtmTimeout ==
  /\ snd.pc = "idle" /\ snd.open /\ snd.rto /\ ~Instant
  /\ snd' = HandleRTO([snd EXCEPT !.rto = FALSE])
  /\ UNCHANGED <<app, missed, wire, back, rcv>>

\* ProcessACK(), in the order of the code.  peer_wnd is already the packet's
\* (ProcessTCPPacket() stores it), so the window edge only differs when snd_wl2
\* moves.
IsDup(s, ack) == ack < s.nxt /\ ack = s.last_ack /\ ~(s.wl2 < ack)

Counted(s, ack) ==
  IF IsDup(s, ack)
  THEN [s EXCEPT !.wl2 = Max(@, ack), !.dup_acks = Min(@ + 1, 4)]
  ELSE [s EXCEPT !.wl2 = Max(@, ack), !.dup_acks = 0, !.last_ack = ack]

FastRetransmit(s, ack, dup) ==
  IF dup /\ s.dup_acks = 3
  THEN [s EXCEPT !.nxt = ack, !.ssthresh = HalfWindow(s),
                 !.cwnd = Min(HalfWindow(s) + 3, MaxCwnd),
                 !.nrtx = Min(@ + 1, TCP_MAX_RTX), !.on_send_list = TRUE]
  ELSE IF s.dup_acks > 3 THEN [s EXCEPT !.cwnd = Min(@ + 1, MaxCwnd)] ELSE s

NotRecovered(s, ack) == s
Recovered(s, ack) ==
  IF ack > s.nxt
  THEN [s EXCEPT !.nxt = ack, !.on_send_list = @ /\ s.put # s.una] ELSE s

\* New data acknowledged: the congestion window, SBRemove(), the timer.
RemovedUnarmed(s, ack) ==
  IF s.una >= ack THEN s
  ELSE [s EXCEPT !.una = ack, !.nrtx = 0, !.rto = FALSE,
                 !.cwnd = Min(@ + (IF @ < s.ssthresh THEN ack - s.una
                                   ELSE (ack - s.una) \div @), MaxCwnd)]
RemovedSent(s, ack) ==
  IF s.una >= ack THEN s
  ELSE [s EXCEPT !.una = Max(ack, s.nxt), !.nrtx = 0, !.rto = s.nxt > ack,
                 !.cwnd = Min(@ + (IF @ < s.ssthresh THEN ack - s.una
                                   ELSE (ack - s.una) \div @), MaxCwnd)]
Removed(s, ack) ==
  IF s.una >= ack THEN s
  ELSE [s EXCEPT !.una = ack, !.nrtx = 0, !.rto = s.nxt > ack,
                 !.cwnd = Min(@ + (IF @ < s.ssthresh THEN ack - s.una
                                   ELSE (ack - s.una) \div @), MaxCwnd)]

ProcessACK(s, ack) ==
  IF ack > s.put THEN s
  ELSE Removed(Recovered(FastRetransmit(Counted(s, ack), ack, IsDup(s, ack)), ack), ack)

-----------------------------------------------------------------------------
(* The network. *)

Without(s, i) == SubSeq(s, 1, i - 1) \o SubSeq(s, i + 1, Len(s))
Arrives(s, i) == i \in 1..Len(s) /\ (Instant \/ i = 1)

\* An acknowledgement reaches ProcessTCPPacket() of the sender.
ReceiveAck(i) ==
  /\ Arrives(back, i) /\ snd.pc = "idle" /\ snd.open
  /\ back' = Without(back, i)
  /\ snd' = ProcessACK([snd EXCEPT !.peer_wnd = back[i].wnd], back[i].ack)
  /\ UNCHANGED <<app, missed, wire, rcv>>

Lose ==
  /\ Lossy
  /\ \/ wire # <<>> /\ wire' = Tail(wire) /\ UNCHANGED back
     \/ back # <<>> /\ back' = Tail(back) /\ UNCHANGED wire
  /\ UNCHANGED <<app, missed, snd, rcv>>

-----------------------------------------------------------------------------
(* The receiver. *)

\* EnqueueACK() with ACK_OPT_NOW and ACK_OPT_AGGREGATE; at most TxBufs + 1 wait.
AckNow(r) == [r EXCEPT !.ack_cnt = Min(@ + 1, TxBufs + 1)]
AckAggregate(r) == [r EXCEPT !.ack_cnt = Max(@, 1)]

\* The next missing number after n, given what has arrived.
Merged(r, n) == CHOOSE m \in n..MaxPut : m \notin r /\ \A k \in n..(m - 1) : k \in r

\* ValidateSequence(), first for a segment with len bytes, and then
\* ProcessTCPPayload() for a valid one; a valid probe is not answered.
Validate(p, len) == p.seq + len \in rcv.nxt..(rcv.nxt + rcv_wnd)
RefusedSilent(p) == IF p.seq <= rcv.nxt THEN rcv ELSE AckNow(rcv)
Refused(p) == IF p.seq <= rcv.nxt THEN AckAggregate(rcv) ELSE AckNow(rcv)
Payload(p) ==
  LET got == rcv.got \cup ({p.seq} \ 0..(rcv.nxt - 1))
      nxt == Merged(got, rcv.nxt)
      r   == [rcv EXCEPT !.nxt = nxt, !.got = got \ (0..(nxt - 1))]
  IN  IF nxt > rcv.nxt THEN AckAggregate(r) ELSE AckNow(r)

Receive(p) ==
  IF p.kind = "probe" THEN IF Validate(p, 0) THEN rcv ELSE Refused(p)
  ELSE IF Validate(p, 1) THEN Payload(p) ELSE Refused(p)

ReceiveData(i) ==
  /\ Arrives(wire, i) /\ rcv.pc = "idle"
  /\ wire' = Without(wire, i) /\ rcv' = Receive(wire[i])
  /\ UNCHANGED <<app, missed, snd, back>>

\* WriteTCPACKList() of the receiver: n of its ack_cnt ACKs find a buffer.
\* SendTCPPacket() reads rcv_wnd without the lock, and afterwards notes that it
\* advertised none.
WriteTCPACKList(n) ==
  /\ rcv.pc = "idle" /\ n \in 1..rcv.ack_cnt
  /\ n <= TxBufs - Len(back)
  /\ n < rcv.ack_cnt => Len(back) + n = TxBufs
  /\ back' = back \o [i \in 1..n |-> [ack |-> rcv.nxt, wnd |-> rcv_wnd]]
  /\ rcv' = [rcv EXCEPT !.ack_cnt = @ - n,
                        !.pc = IF rcv_wnd = 0 THEN "closed" ELSE "idle"]
  /\ UNCHANGED <<app, missed, snd, wire>>

NoteClosed ==
  /\ rcv.pc = "closed"
  /\ rcv' = [rcv EXCEPT !.need_wnd_adv = TRUE, !.pc = "idle"]
  /\ UNCHANGED <<app, missed, snd, wire, back>>

\* CopyToUser() in the receiving application: a window that was advertised as
\* closed is announced once it is larger than a segment.
CopyToUser(n) ==
  /\ n \in 1..(rcv.nxt - rcv.read)
  /\ LET announce == rcv.need_wnd_adv /\ rcv_wnd + n > 1 /\ ~rcv.on_ackq
     IN  rcv' = [rcv EXCEPT !.read = @ + n, !.on_ackq = @ \/ announce,
                            !.need_wnd_adv = @ /\ ~announce]
  /\ UNCHANGED <<app, missed, snd, wire, back>>

\* HandleApplicationCalls(): the ack queue.
AckQueue ==
  /\ rcv.pc = "idle" /\ rcv.on_ackq
  /\ rcv' = AckAggregate([rcv EXCEPT !.on_ackq = FALSE])
  /\ UNCHANGED <<app, missed, snd, wire, back>>

-----------------------------------------------------------------------------

SenderStep ==
  \/ SendQueue \/ LeaveSendList \/ WriteProbe \/ CheckRtmTimeout
  \/ \E upto \in 0..MaxPut : FlushTCPSendingBuffer(upto)
  \/ \E i \in 1..TxBufs : ReceiveAck(i)
ReceiverStep ==
  \/ NoteClosed \/ AckQueue
  \/ \E i \in 1..TxBufs : ReceiveData(i)
  \/ \E n \in 1..TxBufs : WriteTCPACKList(n)
Read == \E n \in 1..RcvSize : CopyToUser(n)

Next ==
  \/ \E n \in 1..SndSize : Write(n)
  \/ Wake \/ SenderStep \/ ReceiverStep \/ Read \/ Lose

Spec == Init /\ [][Next]_vars

\* The two stack threads run their loops, mtcp_write() returns, the receiving
\* application reads what it is told of, a blocked flush asks for a probe when
\* half a second has passed, and a network that is used again and again
\* delivers again and again.
Fairness ==
  /\ WF_vars(Wake) /\ WF_vars(Read)
  /\ WF_vars(SendQueue) /\ WF_vars(LeaveSendList) /\ WF_vars(WriteProbe)
  /\ WF_vars(CheckRtmTimeout)
  /\ WF_vars(\E upto \in 0..MaxPut : FlushTCPSendingBuffer(upto))
  /\ WF_vars(NoteClosed) /\ WF_vars(AckQueue)
  /\ WF_vars(\E n \in 1..TxBufs : WriteTCPACKList(n))
  /\ SF_vars(ReceiveAck(1)) /\ SF_vars(ReceiveData(1))
FairSpec == Spec /\ Fairness

-----------------------------------------------------------------------------

SenderVar ==
  [open : BOOLEAN, una : 0..MaxPut, nxt : 0..MaxPut, put : 0..MaxPut,
   cwnd : 1..MaxCwnd, ssthresh : Nat \ {0}, peer_wnd : 0..RcvSize,
   wl2 : 0..MaxPut, last_ack : 0..MaxPut, dup_acks : 0..4,
   nrtx : 0..TCP_MAX_RTX, rto : BOOLEAN, on_sendq : BOOLEAN,
   on_send_list : BOOLEAN, is_wack : BOOLEAN, pc : {"idle", "flushed"}]
ReceiverVar ==
  [nxt : 0..MaxPut, got : SUBSET (0..(MaxPut - 1)), read : 0..MaxPut,
   ack_cnt : 0..(TxBufs + 1), on_ackq : BOOLEAN, need_wnd_adv : BOOLEAN,
   pc : {"idle", "closed"}]
Segment == [kind : {"data", "probe"}, seq : -1..(MaxPut - 1)]
Ack == [ack : 0..MaxPut, wnd : 0..RcvSize]

\* Type invariant.
TypeOK ==
  /\ app \in {"idle", "copied"} /\ missed \in BOOLEAN
  /\ snd \in SenderVar /\ rcv \in ReceiverVar
  /\ wire \in Seq(Segment) /\ Len(wire) <= TxBufs
  /\ back \in Seq(Ack) /\ Len(back) <= TxBufs

\* The three assert(0) of FlushTCPSendingBuffer() ("Invalid sequence to send",
\* "len < 0"): a flush never meets a snd_nxt outside the buffer, whatever
\* duplicate ACKs, timeouts and recovery did to it.
FlushAsserts ==
  snd.on_send_list /\ snd.put # snd.una => snd.nxt \in snd.una..snd.put

\* The sender forgets no byte before the receiver has it: what SBRemove() frees
\* has been merged, and everything in between is still in the send buffer.
KeepsUnreceived ==
  snd.una <= rcv.nxt /\ rcv.nxt <= snd.put /\ snd.put - snd.una <= SndSize

\* Flow control: no segment on the wire lies beyond the receive buffer, so the
\* receiver never has to drop one for want of room.
RespectsWindow ==
  \A i \in 1..Len(wire) :
    wire[i].kind = "data" => wire[i].seq < rcv.read + RcvSize

\* Buffered data is on its way to being sent: somebody still has to look at it
\* (the writer, a queue, a list), except after the one race in which
\* mtcp_write() looked at on_send_list between a flush and its end.
StallsOnlyInRace ==
  snd.open /\ snd.nxt < snd.put
    => missed \/ app = "copied" \/ snd.on_sendq \/ snd.on_send_list

\* What was sent is acknowledged in the end, or the connection is given up.
Settles == <>[](snd.nxt = snd.una \/ ~snd.open)

\* mtcp_write(): "the bytestream is sent": what the application wrote is read by
\* the other application in the end, or the connection is given up.
Delivers == <>[](rcv.read = snd.put \/ ~snd.open)

\* "if peer window is full, send ACK and let its peer advertises new one": a
\* sender that is blocked by a closed window learns of its opening (unless
\* mtcp_write() lost the race above).
WindowReopens ==
  (snd.peer_wnd = 0 /\ snd.on_send_list /\ snd.nxt < snd.put)
    ~> (snd.peer_wnd > 0 \/ ~snd.open \/ missed)

\* The comment in ProcessACK() says what counts as a duplicated ACK: one with
\* the "advertised window not changed", among other things.
DupMeansSameWindow ==
  [][snd'.dup_acks > snd.dup_acks => snd'.peer_wnd = snd.peer_wnd]_vars

\* The send list and what it stands for: a flush finds snd_nxt inside the buffer, and
\* a stream with data to send is on the list or will be, but for the one race.
SendListKept == FlushAsserts /\ StallsOnlyInRace

\* What ProcessACK() and FlushTCPSendingBuffer() promise of the two windows: nothing is
\* forgotten before the receiver has it, and nothing is sent that it has no room for.
TransferKept == KeepsUnreceived /\ RespectsWindow
=============================================================================
