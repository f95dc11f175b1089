--------------------------- MODULE TcpConnection ---------------------------
(***************************************************************************)
(* One connection between two mTCP stacks, from mtcp_connect() to the      *)
(* destruction of both streams: the three-way handshake, orderly and       *)
(* simultaneous close, resets, retransmission of SYN and FIN, TIME_WAIT,   *)
(* the idle timeout, and the queues through which the applications' calls  *)
(* reach the stack threads.                                                *)
(*                                                                         *)
(* Neither application sends data (TcpTransfer is about data), so the      *)
(* streams have no buffers: sndvar->sndbuf and rcvvar->rcvbuf are NULL.    *)
(* Each stack thread takes packets one at a time and, between packets,     *)
(* does the rest of a round of RunMainLoop(): timers, application calls,   *)
(* control and ack lists.  Each application thread runs beside it.  The    *)
(* stack serves other flows too (flow_cnt > 0).                            *)
(***************************************************************************)
EXTENDS Integers, Sequences, FiniteSets

CONSTANTS
  TCP_MAX_RTX, TCP_MAX_SYN_RETRY,
  TxBufs,       \* packets the device takes before IPOutput() fails
  MaxLost,      \* bound: packets the network loses
  Wnd,          \* rcv_wnd
  IdleTimeout,  \* tcp_timeout > 0
  MayRefuse,    \* may a SYN find no listener or no room in the flow pool?
  MayFill,      \* may the listener's acceptq be full?
  MayAbort,     \* may the applications call mtcp_abort()?
  Patient       \* no RTO goes off while a packet or an answer is on its way

\* What the constants must satisfy; the modules that instantiate this one assume it.
ConnectionAssumption ==
  /\ {TxBufs, Wnd} \subseteq Nat \ {0}
  /\ {TCP_MAX_RTX, TCP_MAX_SYN_RETRY, MaxLost} \subseteq Nat
  /\ {IdleTimeout, MayRefuse, MayFill, MayAbort, Patient} \subseteq BOOLEAN

VARIABLES
  strm,   \* each stack's stream, with the queues that hold a pointer to it
  app,    \* each application thread
  wire,   \* wire[e]: the packets on their way to e
  lost,   \* packets lost so far
  made    \* streams the server has created

vars == <<strm, app, wire, lost, made>>

End == {"client", "server"}
Peer(e) == IF e = "client" THEN "server" ELSE "client"

\* Initial sequence numbers: far enough apart not to meet.
Iss(n) == 10 * n

\* CreateTCPStream().  "NONE" is a stream that is not in the flow table.  on is
\* the set of lists the stream is on, q the set of queues that hold it, out
\* what the current step has sent into the room it had, and bad what the code
\* has done to a stream that was already destroyed, or an assert that failed.
NewStream(iss, state) ==
  [state |-> state, iss |-> iss, snd_nxt |-> iss, snd_una |-> iss, irs |-> 0,
   rcv_nxt |-> 0, fss |-> 0, is_fin_sent |-> FALSE, nrtx |-> 0, socket |-> FALSE,
   closed |-> FALSE, have_reset |-> FALSE, close_reason |-> "TCP_NOT_CLOSED",
   control_list_waiting |-> FALSE, on |-> {}, q |-> {}, bad |-> {},
   out |-> <<>>, room |-> 0]

Init ==
  /\ strm = [e \in End |-> NewStream(0, "NONE")]
  /\ app = [e \in End |-> [at |-> "idle", saw |-> "NONE"]]
  /\ wire = [e \in End |-> <<>>]
  /\ lost = 0 /\ made = 0

On(s, list) == [s EXCEPT !.on = @ \cup {list}]
Off(s, list) == [s EXCEPT !.on = @ \ {list}]
Gone(s) == s.state = "NONE"
AddtoControlList(s) == On(s, "control")
AddtoACKList(s) == On(s, "ack")

\* DestroyTCPStream(): off every list and out of the flow table.  The queues
\* of the applications' calls are not searched.
DestroyOnce(s) == [NewStream(0, "NONE") EXCEPT !.q = s.q, !.bad = s.bad,
                                               !.out = s.out, !.room = s.room]
DestroyTCPStream(s) ==
  IF Gone(s) THEN [s EXCEPT !.bad = @ \cup {"on_hash_table"}] ELSE DestroyOnce(s)

Closed(s, reason) == [s EXCEPT !.state = "CLOSED", !.close_reason = reason]

\* A stream that ended is left for mtcp_close() if there is a socket to tell.
RaiseErrorOrDestroy(s) == IF s.socket THEN s ELSE DestroyTCPStream(s)

AddtoRTOList(s) == IF "timewait" \in s.on THEN s ELSE On(s, "rto")
AddtoTimewaitList(s) == On(Off(s, "rto"), "timewait")
AddtoTimeoutList(s) == IF IdleTimeout THEN On(s, "timeout") ELSE s
UpdateRetransmissionTimer(s) ==
  LET t == [Off(s, "rto") EXCEPT !.nrtx = 0]
  IN IF s.snd_nxt > s.snd_una THEN AddtoRTOList(t) ELSE t

-----------------------------------------------------------------------------
(* Sending. *)

Room(s) == Len(s.out) < s.room

\* SendTCPPacketStandalone(): the packet is dropped when there is no room.
Standalone(s, flags, seq, ack_seq) ==
  IF Room(s) THEN [s EXCEPT !.out = Append(@, [flags |-> flags, seq |-> seq, ack_seq |-> ack_seq])]
  ELSE s

\* SendTCPPacket(), without payload.  SYN and FIN take a sequence number and
\* are retransmitted.
SendTCPPacket(s, flags) ==
  LET fin == "FIN" \in flags
      t == [s EXCEPT
             !.out = Append(@, [flags |-> flags, seq |-> IF fin THEN s.fss ELSE s.snd_nxt,
                                ack_seq |-> IF "ACK" \in flags THEN s.rcv_nxt ELSE 0]),
             !.is_fin_sent = @ \/ fin]
  IN IF fin \/ "SYN" \in flags THEN AddtoRTOList([t EXCEPT !.snd_nxt = @ + 1]) ELSE t

ControlFlags(s) ==
  CASE s.state = "SYN_SENT" -> {"SYN"}
    [] s.state = "SYN_RCVD" -> {"SYN", "ACK"}
    [] s.state \in {"FIN_WAIT_1", "LAST_ACK"} -> {"FIN", "ACK"}
    [] s.state = "CLOSING" ->
         IF s.is_fin_sent /\ s.snd_nxt # s.fss THEN {"ACK"} ELSE {"FIN", "ACK"}
    [] s.state = "CLOSED" -> {"RST"}
    [] OTHER -> {"ACK"}

\* SendControlPacket(), and DestroyTCPStream() after a RST.
SendControlPacket(s) ==
  LET t == SendTCPPacket(IF s.state = "SYN_RCVD" THEN [s EXCEPT !.snd_nxt = s.iss] ELSE s,
                         ControlFlags(s))
  IN IF s.state = "CLOSED" THEN DestroyTCPStream(t) ELSE t

\* MUTANT of WriteTCPControlList: taken off the list before the buffer is tried.
WriteOrDrop(s) ==
  IF "control" \notin s.on THEN s
  ELSE IF Room(s) THEN SendControlPacket(Off(s, "control")) ELSE Off(s, "control")

\* A FIN or a RST waits for the ack list; every packet waits for a buffer.
WriteTCPControlList(s) ==
  IF /\ "control" \in s.on /\ Room(s)
     /\ s.state \in {"FIN_WAIT_1", "LAST_ACK", "CLOSED"} => "ack" \notin s.on
  THEN SendControlPacket(Off(s, "control"))
  ELSE s

\* WriteTCPACKList(): there is no rcvbuf, so to_ack stays FALSE and the stream
\* leaves the list without a packet.
WriteTCPACKList(s) ==
  IF "ack" \notin s.on THEN s
  ELSE IF s.control_list_waiting
       THEN AddtoControlList([Off(s, "ack") EXCEPT !.control_list_waiting = FALSE])
       ELSE Off(s, "ack")

-----------------------------------------------------------------------------
(* Timers. *)

\* HandleRTO(), for a stream just taken off the RTO list.
Retransmit(s) ==
  CASE s.state \in {"ESTABLISHED", "CLOSE_WAIT"} -> [s EXCEPT !.bad = @ \cup {"no_sndbuf"}]
    [] s.state \in {"FIN_WAIT_1", "CLOSING", "LAST_ACK"} /\ s.snd_una < s.fss ->
         [s EXCEPT !.bad = @ \cup {"no_sndbuf"}]
    [] s.have_reset /\ s.state = "SYN_RCVD" -> DestroyTCPStream(s)
    [] \/ s.state = "SYN_SENT" \/ (s.state = "SYN_RCVD" /\ ~s.have_reset)
       \/ (s.state \in {"FIN_WAIT_1", "CLOSING", "LAST_ACK"} /\ s.snd_una >= s.fss) ->
         AddtoControlList([s EXCEPT !.snd_nxt = s.snd_una])
    [] OTHER -> [s EXCEPT !.bad = @ \cup {"rto_state"}]

\* MUTANT of HandleRTO: one retransmission more.
RtoOnceMore(s) ==
  IF s.close_reason # "TCP_NOT_CLOSED" THEN s
  ELSE IF s.nrtx > TCP_MAX_RTX
  THEN RaiseErrorOrDestroy(Closed(s, "TCP_CONN_LOST"))
  ELSE Retransmit([s EXCEPT !.nrtx = @ + 1])

HandleRTO(s) ==
  IF s.close_reason # "TCP_NOT_CLOSED" THEN s
  ELSE IF s.nrtx >= TCP_MAX_RTX
  THEN IF s.state \in {"SYN_SENT", "SYN_RCVD"}
       THEN DestroyTCPStream(Closed(s, "TCP_CONN_FAIL"))
       ELSE RaiseErrorOrDestroy(Closed(s, "TCP_CONN_LOST"))
  ELSE IF s.state = "SYN_SENT" /\ s.nrtx + 1 > TCP_MAX_SYN_RETRY
  THEN RaiseErrorOrDestroy(Closed([s EXCEPT !.nrtx = @ + 1], "TCP_CONN_FAIL"))
  ELSE Retransmit([s EXCEPT !.nrtx = @ + 1])

CheckRtmTimeout(s, due) ==
  IF "rto" \in due \cap s.on THEN HandleRTO(Off(s, "rto")) ELSE s

CheckTimewaitExpire(s, due) ==
  IF "timewait" \in due \cap s.on /\ "control" \notin s.on
  THEN DestroyTCPStream(Closed(s, "TCP_ACTIVE_CLOSE")) ELSE s

CheckConnectionTimeout(s, due) ==
  IF "timeout" \in due \cap s.on
  THEN RaiseErrorOrDestroy(Closed(Off(s, "timeout"), "TCP_TIMEDOUT")) ELSE s

-----------------------------------------------------------------------------
(* HandleApplicationCalls(), queue by queue. *)

\* A queue gives a stream that is in it to its handler.  It may hold a pointer to
\* a stream that has been destroyed since.
Taken(s, queue) == [s EXCEPT !.q = @ \ {queue}]
Dequeue(s, queue, handled) ==
  IF queue \notin s.q THEN s
  ELSE IF Gone(s) THEN [Taken(s, queue) EXCEPT !.bad = @ \cup {queue}] ELSE handled

\* ESTABLISHED to FIN_WAIT_1, CLOSE_WAIT to LAST_ACK.
Leaving(s) ==
  [s EXCEPT !.state = CASE @ = "ESTABLISHED" -> "FIN_WAIT_1"
                        [] @ = "CLOSE_WAIT" -> "LAST_ACK"
                        [] OTHER -> @]

\* closeq and resetq: the peer has reset the connection.
WasReset(s) == IF s.state = "CLOSED" THEN s ELSE DestroyTCPStream(Closed(s, "TCP_RESET"))

SendFin(s) == IF s.state = "CLOSED" THEN s ELSE AddtoControlList(Leaving(s))

HandleClose(s) ==
  LET t == [Off(s, "timeout") EXCEPT !.fss = s.snd_nxt]
  IN IF t.have_reset THEN WasReset(t)
     ELSE IF "control" \in t.on THEN [t EXCEPT !.q = @ \cup {"closeq_int"}]
     ELSE IF "ack" \in t.on THEN [Leaving(t) EXCEPT !.control_list_waiting = TRUE]
     ELSE SendFin(t)

HandleCloseInt(s) ==
  IF "control" \in s.on THEN [s EXCEPT !.q = @ \cup {"closeq_int"}] ELSE SendFin(s)

\* A reset waits until the lists are flushed, then sends a RST.
HandleResetInt(s) ==
  IF s.on \cap {"control", "ack"} # {} THEN [s EXCEPT !.q = @ \cup {"resetq_int"}]
  ELSE IF s.state = "CLOSED" THEN s
  ELSE AddtoControlList(Closed(s, "TCP_ACTIVE_CLOSE"))

HandleReset(s) ==
  LET t == Off(s, "timeout") IN IF t.have_reset THEN WasReset(t) ELSE HandleResetInt(t)

HandleApplicationCalls(s) ==
  LET s1 == Dequeue(s, "connectq", AddtoControlList(Taken(s, "connectq")))
      s2 == Dequeue(s1, "closeq", HandleClose(Taken(s1, "closeq")))
      s3 == Dequeue(s2, "closeq_int", HandleCloseInt(Taken(s2, "closeq_int")))
      s4 == Dequeue(s3, "resetq", HandleReset(Taken(s3, "resetq")))
      s5 == Dequeue(s4, "resetq_int", HandleResetInt(Taken(s4, "resetq_int")))
  IN IF "destroyq" \in s5.q THEN DestroyTCPStream([s5 EXCEPT !.q = @ \ {"destroyq"}]) ELSE s5

-----------------------------------------------------------------------------
(* Receiving. *)

Between(n, lo, hi) == lo <= n /\ n <= hi

\* ValidateSequence() of a packet outside the window.  Packets arrive in the
\* order of their timestamps, so the PAWS test passes.
Invalid(s, p) ==
  IF "RST" \in p.flags THEN s
  ELSE IF s.state = "ESTABLISHED" THEN AddtoACKList(s)
  ELSE AddtoControlList(IF s.state = "TIME_WAIT" THEN AddtoTimewaitList(s) ELSE s)

\* MUTANT of ProcessRST: the stream is destroyed although a socket knows it.
RstDestroys(s, p) == DestroyTCPStream(Closed(s, "TCP_RESET"))

ProcessRST(s, p) ==
  IF s.state = "SYN_RCVD"
  THEN IF p.ack_seq = s.snd_nxt THEN DestroyTCPStream(Closed(s, "TCP_RESET")) ELSE s
  ELSE IF s.state \in {"FIN_WAIT_1", "FIN_WAIT_2", "LAST_ACK", "CLOSING", "TIME_WAIT"}
  THEN DestroyTCPStream(Closed(s, "TCP_ACTIVE_CLOSE"))
  ELSE IF s.q \cap {"closeq", "closeq_int", "resetq", "resetq_int"} = {}
  THEN [s EXCEPT !.state = "CLOSE_WAIT", !.close_reason = "TCP_RESET"]
  ELSE s

\* LISTEN, and a SYN again in SYN_RCVD.
Handle_TCP_ST_LISTEN(s) ==
  AddtoControlList([s EXCEPT !.state = "SYN_RCVD",
                             !.rcv_nxt = IF s.state = "LISTEN" THEN @ + 1 ELSE @])

\* The application has closed the socket of a connection now established.
Unwanted(s, p) ==
  DestroyTCPStream(Closed(Standalone(s, {"RST", "ACK"}, 0, p.seq + 1), "TCP_ACTIVE_CLOSE"))

HandleActiveOpen(s, p) ==
  [s EXCEPT !.irs = p.seq, !.snd_nxt = p.ack_seq, !.rcv_nxt = p.seq + 1]

Handle_TCP_ST_SYN_SENT(s, p) ==
  LET t == [s EXCEPT !.snd_una = IF "ACK" \in p.flags THEN @ + 1 ELSE @]
      u == [Off(HandleActiveOpen(t, p), "rto") EXCEPT !.nrtx = 0, !.state = "ESTABLISHED"]
  IN IF "ACK" \in p.flags /\ (p.ack_seq <= s.iss \/ p.ack_seq > s.snd_nxt)
     THEN IF "RST" \in p.flags THEN s ELSE Standalone(s, {"RST"}, p.ack_seq, 0)
     ELSE IF {"RST", "ACK"} \subseteq p.flags
     THEN RaiseErrorOrDestroy([t EXCEPT !.state = "CLOSE_WAIT", !.close_reason = "TCP_RESET"])
     ELSE IF {"SYN", "ACK"} \subseteq p.flags
     THEN IF s.socket THEN AddtoTimeoutList(AddtoControlList(u)) ELSE Unwanted(u, p)
     ELSE t

\* full: the listener's acceptq has no room.
Handle_TCP_ST_SYN_RCVD(s, p, full) ==
  LET t == [Off(s, "rto") EXCEPT !.snd_una = @ + 1, !.snd_nxt = p.ack_seq, !.nrtx = 0,
                                 !.rcv_nxt = s.irs + 1, !.state = "ESTABLISHED"]
  IN IF "ACK" \notin p.flags THEN AddtoControlList([s EXCEPT !.snd_nxt = s.iss])
     ELSE IF p.ack_seq # s.iss + 1 THEN s
     ELSE AddtoTimeoutList(IF full THEN AddtoControlList(Closed(t, "TCP_NOT_ACCEPTED"))
                           ELSE [t EXCEPT !.q = @ \cup {"acceptq"}])

\* The peer's FIN, in sequence.
TakesFin(s, p) == "FIN" \in p.flags /\ p.seq = s.rcv_nxt
AfterFin(s, state) == AddtoControlList([s EXCEPT !.rcv_nxt = @ + 1, !.state = state])

Handle_TCP_ST_ESTABLISHED(s, p) ==
  IF "SYN" \in p.flags THEN AddtoControlList([s EXCEPT !.snd_nxt = p.ack_seq])
  ELSE IF TakesFin(s, p) THEN AfterFin(s, "CLOSE_WAIT")
  ELSE IF "FIN" \in p.flags THEN AddtoACKList(s) ELSE s

\* MUTANT of AcksFin: any acknowledgement after the FIN was sent will do.
AcksAny(s, p) == s.is_fin_sent /\ p.ack_seq >= s.fss

\* Does the packet acknowledge the FIN sent?
AcksFin(s, p) == s.is_fin_sent /\ p.ack_seq = s.fss + 1

Handle_TCP_ST_LAST_ACK(s, p) ==
  IF "ACK" \notin p.flags THEN AddtoControlList(s)
  ELSE IF ~s.is_fin_sent THEN s
  ELSE IF AcksFin(s, p) THEN DestroyTCPStream(Closed(s, "TCP_PASSIVE_CLOSE"))
  ELSE AddtoControlList(s)

\* MUTANT of Handle_TCP_ST_FIN_WAIT_1: the stream stays on the RTO list.
FinWait1KeepsRto(s, p) ==
  IF "ACK" \in p.flags /\ AcksFin(s, p)
  THEN [s EXCEPT !.snd_una = p.ack_seq, !.nrtx = 0, !.state = "FIN_WAIT_2"]
  ELSE IF "ACK" \in p.flags /\ TakesFin(s, p) THEN AfterFin(s, "CLOSING") ELSE s

Handle_TCP_ST_FIN_WAIT_1(s, p) ==
  LET t == IF AcksFin(s, p)
           THEN [Off(s, "rto") EXCEPT !.snd_una = p.ack_seq, !.nrtx = 0, !.state = "FIN_WAIT_2",
                                      !.snd_nxt = IF p.ack_seq > @ THEN p.ack_seq ELSE @]
           ELSE s
  IN IF "ACK" \notin p.flags THEN s
     ELSE IF ~TakesFin(t, p) THEN t
     ELSE IF t.state = "FIN_WAIT_1" THEN AfterFin(t, "CLOSING")
     ELSE AddtoTimewaitList(AfterFin(t, "TIME_WAIT"))

Handle_TCP_ST_FIN_WAIT_2(s, p) ==
  IF "ACK" \in p.flags /\ TakesFin(s, p) THEN AddtoTimewaitList(AfterFin(s, "TIME_WAIT")) ELSE s

\* MUTANT of Handle_TCP_ST_CLOSING: any ACK ends the state.
ClosingAnyAck(s, p) ==
  IF "ACK" \notin p.flags THEN s
  ELSE AddtoTimewaitList([s EXCEPT !.snd_una = s.fss + 1, !.snd_nxt = s.fss + 1,
                                   !.state = "TIME_WAIT"])

Handle_TCP_ST_CLOSING(s, p) ==
  IF "ACK" \in p.flags /\ AcksFin(s, p)
  THEN AddtoTimewaitList([UpdateRetransmissionTimer(
         [s EXCEPT !.snd_una = p.ack_seq, !.snd_nxt = p.ack_seq]) EXCEPT !.state = "TIME_WAIT"])
  ELSE s

\* CreateNewFlowHTEntry() for a packet that is not a SYN the stack accepts.
Refuse(s, p) ==
  IF "SYN" \in p.flags /\ "ACK" \notin p.flags
  THEN Standalone(s, {"RST", "ACK"}, 0, p.seq + 1)
  ELSE IF "RST" \in p.flags THEN s
  ELSE IF "ACK" \in p.flags THEN Standalone(s, {"RST"}, p.ack_seq, 0)
  ELSE Standalone(s, {"RST", "ACK"}, 0, p.seq)

\* HandlePassiveOpen(), and Handle_TCP_ST_LISTEN() in the same call.
HandlePassiveOpen(s, p, iss) ==
  Handle_TCP_ST_LISTEN([NewStream(iss, "LISTEN") EXCEPT
    !.irs = p.seq, !.rcv_nxt = p.seq, !.q = s.q, !.room = s.room])

ByState(s, p, full) ==
  CASE s.state = "SYN_SENT" -> Handle_TCP_ST_SYN_SENT(s, p)
    [] s.state = "SYN_RCVD" -> IF "SYN" \in p.flags /\ p.seq = s.irs
                               THEN Handle_TCP_ST_LISTEN(s)
                               ELSE Handle_TCP_ST_SYN_RCVD(s, p, full)
    [] s.state = "ESTABLISHED" -> Handle_TCP_ST_ESTABLISHED(s, p)
    [] s.state = "LAST_ACK" -> Handle_TCP_ST_LAST_ACK(s, p)
    [] s.state = "FIN_WAIT_1" -> Handle_TCP_ST_FIN_WAIT_1(s, p)
    [] s.state = "FIN_WAIT_2" -> Handle_TCP_ST_FIN_WAIT_2(s, p)
    [] s.state = "CLOSING" -> Handle_TCP_ST_CLOSING(s, p)
    [] s.state = "TIME_WAIT" -> AddtoControlList(AddtoTimewaitList(s))
    [] OTHER -> s    \* CLOSE_WAIT without a sndbuf, CLOSED

\* ProcessTCPPacket() for a stream in the flow table.
Known(s, p, full) ==
  LET t == [s EXCEPT !.have_reset = @ \/ "RST" \in p.flags]
  IN IF /\ s.state \notin {"CLOSED", "SYN_SENT", "SYN_RCVD"}
        /\ ~Between(p.seq, s.rcv_nxt, s.rcv_nxt + Wnd)
     THEN Invalid(s, p)
     ELSE IF "RST" \in p.flags /\ s.state \notin {"CLOSED", "SYN_SENT"}
     THEN ProcessRST(t, p)
     ELSE ByState(t, p, full)

-----------------------------------------------------------------------------
(* The steps of the two stack threads. *)

Begin(e) == [strm[e] EXCEPT !.room = TxBufs - Len(wire[Peer(e)])]

\* The step has turned e's stream into s and taken what it read from the wire.
Finish(e, s, rest) ==
  /\ strm' = [strm EXCEPT ![e] = [s EXCEPT !.out = <<>>, !.room = 0]]
  /\ wire' = [wire EXCEPT ![e] = rest, ![Peer(e)] = @ \o s.out]
  /\ UNCHANGED <<app, lost>>

\* The timers, the applications' calls and the lists of one round.
Rounded(s, due) ==
  LET s1 == CheckRtmTimeout(s, due)
      s2 == CheckTimewaitExpire(s1, due)
      s3 == CheckConnectionTimeout(s2, due)
  IN WriteTCPACKList(WriteTCPControlList(HandleApplicationCalls(s3)))

InFlight == \E e \in End : wire[e] # <<>> \/ "control" \in strm[e].on

Round(e, due) ==
  /\ strm[e].bad = {} /\ ("rto" \in due /\ Patient => ~InFlight)
  /\ due \subseteq strm[e].on \cap {"rto", "timewait", "timeout"}
  /\ \E s \in {Rounded(Begin(e), due)} : Finish(e, s, wire[e])
  /\ UNCHANGED made

\* ProcessTCPPacket().
Receive(e) ==
  /\ strm[e].bad = {} /\ wire[e] # <<>> /\ ~Gone(strm[e])
  /\ \E s \in {Known(Begin(e), Head(wire[e]), full) : full \in {FALSE, MayFill}} :
       Finish(e, s, Tail(wire[e]))
  /\ UNCHANGED made

\* A packet for no stream: it is answered with a RST, or it is a SYN the server
\* accepts.
ReceiveNew(e) ==
  /\ strm[e].bad = {} /\ wire[e] # <<>> /\ Gone(strm[e])
  /\ LET p == Head(wire[e]) IN
       \/ /\ p.flags = {"SYN"} => (e = "client" \/ MayRefuse)
          /\ \E s \in {Refuse(Begin(e), p)} : Finish(e, s, Tail(wire[e]))
          /\ UNCHANGED made
       \/ /\ e = "server" /\ p.flags = {"SYN"} /\ made' = made + 1
          /\ \E s \in {HandlePassiveOpen(Begin(e), p, Iss(made + 1))} : Finish(e, s, Tail(wire[e]))

Lose(e) ==
  /\ wire[e] # <<>> /\ lost < MaxLost /\ lost' = lost + 1
  /\ wire' = [wire EXCEPT ![e] = Tail(@)] /\ UNCHANGED <<strm, app, made>>

-----------------------------------------------------------------------------
(* The applications. *)

\* The application thread of e gets to at, having seen the stream in state saw.
Call(e, at, saw, s) ==
  /\ app' = [app EXCEPT ![e] = [at |-> at, saw |-> saw]] /\ strm' = [strm EXCEPT ![e] = s]
  /\ UNCHANGED <<wire, lost, made>>

mtcp_connect ==
  /\ app["client"].at = "idle"
  /\ Call("client", "open", "NONE",
          [NewStream(Iss(0), "SYN_SENT") EXCEPT !.socket = TRUE, !.q = {"connectq"}])

mtcp_accept ==
  /\ app["server"].at = "idle" /\ "acceptq" \in strm["server"].q
  /\ Call("server", "open", "NONE",
          Dequeue(strm["server"], "acceptq",
                  [Taken(strm["server"], "acceptq") EXCEPT !.socket = TRUE]))

\* CloseStreamSocket() up to its reading of the state, which it uses later.
CloseBegins(e) ==
  /\ app[e].at = "open" /\ ~Gone(strm[e])
  /\ Call(e, "close", strm[e].state, [strm[e] EXCEPT !.closed = TRUE, !.socket = FALSE])

Enqueue(s, queue) == [s EXCEPT !.q = @ \cup {queue}]

CloseEnds(e) ==
  /\ app[e].at = "close"
  /\ Call(e, "done", "NONE",
          CASE app[e].saw \in {"CLOSED", "SYN_SENT"} -> Enqueue(strm[e], "destroyq")
            [] app[e].saw \in {"ESTABLISHED", "CLOSE_WAIT"} -> Enqueue(strm[e], "closeq")
            [] OTHER -> strm[e])

\* mtcp_abort(), in the same two steps.
AbortBegins(e) ==
  /\ MayAbort /\ app[e].at = "open" /\ ~Gone(strm[e])
  /\ Call(e, "abort", strm[e].state, [strm[e] EXCEPT !.socket = FALSE])

AbortEnds(e) ==
  /\ app[e].at = "abort"
  /\ Call(e, "done", "NONE",
          CASE app[e].saw = "CLOSED" -> strm[e]
            [] app[e].saw = "SYN_SENT" ->
                 Enqueue(IF Gone(strm[e]) THEN [strm[e] EXCEPT !.bad = @ \cup {"abort"}]
                         ELSE Closed(strm[e], "TCP_ACTIVE_CLOSE"), "destroyq")
            [] OTHER -> Enqueue(strm[e], "resetq"))

States == {"CLOSED", "SYN_SENT", "SYN_RCVD", "ESTABLISHED", "FIN_WAIT_1", "FIN_WAIT_2",
           "CLOSE_WAIT", "CLOSING", "LAST_ACK", "TIME_WAIT"}

Application(e) == CloseBegins(e) \/ CloseEnds(e) \/ AbortBegins(e) \/ AbortEnds(e)

Next ==
  \/ mtcp_connect \/ mtcp_accept
  \/ \E e \in End :
       \/ Application(e) \/ Receive(e) \/ ReceiveNew(e) \/ Lose(e)
       \/ \E due \in SUBSET {"rto", "timewait", "timeout"} : Round(e, due)

Spec == Init /\ [][Next]_vars

\* The stack threads run: weak fairness of taking a packet and of going round
\* with work to do and a buffer to do it with.  The enabling conditions are
\* written out; they are those of the steps.
CanReceive(e) == strm[e].bad = {} /\ wire[e] # <<>>
CanWork(e) ==
  /\ strm[e].bad = {} /\ Len(wire[Peer(e)]) < TxBufs
  /\ strm[e].q \ {"acceptq"} # {} \/ strm[e].on \cap {"control", "ack"} # {}
Armed(e, timer) ==
  /\ strm[e].bad = {} /\ timer \in strm[e].on /\ "control" \notin strm[e].on
  /\ timer = "rto" /\ Patient => ~InFlight

StackRuns(e) ==
  /\ []<>~CanReceive(e) \/ []<><<Receive(e) \/ ReceiveNew(e)>>_vars
  /\ []<>~CanWork(e) \/ []<><<Round(e, {})>>_vars

\* Timers go off.
TimersFire(e) ==
  \A timer \in {"rto", "timewait"} :
    []<>~Armed(e, timer) \/ []<><<Round(e, {timer})>>_vars

\* Calls return, and the server accepts.
Fairness ==
  /\ WF_vars(mtcp_accept)
  /\ \A e \in End : StackRuns(e) /\ TimersFire(e) /\ WF_vars(CloseEnds(e) \/ AbortEnds(e))

FairSpec == Spec /\ Fairness

\* Both applications close in the end.
ClosingSpec == FairSpec /\ \A e \in End : WF_vars(CloseBegins(e))

-----------------------------------------------------------------------------
\* TYPE: states and lists are those of the code, a stream is retransmitted at
\* most TCP_MAX_RTX times (HandleRTO()), and the server creates one stream for
\* every SYN the client may send.
TypeOK ==
  /\ \A e \in End : LET s == strm[e] IN
       /\ s.state \in States \cup {"NONE"} /\ s.nrtx \in 0..TCP_MAX_RTX
       /\ s.out = <<>> /\ Len(wire[e]) <= TxBufs
       /\ s.on \subseteq {"control", "ack", "rto", "timewait", "timeout"}
  /\ lost \in 0..MaxLost /\ made \in 0..(TCP_MAX_SYN_RETRY + 1)

\* CONSTRAINT: no queue points to a destroyed stream.  What the code does after
\* that is undefined, so TLC goes no further.
Dangling(e) == Gone(strm[e]) /\ strm[e].q # {}
Sound == \A e \in End : ~Dangling(e) /\ strm[e].bad = {}

\* When an RTO goes off the stream is in a state HandleRTO() knows, and it does
\* not send data that a stream without a send buffer cannot have: every path out
\* of a state that waits for an acknowledgement takes the stream off the list.
RtoHandled == \A e \in End : strm[e].bad \cap {"rto_state", "no_sndbuf"} = {}

\* As long as the idle timeout is off, DestroyTCPStream() never destroys a stream
\* that acceptq, closeq, resetq or their _int queues hold, or that a socket the
\* application has open refers to; ProcessRST() looks into the queues for this.
\* (destroyq is left out: see NoDouble.)
LiveQueues == \A e \in End : Gone(strm[e]) => strm[e].q \subseteq {"destroyq"} /\ app[e].at # "open"

\* e's stream and its peer's belong to the same connection.
Paired(e) == LET s == strm[e] r == strm[Peer(e)] IN ~Gone(s) /\ ~Gone(r) /\ s.irs = r.iss /\ r.irs = s.iss

\* An end in FIN_WAIT_2 or TIME_WAIT has had its FIN received: the ACK that
\* Handle_TCP_ST_FIN_WAIT_1() or _CLOSING() took for that of the FIN was no
\* other, after any loss, repetition of a FIN or simultaneous close.
FinHeard ==
  \A e \in End : Paired(e) /\ strm[e].state \in {"FIN_WAIT_2", "TIME_WAIT"} =>
    strm[Peer(e)].rcv_nxt = strm[e].fss + 1

\* snd_una, which the handlers set from ack_seq or by counting, is never beyond
\* what the peer has received.
AckedIsReceived == \A e \in End : Paired(e) => strm[e].snd_una <= strm[Peer(e)].rcv_nxt

\* LIVENESS: a stream whose socket is closed is destroyed, through whatever
\* losses, resets, refusals and full acceptq, but for the cases that FinWaitEnds
\* and TimeWaitEnds are about and a process that has broken (bad).
Settles ==
  \A e \in End : strm[e].closed ~>
    \/ Gone(strm[e]) \/ \E x \in End : strm[x].bad # {}
    \/ strm[e].state = "FIN_WAIT_2" /\ Gone(strm[Peer(e)])
    \/ \A x \in End : strm[x].state = "TIME_WAIT"

\* What the manual says of mtcp_close() (the resources of the connection are
\* destroyed) asks for FIN_WAIT_2: it does not last.  No timer of the code limits it
\* once the peer has given up its FIN.
FinWaitEnds == \A e \in End : strm[e].state = "FIN_WAIT_2" ~> strm[e].state # "FIN_WAIT_2"

\* The same for TIME_WAIT, whose handler says that only the peer's FIN can arrive
\* and answers every packet, an ACK too, with an ACK and a new 2 MSL timeout.
TimeWaitEnds == \A e \in End : strm[e].state = "TIME_WAIT" ~> strm[e].state # "TIME_WAIT"

\* A connection the client has is the server's too, unless the client closes it
\* or is told otherwise: the server accepts it.
Connects ==
  strm["client"].state = "ESTABLISHED" ~>
    (app["server"].at # "idle" \/ app["client"].at # "open" \/ strm["client"].have_reset)

\* assert(stream->on_hash_table == TRUE) in DestroyTCPStream(): a stream is
\* destroyed once.
NoDouble == \A e \in End : "on_hash_table" \notin strm[e].bad

\* The stream mtcp_accept() takes from acceptq still exists.
AcceptLive == \A e \in End : "acceptq" \notin strm[e].bad

\* The states of a connection and what hangs on them: the retransmission timer, the
\* queues of the application, the acknowledged FIN and the acknowledged numbers.
ConnKept == RtoHandled /\ LiveQueues /\ FinHeard /\ AckedIsReceived
=============================================================================
