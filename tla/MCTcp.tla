------------------------------- MODULE MCTcp --------------------------------
(***************************************************************************)
(* What must happen in the end to what an application closes or writes,    *)
(* for TLC: a transfer in one direction (TcpTransfer, with the constants   *)
(* of the configuration, and once more with a window that one segment      *)
(* closes), the close of a connection (TcpConnection) and a pipe between   *)
(* two threads (Pipe).  A behaviour is one of `part' alone, and only that  *)
(* part is fair: no fair action of TcpConnection is enabled in its initial *)
(* state.                                                                  *)
(***************************************************************************)
EXTENDS TcpTransfer

VARIABLES
  part,                                           \* who runs
  strm, capp, cwire, lost, made,                  \* TcpConnection
  smap, free_smap, pp, pat, pwant, psent, pgot    \* Pipe

Narrow == INSTANCE TcpTransfer WITH RcvSize <- 1, TxBufs <- 1

Conn == INSTANCE TcpConnection WITH
  TCP_MAX_RTX <- 2, TCP_MAX_SYN_RETRY <- 1, TxBufs <- 2, MaxLost <- 1, Wnd <- 4,
  IdleTimeout <- TRUE, MayRefuse <- TRUE, MayFill <- TRUE, MayAbort <- FALSE,
  Patient <- FALSE, app <- capp, wire <- cwire

Pip == INSTANCE Pipe WITH Ids <- 2, PIPE_BUF_SIZE <- 2, Lens <- {1, 2}, MaxBytes <- 3

ASSUME ConstantsAssumption ==
  Narrow!TransferAssumption /\ Conn!ConnectionAssumption /\ Pip!PipeAssumption

conn == <<strm, capp, cwire, lost, made>>
pipes == <<smap, free_smap, pp, pat, pwant, psent, pgot>>

MCInit ==
  /\ part \in {"wide", "narrow", "conn", "pipe"} /\ Conn!Init /\ Pip!PipeInit
  /\ IF part = "narrow" THEN Narrow!Init ELSE Init

MCNext ==
  /\ UNCHANGED part
  /\ \/ part = "wide" /\ Next /\ UNCHANGED <<conn, pipes>>
     \/ part = "narrow" /\ Narrow!Next /\ UNCHANGED <<conn, pipes>>
     \/ part = "conn" /\ Conn!Next /\ UNCHANGED <<vars, pipes>>
     \/ part = "pipe" /\ Pip!PipeNext /\ UNCHANGED <<vars, conn>>

\* Both applications of a connection close in the end.
ConnFairness == Conn!Fairness /\ \A e \in Conn!End : WF_conn(Conn!CloseBegins(e))
TransferFairness ==
  LET Pick(wide, narrow) == (part = "wide" /\ wide) \/ (part = "narrow" /\ narrow) IN
  /\ WF_vars(Pick(Wake, Narrow!Wake)) /\ WF_vars(Pick(Read, Narrow!Read))
  /\ WF_vars(Pick(SendQueue, Narrow!SendQueue))
  /\ WF_vars(Pick(LeaveSendList, Narrow!LeaveSendList))
  /\ WF_vars(Pick(WriteProbe, Narrow!WriteProbe))
  /\ WF_vars(Pick(CheckRtmTimeout, Narrow!CheckRtmTimeout))
  /\ WF_vars(\E upto \in 0..MaxPut : Pick(FlushTCPSendingBuffer(upto),
                                          Narrow!FlushTCPSendingBuffer(upto)))
  /\ WF_vars(Pick(NoteClosed, Narrow!NoteClosed)) /\ WF_vars(Pick(AckQueue, Narrow!AckQueue))
  /\ WF_vars(\E n \in 1..TxBufs : Pick(WriteTCPACKList(n), Narrow!WriteTCPACKList(n)))
  /\ SF_vars(Pick(ReceiveAck(1), Narrow!ReceiveAck(1)))
  /\ SF_vars(Pick(ReceiveData(1), Narrow!ReceiveData(1)))
PipeFairness ==
  LET Runs(A) == part = "pipe" /\ A IN
  /\ WF_pipes(Runs(Pip!Does("r")))
  /\ WF_pipes(Runs(Pip!Body("w") \/ Pip!RaiseToPair("w") \/ Pip!After("w")))
  /\ \A e \in {"r", "w"} : WF_pipes(Runs(Pip!PipeClose(e) \/ Pip!CloseEnds(e)))

MCSpec ==
  /\ MCInit /\ [][MCNext]_<<part, vars, conn, pipes>>
  /\ ConnFairness /\ TransferFairness /\ PipeFairness

\* CheckRtmTimeout(), ProcessACK(), WriteTCPDataList(): what was sent is acknowledged
\* in the end, or the connection is given up; and "if peer window is full, send ACK and
\* let its peer advertises new one": a sender blocked by a closed window learns of its
\* opening (unless mtcp_write() lost its race with the stack).
TransferEnds == Settles /\ Narrow!WindowReopens

\* mtcp_close(), HandleRTO(), CheckTimewaitExpire(): a closed connection is destroyed
\* in the end, waits in FIN_WAIT_2 for a peer that is gone, or both ends wait in
\* TIME_WAIT.
CloseSettles == Conn!Settles

\* PipeWrite(), PipeRead(): every byte that was written is read in the end, unless
\* the reader closes its end.
PipeDelivers ==
  <>[](part = "pipe" => \/ psent = Len(pgot)
                        \/ pat["r"] \in {"closing", "hangup", "freeing", "closed"})
=============================================================================
