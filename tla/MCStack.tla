------------------------------ MODULE MCStack -------------------------------
(***************************************************************************)
(* The parts of mTCP in which several actors take turns, for TLC.  Threads *)
(* of the stack and of the application share the event queues, the logger, *)
(* pipes, the pools of source ports and the ARP table; two stacks and a    *)
(* network share a transfer and a connection.  The modules share no state  *)
(* with each other, so a behaviour is one of `part' alone: the other parts *)
(* stay in their initial states.  The constants of EpollEvents, Logger,    *)
(* ArpRequests, AddressPool and Pipe come from the configuration, the      *)
(* others are given here.                                                  *)
(***************************************************************************)
EXTENDS EpollEvents, Logger, ArpRequests, AddressPool, Pipe

VARIABLES
  part,                                       \* who runs
  tapp, missed, snd, wire, back, rcv,         \* TcpTransfer
  strm, capp, cwire, clost, made              \* TcpConnection

\* A window that one segment closes; MCTcp has one of two segments.
Transfer == INSTANCE TcpTransfer WITH
  MaxPut <- 3, SndSize <- 2, RcvSize <- 1, InitCwnd <- 2, InitSsthresh <- 2, MaxCwnd <- 2,
  TCP_MAX_RTX <- 1, TxBufs <- 2, Lossy <- TRUE, Instant <- FALSE, Talked <- TRUE, app <- tapp

Conn == INSTANCE TcpConnection WITH
  TCP_MAX_RTX <- 2, TCP_MAX_SYN_RETRY <- 1, TxBufs <- 2, MaxLost <- 2, Wnd <- 4,
  IdleTimeout <- FALSE, MayRefuse <- TRUE, MayFill <- TRUE, MayAbort <- TRUE,
  Patient <- FALSE, app <- capp, wire <- cwire, lost <- clost

ASSUME ConstantsAssumption ==
  Transfer!TransferAssumption /\ Conn!ConnectionAssumption

transfer == <<tapp, missed, snd, wire, back, rcv>>
conn == <<strm, capp, cwire, clost, made>>

\* The stack's parts that are used by threads, and those of the TCP machine.
threads == <<vars, logvars, pipevars, poolvars, arpvars>>
tcp == <<transfer, conn>>

MCInit ==
  /\ part \in {"epoll", "log", "pipe", "addr", "arp", "transfer", "conn"}
  /\ Init /\ LogInit /\ PipeInit /\ PoolInit /\ ArpInit /\ Transfer!Init /\ Conn!Init

MCNext ==
  \/ part = "epoll" /\ Next /\ UNCHANGED <<logvars, pipevars, poolvars, arpvars, tcp>>
  \/ part = "log" /\ LogNext /\ UNCHANGED <<vars, pipevars, poolvars, arpvars, tcp>>
  \/ part = "pipe" /\ PipeNext /\ UNCHANGED <<vars, logvars, poolvars, arpvars, tcp>>
  \/ part = "addr" /\ PoolNext /\ UNCHANGED <<vars, logvars, pipevars, arpvars, tcp>>
  \/ part = "arp" /\ ArpNext /\ UNCHANGED <<vars, logvars, pipevars, poolvars, tcp>>
  \/ part = "transfer" /\ Transfer!Next /\ UNCHANGED <<threads, conn>>
  \/ part = "conn" /\ Conn!Next /\ UNCHANGED <<threads, transfer>>

\* The stack ends, and its log thread with it; all that was written has arrived or
\* the connection was given up.
Ends == part \in {"log", "transfer"} /\ UNCHANGED <<threads, tcp>>

MCSpec == MCInit /\ [][(MCNext \/ Ends) /\ UNCHANGED part]_<<part, threads, tcp>>

\* Events are followed up to the first race of two threads for one socket's word, a
\* connection as long as no queue points to a destroyed stream.
Followed == BeforeRace /\ (part = "conn" => Conn!Sound)

-----------------------------------------------------------------------------
(* The properties of the parts that are not extended; the others' have the *)
(* names they have there.                                                  *)

\* FlushTCPSendingBuffer(), mtcp_write(), ProcessACK(): snd_nxt stays inside the send
\* buffer, data not sent is on a list or a timer's, except after the one race for
\* on_send_list, no byte is forgotten before the receiver has it, and no segment lies
\* beyond the receiver's buffer.
SmallWindowKept ==
  part = "transfer" => Transfer!TypeOK /\ Transfer!SendListKept /\ Transfer!TransferKept

\* HandleRTO(), DestroyTCPStream(), the handlers of tcp_in.c: the timer meets only
\* states it knows, no queue but destroyq has a destroyed stream, what is taken for the
\* ACK of the FIN is one, and snd_una is never beyond what the peer has received.
ConnKept == part = "conn" => Conn!TypeOK /\ Conn!ConnKept
=============================================================================
