---------------------------- MODULE MperfSession ----------------------------
(***************************************************************************)
(* One mperf test: the server worker (server.c) and the workers of several *)
(* clients (client.c) that try to run a test against it, over mTCP.        *)
(*                                                                         *)
(* A client owns two connections, <<c, "ctl">> and <<c, "data">>.  What is *)
(* written to a connection is a sequence of tokens in order; `uprdy' and   *)
(* `downrdy' count the leading tokens that have reached the other end's    *)
(* receive buffer.  TCP may cut the stream anywhere, so any number of      *)
(* tokens may arrive at once.  A socket's pending event is membership of   *)
(* a set: mTCP keeps one bit per socket (socket->events), and the order in *)
(* which it hands out events of different sockets is the arrival order of  *)
(* packets of different connections, that is, any order.                   *)
(***************************************************************************)
EXTENDS Naturals, Sequences, FiniteSets

CONSTANTS Clients,      \* the mperf clients
          Host,         \* Host[c]: the address client c connects from
          BadVersion,   \* clients built from another PACKAGE_STRING
          Blk,          \* blksize, in reads of RX_BUF_SIZE bytes
          SndBuf,       \* room in a fresh send buffer, in the same unit
          Coalesced,    \* TRUE: the three writes of JSON_write arrive together
          MaxFaults,    \* bound on injected failures
          NoFd,         \* -1
          ListenFd      \* server->listenfd

Conn == Clients \X {"ctl", "data"}

ASSUME FdAssumption ==
  NoFd \notin Conn /\ ListenFd \notin Conn /\ NoFd # ListenFd
ASSUME SizeAssumption == Blk \in Nat \ {0} /\ SndBuf \in Nat \ {0}
ASSUME FaultAssumption == MaxFaults \in Nat /\ Coalesced \in BOOLEAN

Ctl(c) == <<c, "ctl">>
Data(c) == <<c, "data">>
Hosts == {Host[c] : c \in Clients}

States == {"UNINIT", "START", "PARAM_EXCHANGE", "CREATE_STREAM", "RUNNING",
           "END", "ERROR"}
Token == States \cup {"ACCESS_DENY", "LEN", "JSON", "BLOCK", "FIN"}

VARIABLES
  spc, sstate, ctlfd, datafd, clihost, sconf, nleft, rx, spend, sbatch,
  cpc, cstate, tx, cpend, cbatch,
  cs, ss, up, uprdy, down, downrdy, acceptq, unraised, faults

srvVars == <<spc, sstate, ctlfd, datafd, clihost, sconf, nleft, rx>>
srvEvs  == <<spend, sbatch>>
cliVars == <<cpc, cstate, tx>>
cliEvs  == <<cpend, cbatch>>
upVars  == <<up, uprdy>>
downVars == <<down, downrdy>>
netVars == <<acceptq, unraised>>
vars == <<srvVars, srvEvs, cliVars, cliEvs, cs, ss, upVars, downVars, netVars,
          faults>>

Init ==
  /\ spc = "init" /\ sstate = "UNINIT" /\ ctlfd = NoFd /\ datafd = NoFd
  /\ clihost = NoFd /\ sconf = NoFd /\ nleft = 0 /\ rx = 0
  /\ spend = {} /\ sbatch = {}
  /\ cpc = [c \in Clients |-> "init"]
  /\ cstate = [c \in Clients |-> "UNINIT"]
  /\ tx = [c \in Clients |-> 0]
  /\ cpend = [c \in Clients |-> {}] /\ cbatch = [c \in Clients |-> {}]
  /\ cs = [k \in Conn |-> "none"] /\ ss = [k \in Conn |-> "none"]
  /\ up = [k \in Conn |-> <<>>] /\ uprdy = [k \in Conn |-> 0]
  /\ down = [k \in Conn |-> <<>>] /\ downrdy = [k \in Conn |-> 0]
  /\ acceptq = <<>> /\ unraised = FALSE /\ faults = 0

-----------------------------------------------------------------------------
(* Failures of calls into mTCP that the code handles: each one costs a     *)
(* unit of the fault budget.                                               *)

Fault == faults < MaxFaults /\ faults' = faults + 1
NoFault == UNCHANGED faults

\* nwrite() on a control byte: it fails on a stream that is no longer
\* ESTABLISHED or CLOSE_WAIT (ENOTCONN) or without buffer memory (ENOMEM).
WriteOutcome(usable, ok) ==
  /\ ok => usable
  /\ IF usable /\ ~ok THEN Fault ELSE NoFault

SrvWrite(k, tok, ok) ==
  /\ WriteOutcome(ss[k] = "open", ok)
  /\ down' = IF ok THEN [down EXCEPT ![k] = Append(@, tok)] ELSE down

\* mtcp_read(): the token at the head of the receive buffer, "FIN" for the
\* peer's close (CLOSE_WAIT, or a refused connect), "EAGAIN" when the buffer
\* is empty, "ENOTCONN" for a stream mTCP has timed out.  nread() turns both
\* "FIN" and "EAGAIN" into 0.
SrvReadEarly(k) == IF up[k] = <<>> THEN "EAGAIN" ELSE Head(up[k])
SrvRead(k) == CASE ss[k] = "dead" -> "ENOTCONN"
                [] ss[k] # "dead" /\ uprdy[k] = 0 -> "EAGAIN"
                [] OTHER -> Head(up[k])
CliRead(k) == CASE cs[k] = "dead" -> "ENOTCONN"
                [] cs[k] = "refused" -> "FIN"
                [] cs[k] \notin {"dead", "refused"} /\ downrdy[k] = 0 -> "EAGAIN"
                [] OTHER -> Head(down[k])
Nothing == {"FIN", "EAGAIN"}

\* A read that leaves only the peer's FIN raises the event again, and so
\* does a read of a level-triggered socket that leaves data.
SrvConsumeEager(k, level) ==
  /\ up' = [up EXCEPT ![k] = Tail(@)]
  /\ uprdy' = [uprdy EXCEPT ![k] = @ - 1]
  /\ spend' = spend \cup {k}
SrvConsume(k, level) ==
  /\ up' = [up EXCEPT ![k] = Tail(@)]
  /\ uprdy' = [uprdy EXCEPT ![k] = @ - 1]
  /\ spend' = IF uprdy[k] > 1 /\ (level \/ up[k][2] = "FIN")
              THEN spend \cup {k} ELSE spend

-----------------------------------------------------------------------------
(* The server worker.                                                      *)

\* mperf_init_server() and mperf_create_listener().
SrvListen ==
  /\ spc = "init"
  /\ \/ spc' = "wait" /\ sstate' = "START" /\ NoFault
     \/ spc' = "over" /\ sstate' = sstate /\ Fault
  /\ UNCHANGED <<ctlfd, datafd, clihost, sconf, nleft, rx, srvEvs, cliVars,
                 cliEvs, cs, ss, upVars, downVars, netVars>>

\* mtcp_epoll_wait() returns the pending events.
SrvEpollWait ==
  /\ spc = "wait" /\ spend # {}
  /\ spc' = "loop" /\ sbatch' = spend /\ spend' = {}
  /\ UNCHANGED <<sstate, ctlfd, datafd, clihost, sconf, nleft, rx, cliVars,
                 cliEvs, cs, ss, upVars, downVars, netVars, faults>>

\* Leaving the loop: mperf_destroy_server() closes the three descriptors.
SrvClosesDataOnly == {datafd}
SrvCloses == {ctlfd, datafd}

SrvDestroy ==
  /\ spc' = "over" /\ ctlfd' = NoFd /\ datafd' = NoFd /\ clihost' = NoFd
  /\ sbatch' = {} /\ spend' = {}
  /\ down' = [k \in Conn |-> IF k \in SrvCloses /\ ss[k] = "open"
                             THEN Append(down[k], "FIN") ELSE down[k]]
  /\ ss' = [k \in Conn |-> IF k \in SrvCloses THEN "closed" ELSE ss[k]]
  /\ UNCHANGED <<sstate, sconf, nleft, rx, cliVars, cliEvs, cs, upVars,
                 downrdy, netVars>>

\* The end of a batch: the loop ends in END or ERROR, else it waits again.
SrvBatchDone ==
  /\ spc = "loop" /\ sbatch = {}
  /\ NoFault
  /\ \/ sstate \in {"END", "ERROR"} /\ SrvDestroy
     \/ /\ sstate \notin {"END", "ERROR"}
        /\ spc' = "wait"
        /\ UNCHANGED <<sstate, ctlfd, datafd, clihost, sconf, nleft, rx,
                       srvEvs, cliVars, cliEvs, cs, ss, upVars, downVars,
                       netVars>>

\* SIGINT or SIGTERM: mtcp_epoll_wait() returns EINTR and the loop breaks.
SrvInterrupt == spc = "wait" /\ Fault /\ SrvDestroy

\* mtcp_accept(): no connection (EAGAIN), or one taken off the queue without
\* a socket to give it (ENFILE).  mperf_accept() returns -1: the rest of the
\* batch is dropped.
SrvAcceptFails ==
  /\ spc = "loop" /\ ListenFd \in sbatch /\ sbatch' = {}
  /\ \/ acceptq = <<>> /\ NoFault /\ UNCHANGED acceptq
     \/ acceptq # <<>> /\ Fault /\ acceptq' = Tail(acceptq)
  /\ UNCHANGED <<srvVars, spend, cliVars, cliEvs, cs, ss, upVars, downVars,
                 unraised>>

\* mtcp_accept() succeeds; it re-raises the listener while others wait.
Accepting(k) ==
  /\ spc = "loop" /\ ListenFd \in sbatch
  /\ acceptq # <<>> /\ k = Head(acceptq) /\ acceptq' = Tail(acceptq)
Relisten == IF Len(acceptq) > 1 THEN {ListenFd} ELSE {}
\* mtcp_epoll_ctl(ADD) reports what is already readable.
Readable(k) == IF uprdy[k] > 0 THEN {k} ELSE {}

\* "server is free, accept new client's control connection".
FreeUntilData == datafd = NoFd
ServerFree == ctlfd = NoFd

\* A failed send closes the socket and drops the batch, but leaves ctlfd as
\* it is.
SrvAcceptCtl(k, ok) ==
  /\ Accepting(k) /\ ServerFree
  /\ ctlfd' = k /\ sstate' = "PARAM_EXCHANGE"
  /\ IF ok THEN NoFault ELSE Fault
  /\ down' = [down EXCEPT ![k] = Append(@, IF ok THEN "PARAM_EXCHANGE" ELSE "FIN")]
  /\ ss' = [ss EXCEPT ![k] = IF ok THEN "open" ELSE "closed"]
  /\ clihost' = IF ok THEN Host[k[1]] ELSE clihost
  /\ spend' = spend \cup Relisten \cup (IF ok THEN Readable(k) ELSE {})
  /\ sbatch' = IF ok THEN sbatch \ {ListenFd} ELSE {}
  /\ UNCHANGED <<spc, datafd, sconf, nleft, rx, cliVars, cliEvs, cs, upVars,
                 downrdy, unraised>>

\* The data connection is wanted now: CREATE_STREAM, none yet, same address.
WantsAnyData(k) == sstate = "CREATE_STREAM" /\ datafd = NoFd
WantsData(k) ==
  sstate = "CREATE_STREAM" /\ datafd = NoFd /\ Host[k[1]] = clihost

\* RUNNING is sent on the control connection before datafd is set.
SrvAcceptData(k, ok) ==
  /\ Accepting(k) /\ ~ServerFree /\ WantsData(k)
  /\ sstate' = "RUNNING"
  /\ WriteOutcome(ss[ctlfd] = "open", ok)
  /\ down' = IF ok THEN [down EXCEPT ![ctlfd] = Append(@, "RUNNING")]
                   ELSE [down EXCEPT ![k] = Append(@, "FIN")]
  /\ ss' = [ss EXCEPT ![k] = IF ok THEN "open" ELSE "closed"]
  /\ datafd' = IF ok THEN k ELSE datafd
  /\ spend' = spend \cup Relisten \cup (IF ok THEN Readable(k) ELSE {})
  /\ sbatch' = IF ok THEN sbatch \ {ListenFd} ELSE {}
  /\ UNCHANGED <<spc, ctlfd, clihost, sconf, nleft, rx, cliVars, cliEvs, cs,
                 upVars, downrdy, unraised>>

DenyNoClose(ok) == IF ok THEN <<"ACCESS_DENY">> ELSE <<>>
DenyReply(ok) == IF ok THEN <<"ACCESS_DENY", "FIN">> ELSE <<"FIN">>

\* access_deny: the byte is written (or not), the socket closed, and the
\* rest of the batch dropped because mperf_accept() returns -1.
SrvDeny(k, ok) ==
  /\ Accepting(k) /\ ~ServerFree /\ ~WantsData(k)
  /\ IF ok THEN NoFault ELSE Fault
  /\ down' = [down EXCEPT ![k] = @ \o DenyReply(ok)]
  /\ ss' = [ss EXCEPT ![k] = "closed"]
  /\ spend' = spend \cup Relisten /\ sbatch' = {}
  /\ UNCHANGED <<srvVars, cliVars, cliEvs, cs, upVars, downrdy, unraised>>

\* mperf_set_test_state(s) on the control connection, then the rest of the
\* batch if mperf_handle_server_msg() returns 0, no more of it otherwise.
SrvFails(ok) ==
  /\ sstate' = "ERROR" /\ SrvWrite(ctlfd, "ERROR", ok)
  /\ sbatch' = {} /\ spc' = "loop"

\* mperf_handle_server_msg(): an event of the control connection.
SrvMsg ==
  /\ spc = "loop" /\ ctlfd \in sbatch
  /\ LET tok == SrvRead(ctlfd) IN
     \/ /\ tok \in Nothing                        \* nread() returns 0
        /\ sstate' = "END" /\ sbatch' = sbatch \ {ctlfd}
        /\ UNCHANGED <<spc, spend, upVars, downVars, faults>>
     \/ /\ tok = "ENOTCONN" /\ sbatch' = {}
        /\ UNCHANGED <<spc, sstate, spend, upVars, downVars, faults>>
     \/ /\ tok \notin Nothing \cup {"ENOTCONN"} /\ SrvConsume(ctlfd, FALSE)
        /\ UNCHANGED downrdy
        /\ \/ /\ tok = "PARAM_EXCHANGE" /\ sstate = "PARAM_EXCHANGE"
              /\ spc' = "len"
              /\ UNCHANGED <<sstate, sbatch, down, faults>>
           \/ /\ tok = "PARAM_EXCHANGE" /\ sstate # "PARAM_EXCHANGE"
              /\ \E ok \in BOOLEAN : SrvFails(ok)
           \/ /\ tok \in {"END", "ERROR"} /\ sstate' = tok /\ sbatch' = {}
              /\ UNCHANGED <<spc, down, faults>>
           \/ /\ tok \notin {"PARAM_EXCHANGE", "END", "ERROR"} /\ sbatch' = {}
              /\ UNCHANGED <<spc, sstate, down, faults>>
  /\ UNCHANGED <<ctlfd, datafd, clihost, sconf, nleft, rx, cliVars, cliEvs, cs,
                 ss, netVars>>

\* mperf_recv_conf() -> JSON_read(): the length.  If it has not arrived,
\* nsize stays uninitialised and no value of it makes the parse succeed.
SrvReadLen ==
  /\ spc = "len"
  /\ \/ /\ SrvRead(ctlfd) = "LEN" /\ SrvConsume(ctlfd, FALSE)
        /\ spc' = "json" /\ UNCHANGED <<sstate, sbatch, down, faults>>
     \/ /\ SrvRead(ctlfd) # "LEN" /\ \E ok \in BOOLEAN : SrvFails(ok)
        /\ UNCHANGED <<upVars, spend>>
  /\ UNCHANGED <<ctlfd, datafd, clihost, sconf, nleft, rx, cliVars, cliEvs, cs,
                 ss, downrdy, netVars>>

AnyVersion(c) == TRUE
SameVersion(c) == c \notin BadVersion

\* The JSON text: fields are stored before the version is compared, then
\* CREATE_STREAM is sent; a failure of that send only sets ERROR.
SrvReadJson ==
  /\ spc = "json"
  /\ \/ /\ SrvRead(ctlfd) = "JSON" /\ SrvConsume(ctlfd, FALSE)
        /\ sconf' = ctlfd[1]
        /\ \/ /\ SameVersion(ctlfd[1]) /\ spc' = "loop"
              /\ \E ok \in BOOLEAN :
                   /\ SrvWrite(ctlfd, "CREATE_STREAM", ok)
                   /\ sstate' = IF ok THEN "CREATE_STREAM" ELSE "ERROR"
                   /\ sbatch' = IF ok THEN sbatch \ {ctlfd} ELSE {}
           \/ ~SameVersion(ctlfd[1]) /\ \E ok \in BOOLEAN : SrvFails(ok)
     \/ /\ SrvRead(ctlfd) # "JSON" /\ \E ok \in BOOLEAN : SrvFails(ok)
        /\ UNCHANGED <<upVars, spend, sconf>>
  /\ UNCHANGED <<ctlfd, datafd, clihost, nleft, rx, cliVars, cliEvs, cs, ss,
                 downrdy, netVars>>

\* An event of the data connection starts mperf_recv().
SrvRecvStart ==
  /\ spc = "loop" /\ datafd \in sbatch
  /\ spc' = "recv" /\ nleft' = Blk
  /\ UNCHANGED <<sstate, ctlfd, datafd, clihost, sconf, rx, srvEvs, cliVars,
                 cliEvs, cs, ss, upVars, downVars, netVars, faults>>

\* One turn of mperf_recv()'s loop.
SrvRecv ==
  /\ spc = "recv"
  /\ \/ /\ SrvRead(datafd) = "EAGAIN"
        /\ spc' = "loop" /\ sbatch' = sbatch \ {datafd}
        /\ UNCHANGED <<sstate, nleft, rx, spend, upVars>>
     \/ /\ SrvRead(datafd) \in {"FIN", "ENOTCONN"}
        /\ spc' = "loop" /\ sstate' = "ERROR" /\ sbatch' = {}
        /\ UNCHANGED <<nleft, rx, spend, upVars>>
     \/ /\ SrvRead(datafd) \notin {"FIN", "ENOTCONN", "EAGAIN"}
        /\ SrvConsume(datafd, TRUE) /\ rx' = rx + 1 /\ nleft' = nleft - 1
        /\ spc' = IF nleft = 1 THEN "loop" ELSE "recv"
        /\ sbatch' = IF nleft = 1 THEN sbatch \ {datafd} ELSE sbatch
        /\ UNCHANGED sstate
  /\ UNCHANGED <<ctlfd, datafd, clihost, sconf, cliVars, cliEvs, cs, ss,
                 downVars, netVars, faults>>

Srv ==
  \/ SrvListen \/ SrvEpollWait \/ SrvBatchDone \/ SrvAcceptFails
  \/ \E k \in Conn, ok \in BOOLEAN :
       SrvAcceptCtl(k, ok) \/ SrvAcceptData(k, ok) \/ SrvDeny(k, ok)
  \/ SrvMsg \/ SrvReadLen \/ SrvReadJson \/ SrvRecvStart \/ SrvRecv

-----------------------------------------------------------------------------
(* The client workers.                                                     *)

\* mperf_init_client() and mperf_connect(is_ctl): no buffer memory ends the
\* client; the result of the connect is not looked at.
CliStart(c) ==
  /\ cpc[c] = "init"
  /\ \/ /\ Fault /\ UNCHANGED cs
        /\ cpc' = [cpc EXCEPT ![c] = "over"]
        /\ cstate' = [cstate EXCEPT ![c] = "ERROR"]
     \/ /\ cpc' = [cpc EXCEPT ![c] = "wait"]
        /\ cstate' = [cstate EXCEPT ![c] = "START"]
        /\ \/ Fault /\ UNCHANGED cs
           \/ NoFault /\ cs' = [cs EXCEPT ![Ctl(c)] = "synsent"]
  /\ UNCHANGED <<srvVars, srvEvs, tx, cliEvs, ss, upVars, downVars, netVars>>

CliEpollWait(c) ==
  /\ cpc[c] = "wait" /\ cpend[c] # {}
  /\ cpc' = [cpc EXCEPT ![c] = "loop"]
  /\ cbatch' = [cbatch EXCEPT ![c] = cpend[c]]
  /\ cpend' = [cpend EXCEPT ![c] = {}]
  /\ UNCHANGED <<srvVars, srvEvs, cstate, tx, cs, ss, upVars, downVars, netVars,
                 faults>>

\* mperf_destroy_client(): both descriptors are closed.  A stream still in
\* SYN_SENT, or already CLOSED, is simply destroyed; a live one sends FIN.
CliDestroy(c) ==
  LET mine == {k \in {Ctl(c), Data(c)} : cs[k] # "none"} IN
  /\ cpc' = [cpc EXCEPT ![c] = "over"]
  /\ cpend' = [cpend EXCEPT ![c] = {}] /\ cbatch' = [cbatch EXCEPT ![c] = {}]
  /\ up' = [k \in Conn |-> IF k \in mine /\ cs[k] = "estab"
                           THEN Append(up[k], "FIN") ELSE up[k]]
  /\ cs' = [k \in Conn |-> IF k \in mine THEN "closed" ELSE cs[k]]
  /\ UNCHANGED <<srvVars, srvEvs, cstate, tx, ss, uprdy, downVars, netVars>>

CliBatchDone(c) ==
  /\ cpc[c] = "loop" /\ cbatch[c] = {}
  /\ NoFault
  /\ \/ cstate[c] \in {"END", "ERROR"} /\ CliDestroy(c)
     \/ /\ cstate[c] \notin {"END", "ERROR"}
        /\ cpc' = [cpc EXCEPT ![c] = "wait"]
        /\ UNCHANGED <<srvVars, srvEvs, cstate, tx, cliEvs, cs, ss, upVars,
                       downVars, netVars>>

CliInterrupt(c) == cpc[c] = "wait" /\ Fault /\ CliDestroy(c)

\* How mperf_handle_client_msg() returns: to the next event of the batch, or
\* out of it.
CliNext(c, state) ==
  /\ cstate' = [cstate EXCEPT ![c] = state]
  /\ cbatch' = [cbatch EXCEPT ![c] = @ \ {Ctl(c)}]
CliBreak(c, state) ==
  /\ cstate' = [cstate EXCEPT ![c] = state]
  /\ cbatch' = [cbatch EXCEPT ![c] = {}]

\* mperf_send_conf(): the three writes of JSON_write(); after a failure of one
\* of them the client sets ERROR and tries to send it.
Conf == <<"PARAM_EXCHANGE", "LEN", "JSON">>
MaybeError == {<<>>, <<"ERROR">>}
CutConf == MaybeError \cup
           {<<"PARAM_EXCHANGE">>, <<"PARAM_EXCHANGE", "ERROR">>,
            <<"PARAM_EXCHANGE", "LEN">>, <<"PARAM_EXCHANGE", "LEN", "ERROR">>}

CliSendConf(c) ==
  /\ UNCHANGED cs
  /\ \/ /\ NoFault /\ CliNext(c, "PARAM_EXCHANGE")
        /\ up' = [up EXCEPT ![Ctl(c)] = @ \o Conf]
     \/ /\ Fault /\ CliBreak(c, "ERROR")
        /\ \E cut \in CutConf : up' = [up EXCEPT ![Ctl(c)] = @ \o cut]

\* mperf_connect() for the data connection.
CliOpenData(c) ==
  \/ /\ NoFault /\ CliNext(c, "CREATE_STREAM") /\ UNCHANGED up
     /\ cs' = [cs EXCEPT ![Data(c)] = "synsent"]
  \/ /\ Fault /\ CliBreak(c, "ERROR") /\ UNCHANGED cs
     /\ \E err \in MaybeError : up' = [up EXCEPT ![Ctl(c)] = @ \o err]

\* mperf_handle_client_msg(): an event of the control connection, with
\* nothing to read (nread() returns 0), a failed stream, or a message.
CliNoMsg(c) ==
  /\ cpc[c] = "loop" /\ Ctl(c) \in cbatch[c]
  /\ \/ CliRead(Ctl(c)) \in Nothing /\ CliNext(c, "END")
     \/ CliRead(Ctl(c)) = "ENOTCONN" /\ CliBreak(c, cstate[c])
  /\ UNCHANGED <<srvVars, srvEvs, cpc, tx, cpend, cs, ss, upVars, downVars,
                 netVars, faults>>

\* RUNNING registers datafd, which reports EPOLLOUT if it is connected.
Writable(c) ==
  IF cs[Data(c)] \in {"estab", "refused"} THEN {Data(c)} ELSE {}

CliMsg(c) ==
  /\ cpc[c] = "loop" /\ Ctl(c) \in cbatch[c]
  /\ LET tok == CliRead(Ctl(c))
         fin == IF downrdy[Ctl(c)] > 1 /\ down[Ctl(c)][2] = "FIN"
                THEN {Ctl(c)} ELSE {}
         raise == IF tok = "RUNNING" /\ cstate[c] = "CREATE_STREAM"
                  THEN Writable(c) ELSE {}
     IN
     /\ tok \notin Nothing \cup {"ENOTCONN"}
     /\ down' = [down EXCEPT ![Ctl(c)] = Tail(@)]
     /\ downrdy' = [downrdy EXCEPT ![Ctl(c)] = @ - 1]
     /\ cpend' = [cpend EXCEPT ![c] = @ \cup fin \cup raise]
     /\ \/ tok = "PARAM_EXCHANGE" /\ cstate[c] = "START" /\ CliSendConf(c)
        \/ tok = "CREATE_STREAM" /\ cstate[c] = "PARAM_EXCHANGE"
           /\ CliOpenData(c)
        \/ /\ tok = "RUNNING" /\ cstate[c] = "CREATE_STREAM"
           /\ CliNext(c, "RUNNING") /\ UNCHANGED <<up, cs, faults>>
        \/ tok = "ERROR" /\ CliBreak(c, "ERROR") /\ UNCHANGED <<up, cs, faults>>
        \/ /\ <<tok, cstate[c]>> \notin
                {<<"PARAM_EXCHANGE", "START">>, <<"RUNNING", "CREATE_STREAM">>,
                 <<"CREATE_STREAM", "PARAM_EXCHANGE">>}
           /\ tok # "ERROR"
           /\ CliBreak(c, cstate[c]) /\ UNCHANGED <<up, cs, faults>>
  /\ UNCHANGED <<srvVars, srvEvs, cpc, tx, ss, uprdy, netVars>>

\* An event of the data connection: mperf_send() writes one block, as much of
\* it as the send buffer takes, and END follows on the control connection.
Sendable == (IF SndBuf < Blk THEN SndBuf ELSE Blk)..Blk

TxWhole(c, ret) == tx[c] + Blk
TxBytes(c, ret) == tx[c] + ret

CliSend(c) ==
  /\ cpc[c] = "loop" /\ Data(c) \in cbatch[c]
  /\ \/ /\ cs[Data(c)] # "dead"
        /\ \E n \in Sendable, ok \in BOOLEAN :
             /\ WriteOutcome(cs[Ctl(c)] # "dead", ok)
             /\ up' = [up EXCEPT ![Data(c)] = @ \o [i \in 1..n |-> "BLOCK"],
                                 ![Ctl(c)] = IF ok THEN Append(@, "END") ELSE @]
             /\ tx' = [tx EXCEPT ![c] = TxBytes(c, n)]
        /\ cstate' = [cstate EXCEPT ![c] = "END"]
        /\ cbatch' = [cbatch EXCEPT ![c] = @ \ {Data(c)}]
     \/ /\ IF cs[Data(c)] = "dead" THEN NoFault ELSE Fault
        /\ CliBreak(c, "ERROR") /\ UNCHANGED <<up, tx>>
  /\ UNCHANGED <<srvVars, srvEvs, cpc, cpend, cs, ss, uprdy, downVars, netVars>>

Cli(c) ==
  \/ CliStart(c) \/ CliEpollWait(c) \/ CliBatchDone(c) \/ CliNoMsg(c)
  \/ CliMsg(c) \/ CliSend(c)

-----------------------------------------------------------------------------
(* mTCP and the network between the two machines.                          *)

\* The client's epoll registration of connection k.
CliRegistered(k) == k[2] = "ctl" \/ cstate[k[1]] = "RUNNING"
CliRaise(k) ==
  cpend' = IF CliRegistered(k) THEN [cpend EXCEPT ![k[1]] = @ \cup {k}] ELSE cpend

\* The handshake completes: the connection joins the accept queue, and the
\* listener's event is raised a moment later by the same mTCP thread.
Establish(k) ==
  /\ cs[k] = "synsent" /\ spc \notin {"init", "over"} /\ ~unraised
  /\ cs' = [cs EXCEPT ![k] = "estab"] /\ ss' = [ss EXCEPT ![k] = "queued"]
  /\ acceptq' = Append(acceptq, k) /\ unraised' = TRUE
  /\ IF k[2] = "data" THEN CliRaise(k) ELSE UNCHANGED cpend
  /\ UNCHANGED <<srvVars, srvEvs, cliVars, cbatch, upVars, downVars, faults>>

RaiseListener ==
  /\ unraised /\ unraised' = FALSE
  /\ spend' = IF spc = "over" THEN spend ELSE spend \cup {ListenFd}
  /\ UNCHANGED <<srvVars, sbatch, cliVars, cliEvs, cs, ss, upVars, downVars,
                 acceptq, faults>>

\* Nobody listens: the SYN is answered by RST, which mTCP maps to CLOSE_WAIT.
Refuse(k) ==
  /\ cs[k] = "synsent" /\ spc \in {"init", "over"}
  /\ cs' = [cs EXCEPT ![k] = "refused"] /\ CliRaise(k)
  /\ UNCHANGED <<srvVars, srvEvs, cliVars, cbatch, ss, upVars, downVars, netVars,
                 faults>>

\* Segments arrive: up to `r' leading tokens are now readable.
DeliverUp(k) ==
  /\ ss[k] \in {"queued", "open"}
  /\ \E r \in (uprdy[k] + 1)..Len(up[k]) :
       /\ Coalesced => up[k][r] \notin {"PARAM_EXCHANGE", "LEN"}
       /\ uprdy' = [uprdy EXCEPT ![k] = r]
  /\ spend' = IF k \in {ctlfd, datafd} THEN spend \cup {k} ELSE spend
  /\ UNCHANGED <<srvVars, sbatch, cliVars, cliEvs, cs, ss, up, downVars, netVars,
                 faults>>

DeliverDown(k) ==
  /\ cs[k] = "estab"
  /\ \E r \in (downrdy[k] + 1)..Len(down[k]) : downrdy' = [downrdy EXCEPT ![k] = r]
  /\ IF k[2] = "ctl" THEN CliRaise(k) ELSE UNCHANGED cpend
  /\ UNCHANGED <<srvVars, srvEvs, cliVars, cbatch, cs, ss, upVars, down, netVars,
                 faults>>

\* mTCP gives up on a connection: idle for tcp_timeout, or too many
\* retransmissions.  The stream is CLOSED and EPOLLERR is raised.
SrvTimeout(k) ==
  /\ ss[k] = "open" /\ Fault
  /\ ss' = [ss EXCEPT ![k] = "dead"] /\ spend' = spend \cup {k}
  /\ UNCHANGED <<srvVars, sbatch, cliVars, cliEvs, cs, upVars, downVars, netVars>>

CliTimeout(k) ==
  /\ cs[k] \in {"synsent", "estab"} /\ Fault
  /\ cs' = [cs EXCEPT ![k] = "dead"] /\ CliRaise(k)
  /\ UNCHANGED <<srvVars, srvEvs, cliVars, cbatch, ss, upVars, downVars, netVars>>

Net ==
  \/ RaiseListener
  \/ \E k \in Conn : \/ Establish(k) \/ Refuse(k) \/ DeliverUp(k)
                     \/ DeliverDown(k) \/ SrvTimeout(k) \/ CliTimeout(k)

\* The program has stopped: every worker has left its loop.
Over == spc = "over" /\ \A c \in Clients : cpc[c] = "over"

Next ==
  \/ Srv \/ SrvInterrupt
  \/ \E c \in Clients : Cli(c) \/ CliInterrupt(c)
  \/ Net

Spec == Init /\ [][Next]_vars

\* mTCP's threads and the workers keep running: a worker with an event to
\* handle handles it, and what has been sent arrives.
Fairness ==
  /\ WF_vars(Srv) /\ WF_vars(RaiseListener)
  /\ \A c \in Clients : WF_vars(Cli(c))
  /\ \A k \in Conn : /\ WF_vars(Establish(k)) /\ WF_vars(DeliverUp(k))
                     /\ WF_vars(DeliverDown(k))

FairSpec == Spec /\ Fairness

-----------------------------------------------------------------------------
(* Properties.                                                             *)

SrvType ==
  /\ spc \in {"init", "wait", "loop", "len", "json", "recv", "over"}
  /\ sstate \in States
  /\ ctlfd \in Conn \cup {NoFd} /\ datafd \in Conn \cup {NoFd}
  /\ clihost \in Hosts \cup {NoFd} /\ sconf \in Clients \cup {NoFd}
  /\ nleft \in Nat /\ nleft <= Blk /\ rx \in Nat
HandlerType ==
  /\ spc \in {"len", "json"} => ctlfd # NoFd
  /\ spc = "recv" => datafd # NoFd /\ nleft > 0
SrvEvType ==
  spend \subseteq Conn \cup {ListenFd} /\ sbatch \subseteq Conn \cup {ListenFd}
CliType ==
  /\ cpc \in [Clients -> {"init", "wait", "loop", "over"}]
  /\ cstate \in [Clients -> States] /\ tx \in [Clients -> Nat]
CliEvType ==
  cpend \in [Clients -> SUBSET Conn] /\ cbatch \in [Clients -> SUBSET Conn]
SockType ==
  /\ cs \in [Conn -> {"none", "synsent", "estab", "refused", "dead", "closed"}]
  /\ ss \in [Conn -> {"none", "queued", "open", "dead", "closed"}]
UpType ==
  /\ up \in [Conn -> Seq(Token)] /\ uprdy \in [Conn -> Nat]
  /\ \A k \in Conn : uprdy[k] <= Len(up[k])
DownType ==
  /\ down \in [Conn -> Seq(Token)] /\ downrdy \in [Conn -> Nat]
  /\ \A k \in Conn : downrdy[k] <= Len(down[k])
NetType ==
  /\ acceptq \in Seq(Conn) /\ unraised \in BOOLEAN
  /\ faults \in Nat /\ faults <= MaxFaults

\* Type invariant of the worker contexts, the sockets and the streams; the
\* receive buffers hold only what has been sent, and a handler that is under
\* way works on an open descriptor.
TypeOK ==
  SrvType /\ HandlerType /\ SrvEvType /\ CliType /\ CliEvType /\ SockType /\ UpType /\ DownType
    /\ NetType

Engaged == {"PARAM_EXCHANGE", "CREATE_STREAM", "RUNNING"}

\* Client c is in one of the states S, or a message that may take it there
\* is on its way.
Has(seq, S) == \E i \in 1..Len(seq) : seq[i] \in S
Granted(c, S) == cstate[c] \in S \/ Has(down[Ctl(c)], S)
Late == {"CREATE_STREAM", "RUNNING"}

\* The server runs one test at a time: a client past START is the one whose
\* control connection the server holds, and no two clients are past START
\* (mperf_accept() denies every other control connection).
OneController ==
  /\ \A c \in Clients :
       cstate[c] \in Engaged => spc = "over" \/ ctlfd = Ctl(c)
  /\ \A c, d \in Clients :
       cstate[c] \in Engaged /\ cstate[d] \in Engaged => c = d

\* The inductive form: messages on their way count like states.
ControllerInv ==
  /\ \A c \in Clients : Granted(c, Engaged) => spc = "over" \/ ctlfd = Ctl(c)
  /\ \A c, d \in Clients : Granted(c, Engaged) /\ Granted(d, Engaged) => c = d

\* The configuration is agreed before the stream is created: when either side
\* is in CREATE_STREAM or RUNNING, the server has stored the configuration of
\* this very client, of the same version (mperf_recv_conf()).
ConfAgreed ==
  /\ sstate \in Late /\ spc # "over" =>
       sconf = ctlfd[1] /\ sconf \notin BadVersion
  /\ \A c \in Clients : cstate[c] \in Late => sconf = c /\ c \notin BadVersion

ConfInv ==
  /\ sstate \in Late /\ spc # "over" =>
       ctlfd \in Conn /\ sconf = ctlfd[1] /\ sconf \notin BadVersion
  /\ \A c \in Clients : Granted(c, Late) => sconf = c /\ c \notin BadVersion

\* A client in RUNNING has had its own data connection accepted, and that is
\* the connection the server receives on (mperf_accept(), datafd).
RunningOnOwnData ==
  /\ \A c \in Clients :
       cstate[c] = "RUNNING" => ss[Data(c)] \notin {"none", "queued"}
  /\ datafd # NoFd => datafd = Data(ctlfd[1])

\* "One worker only handle one connection at anytime": the two connections a
\* server worker holds are those of one client (mperf_accept()).
OneClientServed == ctlfd # NoFd /\ datafd # NoFd => ctlfd[1] = datafd[1]

Blocks(q) == Cardinality({i \in 1..Len(q) : q[i] = "BLOCK"})

\* Blocks are received as often as they were sent: what the server has counted
\* and what is still on the way is what the client counted.
BlocksConserved ==
  datafd # NoFd => tx[datafd[1]] = rx + Blocks(up[datafd])

\* An event of the control connection is never handled with nothing to read
\* while the connection is open: nread() returns 0 only if the client has
\* closed, which is what mperf_handle_server_msg() takes 0 to mean.
ZeroMeansClosed ==
  spc = "loop" /\ ctlfd \in sbatch => SrvRead(ctlfd) # "EAGAIN"

Rank(s) == CASE s = "UNINIT" -> 0 [] s = "START" -> 1
             [] s = "PARAM_EXCHANGE" -> 2 [] s = "CREATE_STREAM" -> 3
             [] s = "RUNNING" -> 4 [] s \in {"END", "ERROR"} -> 5
Advance(from, to) ==
  /\ Rank(to) >= Rank(from)
  /\ Rank(to) > Rank(from) + 1 => Rank(to) = 5

\* The test of a worker advances through its phases in order and never goes
\* back (ctx->test_state, on both sides).
PhasesInOrder ==
  [][/\ Advance(sstate, sstate')
     /\ \A c \in Clients : Advance(cstate[c], cstate'[c])]_vars

\* What the controller has sent is read, or the test ends: an event of the
\* controller leads to receiving a new state (mperf_server_loop()).
ControllerHeard ==
  \A c \in Clients :
    ctlfd = Ctl(c) /\ uprdy[Ctl(c)] > 0
      ~> ctlfd # Ctl(c) \/ uprdy[Ctl(c)] = 0
=============================================================================
