------------------------- MODULE MperfSessionProofs -------------------------
(***************************************************************************)
(* Proofs about MperfSession, for any number of clients, any hosts, any    *)
(* block and buffer size and any number of failures: types, one controller *)
(* on an agreed configuration, the order of the phases of a test and its   *)
(* data connection.  mperf_accept() tells a data connection by the address *)
(* it comes from, so the last of these needs clients on hosts of their     *)
(* own.                                                                    *)
(***************************************************************************)
EXTENDS MperfSession, TLAPS

\* A connection is a client with one of the two roles.
LEMMA ConnParts ==
  /\ \A c \in Clients : Ctl(c) \in Conn /\ Data(c) \in Conn
  /\ \A k \in Conn : k[1] \in Clients /\ k[2] \in {"ctl", "data"}
  /\ \A c, d \in Clients : Ctl(c) = Ctl(d) => c = d
  /\ \A c, d \in Clients : Ctl(c) # Data(d)
BY DEF Conn, Ctl, Data

\* The initial state is well typed.
LEMMA TypeInit == Init => TypeOK
<1> SUFFICES ASSUME Init PROVE TypeOK  OBVIOUS
<1>1. SrvType /\ HandlerType /\ SrvEvType
  BY SizeAssumption DEF Init, SrvType, HandlerType, SrvEvType, States
<1>2. CliType /\ CliEvType BY DEF Init, CliType, CliEvType, States
<1>3. SockType BY DEF Init, SockType
<1>4. UpType BY DEF Init, UpType
<1>5. DownType BY DEF Init, DownType
<1>6. NetType
  <2>1. acceptq \in Seq(Conn) BY DEF Init
  <2>2. unraised \in BOOLEAN BY Zenon DEF Init
  <2>3. faults \in Nat /\ faults <= MaxFaults BY FaultAssumption DEF Init
  <2> QED BY <2>1, <2>2, <2>3 DEF NetType
<1> QED BY <1>1, <1>2, <1>3, <1>4, <1>5, <1>6 DEF TypeOK

USE DEF srvVars, srvEvs, cliVars, cliEvs, upVars, downVars, netVars

\* A part of the state that does not change keeps its type.
LEMMA SameTypes ==
  ASSUME TypeOK
  PROVE  /\ UNCHANGED srvVars => SrvType' /\ HandlerType'
         /\ UNCHANGED srvEvs => SrvEvType'
         /\ UNCHANGED cliVars => CliType'
         /\ UNCHANGED cliEvs => CliEvType'
         /\ UNCHANGED <<cs, ss>> => SockType'
         /\ UNCHANGED upVars => UpType'
         /\ UNCHANGED downVars => DownType'
         /\ UNCHANGED netVars /\ UNCHANGED faults => NetType'
BY Zenon DEF TypeOK, SrvType, HandlerType, SrvEvType, CliType, CliEvType, SockType,
          UpType, DownType, NetType

-----------------------------------------------------------------------------
(* What the steps that several actions share do to the types.              *)

LEMMA FaultType ==
  ASSUME TypeOK, UNCHANGED netVars, Fault \/ NoFault
  PROVE  NetType'
BY FaultAssumption DEF TypeOK, NetType, Fault, NoFault

LEMMA WriteType ==
  ASSUME TypeOK, NEW k \in Conn, NEW tok \in Token, NEW ok \in BOOLEAN,
         SrvWrite(k, tok, ok), downrdy' = downrdy
  PROVE  DownType' /\ (Fault \/ NoFault)
<1>1. Fault \/ NoFault BY DEF SrvWrite, WriteOutcome
<1>2. CASE down' = down BY <1>1, <1>2 DEF TypeOK, DownType
<1>3. CASE down' = [down EXCEPT ![k] = Append(@, tok)]
  BY <1>1, <1>3 DEF TypeOK, DownType
<1> QED BY <1>2, <1>3 DEF SrvWrite

LEMMA SrvFailsType ==
  ASSUME TypeOK, ctlfd \in Conn, NEW ok \in BOOLEAN, SrvFails(ok),
         UNCHANGED <<downrdy, netVars>>
  PROVE  DownType' /\ NetType'
BY WriteType, FaultType DEF SrvFails, Token, States

\* A token is read only from a receive buffer that holds one.
LEMMA ReadGot ==
  ASSUME TypeOK, NEW k \in Conn,
         SrvRead(k) \notin {"FIN", "EAGAIN", "ENOTCONN"}
  PROVE  uprdy[k] > 0 /\ SrvRead(k) = Head(up[k]) /\ up[k] # <<>>
BY DEF TypeOK, UpType, SrvRead

LEMMA ConsumeType ==
  ASSUME TypeOK, NEW k \in Conn, NEW lv \in BOOLEAN, uprdy[k] > 0,
         SrvConsume(k, lv), sbatch' \subseteq sbatch
  PROVE  UpType' /\ SrvEvType'
<1>1. UpType' BY DEF TypeOK, UpType, SrvConsume
<1>2. SrvEvType' BY DEF TypeOK, SrvEvType, SrvConsume
<1> QED BY <1>1, <1>2

LEMMA CliRaiseType ==
  ASSUME TypeOK, NEW k \in Conn, CliRaise(k) \/ UNCHANGED cpend,
         UNCHANGED cbatch
  PROVE  CliEvType'
<1>1. k[1] \in Clients BY ConnParts
<1>2. cpend' \in {cpend, [cpend EXCEPT ![k[1]] = @ \cup {k}]} BY DEF CliRaise
<1> QED BY <1>1, <1>2 DEF TypeOK, CliEvType

-----------------------------------------------------------------------------
(* Every action keeps the types: mTCP and the network.                     *)

LEMMA TypeNet ==
  ASSUME TypeOK, Net
  PROVE  TypeOK'
<1>1. CASE RaiseListener
  <2>1. /\ SrvType' /\ HandlerType' /\ CliType' /\ CliEvType' /\ SockType'
        /\ UpType' /\ DownType'
    BY <1>1, SameTypes DEF RaiseListener
  <2>2. SrvEvType' BY <1>1 DEF TypeOK, SrvEvType, RaiseListener
  <2>3. NetType'
    <3>1. unraised' \in BOOLEAN BY <1>1, Zenon DEF RaiseListener
    <3> QED BY <1>1, <3>1 DEF TypeOK, NetType, RaiseListener
  <2> QED BY <2>1, <2>2, <2>3 DEF TypeOK
<1>2. ASSUME NEW k \in Conn, Establish(k)
      PROVE  TypeOK'
  <2>1. SrvType' /\ HandlerType' /\ SrvEvType' /\ CliType' /\ UpType' /\ DownType'
    BY <1>2, SameTypes DEF Establish
  <2>2. CliEvType' BY <1>2, CliRaiseType DEF Establish
  <2>3. SockType' BY <1>2 DEF TypeOK, SockType, Establish
  <2>4. NetType' 
    <3>1. unraised' \in BOOLEAN BY <1>2, Zenon DEF Establish
    <3> QED BY <1>2, <3>1 DEF TypeOK, NetType, Establish
  <2> QED BY <2>1, <2>2, <2>3, <2>4 DEF TypeOK
<1>3. ASSUME NEW k \in Conn, Refuse(k)
      PROVE  TypeOK'
  <2>1. /\ SrvType' /\ HandlerType' /\ SrvEvType' /\ CliType' /\ UpType'
        /\ DownType' /\ NetType'
    BY <1>3, SameTypes DEF Refuse
  <2>2. CliEvType' BY <1>3, CliRaiseType DEF Refuse
  <2>3. SockType' BY <1>3 DEF TypeOK, SockType, Refuse
  <2> QED BY <2>1, <2>2, <2>3 DEF TypeOK
<1>4. ASSUME NEW k \in Conn, DeliverUp(k)
      PROVE  TypeOK'
  <2>1. /\ SrvType' /\ HandlerType' /\ CliType' /\ CliEvType' /\ SockType'
        /\ DownType' /\ NetType'
    BY <1>4, SameTypes DEF DeliverUp
  <2>2. SrvEvType' BY <1>4 DEF TypeOK, SrvEvType, DeliverUp
  <2>3. UpType' BY <1>4 DEF TypeOK, UpType, DeliverUp
  <2> QED BY <2>1, <2>2, <2>3 DEF TypeOK
<1>5. ASSUME NEW k \in Conn, DeliverDown(k)
      PROVE  TypeOK'
  <2>1. /\ SrvType' /\ HandlerType' /\ SrvEvType' /\ CliType' /\ SockType'
        /\ UpType' /\ NetType'
    BY <1>5, SameTypes DEF DeliverDown
  <2>2. CliEvType' BY <1>5, CliRaiseType DEF DeliverDown
  <2>3. DownType' BY <1>5 DEF TypeOK, DownType, DeliverDown
  <2> QED BY <2>1, <2>2, <2>3 DEF TypeOK
<1>6. ASSUME NEW k \in Conn, SrvTimeout(k)
      PROVE  TypeOK'
  <2>1. /\ SrvType' /\ HandlerType' /\ CliType' /\ CliEvType' /\ UpType'
        /\ DownType'
    BY <1>6, SameTypes DEF SrvTimeout
  <2>2. SrvEvType' /\ SockType'
    BY <1>6 DEF TypeOK, SrvEvType, SockType, SrvTimeout
  <2>3. NetType' BY <1>6, FaultType DEF SrvTimeout
  <2> QED BY <2>1, <2>2, <2>3 DEF TypeOK
<1>7. ASSUME NEW k \in Conn, CliTimeout(k)
      PROVE  TypeOK'
  <2>1. /\ SrvType' /\ HandlerType' /\ SrvEvType' /\ CliType' /\ UpType'
        /\ DownType'
    BY <1>7, SameTypes DEF CliTimeout
  <2>2. CliEvType' BY <1>7, CliRaiseType DEF CliTimeout
  <2>3. SockType' BY <1>7 DEF TypeOK, SockType, CliTimeout
  <2>4. NetType' BY <1>7, FaultType DEF CliTimeout
  <2> QED BY <2>1, <2>2, <2>3, <2>4 DEF TypeOK
<1> QED BY <1>1, <1>2, <1>3, <1>4, <1>5, <1>6, <1>7 DEF Net

-----------------------------------------------------------------------------
(* Every action keeps the types: the server worker.                        *)

LEMMA TypeSrvDestroy ==
  ASSUME TypeOK, SrvDestroy, Fault \/ NoFault
  PROVE  TypeOK'
<1>1. CliType' /\ CliEvType' /\ UpType' BY SameTypes DEF SrvDestroy
<1>2. SrvType' /\ HandlerType'
  BY DEF TypeOK, SrvType, HandlerType, SrvDestroy
<1>3. SrvEvType' BY DEF SrvEvType, SrvDestroy
<1>4. SockType' BY DEF TypeOK, SockType, SrvDestroy
<1>5. DownType' BY DEF TypeOK, DownType, SrvDestroy, Token
<1>6. NetType' BY FaultType DEF SrvDestroy
<1> QED BY <1>1, <1>2, <1>3, <1>4, <1>5, <1>6 DEF TypeOK

LEMMA TypeSrvAccept ==
  ASSUME TypeOK, NEW k \in Conn, NEW ok \in BOOLEAN,
         SrvAcceptCtl(k, ok) \/ SrvAcceptData(k, ok) \/ SrvDeny(k, ok)
  PROVE  TypeOK'
<1>1. CliType' /\ CliEvType' /\ UpType'
  BY SameTypes DEF SrvAcceptCtl, SrvAcceptData, SrvDeny
<1>2. k[1] \in Clients /\ Host[k[1]] \in Hosts BY ConnParts DEF Hosts
<1>3. SrvType' /\ HandlerType'
  BY <1>2 DEF TypeOK, SrvType, HandlerType, SrvAcceptCtl, SrvAcceptData, SrvDeny,
              Accepting, States
<1>4. SrvEvType'
  <2>1. sbatch' \subseteq sbatch BY DEF SrvAcceptCtl, SrvAcceptData, SrvDeny
  <2>2. spend' \subseteq spend \cup {ListenFd, k}
    BY DEF SrvAcceptCtl, SrvAcceptData, SrvDeny, Relisten, Readable
  <2> QED BY <2>1, <2>2, ZenonT(30) DEF TypeOK, SrvEvType
<1>5. SockType'
  BY DEF TypeOK, SockType, SrvAcceptCtl, SrvAcceptData, SrvDeny
<1>6. DownType'
  <2>1. CASE SrvAcceptCtl(k, ok)
    BY <2>1 DEF TypeOK, DownType, SrvAcceptCtl, Token, States
  <2>2. CASE SrvAcceptData(k, ok)
    <3>1. ctlfd \in Conn BY <2>2 DEF TypeOK, SrvType, SrvAcceptData, ServerFree
    <3> QED BY <2>2, <3>1 DEF TypeOK, DownType, SrvAcceptData, Token, States
  <2>3. CASE SrvDeny(k, ok)
    <3>1. <<"ACCESS_DENY", "FIN">> \in Seq(Token) /\ <<"FIN">> \in Seq(Token)
      BY DEF Token
    <3>2. DenyReply(ok) \in Seq(Token) BY <3>1 DEF DenyReply
    <3> QED BY <2>3, <3>2 DEF TypeOK, DownType, SrvDeny
  <2> QED BY <2>1, <2>2, <2>3, SMTT(30)
<1>7. NetType'
  <2>1. acceptq' \in Seq(Conn)
    BY SMTT(30) DEF TypeOK, NetType, SrvAcceptCtl, SrvAcceptData, SrvDeny, Accepting
  <2>2. unraised' = unraised BY DEF SrvAcceptCtl, SrvAcceptData, SrvDeny
  <2>3. Fault \/ NoFault
    BY DEF SrvAcceptCtl, SrvAcceptData, SrvDeny, WriteOutcome
  <2> QED
    BY <2>1, <2>2, <2>3, FaultAssumption DEF TypeOK, NetType, Fault, NoFault
<1> QED BY <1>1, <1>3, <1>4, <1>5, <1>6, <1>7, SMTT(30) DEF TypeOK

LEMMA TypeSrvMsg ==
  ASSUME TypeOK, SrvMsg
  PROVE  TypeOK'
<1>1. ctlfd \in Conn BY FdAssumption DEF TypeOK, SrvType, SrvEvType, SrvMsg
<1>2. CliType' /\ CliEvType' /\ SockType' BY SameTypes DEF SrvMsg
<1>3. SrvType' BY Zenon DEF TypeOK, SrvType, SrvMsg, SrvFails, States
<1>4. HandlerType' 
  BY <1>1, FdAssumption, Zenon DEF TypeOK, HandlerType, SrvMsg, SrvFails
<1>5. UpType' /\ SrvEvType'
  <2>1. sbatch' \subseteq sbatch BY Zenon DEF SrvMsg, SrvFails
  <2>2. CASE UNCHANGED upVars /\ UNCHANGED spend
    BY <2>1, <2>2, SameTypes DEF TypeOK, SrvEvType
  <2>3. CASE /\ SrvRead(ctlfd) \notin Nothing \cup {"ENOTCONN"}
             /\ SrvConsume(ctlfd, FALSE)
    BY <1>1, <2>1, <2>3, ReadGot, ConsumeType, Zenon DEF Nothing
  <2> QED BY <2>2, <2>3, Zenon DEF SrvMsg
<1>6. DownType' /\ NetType'
  <2>1. CASE UNCHANGED <<downVars, faults>> BY <2>1, SameTypes DEF SrvMsg
  <2>2. CASE downrdy' = downrdy /\ \E ok \in BOOLEAN : SrvFails(ok)
    BY <1>1, <2>2, SrvFailsType DEF SrvMsg
  <2> QED BY <2>1, <2>2, Zenon DEF SrvMsg
<1> QED BY <1>2, <1>3, <1>4, <1>5, <1>6 DEF TypeOK

LEMMA TypeSrvReadConf ==
  ASSUME TypeOK, SrvReadLen \/ SrvReadJson
  PROVE  TypeOK'
<1>1. ctlfd \in Conn /\ ctlfd # NoFd
  BY FdAssumption, Zenon DEF TypeOK, SrvType, HandlerType, SrvReadLen, SrvReadJson
<1>2. CliType' /\ CliEvType' /\ SockType'
  BY SameTypes, Zenon DEF SrvReadLen, SrvReadJson
<1>3. ctlfd[1] \in Clients BY <1>1, ConnParts
<1>4. SrvType'
  BY <1>3, Zenon DEF TypeOK, SrvType, SrvReadLen, SrvReadJson, SrvFails, States
<1>5. HandlerType'
  BY <1>1, Zenon DEF TypeOK, HandlerType, SrvReadLen, SrvReadJson, SrvFails
<1>6. UpType' /\ SrvEvType'
  <2>1. sbatch' \subseteq sbatch BY Zenon DEF SrvReadLen, SrvReadJson, SrvFails
  <2>2. CASE UNCHANGED <<upVars, spend>>
    BY <2>1, <2>2, SameTypes DEF TypeOK, SrvEvType
  <2>3. CASE SrvRead(ctlfd) \in {"LEN", "JSON"} /\ SrvConsume(ctlfd, FALSE)
    BY <1>1, <2>1, <2>3, ReadGot, ConsumeType, Zenon
  <2> QED BY <2>2, <2>3, Zenon DEF SrvReadLen, SrvReadJson
<1>7. DownType' /\ NetType'
  <2>1. CASE UNCHANGED <<down, faults>>
    BY <2>1, SameTypes, Zenon DEF SrvReadLen, SrvReadJson
  <2>2. CASE \E ok \in BOOLEAN : SrvFails(ok)
    BY <1>1, <2>2, SrvFailsType, Zenon DEF SrvReadLen, SrvReadJson
  <2>3. CASE \E ok \in BOOLEAN : SrvWrite(ctlfd, "CREATE_STREAM", ok)
    BY <1>1, <2>3, WriteType, FaultType, Zenon DEF SrvReadLen, SrvReadJson, Token, States
  <2> QED BY <2>1, <2>2, <2>3, Zenon DEF SrvReadLen, SrvReadJson
<1> QED BY <1>2, <1>4, <1>5, <1>6, <1>7 DEF TypeOK

LEMMA TypeSrvRecv ==
  ASSUME TypeOK, SrvRecvStart \/ SrvRecv
  PROVE  TypeOK'
<1>1. CliType' /\ CliEvType' /\ SockType' /\ DownType' /\ NetType'
  BY SameTypes, Zenon DEF SrvRecvStart, SrvRecv
<1>2. datafd \in Conn /\ datafd # NoFd
  BY FdAssumption, Zenon DEF TypeOK, SrvType, HandlerType, SrvEvType, SrvRecvStart,
                      SrvRecv
<1>3. SrvType' /\ HandlerType'
  <2>1. CASE SrvRecvStart
    BY <1>2, <2>1, SizeAssumption DEF TypeOK, SrvType, HandlerType, SrvRecvStart
  <2>2. CASE SrvRecv
    <3>1. nleft \in Nat /\ nleft > 0 /\ nleft <= Blk /\ rx \in Nat
      BY <2>2 DEF TypeOK, SrvType, HandlerType, SrvRecv
    <3>2. nleft' \in {nleft, nleft - 1} /\ rx' \in {rx, rx + 1}
      BY <2>2, Zenon DEF SrvRecv
    <3>3. spc' = "recv" => nleft # 1 /\ nleft' = nleft - 1 BY <2>2 DEF SrvRecv
    <3>4. nleft' \in Nat /\ nleft' <= Blk /\ rx' \in Nat
      BY <3>1, <3>2, SizeAssumption
    <3>5. spc' = "recv" => nleft' > 0 BY <3>1, <3>3
    <3> QED BY <1>2, <2>2, <3>4, <3>5, ZenonT(30) DEF TypeOK, SrvType, HandlerType, SrvRecv,
                                          States
  <2> QED BY <2>1, <2>2
<1>4. UpType' /\ SrvEvType'
  <2>1. sbatch' \subseteq sbatch BY Zenon DEF SrvRecvStart, SrvRecv
  <2>2. CASE UNCHANGED <<upVars, spend>>
    BY <2>1, <2>2, SameTypes DEF TypeOK, SrvEvType
  <2>3. CASE /\ SrvRead(datafd) \notin {"FIN", "ENOTCONN", "EAGAIN"}
             /\ SrvConsume(datafd, TRUE)
    BY <1>2, <2>1, <2>3, ReadGot, ConsumeType, Zenon
  <2> QED BY <2>2, <2>3, Zenon DEF SrvRecvStart, SrvRecv
<1> QED BY <1>1, <1>3, <1>4 DEF TypeOK

LEMMA TypeSrv ==
  ASSUME TypeOK, Srv \/ SrvInterrupt
  PROVE  TypeOK'
<1>1. CASE SrvListen
  <2>1. /\ SrvEvType' /\ CliType' /\ CliEvType' /\ SockType' /\ UpType'
        /\ DownType'
    BY <1>1, SameTypes DEF SrvListen
  <2>2. SrvType' /\ HandlerType'
    BY <1>1 DEF TypeOK, SrvType, HandlerType, SrvListen, States
  <2>3. NetType' BY <1>1, FaultType DEF SrvListen
  <2> QED BY <2>1, <2>2, <2>3 DEF TypeOK
<1>2. CASE SrvEpollWait
  <2>1. CliType' /\ CliEvType' /\ SockType' /\ UpType' /\ DownType' /\ NetType'
    BY <1>2, SameTypes DEF SrvEpollWait
  <2>2. SrvType' /\ HandlerType' /\ SrvEvType'
    BY <1>2 DEF TypeOK, SrvType, HandlerType, SrvEvType, SrvEpollWait
  <2> QED BY <2>1, <2>2 DEF TypeOK
<1>3. CASE SrvBatchDone
  <2>1. CASE SrvDestroy BY <1>3, <2>1, TypeSrvDestroy DEF SrvBatchDone
  <2>2. CASE ~SrvDestroy
    <3>1. /\ SrvEvType' /\ CliType' /\ CliEvType' /\ SockType' /\ UpType'
          /\ DownType' /\ NetType'
      BY <1>3, <2>2, SameTypes DEF SrvBatchDone, NoFault
    <3>2. SrvType' /\ HandlerType'
      BY <1>3, <2>2 DEF TypeOK, SrvType, HandlerType, SrvBatchDone
    <3> QED BY <3>1, <3>2 DEF TypeOK
  <2> QED BY <2>1, <2>2
<1>4. CASE SrvAcceptFails
  <2>1. /\ SrvType' /\ HandlerType' /\ CliType' /\ CliEvType' /\ SockType'
        /\ UpType' /\ DownType'
    BY <1>4, SameTypes DEF SrvAcceptFails
  <2>2. SrvEvType' BY <1>4 DEF TypeOK, SrvEvType, SrvAcceptFails
  <2>3. NetType'
    <3>1. acceptq' \in Seq(Conn) BY <1>4 DEF TypeOK, NetType, SrvAcceptFails
    <3>2. unraised' = unraised /\ (Fault \/ NoFault) BY <1>4 DEF SrvAcceptFails
    <3> QED BY <3>1, <3>2, FaultAssumption DEF TypeOK, NetType, Fault, NoFault
  <2> QED BY <2>1, <2>2, <2>3 DEF TypeOK
<1>5. CASE SrvInterrupt BY <1>5, TypeSrvDestroy DEF SrvInterrupt
<1> QED
  BY <1>1, <1>2, <1>3, <1>4, <1>5, TypeSrvAccept, TypeSrvMsg, TypeSrvReadConf,
     TypeSrvRecv DEF Srv

-----------------------------------------------------------------------------
(* Every action keeps the types: the client workers.                       *)

LEMMA TypeCliDestroy ==
  ASSUME TypeOK, NEW c \in Clients, CliDestroy(c), Fault \/ NoFault
  PROVE  TypeOK'
<1>1. SrvType' /\ HandlerType' /\ SrvEvType' /\ DownType'
  BY SameTypes, ZenonT(30) DEF CliDestroy
<1>2. CliType' BY DEF TypeOK, CliType, CliDestroy
<1>3. CliEvType' BY DEF TypeOK, CliEvType, CliDestroy
<1>4. SockType' BY DEF TypeOK, SockType, CliDestroy
<1>5. UpType' BY DEF TypeOK, UpType, CliDestroy, Token
<1>6. NetType' BY FaultType DEF CliDestroy
<1> QED BY <1>1, <1>2, <1>3, <1>4, <1>5, <1>6 DEF TypeOK

\* Tokens appended to a client's streams.
LEMMA AppendUpType ==
  ASSUME TypeOK, NEW k \in Conn, NEW s \in Seq(Token),
         up' = [up EXCEPT ![k] = @ \o s], UNCHANGED uprdy
  PROVE  UpType'
BY DEF TypeOK, UpType

LEMMA CliReturnType ==
  ASSUME TypeOK, NEW c \in Clients, NEW st \in States,
         CliNext(c, st) \/ CliBreak(c, st), UNCHANGED <<cpc, tx>>
  PROVE  CliType' /\ cbatch' \in [Clients -> SUBSET Conn]
BY DEF TypeOK, CliType, CliEvType, CliNext, CliBreak

LEMMA TypeCliMsg ==
  ASSUME TypeOK, NEW c \in Clients, CliMsg(c)
  PROVE  TypeOK'
<1>1. Ctl(c) \in Conn /\ Data(c) \in Conn BY ConnParts, ZenonT(30)
<1>2. SrvType' /\ HandlerType' /\ SrvEvType' BY SameTypes DEF CliMsg
<1>3. cstate[c] \in States BY SMTT(30) DEF TypeOK, CliType
<1>4. \E st \in States : CliNext(c, st) \/ CliBreak(c, st)
  BY <1>3, ZenonT(30) DEF CliMsg, CliSendConf, CliOpenData, States
<1>5. CliType' /\ cbatch' \in [Clients -> SUBSET Conn]
  BY <1>4, CliReturnType, Zenon DEF CliMsg
<1>6. CliEvType'
  <2> DEFINE fin == IF downrdy[Ctl(c)] > 1 /\ down[Ctl(c)][2] = "FIN"
                    THEN {Ctl(c)} ELSE {}
             raise == IF CliRead(Ctl(c)) = "RUNNING" /\ cstate[c] = "CREATE_STREAM"
                      THEN Writable(c) ELSE {}
  <2>1. fin \subseteq Conn /\ raise \subseteq Conn BY <1>1, Zenon DEF Writable
  <2>2. cpend' = [cpend EXCEPT ![c] = @ \cup fin \cup raise] BY Zenon DEF CliMsg
  <2> HIDE DEF fin, raise
  <2> QED BY <1>5, <2>1, <2>2 DEF TypeOK, CliEvType
<1>7. DownType'
  <2>1. downrdy[Ctl(c)] > 0
    BY <1>1, SMTT(30) DEF TypeOK, DownType, CliMsg, CliRead, Nothing
  <2>2. /\ down' = [down EXCEPT ![Ctl(c)] = Tail(@)]
        /\ downrdy' = [downrdy EXCEPT ![Ctl(c)] = @ - 1]
    BY Zenon DEF CliMsg
  <2>3. /\ down \in [Conn -> Seq(Token)] /\ downrdy \in [Conn -> Nat]
        /\ \A k \in Conn : downrdy[k] <= Len(down[k])
    BY DEF TypeOK, DownType
  <2>4. /\ Tail(down[Ctl(c)]) \in Seq(Token)
        /\ Len(Tail(down[Ctl(c)])) = Len(down[Ctl(c)]) - 1
        /\ downrdy[Ctl(c)] - 1 \in Nat
    BY <1>1, <2>1, <2>3
  <2>5. ASSUME NEW k \in Conn PROVE downrdy'[k] <= Len(down'[k])
    BY <1>1, <2>2, <2>3, <2>4
  <2>6. down' \in [Conn -> Seq(Token)] /\ downrdy' \in [Conn -> Nat]
    BY <2>2, <2>3, <2>4, Zenon
  <2> QED BY <2>5, <2>6 DEF DownType
<1>8. SockType' BY <1>1, ZenonT(30) DEF TypeOK, SockType, CliMsg, CliSendConf, CliOpenData
<1>9. NetType' BY FaultType, ZenonT(30) DEF CliMsg, CliSendConf, CliOpenData, NoFault
<1>10. UpType'
  <2>1. CASE up' = up BY <2>1, SameTypes, Zenon DEF CliMsg
  <2>2. CASE CliSendConf(c)
    <3>1. Conf \in Seq(Token) BY DEF Conf, Token, States
    <3>2. MaybeError \subseteq Seq(Token) BY DEF MaybeError, Token, States
    <3>3. CutConf \subseteq Seq(Token)
      <4>1. "PARAM_EXCHANGE" \in Token /\ "LEN" \in Token /\ "ERROR" \in Token
        BY DEF Token, States
      <4>2. /\ <<"PARAM_EXCHANGE">> \in Seq(Token)
            /\ <<"PARAM_EXCHANGE", "ERROR">> \in Seq(Token)
        BY <4>1
      <4>3. <<"PARAM_EXCHANGE", "LEN">> \in Seq(Token) BY <4>1
      <4>4. <<"PARAM_EXCHANGE", "LEN", "ERROR">> \in Seq(Token) BY <4>1
      <4> QED BY <3>2, <4>2, <4>3, <4>4, Zenon DEF CutConf
    <3>4. \E s \in Seq(Token) : up' = [up EXCEPT ![Ctl(c)] = @ \o s]
      BY <2>2, <3>1, <3>3, Zenon DEF CliSendConf
    <3> QED BY <1>1, <3>4, AppendUpType, Zenon DEF CliMsg
  <2>3. CASE CliOpenData(c)
    <3>1. MaybeError \subseteq Seq(Token) BY DEF MaybeError, Token, States
    <3>2. up' = up \/ \E s \in Seq(Token) : up' = [up EXCEPT ![Ctl(c)] = @ \o s]
      BY <2>3, <3>1 DEF CliOpenData
    <3> QED BY <1>1, <2>1, <3>2, AppendUpType, Zenon DEF CliMsg
  <2> QED BY <2>1, <2>2, <2>3, Zenon DEF CliMsg
<1> QED BY <1>2, <1>5, <1>6, <1>7, <1>8, <1>9, <1>10 DEF TypeOK

LEMMA TypeCliSend ==
  ASSUME TypeOK, NEW c \in Clients, CliSend(c)
  PROVE  TypeOK'
<1>1. Ctl(c) \in Conn /\ Data(c) \in Conn /\ Ctl(c) # Data(c) BY ConnParts, Zenon
<1>2. SrvType' /\ HandlerType' /\ SrvEvType' /\ SockType' /\ DownType'
  BY SameTypes DEF CliSend
<1>3. Sendable \subseteq Nat BY SizeAssumption DEF Sendable
<1>4. CliType'
  <2>1. cpc' = cpc BY DEF CliSend
  <2>2. cstate' \in [Clients -> States]
    BY Zenon DEF TypeOK, CliType, CliSend, CliBreak, States
  <2>3. tx' = tx \/ \E n \in Sendable : tx' = [tx EXCEPT ![c] = tx[c] + n]
    BY Zenon DEF CliSend, TxBytes
  <2>4. tx' \in [Clients -> Nat]
    <3>1. tx \in [Clients -> Nat] BY DEF TypeOK, CliType
    <3> QED BY <1>3, <2>3, <3>1, SMTT(30)
  <2> QED BY <2>1, <2>2, <2>4 DEF TypeOK, CliType
<1>5. CliEvType' BY DEF TypeOK, CliEvType, CliSend, CliBreak
<1>6. NetType' BY FaultType, Zenon DEF CliSend, WriteOutcome
<1>7. UpType'
  <2>1. CASE up' = up BY <2>1, SameTypes, Zenon DEF CliSend
  <2>2. ASSUME NEW n \in Sendable, NEW ok \in BOOLEAN,
               up' = [up EXCEPT
                        ![Data(c)] = @ \o [i \in 1..n |-> "BLOCK"],
                        ![Ctl(c)] = IF ok THEN Append(@, "END") ELSE @]
        PROVE  UpType'
    <3>1. [i \in 1..n |-> "BLOCK"] \in Seq(Token) BY <1>3, SMTT(30) DEF Token
    <3>2. \A k \in Conn : /\ up'[k] \in Seq(Token)
                          /\ Len(up[k]) <= Len(up'[k])
      <4>1. up[Data(c)] \o [i \in 1..n |-> "BLOCK"] \in Seq(Token)
        BY <1>1, <3>1 DEF TypeOK, UpType
      <4>2. \A s, t \in Seq(Token) : Len(s) <= Len(s \o t) OBVIOUS
      <4>3. Append(up[Ctl(c)], "END") \in Seq(Token)
        BY <1>1 DEF TypeOK, UpType, Token, States
      <4>4. Len(up[Ctl(c)]) <= Len(Append(up[Ctl(c)], "END"))
        BY <1>1 DEF TypeOK, UpType
      <4>5. /\ up'[Data(c)] = up[Data(c)] \o [i \in 1..n |-> "BLOCK"]
            /\ up'[Ctl(c)] \in {up[Ctl(c)], Append(up[Ctl(c)], "END")}
            /\ \A k \in Conn \ {Data(c), Ctl(c)} : up'[k] = up[k]
        BY <1>1, <2>2, Zenon DEF TypeOK, UpType
      <4>6. /\ \A k \in Conn : up[k] \in Seq(Token) BY DEF TypeOK, UpType
      <4>7. \A s \in Seq(Token) : Len(s) <= Len(s) OBVIOUS
      <4>8. Len(up[Data(c)]) <= Len(up'[Data(c)])
        BY <1>1, <3>1, <4>2, <4>5, <4>6, Zenon
      <4> QED BY <4>1, <4>3, <4>4, <4>5, <4>6, <4>7, <4>8, Zenon
    <3>3. up' \in [Conn -> Seq(Token)] 
      BY <2>2, <3>2, ZenonT(30) DEF TypeOK, UpType
    <3> QED BY <3>2, <3>3 DEF TypeOK, UpType, CliSend
  <2> QED BY <2>1, <2>2, ZenonT(30) DEF CliSend
<1> QED BY <1>2, <1>4, <1>5, <1>6, <1>7 DEF TypeOK

LEMMA TypeCli ==
  ASSUME TypeOK, NEW c \in Clients, Cli(c) \/ CliInterrupt(c)
  PROVE  TypeOK'
<1>1. CASE CliStart(c)
  <2>1. /\ SrvType' /\ HandlerType' /\ SrvEvType' /\ CliEvType' /\ UpType'
        /\ DownType'
    BY <1>1, SameTypes DEF CliStart
  <2>2. CliType' BY <1>1 DEF TypeOK, CliType, CliStart, States
  <2>3. SockType' BY <1>1, ConnParts DEF TypeOK, SockType, CliStart
  <2>4. NetType' BY <1>1, FaultType DEF CliStart
  <2> QED BY <2>1, <2>2, <2>3, <2>4 DEF TypeOK
<1>2. CASE CliEpollWait(c)
  <2>1. /\ SrvType' /\ HandlerType' /\ SrvEvType' /\ SockType' /\ UpType'
        /\ DownType' /\ NetType'
    BY <1>2, SameTypes DEF CliEpollWait
  <2>2. CliType' /\ CliEvType'
    BY <1>2 DEF TypeOK, CliType, CliEvType, CliEpollWait
  <2> QED BY <2>1, <2>2 DEF TypeOK
<1>3. CASE CliBatchDone(c)
  <2>1. CASE CliDestroy(c) BY <1>3, <2>1, TypeCliDestroy DEF CliBatchDone
  <2>2. CASE ~CliDestroy(c)
    <3>1. /\ SrvType' /\ HandlerType' /\ SrvEvType' /\ CliEvType' /\ SockType'
          /\ UpType' /\ DownType' /\ NetType'
      BY <1>3, <2>2, SameTypes, Zenon DEF CliBatchDone, NoFault
    <3>2. CliType' BY <1>3, <2>2, ZenonT(30) DEF TypeOK, CliType, CliBatchDone
    <3> QED BY <3>1, <3>2, Zenon DEF TypeOK
  <2> QED BY <2>1, <2>2
<1>4. CASE CliNoMsg(c)
  <2>1. /\ SrvType' /\ HandlerType' /\ SrvEvType' /\ SockType' /\ UpType'
        /\ DownType' /\ NetType'
    BY <1>4, SameTypes, Zenon DEF CliNoMsg
  <2>2. \E st \in States : CliNext(c, st) \/ CliBreak(c, st)
    BY <1>4, ZenonT(30) DEF TypeOK, CliType, CliNoMsg, States
  <2>3. CliType' /\ cbatch' \in [Clients -> SUBSET Conn]
    BY <1>4, <2>2, CliReturnType DEF CliNoMsg
  <2> QED BY <1>4, <2>1, <2>3, Zenon DEF TypeOK, CliEvType, CliNoMsg
<1>5. CASE CliInterrupt(c) BY <1>5, TypeCliDestroy DEF CliInterrupt
<1> QED BY <1>1, <1>2, <1>3, <1>4, <1>5, TypeCliMsg, TypeCliSend DEF Cli

LEMMA TypeNext == TypeOK /\ [Next]_vars => TypeOK'
<1>1. ASSUME TypeOK, UNCHANGED vars PROVE TypeOK'
  BY <1>1, SameTypes DEF vars, TypeOK
<1> QED BY <1>1, TypeNet, TypeSrv, TypeCli DEF Next

\* The state of the two programs is well typed in every reachable state:
\* handlers work on open descriptors and nothing is read that was not sent.
THEOREM TypeCorrect == Spec => []TypeOK
BY TypeInit, TypeNext, PTL DEF Spec

-----------------------------------------------------------------------------
(* One controller, one configuration.                                      *)

\* Taking the first token off a stream adds nothing to it; appending adds
\* only what is appended.
LEMMA HasTail ==
  ASSUME NEW s \in Seq(Token), s # <<>>, NEW S, Has(Tail(s), S)
  PROVE  Has(s, S)
<1>1. PICK i \in 1..Len(Tail(s)) : Tail(s)[i] \in S BY Zenon DEF Has
<1>2. i + 1 \in 1..Len(s) /\ s[i + 1] = Tail(s)[i] BY <1>1
<1> QED BY <1>1, <1>2 DEF Has

LEMMA HasHead ==
  ASSUME NEW s \in Seq(Token), s # <<>>, NEW S, Head(s) \in S
  PROVE  Has(s, S)
<1>1. 1 \in 1..Len(s) /\ s[1] = Head(s) OBVIOUS
<1> QED BY <1>1 DEF Has

LEMMA HasCat ==
  ASSUME NEW s \in Seq(Token), NEW t \in Seq(Token), NEW S, Has(s \o t, S)
  PROVE  Has(s, S) \/ Has(t, S)
<1>1. PICK i \in 1..Len(s \o t) : (s \o t)[i] \in S BY DEF Has
<1>2. CASE i <= Len(s) BY <1>1, <1>2 DEF Has
<1>3. CASE i > Len(s)
  <2>1. i - Len(s) \in 1..Len(t) /\ (s \o t)[i] = t[i - Len(s)] BY <1>1, <1>3
  <2> QED BY <1>1, <2>1 DEF Has
<1> QED BY <1>1, <1>2, <1>3

LEMMA HasAppend ==
  ASSUME NEW s \in Seq(Token), NEW t \in Token, NEW S, Has(Append(s, t), S)
  PROVE  Has(s, S) \/ t \in S
<1>1. PICK i \in 1..Len(Append(s, t)) : Append(s, t)[i] \in S BY DEF Has
<1>2. CASE i <= Len(s) BY <1>1, <1>2 DEF Has
<1>3. CASE i = Len(s) + 1 BY <1>1, <1>3
<1> QED BY <1>1, <1>2, <1>3

\* A step that grants nothing new in the sets of states the invariants name.
Quiet == \A c \in Clients : /\ Granted(c, Engaged)' => Granted(c, Engaged)
                            /\ Granted(c, Late)' => Granted(c, Late)

\* Neither mTCP nor a client can grant anything.
LEMMA QuietSame ==
  ASSUME TypeOK, down' = down,
         \A c \in Clients : cstate'[c] \in {cstate[c], "START", "END", "ERROR"}
  PROVE  Quiet
BY ZenonT(30) DEF Quiet, Granted, Engaged, Late

LEMMA QuietNet == ASSUME TypeOK, Net PROVE Quiet
<1>1. CASE down' = down /\ cstate' = cstate BY <1>1, QuietSame
<1> QED
  BY <1>1 DEF Net, RaiseListener, Establish, Refuse, DeliverUp, DeliverDown,
              SrvTimeout, CliTimeout

LEMMA QuietCliMsg ==
  ASSUME TypeOK, NEW c \in Clients, CliMsg(c)
  PROVE  Quiet
<1>1. Ctl(c) \in Conn /\ \A d \in Clients : d # c => Ctl(d) \in Conn \ {Ctl(c)}
  BY ConnParts
<1> DEFINE q == down[Ctl(c)]
<1>2. q \in Seq(Token) /\ q # <<>> /\ (Head(q) = CliRead(Ctl(c)))
  BY <1>1, SMTT(30) DEF TypeOK, DownType, CliMsg, CliRead, Nothing
<1>3. /\ down'[Ctl(c)] = Tail(q)
      /\ \A d \in Clients : d # c => down'[Ctl(d)] = down[Ctl(d)]
  BY <1>1, ZenonT(30) DEF TypeOK, DownType, CliMsg
<1>4. /\ \A d \in Clients : d # c => cstate'[d] = cstate[d]
      /\ cstate'[c] \in {cstate[c], "ERROR"} \/ cstate'[c] = Head(q)
  BY <1>2, Zenon DEF TypeOK, CliType, CliMsg, CliSendConf, CliOpenData, CliNext, CliBreak
<1>5. ASSUME NEW S \in {Engaged, Late}, Granted(c, S)'
      PROVE  Granted(c, S)
  <2>1. CASE Has(Tail(q), S) BY <1>2, <2>1, HasTail, Zenon DEF Granted
  <2>2. CASE cstate'[c] \in S /\ cstate'[c] = Head(q)
    BY <1>2, <2>2, HasHead, Zenon DEF Granted
  <2>3. CASE cstate'[c] \in S /\ cstate'[c] \in {cstate[c], "ERROR"}
    BY <2>3, ZenonT(30) DEF Granted, Engaged, Late
  <2> QED BY <1>3, <1>4, <1>5, <2>1, <2>2, <2>3, Zenon DEF Granted
<1>6. ASSUME NEW d \in Clients, d # c, NEW S
      PROVE  Granted(d, S)' => Granted(d, S)
  BY <1>3, <1>4, <1>6 DEF Granted
<1> QED BY <1>5, <1>6 DEF Quiet

LEMMA QuietCli ==
  ASSUME TypeOK, NEW c \in Clients, Cli(c) \/ CliInterrupt(c)
  PROVE  Quiet
<1>1. CASE CliMsg(c) BY <1>1, QuietCliMsg, Zenon
<1>2. CASE CliDestroy(c) BY <1>2, QuietSame, Zenon DEF CliDestroy
<1>3. CASE ~CliMsg(c) /\ ~CliDestroy(c)
  <2>1. down' = down
    BY <1>3, ZenonT(30) DEF Cli, CliInterrupt, CliStart, CliEpollWait, CliBatchDone, CliNoMsg,
                CliSend
  <2>2. \A d \in Clients : cstate'[d] \in {cstate[d], "START", "END", "ERROR"}
    BY <1>3, Zenon DEF TypeOK, CliType, Cli, CliInterrupt, CliStart, CliEpollWait,
                CliBatchDone, CliNoMsg, CliSend, CliNext, CliBreak
  <2> QED BY <2>1, <2>2, QuietSame, Zenon
<1> QED BY <1>1, <1>2, <1>3

\* The server grants by appending a message to a stream.
LEMMA GrantByAppend ==
  ASSUME TypeOK, cstate' = cstate, NEW k \in Conn, NEW t \in Token,
         down' = [down EXCEPT ![k] = Append(@, t)],
         NEW c \in Clients, NEW S, Granted(c, S)'
  PROVE  Granted(c, S) \/ (k = Ctl(c) /\ t \in S)
<1>1. Ctl(c) \in Conn /\ down[Ctl(c)] \in Seq(Token)
  BY ConnParts DEF TypeOK, DownType
<1>2. CASE k # Ctl(c)
  <2>1. down'[Ctl(c)] = down[Ctl(c)] BY <1>1, <1>2 DEF TypeOK, DownType
  <2> QED BY <2>1 DEF Granted
<1>3. CASE k = Ctl(c)
  <2>1. down'[Ctl(c)] = Append(down[Ctl(c)], t)
    BY <1>1, <1>3 DEF TypeOK, DownType
  <2> QED BY <1>1, <1>3, <2>1, HasAppend DEF Granted
<1> QED BY <1>2, <1>3

LEMMA QuietAppend ==
  ASSUME TypeOK, cstate' = cstate, NEW k \in Conn, NEW t \in Token \ Engaged,
         down' = [down EXCEPT ![k] = Append(@, t)]
  PROVE  Quiet
<1>1. t \notin Engaged /\ t \notin Late /\ t \in Token BY DEF Engaged, Late
<1> QED BY <1>1, GrantByAppend, Zenon DEF Quiet

LEMMA QuietSrvFails ==
  ASSUME TypeOK, cstate' = cstate, ctlfd \in Conn, NEW ok \in BOOLEAN, SrvFails(ok)
  PROVE  Quiet
<1>1. CASE down' = down BY <1>1, QuietSame
<1>2. CASE down' = [down EXCEPT ![ctlfd] = Append(@, "ERROR")]
  <2>1. "ERROR" \in Token \ Engaged BY DEF Token, States, Engaged
  <2> QED BY <1>2, <2>1, QuietAppend, Zenon
<1> QED BY <1>1, <1>2 DEF SrvFails, SrvWrite

LEMMA QuietSrvDestroy ==
  ASSUME TypeOK, SrvDestroy
  PROVE  Quiet
<1>1. cstate' = cstate BY Zenon DEF SrvDestroy
<1>2. \A c \in Clients : \/ down'[Ctl(c)] = down[Ctl(c)]
                         \/ down'[Ctl(c)] = Append(down[Ctl(c)], "FIN")
  BY ConnParts DEF SrvDestroy
<1>3. \A c \in Clients : down[Ctl(c)] \in Seq(Token)
  BY ConnParts DEF TypeOK, DownType
<1>4. "FIN" \in Token /\ "FIN" \notin Engaged /\ "FIN" \notin Late
  BY DEF Token, Engaged, Late
<1> QED BY <1>1, <1>2, <1>3, <1>4, HasAppend, ZenonT(30) DEF Quiet, Granted

\* A step that grants nothing and keeps the controller, or ends the server.
LEMMA QuietKeeps ==
  ASSUME ControllerInv, Quiet,
         \/ ctlfd' = ctlfd /\ (spc = "over" => spc' = "over")
         \/ spc' = "over"
  PROVE  ControllerInv'
BY DEF ControllerInv, Quiet

LEMMA QuietKeepsConf ==
  ASSUME ConfInv, Quiet, sconf' = sconf,
         \/ sstate' \notin Late \/ spc' = "over"
         \/ sstate' = sstate /\ ctlfd' = ctlfd /\ spc # "over"
  PROVE  ConfInv'
BY DEF ConfInv, Quiet

\* The two invariants together.
SessionInv == ControllerInv /\ ConfInv

LEMMA SessionAcceptCtl ==
  ASSUME TypeOK, SessionInv, NEW k \in Conn, NEW ok \in BOOLEAN,
         SrvAcceptCtl(k, ok)
  PROVE  SessionInv'
<1>1. \A c \in Clients : ~Granted(c, Engaged) /\ ~Granted(c, Late)
  <2>1. \A c \in Clients : ctlfd # Ctl(c) /\ spc # "over"
    BY ConnParts, FdAssumption, Zenon DEF SrvAcceptCtl, ServerFree, Accepting
  <2>2. \A c \in Clients : Granted(c, Late) => Granted(c, Engaged)
    BY Zenon DEF Granted, Has, Late, Engaged
  <2> QED BY <2>1, <2>2 DEF SessionInv, ControllerInv
<1>2. ctlfd' = k /\ cstate' = cstate /\ sstate' = "PARAM_EXCHANGE"
  BY DEF SrvAcceptCtl
<1>3. ASSUME NEW c \in Clients
      PROVE  /\ Granted(c, Engaged)' => ctlfd' = Ctl(c)
             /\ ~Granted(c, Late)'
  <2>1. CASE ok
    <3>1. "PARAM_EXCHANGE" \in Token /\ "PARAM_EXCHANGE" \notin Late
      BY Zenon DEF Token, States, Late
    <3>2. down' = [down EXCEPT ![k] = Append(@, "PARAM_EXCHANGE")]
      BY <2>1 DEF SrvAcceptCtl
    <3> QED BY <1>1, <1>2, <3>1, <3>2, GrantByAppend, Zenon
  <2>2. CASE ~ok
    <3>1. "FIN" \in Token \ Engaged BY Zenon DEF Token, Engaged
    <3>2. down' = [down EXCEPT ![k] = Append(@, "FIN")]
      BY <2>2 DEF SrvAcceptCtl
    <3> QED BY <1>1, <1>2, <3>1, <3>2, QuietAppend, Zenon DEF Quiet
  <2> QED BY <2>1, <2>2, Zenon
<1>4. ControllerInv' BY <1>3, ConnParts DEF ControllerInv
<1>5. ConfInv' BY <1>2, <1>3, SMTT(30) DEF ConfInv, Late
<1> QED BY <1>4, <1>5 DEF SessionInv

LEMMA SessionAcceptData ==
  ASSUME TypeOK, SessionInv, NEW k \in Conn, NEW ok \in BOOLEAN,
         SrvAcceptData(k, ok)
  PROVE  SessionInv'
<1>1. /\ ctlfd' = ctlfd /\ cstate' = cstate /\ sconf' = sconf
      /\ sstate = "CREATE_STREAM" /\ spc = "loop" /\ spc' = "loop"
  BY DEF SrvAcceptData, WantsData, Accepting
<1>2. ctlfd \in Conn /\ sconf = ctlfd[1] /\ sconf \notin BadVersion
  BY <1>1 DEF SessionInv, ConfInv, Late
<1>3. ASSUME NEW c \in Clients, NEW S \in {Engaged, Late}, Granted(c, S)'
      PROVE  Granted(c, S) \/ ctlfd = Ctl(c)
  <2>1. CASE ok
    <3>1. "RUNNING" \in Token BY DEF Token, States
    <3>2. down' = [down EXCEPT ![ctlfd] = Append(@, "RUNNING")]
      BY <2>1 DEF SrvAcceptData
    <3> QED BY <1>1, <1>2, <1>3, <3>1, <3>2, GrantByAppend, Zenon
  <2>2. CASE ~ok
    <3>1. "FIN" \in Token \ Engaged BY DEF Token, Engaged
    <3>2. down' = [down EXCEPT ![k] = Append(@, "FIN")]
      BY <2>2 DEF SrvAcceptData
    <3> QED BY <1>1, <1>3, <3>1, <3>2, QuietAppend, Zenon DEF Quiet
  <2> QED BY <2>1, <2>2
<1>4. ControllerInv' BY <1>1, <1>3, ConnParts DEF SessionInv, ControllerInv
<1>5. \A c \in Clients : ctlfd = Ctl(c) => ctlfd[1] = c BY DEF Ctl
<1>6. ConfInv' BY <1>1, <1>2, <1>3, <1>5 DEF SessionInv, ConfInv
<1> QED BY <1>4, <1>6 DEF SessionInv

LEMMA SessionReadJson ==
  ASSUME TypeOK, SessionInv, SrvReadJson
  PROVE  SessionInv'
<1>1. /\ ctlfd' = ctlfd /\ cstate' = cstate /\ spc = "json" /\ ctlfd \in Conn
      /\ spc' = "loop"
  BY FdAssumption, ZenonT(30) DEF TypeOK, SrvType, HandlerType, SrvReadJson, SrvFails
<1>2. \A c \in Clients : ctlfd = Ctl(c) => ctlfd[1] = c BY DEF Ctl
<1>3. CASE \E ok \in BOOLEAN : SrvFails(ok)
  <2>1. Quiet BY <1>1, <1>3, QuietSrvFails
  <2>2. sstate' = "ERROR" BY <1>3 DEF SrvFails
  <2>3. ControllerInv' BY <1>1, <2>1, QuietKeeps DEF SessionInv
  <2>4. \A c \in Clients : Granted(c, Late)' => ctlfd = Ctl(c) /\ sconf = c
    <3>1. \A c \in Clients : Granted(c, Late) => Granted(c, Engaged)
      BY ZenonT(30) DEF Granted, Has, Late, Engaged
    <3> QED BY <1>1, <2>1, <3>1 DEF Quiet, SessionInv, ControllerInv, ConfInv
  <2>5. sconf' \in {sconf, ctlfd[1]} BY ZenonT(30) DEF SrvReadJson
  <2>6. ConfInv'
    BY <1>2, <2>1, <2>2, <2>4, <2>5 DEF SessionInv, ConfInv, Late, Quiet
  <2> QED BY <2>3, <2>6 DEF SessionInv
<1>4. ASSUME NEW ok \in BOOLEAN, SrvWrite(ctlfd, "CREATE_STREAM", ok),
             SameVersion(ctlfd[1]), sconf' = ctlfd[1],
             sstate' = IF ok THEN "CREATE_STREAM" ELSE "ERROR"
      PROVE  SessionInv'
  <2>1. ASSUME NEW c \in Clients, NEW S \in {Engaged, Late}, Granted(c, S)'
        PROVE  Granted(c, S) \/ ctlfd = Ctl(c)
    <3>1. CASE down' = down BY <1>1, <2>1, <3>1 DEF Granted
    <3>2. CASE down' = [down EXCEPT ![ctlfd] = Append(@, "CREATE_STREAM")]
      <4>1. "CREATE_STREAM" \in Token BY DEF Token, States
      <4> QED BY <1>1, <2>1, <3>2, <4>1, GrantByAppend, ZenonT(30)
    <3> QED BY <1>4, <3>1, <3>2, Zenon DEF SrvWrite
  <2>2. \A c \in Clients : Granted(c, Late) => Granted(c, Engaged)
    BY DEF Granted, Has, Late, Engaged
  <2>3. ControllerInv'
    BY <1>1, <2>1, ConnParts DEF SessionInv, ControllerInv
  <2>4. \A c \in Clients : Granted(c, Late)' => ctlfd = Ctl(c)
    BY <1>1, <2>1, <2>2 DEF SessionInv, ControllerInv
  <2>5. ConfInv' BY <1>1, <1>2, <1>4, <2>4 DEF ConfInv, SameVersion
  <2> QED BY <2>3, <2>5 DEF SessionInv
<1> QED BY <1>3, <1>4, Zenon DEF SrvReadJson

LEMMA SessionDeny ==
  ASSUME TypeOK, SessionInv, NEW k \in Conn, NEW ok \in BOOLEAN, SrvDeny(k, ok)
  PROVE  SessionInv'
<1>1. UNCHANGED <<ctlfd, cstate, sconf, sstate, spc>> /\ spc = "loop"
  BY DEF SrvDeny, Accepting
<1>2. DenyReply(ok) \in Seq(Token) /\ ~Has(DenyReply(ok), Engaged)
      /\ ~Has(DenyReply(ok), Late)
  <2>1. CASE ok
    <3>1. <<"ACCESS_DENY", "FIN">> \in Seq(Token) BY DEF Token
    <3> QED BY <2>1, <3>1 DEF DenyReply, Has, Engaged, Late
  <2>2. CASE ~ok
    <3>1. <<"FIN">> \in Seq(Token) BY SMTT(30) DEF Token
    <3> QED BY <2>2, <3>1 DEF DenyReply, Has, Engaged, Late
  <2> QED BY <2>1, <2>2
<1>3. ASSUME NEW c \in Clients, NEW S \in {Engaged, Late}, Granted(c, S)'
      PROVE  Granted(c, S)
  <2>1. Ctl(c) \in Conn /\ down[Ctl(c)] \in Seq(Token)
    BY ConnParts DEF TypeOK, DownType
  <2>2. \/ down'[Ctl(c)] = down[Ctl(c)]
        \/ down'[Ctl(c)] = down[Ctl(c)] \o DenyReply(ok)
    BY <2>1, Zenon DEF TypeOK, DownType, SrvDeny
  <2>3. Has(down[Ctl(c)] \o DenyReply(ok), S) => Has(down[Ctl(c)], S)
    BY <1>2, <2>1, HasCat
  <2>4. Has(down'[Ctl(c)], S) => Has(down[Ctl(c)], S)
    BY <2>2, <2>3, Zenon
  <2> QED BY <1>1, <1>3, <2>4 DEF Granted
<1>4. Quiet BY <1>3 DEF Quiet
<1> QED BY <1>1, <1>4, QuietKeeps, QuietKeepsConf, SMTT(30) DEF SessionInv

\* mperf_handle_server_msg() and JSON_read() before the configuration is in.
LEMMA SessionMsg ==
  ASSUME TypeOK, SessionInv, SrvMsg \/ SrvReadLen
  PROVE  SessionInv'
<1>1. /\ ctlfd' = ctlfd /\ cstate' = cstate /\ sconf' = sconf
      /\ spc \in {"loop", "len"} /\ spc' \in {"loop", "len", "json"}
  BY Zenon DEF SrvMsg, SrvReadLen, SrvFails
<1>2. ctlfd \in Conn
  BY FdAssumption, Zenon DEF TypeOK, SrvType, SrvEvType, HandlerType, SrvMsg, SrvReadLen
<1>3. CASE \E ok \in BOOLEAN : SrvFails(ok)
  <2>1. Quiet BY <1>1, <1>2, <1>3, QuietSrvFails
  <2>2. sstate' \notin Late BY <1>3 DEF SrvFails, Late
  <2> QED BY <1>1, <2>1, <2>2, QuietKeeps, QuietKeepsConf DEF SessionInv
<1>4. CASE down' = down /\ sstate' \in {sstate, "END", "ERROR"}
  <2>1. Quiet BY <1>1, <1>4, QuietSame
  <2>2. sstate' = sstate \/ sstate' \notin Late BY <1>4 DEF Late
  <2> QED BY <1>1, <2>1, <2>2, QuietKeeps, QuietKeepsConf DEF SessionInv
<1> QED BY <1>3, <1>4, Zenon DEF SrvMsg, SrvReadLen

LEMMA SessionSrv ==
  ASSUME TypeOK, SessionInv, Srv \/ SrvInterrupt
  PROVE  SessionInv'
<1>1. CASE SrvDestroy
  <2>1. spc' = "over" /\ sconf' = sconf BY <1>1 DEF SrvDestroy
  <2> QED BY <1>1, <2>1, QuietSrvDestroy, QuietKeeps, QuietKeepsConf, Zenon
          DEF SessionInv
<1>2. CASE /\ SrvListen \/ SrvEpollWait \/ SrvBatchDone \/ SrvAcceptFails
              \/ SrvRecvStart \/ SrvRecv
           /\ ~SrvDestroy
  <2>1. /\ UNCHANGED <<ctlfd, cstate, sconf, down>> /\ spc # "over"
        /\ sstate' \in {sstate, "START", "ERROR"}
    BY <1>2, Zenon DEF SrvListen, SrvEpollWait, SrvBatchDone, SrvAcceptFails,
                SrvRecvStart, SrvRecv
  <2>2. Quiet BY <2>1, QuietSame
  <2>3. sstate' = sstate \/ sstate' \notin Late BY <2>1 DEF Late
  <2> QED BY <2>1, <2>2, <2>3, QuietKeeps, QuietKeepsConf, Zenon DEF SessionInv
<1> QED
  BY <1>1, <1>2, SessionAcceptCtl, SessionAcceptData, SessionDeny, SessionMsg,
     SessionReadJson DEF Srv, SrvInterrupt

LEMMA SessionInit == Init => SessionInv
<1> SUFFICES ASSUME Init PROVE SessionInv OBVIOUS
<1>1. \A c \in Clients, S \in {Engaged, Late} : ~Granted(c, S)
  BY ConnParts DEF Init, Granted, Has, Engaged, Late
<1> QED BY <1>1, SMTT(30) DEF Init, SessionInv, ControllerInv, ConfInv, Late

LEMMA SessionNext == TypeOK /\ SessionInv /\ [Next]_vars => SessionInv'
<1> SUFFICES ASSUME TypeOK, SessionInv, [Next]_vars PROVE SessionInv' OBVIOUS
<1>1. CASE Quiet /\ UNCHANGED <<ctlfd, spc, sconf, sstate>>
  BY <1>1, QuietKeeps, QuietKeepsConf DEF SessionInv
<1>2. CASE Net
  <2>1. UNCHANGED <<ctlfd, spc, sconf, sstate>>
    BY <1>2, Zenon DEF Net, RaiseListener, Establish, Refuse, DeliverUp, DeliverDown,
                SrvTimeout, CliTimeout
  <2> QED BY <1>1, <1>2, <2>1, QuietNet, Zenon
<1>3. ASSUME NEW c \in Clients, Cli(c) \/ CliInterrupt(c)
      PROVE  SessionInv'
  <2>1. UNCHANGED <<ctlfd, spc, sconf, sstate>>
    BY <1>3, Zenon DEF Cli, CliInterrupt, CliStart, CliEpollWait, CliBatchDone, CliNoMsg,
                CliMsg, CliSend, CliDestroy
  <2> QED BY <1>1, <1>3, <2>1, QuietCli, Zenon
<1>4. CASE UNCHANGED vars
  <2>1. UNCHANGED <<ctlfd, spc, sconf, sstate, down, cstate>> BY <1>4 DEF vars
  <2> QED BY <1>1, <2>1, QuietSame, SMTT(30)
<1> QED BY <1>2, <1>3, <1>4, SessionSrv DEF Next

LEMMA SessionInvHolds == Spec => []SessionInv
<1>1. TypeOK /\ SessionInv /\ [Next]_vars => (TypeOK /\ SessionInv)'
  BY TypeNext, SessionNext
<1> QED BY TypeInit, SessionInit, <1>1, PTL DEF Spec

\* The server runs one test at a time, whatever the number of clients: only
\* the client whose control connection mperf_accept() took leaves START.
THEOREM OneControllerHolds == Spec => []OneController
<1>1. SessionInv => OneController
  BY Zenon DEF SessionInv, ControllerInv, OneController, Granted
<1> QED BY SessionInvHolds, <1>1, PTL

\* Neither side is past PARAM_EXCHANGE without the server having stored the
\* configuration of that very client, of its own version.
THEOREM ConfAgreedHolds == Spec => []ConfAgreed
<1>1. SessionInv => ConfAgreed
  BY DEF SessionInv, ConfInv, ConfAgreed, Granted
<1> QED BY SessionInvHolds, <1>1, PTL

-----------------------------------------------------------------------------
(* The phases of a test and its data connection. *)

\* No two clients share an address, and an address is never the -1 of a
\* server without a client.
OwnAddresses ==
  /\ \A c, d \in Clients : Host[c] = Host[d] => c = d
  /\ NoFd \notin Hosts

\* Where the two state machines are before their first step, between a control
\* connection and none, and inside JSON_read().
PhaseInv ==
  /\ spc = "init" => sstate = "UNINIT"
  /\ spc \notin {"init", "over"} /\ ctlfd = NoFd => sstate = "START"
  /\ spc \in {"len", "json"} => sstate = "PARAM_EXCHANGE"
  /\ spc \in {"init", "over"} => ctlfd = NoFd /\ datafd = NoFd
  /\ datafd # NoFd => ctlfd # NoFd
  /\ \A c \in Clients : cpc[c] = "init" => cstate[c] = "UNINIT"

\* A connection is asked for once, and a data connection only by the client
\* that has the server; it is in the accept queue once, and not after it was
\* accepted.
AfterParam == {"CREATE_STREAM", "RUNNING", "END", "ERROR"}
ConnectInv ==
  /\ \A c \in Clients : cpc[c] = "init" => cs[Ctl(c)] = "none"
  /\ \A c \in Clients :
       cs[Data(c)] # "none" => /\ spc = "over" \/ ctlfd = Ctl(c)
                               /\ cstate[c] \in AfterParam
  /\ \A k \in Conn : cs[k] \in {"none", "synsent"} => ss[k] = "none"
QueueInv ==
  /\ \A i \in 1..Len(acceptq) : ss[acceptq[i]] = "queued"
  /\ \A i, j \in 1..Len(acceptq) : acceptq[i] = acceptq[j] => i = j
Settled(k) == ss[k] \notin {"none", "queued"}
FdInv ==
  /\ ctlfd # NoFd => ctlfd[2] = "ctl" /\ Settled(ctlfd)
  /\ clihost # NoFd => ctlfd # NoFd /\ clihost = Host[ctlfd[1]]
  /\ datafd # NoFd => datafd = Data(ctlfd[1]) /\ Settled(datafd)
Run == {"RUNNING"}
RunningInv ==
  \A c \in Clients : Granted(c, Run) => Settled(Data(c))
DataInv == ConnectInv /\ QueueInv /\ FdInv /\ RunningInv

-----------------------------------------------------------------------------
(* Sequences. *)

LEMMA ElementIs ==
  ASSUME NEW S, NEW q \in Seq(S), NEW n \in 1..Len(q)
  PROVE  q[n] \in S
OBVIOUS

LEMMA TailIs ==
  ASSUME NEW S, NEW q \in Seq(S), q # <<>>
  PROVE  /\ Len(q) \in Nat \ {0} /\ Head(q) \in S /\ Tail(q) \in Seq(S)
         /\ Len(Tail(q)) = Len(q) - 1
         /\ \A i \in 1..Len(Tail(q)) : Tail(q)[i] = q[i + 1]
OBVIOUS

LEMMA AppendIs ==
  ASSUME NEW S, NEW q \in Seq(S), NEW t \in S
  PROVE  /\ Append(q, t) \in Seq(S) /\ Len(Append(q, t)) = Len(q) + 1
         /\ Append(q, t)[Len(q) + 1] = t
         /\ \A i \in 1..Len(q) : Append(q, t)[i] = q[i]
OBVIOUS

LEMMA CatIs ==
  ASSUME NEW S, NEW q \in Seq(S), NEW r \in Seq(S)
  PROVE  /\ q \o r \in Seq(S) /\ Len(q \o r) = Len(q) + Len(r)
         /\ \A i \in 1..(Len(q) + Len(r)) :
              (q \o r)[i] = IF i <= Len(q) THEN q[i] ELSE r[i - Len(q)]
OBVIOUS

-----------------------------------------------------------------------------
(* The order of the phases. *)

\* One phase on, or to the end of the test.
Moves(from, to) ==
  \/ to = from \/ to \in {"END", "ERROR"}
  \/ from = "UNINIT" /\ to = "START"
  \/ from = "START" /\ to = "PARAM_EXCHANGE"
  \/ from = "PARAM_EXCHANGE" /\ to = "CREATE_STREAM"
  \/ from = "CREATE_STREAM" /\ to = "RUNNING"

LEMMA MovesAdvance ==
  ASSUME NEW a \in States, NEW b \in States, Moves(a, b)
  PROVE  Advance(a, b)
<1>1. /\ Rank("UNINIT") = 0 /\ Rank("START") = 1 /\ Rank("PARAM_EXCHANGE") = 2
      /\ Rank("CREATE_STREAM") = 3 /\ Rank("RUNNING") = 4 /\ Rank("END") = 5 /\ Rank("ERROR") = 5
  BY DEF Rank
<1>2. \A s \in States : Rank(s) \in 0..5
  BY <1>1, SMTT(30) DEF States
<1> QED
  BY <1>1, <1>2 DEF Moves, Advance

LEMMA PhaseInit == Init => PhaseInv
BY Zenon DEF Init, PhaseInv

LEMMA PhaseSrv ==
  ASSUME TypeOK, PhaseInv, Srv \/ SrvInterrupt
  PROVE  PhaseInv' /\ Moves(sstate, sstate') /\ cstate' = cstate
<1>0. /\ ctlfd \in Conn \cup {NoFd} /\ datafd \in Conn \cup {NoFd}
      /\ sbatch \subseteq Conn \cup {ListenFd}
      /\ spc = "recv" => datafd # NoFd
      /\ spc \in {"len", "json"} => ctlfd # NoFd
  BY Zenon DEF TypeOK, SrvType, SrvEvType, HandlerType
<1> USE FdAssumption DEF PhaseInv, Moves
<1>1. CASE SrvListen
  BY <1>1, Zenon DEF SrvListen
<1>2. CASE SrvEpollWait \/ SrvRecvStart
  BY <1>2, ZenonT(30) DEF SrvEpollWait, SrvRecvStart
<1>3. CASE SrvDestroy
  BY <1>3, ZenonT(30) DEF SrvDestroy
<1>4. CASE SrvBatchDone /\ ~SrvDestroy
  BY <1>4 DEF SrvBatchDone
<1>5. CASE SrvAcceptFails
  BY <1>5, Zenon DEF SrvAcceptFails
<1>6. ASSUME NEW k \in Conn, NEW ok \in BOOLEAN, SrvAcceptCtl(k, ok)
      PROVE  PhaseInv' /\ Moves(sstate, sstate') /\ cstate' = cstate
  BY <1>6, Zenon DEF SrvAcceptCtl, Accepting, ServerFree
<1>7. ASSUME NEW k \in Conn, NEW ok \in BOOLEAN, SrvAcceptData(k, ok)
      PROVE  PhaseInv' /\ Moves(sstate, sstate') /\ cstate' = cstate
  BY <1>7, ZenonT(30) DEF SrvAcceptData, Accepting, ServerFree, WantsData
<1>8. ASSUME NEW k \in Conn, NEW ok \in BOOLEAN, SrvDeny(k, ok)
      PROVE  PhaseInv' /\ Moves(sstate, sstate') /\ cstate' = cstate
  BY <1>8 DEF SrvDeny, Accepting
<1>9. CASE SrvMsg
  <2>1. /\ ctlfd # NoFd /\ spc = "loop"
        /\ UNCHANGED <<ctlfd, datafd, cpc, cstate>>
    BY <1>0, <1>9 DEF SrvMsg
  <2>2. \/ spc' = spc /\ sstate' \in {sstate, "END", "ERROR"}
        \/ spc' = "len" /\ sstate' = sstate /\ sstate = "PARAM_EXCHANGE"
    BY <1>9, Zenon DEF SrvMsg, SrvFails
  <2> QED
    BY <2>1, <2>2, ZenonT(30)
<1>10. CASE SrvReadLen
  <2>1. /\ ctlfd # NoFd /\ spc = "len" /\ UNCHANGED <<ctlfd, datafd, cpc, cstate>>
        /\ (spc' = "json" /\ sstate' = sstate) \/ (spc' = "loop" /\ sstate' = "ERROR")
    BY <1>0, <1>10, Zenon DEF SrvReadLen, SrvFails
  <2> QED
    BY <2>1
<1>11. CASE SrvReadJson
  <2>1. /\ ctlfd # NoFd /\ spc = "json" /\ UNCHANGED <<ctlfd, datafd, cpc, cstate>>
        /\ spc' = "loop" /\ sstate' \in {"CREATE_STREAM", "ERROR"}
    BY <1>0, <1>11, Zenon DEF SrvReadJson, SrvFails
  <2> QED
    BY <2>1
<1>12. CASE SrvRecv
  <2>1. /\ datafd # NoFd /\ spc = "recv" /\ UNCHANGED <<ctlfd, datafd, cpc, cstate>>
        /\ spc' \in {"loop", "recv"} /\ sstate' \in {sstate, "ERROR"}
    BY <1>0, <1>12, Zenon DEF SrvRecv
  <2> QED
    BY <2>1
<1> HIDE DEF PhaseInv, Moves
<1> QED
  BY <1>1, <1>2, <1>3, <1>4, <1>5, <1>6, <1>7, <1>8, <1>9, <1>10, <1>11, <1>12, Zenon DEF Srv, SrvInterrupt

LEMMA PhaseCli ==
  ASSUME TypeOK, PhaseInv, NEW c \in Clients, Cli(c) \/ CliInterrupt(c)
  PROVE  /\ PhaseInv' /\ sstate' = sstate
         /\ \A d \in Clients : Moves(cstate[d], cstate'[d])
<1>0. /\ cpc \in [Clients -> {"init", "wait", "loop", "over"}] /\ cstate \in [Clients -> States]
  BY ZenonT(30) DEF TypeOK, CliType
<1>1. UNCHANGED <<spc, sstate, ctlfd, datafd>>
  BY ZenonT(30) DEF Cli, CliInterrupt, CliStart, CliEpollWait, CliBatchDone, CliNoMsg, CliMsg, CliSend,
         CliDestroy
<1>2. ASSUME \A d \in Clients : Moves(cstate[d], cstate'[d]),
             \A d \in Clients : cpc'[d] = "init" => cpc[d] = "init" /\ cstate'[d] = cstate[d]
      PROVE  /\ PhaseInv' /\ sstate' = sstate
             /\ \A d \in Clients : Moves(cstate[d], cstate'[d])
  BY <1>1, <1>2, ZenonT(30) DEF PhaseInv
<1>3. CASE CliStart(c)
  <2>1. cstate[c] = "UNINIT"
    BY <1>3 DEF CliStart, PhaseInv
  <2>2. /\ cpc' = [cpc EXCEPT ![c] = "over"] \/ cpc' = [cpc EXCEPT ![c] = "wait"]
        /\ cstate' = [cstate EXCEPT ![c] = "ERROR"] \/ cstate' = [cstate EXCEPT ![c] = "START"]
    BY <1>3 DEF CliStart
  <2> QED
    BY <1>0, <1>2, <2>1, <2>2, Zenon DEF Moves
<1>4. CASE CliEpollWait(c) \/ CliBatchDone(c) \/ CliInterrupt(c)
  <2>1. /\ cstate' = cstate
        /\ \E w \in {"loop", "wait", "over"} : cpc' = [cpc EXCEPT ![c] = w]
    BY <1>4 DEF CliEpollWait, CliBatchDone, CliInterrupt, CliDestroy
  <2> QED
    BY <1>0, <1>2, <2>1, ZenonT(30) DEF Moves
<1>5. CASE CliNoMsg(c) \/ CliMsg(c) \/ CliSend(c)
  <2>1. cpc' = cpc /\ cpc[c] = "loop"
    BY <1>5, Zenon DEF CliNoMsg, CliMsg, CliSend
  <2>2. PICK s \in States : cstate' = [cstate EXCEPT ![c] = s] /\ Moves(cstate[c], s)
    <3>1. CASE CliNoMsg(c)
      BY <1>0, <3>1, Zenon DEF CliNoMsg, CliNext, CliBreak, Moves, States
    <3>2. CASE CliMsg(c)
      BY <1>0, <3>2, Zenon DEF CliMsg, CliSendConf, CliOpenData, CliNext, CliBreak, Moves, States
    <3>3. CASE CliSend(c)
      BY <1>0, <3>3, Zenon DEF CliSend, CliBreak, Moves, States
    <3> QED
      BY <1>5, <3>1, <3>2, <3>3
  <2> QED
    BY <1>0, <1>2, <2>1, <2>2, ZenonT(30) DEF Moves
<1> QED
  BY <1>3, <1>4, <1>5 DEF Cli

LEMMA PhaseNext ==
  ASSUME TypeOK, PhaseInv, [Next]_vars
  PROVE  /\ PhaseInv' /\ Moves(sstate, sstate')
         /\ \A c \in Clients : Moves(cstate[c], cstate'[c])
<1>1. CASE UNCHANGED <<spc, sstate, ctlfd, datafd, cpc, cstate>>
  BY <1>1, Zenon DEF PhaseInv, Moves
<1>2. CASE Net
  BY <1>1, <1>2, ZenonT(30) DEF Net, RaiseListener, Establish, Refuse, DeliverUp, DeliverDown, SrvTimeout,
                    CliTimeout
<1>3. CASE UNCHANGED vars
  BY <1>1, <1>3 DEF vars
<1>4. CASE Srv \/ SrvInterrupt
  BY <1>4, PhaseSrv, Zenon DEF Moves
<1>5. ASSUME NEW c \in Clients, Cli(c) \/ CliInterrupt(c)
      PROVE  /\ PhaseInv' /\ Moves(sstate, sstate')
             /\ \A d \in Clients : Moves(cstate[d], cstate'[d])
  BY <1>5, PhaseCli, Zenon DEF Moves
<1> QED
  BY <1>2, <1>3, <1>4, <1>5, ZenonT(30) DEF Next

LEMMA PhaseInvHolds == Spec => [](TypeOK /\ PhaseInv)
<1>1. TypeOK /\ PhaseInv /\ [Next]_vars => (TypeOK /\ PhaseInv)'
  BY TypeNext, PhaseNext
<1> QED
  BY TypeInit, PhaseInit, <1>1, PTL DEF Spec

\* ctx->test_state goes through its phases in order on both sides and never back, with any
\* number of clients, however the messages are cut and whichever calls fail.
THEOREM PhasesAreInOrder == Spec => PhasesInOrder
<1>1. TypeOK /\ TypeOK' /\ PhaseInv /\ [Next]_vars =>
        [/\ Advance(sstate, sstate')
         /\ \A c \in Clients : Advance(cstate[c], cstate'[c])]_vars
  <2> SUFFICES ASSUME TypeOK, TypeOK', PhaseInv, [Next]_vars
               PROVE  /\ Advance(sstate, sstate')
                      /\ \A c \in Clients : Advance(cstate[c], cstate'[c])
    BY Zenon
  <2>1. /\ sstate \in States /\ sstate' \in States
        /\ \A c \in Clients : cstate[c] \in States /\ cstate'[c] \in States
    BY DEF TypeOK, SrvType, CliType
  <2> QED
    BY <2>1, PhaseNext, MovesAdvance, Zenon
<1> QED
  BY PhaseInvHolds, <1>1, PTL DEF Spec, PhasesInOrder

-----------------------------------------------------------------------------
(* Only mperf_accept() of a data connection sends RUNNING. *)

LEMMA RunServer ==
  ASSUME TypeOK, cstate' = cstate, NEW c \in Clients,
         \/ down' = down
         \/ \E k \in Conn, t \in Token \ Run : down' = [down EXCEPT ![k] = Append(@, t)]
  PROVE  Granted(c, Run)' => Granted(c, Run)
<1>1. CASE down' = down
  BY <1>1 DEF Granted
<1>2. CASE down' # down
  <2>1. PICK k \in Conn, t \in Token \ Run : down' = [down EXCEPT ![k] = Append(@, t)]
    BY <1>2
  <2>2. t \in Token /\ t \notin Run
    OBVIOUS
  <2> QED
    BY <2>1, <2>2, GrantByAppend, Zenon
<1> QED
  BY <1>1, <1>2

LEMMA RunSrv ==
  ASSUME TypeOK, Srv \/ SrvInterrupt, ~\E k \in Conn : SrvAcceptData(k, TRUE), NEW c \in Clients
  PROVE  Granted(c, Run)' => Granted(c, Run)
<1>0. cstate' = cstate
  BY ZenonT(30) DEF Srv, SrvInterrupt, SrvListen, SrvEpollWait, SrvBatchDone, SrvDestroy, SrvAcceptFails,
         SrvAcceptCtl, SrvAcceptData, SrvDeny, SrvMsg, SrvReadLen, SrvReadJson, SrvRecvStart, SrvRecv
<1>t. /\ "FIN" \in Token \ Run /\ "ERROR" \in Token \ Run /\ "PARAM_EXCHANGE" \in Token \ Run
      /\ "CREATE_STREAM" \in Token \ Run
  BY DEF Token, States, Run
<1>c. Ctl(c) \in Conn /\ down[Ctl(c)] \in Seq(Token)
  BY ConnParts DEF TypeOK, DownType
<1>1. CASE \/ down' = down
           \/ \E k \in Conn, t \in Token \ Run : down' = [down EXCEPT ![k] = Append(@, t)]
  BY <1>0, <1>1, RunServer
<1>2. CASE SrvListen \/ SrvEpollWait \/ SrvAcceptFails \/ SrvRecvStart \/ SrvRecv
  BY <1>1, <1>2, Zenon DEF SrvListen, SrvEpollWait, SrvAcceptFails, SrvRecvStart, SrvRecv
<1>3. CASE SrvDestroy
  <2>1. down'[Ctl(c)] = down[Ctl(c)] \/ down'[Ctl(c)] = Append(down[Ctl(c)], "FIN")
    BY <1>3, <1>c DEF SrvDestroy
  <2> QED
    BY <1>0, <1>t, <1>c, <2>1, HasAppend, Zenon DEF Granted, Run
<1>4. CASE SrvBatchDone /\ ~SrvDestroy
  BY <1>1, <1>4 DEF SrvBatchDone
<1>5. ASSUME NEW k \in Conn, NEW ok \in BOOLEAN, SrvAcceptCtl(k, ok)
      PROVE  Granted(c, Run)' => Granted(c, Run)
  <2>1. down' = [down EXCEPT ![k] = Append(@, "PARAM_EXCHANGE")]
        \/ down' = [down EXCEPT ![k] = Append(@, "FIN")]
    BY <1>5, Zenon DEF SrvAcceptCtl
  <2> QED
    BY <1>1, <1>t, <2>1
<1>6. ASSUME NEW k \in Conn, NEW ok \in BOOLEAN, SrvAcceptData(k, ok)
      PROVE  Granted(c, Run)' => Granted(c, Run)
  <2>1. ~ok
    BY <1>6, Zenon
  <2>2. down' = [down EXCEPT ![k] = Append(@, "FIN")]
    BY <1>6, <2>1 DEF SrvAcceptData
  <2> QED
    BY <1>1, <1>t, <2>2, Zenon
<1>7. ASSUME NEW k \in Conn, NEW ok \in BOOLEAN, SrvDeny(k, ok)
      PROVE  Granted(c, Run)' => Granted(c, Run)
  <2>1. DenyReply(ok) \in Seq(Token) /\ ~Has(DenyReply(ok), Run)
    <3>1. CASE ok
      <4>1. <<"ACCESS_DENY", "FIN">> \in Seq(Token)
        BY DEF Token
      <4> QED
        BY <3>1, <4>1 DEF DenyReply, Has, Run
    <3>2. CASE ~ok
      <4>1. <<"FIN">> \in Seq(Token)
        BY SMTT(30) DEF Token
      <4> QED
        BY <3>2, <4>1 DEF DenyReply, Has, Run
    <3> QED
      BY <3>1, <3>2
  <2>2. \/ down'[Ctl(c)] = down[Ctl(c)]
        \/ down'[Ctl(c)] = down[Ctl(c)] \o DenyReply(ok)
    BY <1>7, <1>c, Zenon DEF TypeOK, DownType, SrvDeny
  <2>3. Has(down[Ctl(c)] \o DenyReply(ok), Run) => Has(down[Ctl(c)], Run)
    BY <1>c, <2>1, HasCat
  <2> QED
    BY <1>0, <2>2, <2>3, Zenon DEF Granted
<1>8. CASE SrvMsg \/ SrvReadLen \/ SrvReadJson
  <2>1. ctlfd \in Conn
    BY <1>8, FdAssumption, Zenon
    DEF TypeOK, SrvType, SrvEvType, HandlerType, SrvMsg, SrvReadLen, SrvReadJson
  <2>2. \/ down' = down
        \/ down' = [down EXCEPT ![ctlfd] = Append(@, "ERROR")]
        \/ down' = [down EXCEPT ![ctlfd] = Append(@, "CREATE_STREAM")]
    BY <1>8, Zenon DEF SrvMsg, SrvReadLen, SrvReadJson, SrvFails, SrvWrite
  <2> QED
    BY <1>1, <1>t, <2>1, <2>2
<1> QED
  BY <1>2, <1>3, <1>4, <1>5, <1>6, <1>7, <1>8 DEF Srv, SrvInterrupt

LEMMA RunCli ==
  ASSUME TypeOK, NEW d \in Clients, Cli(d) \/ CliInterrupt(d), NEW c \in Clients
  PROVE  Granted(c, Run)' => Granted(c, Run)
<1>1. CASE CliMsg(d)
  <2>1. Ctl(d) \in Conn /\ Ctl(c) \in Conn /\ (c # d => Ctl(c) # Ctl(d))
    BY ConnParts
  <2> DEFINE q == down[Ctl(d)]
  <2>2. q \in Seq(Token) /\ q # <<>> /\ (Head(q) = CliRead(Ctl(d)))
    BY <1>1, <2>1, SMTT(30) DEF TypeOK, DownType, CliMsg, CliRead, Nothing
  <2>3. down'[Ctl(d)] = Tail(q) /\ (c # d => down'[Ctl(c)] = down[Ctl(c)])
    BY <1>1, <2>1, Zenon DEF TypeOK, DownType, CliMsg
  <2>4. /\ c # d => cstate'[c] = cstate[c]
        /\ cstate'[d] \in {cstate[d], "ERROR"} \/ cstate'[d] = Head(q)
    BY <1>1, <2>2, ZenonT(30) DEF TypeOK, CliType, CliMsg, CliSendConf, CliOpenData, CliNext, CliBreak
  <2>5. CASE c # d
    BY <2>3, <2>4, <2>5, ZenonT(30) DEF Granted
  <2>6. CASE c = d
    <3>1. Has(Tail(q), Run) => Has(q, Run)
      BY <2>2, HasTail, ZenonT(30)
    <3>2. Head(q) \in Run => Has(q, Run)
      BY <2>2, HasHead, Zenon
    <3> QED
      BY <2>3, <2>4, <2>6, <3>1, <3>2, Zenon DEF Granted, Run
  <2> QED
    BY <2>5, <2>6
<1>2. CASE ~CliMsg(d)
  <2>1. down' = down
    BY <1>2, Zenon DEF Cli, CliInterrupt, CliStart, CliEpollWait, CliBatchDone, CliNoMsg, CliSend, CliDestroy
  <2>2. cstate'[c] \in {cstate[c], "START", "END", "ERROR"}
    BY <1>2, Zenon DEF TypeOK, CliType, Cli, CliInterrupt, CliStart, CliEpollWait, CliBatchDone, CliNoMsg,
                CliSend, CliNext, CliBreak, CliDestroy
  <2> QED
    BY <2>1, <2>2 DEF Granted, Run
<1> QED
  BY <1>1, <1>2

LEMMA RunQuiet ==
  ASSUME TypeOK, [Next]_vars, ~\E k \in Conn : SrvAcceptData(k, TRUE), NEW c \in Clients
  PROVE  Granted(c, Run)' => Granted(c, Run)
<1>1. CASE UNCHANGED <<down, cstate>>
  BY <1>1 DEF Granted
<1>2. CASE Net
  BY <1>1, <1>2, Zenon DEF Net, RaiseListener, Establish, Refuse, DeliverUp, DeliverDown, SrvTimeout,
                    CliTimeout
<1>3. CASE UNCHANGED vars
  BY <1>1, <1>3 DEF vars
<1> QED
  BY <1>2, <1>3, RunSrv, RunCli, Zenon DEF Next

-----------------------------------------------------------------------------
(* The data connection the server receives on is the controller's. *)

LEMMA DataInit == Init => DataInv
<1> SUFFICES ASSUME Init PROVE DataInv
  OBVIOUS
<1>1. \A c \in Clients : ~Granted(c, Run)
  BY ConnParts DEF Init, Granted, Has, Run
<1>2. ConnectInv
  BY ConnParts, Zenon DEF Init, ConnectInv
<1>3. QueueInv /\ FdInv
  <2>1. acceptq = <<>> /\ ctlfd = NoFd /\ datafd = NoFd /\ clihost = NoFd
    BY Zenon DEF Init
  <2>2. FdInv
    BY <2>1, Zenon DEF FdInv
  <2>3. 1..Len(acceptq) = {}
    BY <2>1
  <2> QED
    BY <2>2, <2>3, Zenon DEF QueueInv
<1> QED
  BY <1>1, <1>2, <1>3 DEF DataInv, RunningInv

\* What is settled stays so; nothing else is needed of a step that grants no
\* RUNNING and keeps the three descriptors.
LEMMA KeepsFds ==
  ASSUME TypeOK, DataInv, UNCHANGED <<ctlfd, datafd, clihost>>,
         \A k \in Conn : Settled(k) => Settled(k)',
         \A c \in Clients : Granted(c, Run)' => Granted(c, Run)
  PROVE  FdInv' /\ RunningInv'
<1>1. ctlfd \in Conn \cup {NoFd} /\ datafd \in Conn \cup {NoFd}
  BY DEF TypeOK, SrvType
<1>2. ASSUME ctlfd # NoFd PROVE Settled(ctlfd)'
  <2>1. Settled(ctlfd) /\ ctlfd \in Conn
    BY <1>1, <1>2, Zenon DEF DataInv, FdInv
  <2> QED
    BY <2>1, Zenon DEF Settled
<1>3. ASSUME datafd # NoFd PROVE Settled(datafd)'
  <2>1. Settled(datafd) /\ datafd \in Conn
    BY <1>1, <1>3, ZenonT(30) DEF DataInv, FdInv
  <2> QED
    BY <2>1, Zenon DEF Settled
<1>4. FdInv'
  BY <1>2, <1>3, Zenon DEF DataInv, FdInv
<1>5. RunningInv'
  BY ConnParts, Zenon DEF DataInv, RunningInv
<1> QED
  BY <1>4, <1>5, Zenon

\* A step of neither socket table nor accept queue.
LEMMA KeepsConns ==
  ASSUME TypeOK, DataInv, UNCHANGED <<cs, ss, acceptq, ctlfd>>,
         spc = "over" => spc' = "over",
         \A c \in Clients : cpc'[c] = "init" => cpc[c] = "init",
         \A c \in Clients : Moves(cstate[c], cstate'[c])
  PROVE  ConnectInv' /\ QueueInv' /\ \A k \in Conn : Settled(k) => Settled(k)'
<1>1. ConnectInv'
  BY Zenon DEF DataInv, ConnectInv, Moves, AfterParam
<1> QED
  BY <1>1, Zenon DEF DataInv, QueueInv, Settled

\* mTCP's steps on a connection the client has asked for.
LEMMA DataNet ==
  ASSUME TypeOK, DataInv, Net, \A c \in Clients : Granted(c, Run)' => Granted(c, Run)
  PROVE  DataInv'
<1>0. /\ cs \in [Conn -> {"none", "synsent", "estab", "refused", "dead", "closed"}]
      /\ ss \in [Conn -> {"none", "queued", "open", "dead", "closed"}]
      /\ acceptq \in Seq(Conn)
  BY ZenonT(30) DEF TypeOK, SockType, NetType
<1>f. UNCHANGED <<spc, ctlfd, datafd, clihost, cpc, cstate>>
  BY Zenon DEF Net, RaiseListener, Establish, Refuse, DeliverUp, DeliverDown, SrvTimeout, CliTimeout
<1>s. ASSUME ConnectInv', QueueInv', \A k \in Conn : Settled(k) => Settled(k)' PROVE DataInv'
  BY <1>f, <1>s, KeepsFds, Zenon DEF DataInv
<1>1. CASE UNCHANGED <<cs, ss, acceptq>>
  <2>1. \A c \in Clients : Moves(cstate[c], cstate'[c])
    BY <1>f DEF Moves
  <2> QED
    BY <1>f, <1>s, <1>1, <2>1, KeepsConns, Zenon
<1>2. ASSUME NEW k \in Conn, Establish(k) PROVE DataInv'
  <2>1. /\ cs[k] = "synsent" /\ ss[k] = "none"
        /\ cs' = [cs EXCEPT ![k] = "estab"] /\ ss' = [ss EXCEPT ![k] = "queued"]
        /\ acceptq' = Append(acceptq, k)
    BY <1>2, ZenonT(30) DEF Establish, DataInv, ConnectInv
  <2>2. ConnectInv'
    BY <1>0, <1>f, <2>1, ConnParts DEF DataInv, ConnectInv
  <2>3. \A x \in Conn : Settled(x) => Settled(x)'
    BY <1>0, <2>1 DEF Settled
  <2>4. QueueInv'
    <3>1. /\ Len(acceptq') = Len(acceptq) + 1 /\ Len(acceptq) \in Nat
          /\ acceptq'[Len(acceptq) + 1] = k
          /\ \A i \in 1..Len(acceptq) : acceptq'[i] = acceptq[i] /\ acceptq[i] \in Conn
      BY <1>0, <2>1, AppendIs, ElementIs
    <3>2. \A i \in 1..Len(acceptq) : ss[acceptq[i]] = "queued" /\ acceptq[i] # k
      BY <2>1, Zenon DEF DataInv, QueueInv
    <3>3. \A i \in 1..Len(acceptq') : ss'[acceptq'[i]] = "queued"
      BY <1>0, <2>1, <3>1, <3>2
    <3>4. ASSUME NEW i \in 1..Len(acceptq'), NEW j \in 1..Len(acceptq'), acceptq'[i] = acceptq'[j]
          PROVE  i = j
      <4>1. CASE i = Len(acceptq) + 1 \/ j = Len(acceptq) + 1
        BY <3>1, <3>2, <3>4, <4>1, SMTT(30)
      <4>2. CASE i # Len(acceptq) + 1 /\ j # Len(acceptq) + 1
        BY <3>1, <3>4, <4>2, SMTT(30) DEF DataInv, QueueInv
      <4> QED
        BY <4>1, <4>2
    <3> QED
      BY <3>3, <3>4, Zenon DEF QueueInv
  <2> QED
    BY <1>s, <2>2, <2>3, <2>4, Zenon
<1>3. ASSUME NEW k \in Conn, Refuse(k) \/ CliTimeout(k) PROVE DataInv'
  <2>1. /\ cs[k] # "none" /\ UNCHANGED <<ss, acceptq>>
        /\ cs' = [cs EXCEPT ![k] = "refused"] \/ cs' = [cs EXCEPT ![k] = "dead"]
    BY <1>3, Zenon DEF Refuse, CliTimeout
  <2>2. ConnectInv'
    BY <1>0, <1>f, <2>1, ConnParts DEF DataInv, ConnectInv
  <2> QED
    BY <1>s, <2>1, <2>2, ZenonT(30) DEF DataInv, QueueInv, Settled
<1>4. ASSUME NEW k \in Conn, SrvTimeout(k) PROVE DataInv'
  <2>1. ss[k] = "open" /\ ss' = [ss EXCEPT ![k] = "dead"] /\ UNCHANGED <<cs, acceptq>>
    BY <1>4, ZenonT(30) DEF SrvTimeout
  <2>2. ConnectInv'
    BY <1>0, <1>f, <2>1, Zenon DEF DataInv, ConnectInv
  <2>3. QueueInv'
    <3>1. \A i \in 1..Len(acceptq) : acceptq[i] \in Conn
      BY <1>0, ElementIs
    <3> QED
      BY <1>0, <2>1, <3>1, Zenon DEF DataInv, QueueInv
  <2>4. \A x \in Conn : Settled(x) => Settled(x)'
    BY <1>0, <2>1, Zenon DEF Settled
  <2> QED
    BY <1>s, <2>2, <2>3, <2>4
<1> QED
  BY <1>1, <1>2, <1>3, <1>4, Zenon DEF Net, RaiseListener, DeliverUp, DeliverDown

\* Who is past PARAM_EXCHANGE stays so.
LEMMA KeepsAfter ==
  ASSUME NEW a, NEW b, Moves(a, b), a \in AfterParam
  PROVE  b \in AfterParam
BY DEF Moves, AfterParam

\* A client asks for its control connection once, and for its data connection
\* once and only while it has the server.
LEMMA DataCli ==
  ASSUME TypeOK, SessionInv, PhaseInv, DataInv, NEW c \in Clients, Cli(c) \/ CliInterrupt(c),
         \A d \in Clients : Granted(d, Run)' => Granted(d, Run),
         \A d \in Clients : Moves(cstate[d], cstate'[d])
  PROVE  DataInv'
<1>0. /\ cs \in [Conn -> {"none", "synsent", "estab", "refused", "dead", "closed"}]
      /\ cpc \in [Clients -> {"init", "wait", "loop", "over"}] /\ cstate \in [Clients -> States]
  BY DEF TypeOK, SockType, CliType
<1>f. UNCHANGED <<spc, ctlfd, datafd, clihost, ss, acceptq>>
  BY Zenon DEF Cli, CliInterrupt, CliStart, CliEpollWait, CliBatchDone, CliNoMsg, CliMsg, CliSend,
         CliDestroy
<1>s. ASSUME ConnectInv' PROVE DataInv'
  <2>1. QueueInv' /\ \A k \in Conn : Settled(k) => Settled(k)'
    BY <1>f, Zenon DEF DataInv, QueueInv, Settled
  <2> QED
    BY <1>f, <1>s, <2>1, KeepsFds, Zenon DEF DataInv
<1>1. ASSUME cs' = cs, \A d \in Clients : cpc'[d] = "init" => cpc[d] = "init" PROVE DataInv'
  BY <1>f, <1>s, <1>1, KeepsConns, Zenon
<1>2. CASE CliStart(c)
  <2>1. /\ cpc' = [cpc EXCEPT ![c] = "over"] \/ cpc' = [cpc EXCEPT ![c] = "wait"]
        /\ cs' = cs \/ cs' = [cs EXCEPT ![Ctl(c)] = "synsent"]
        /\ cs[Ctl(c)] = "none"
    BY <1>2, Zenon DEF CliStart, DataInv, ConnectInv
  <2>2. /\ \A d \in Clients : Ctl(d) \in Conn /\ Data(d) \in Conn /\ Data(d) # Ctl(c)
        /\ \A d \in Clients : d # c => Ctl(d) # Ctl(c)
    BY ConnParts, Zenon
  <2>3. ConnectInv'
    <3>1. \A d \in Clients : cpc'[d] = "init" => cpc[d] = "init" /\ d # c
      BY <1>0, <2>1, Zenon
    <3>2. \A k \in Conn : k # Ctl(c) => cs'[k] = cs[k]
      BY <1>0, <2>1
    <3>3. \A d \in Clients : cpc'[d] = "init" => cs'[Ctl(d)] = "none"
      BY <2>2, <3>1, <3>2, Zenon DEF DataInv, ConnectInv
    <3>4. \A d \in Clients : cs'[Data(d)] # "none" => cs[Data(d)] # "none"
      BY <2>2, <3>2, Zenon
    <3>5. \A k \in Conn : cs'[k] \in {"none", "synsent"} => cs[k] \in {"none", "synsent"}
      BY <2>1, <3>2, Zenon
    <3> QED
      BY <1>f, <3>3, <3>4, <3>5, KeepsAfter, Zenon DEF DataInv, ConnectInv
  <2> QED
    BY <1>s, <2>3, ZenonT(30)
<1>3. CASE CliDestroy(c)
  <2>1. /\ cpc' = [cpc EXCEPT ![c] = "over"] /\ cstate' = cstate
        /\ \A k \in Conn : cs'[k] = cs[k] \/ (cs[k] # "none" /\ cs'[k] = "closed")
    BY <1>3, Zenon DEF CliDestroy
  <2>2. \A d \in Clients : Ctl(d) \in Conn /\ Data(d) \in Conn
    BY ConnParts, Zenon
  <2>3. ConnectInv'
    BY <1>0, <1>f, <2>1, <2>2, Zenon DEF DataInv, ConnectInv
  <2> QED
    BY <1>s, <2>3, Zenon
<1>4. CASE CliMsg(c) /\ cs' # cs
  <2>1. /\ cstate[c] = "PARAM_EXCHANGE" /\ cstate' = [cstate EXCEPT ![c] = "CREATE_STREAM"]
        /\ cs' = [cs EXCEPT ![Data(c)] = "synsent"] /\ cpc' = cpc
    BY <1>4, Zenon DEF CliMsg, CliSendConf, CliOpenData, CliNext, CliBreak
  <2>2. /\ \A d \in Clients : Ctl(d) \in Conn /\ Data(d) \in Conn /\ Ctl(d) # Data(c)
        /\ \A d \in Clients : d # c => Data(d) # Data(c)
    BY DEF Conn, Ctl, Data
  <2>3. spc = "over" \/ ctlfd = Ctl(c)
    BY <2>1, Zenon DEF SessionInv, ControllerInv, Granted, Engaged
  <2>4. cs[Data(c)] = "none" /\ ss[Data(c)] = "none"
    BY <2>1, <2>2, Zenon DEF DataInv, ConnectInv, AfterParam
  <2>5. ConnectInv'
    <3>1. \A k \in Conn : k # Data(c) => cs'[k] = cs[k]
      BY <1>0, <2>1
    <3>2. \A d \in Clients : cpc'[d] = "init" => cs'[Ctl(d)] = "none"
      BY <2>1, <2>2, <3>1, Zenon DEF DataInv, ConnectInv
    <3>3. cstate'[c] \in AfterParam
      BY <1>0, <2>1 DEF AfterParam
    <3>4. \A d \in Clients : d # c /\ cs'[Data(d)] # "none" => cs[Data(d)] # "none"
      BY <2>2, <3>1, Zenon
    <3>5. \A d \in Clients :
            cs'[Data(d)] # "none" => (spc = "over" \/ ctlfd = Ctl(d)) /\ cstate'[d] \in AfterParam
      BY <2>3, <3>3, <3>4, KeepsAfter, Zenon DEF DataInv, ConnectInv
    <3>6. \A k \in Conn : cs'[k] \in {"none", "synsent"} => ss[k] = "none"
      BY <2>4, <3>1, Zenon DEF DataInv, ConnectInv
    <3> QED
      BY <1>f, <3>2, <3>5, <3>6, Zenon DEF ConnectInv
  <2> QED
    BY <1>s, <2>5, Zenon
<1>5. CASE /\ ~CliStart(c) /\ ~CliDestroy(c) /\ (CliMsg(c) => cs' = cs)
  <2>1. cs' = cs
    BY <1>5, Zenon DEF Cli, CliInterrupt, CliEpollWait, CliBatchDone, CliNoMsg, CliSend
  <2>2. cpc' = cpc \/ \E w \in {"loop", "wait"} : cpc' = [cpc EXCEPT ![c] = w]
    BY <1>5, Zenon DEF Cli, CliInterrupt, CliEpollWait, CliBatchDone, CliNoMsg, CliSend, CliMsg
  <2> QED
    BY <1>0, <1>1, <2>1, <2>2
<1> QED
  BY <1>2, <1>3, <1>4, <1>5, ZenonT(30)

\* mtcp_accept() takes a connection off the queue that is there once.
LEMMA DataAccept ==
  ASSUME TypeOK, DataInv, NEW k \in Conn, Accepting(k), NEW v \in {"open", "closed"},
         ss' = [ss EXCEPT ![k] = v], UNCHANGED <<cs, cpc, cstate>>
  PROVE  /\ ss[k] = "queued" /\ QueueInv' /\ Settled(k)'
         /\ \A x \in Conn : Settled(x) => Settled(x)'
         /\ \A x \in Conn : cs'[x] \in {"none", "synsent"} => ss'[x] = "none"
<1>0. /\ ss \in [Conn -> {"none", "queued", "open", "dead", "closed"}] /\ acceptq \in Seq(Conn)
  BY DEF TypeOK, SockType, NetType
<1>1. acceptq # <<>> /\ k = Head(acceptq) /\ acceptq' = Tail(acceptq)
  BY DEF Accepting
<1>2. /\ Len(acceptq') = Len(acceptq) - 1 /\ Len(acceptq) \in Nat /\ Len(acceptq) > 0
      /\ k = acceptq[1]
      /\ \A i \in 1..Len(acceptq') : acceptq'[i] = acceptq[i + 1]
  BY <1>0, <1>1, TailIs, SMTT(30)
<1>3. ss[k] = "queued"
  BY <1>2 DEF DataInv, QueueInv
<1>4. \A i \in 1..Len(acceptq) : acceptq[i] \in Conn
  BY <1>0, ElementIs, Zenon
<1>5. ASSUME NEW i \in 1..Len(acceptq') PROVE ss'[acceptq'[i]] = "queued"
  <2>1. i + 1 \in 1..Len(acceptq) /\ i + 1 # 1 /\ 1 \in 1..Len(acceptq) /\ acceptq'[i] = acceptq[i + 1]
    BY <1>2, SMTT(30)
  <2>2. acceptq[i + 1] # k /\ ss[acceptq[i + 1]] = "queued"
    BY <1>2, <2>1, Zenon DEF DataInv, QueueInv
  <2> QED
    BY <1>0, <1>4, <2>1, <2>2, ZenonT(30)
<1>6. ASSUME NEW i \in 1..Len(acceptq'), NEW j \in 1..Len(acceptq'), acceptq'[i] = acceptq'[j]
      PROVE  i = j
  <2>1. /\ i + 1 \in 1..Len(acceptq) /\ j + 1 \in 1..Len(acceptq)
        /\ acceptq[i + 1] = acceptq[j + 1]
    BY <1>2, <1>6, SMTT(30)
  <2>2. i + 1 = j + 1
    BY <2>1 DEF DataInv, QueueInv
  <2> QED
    BY <2>2, SMTT(30)
<1>7. QueueInv'
  BY <1>5, <1>6 DEF QueueInv
<1> QED
  BY <1>0, <1>3, <1>7, Zenon DEF Settled, DataInv, ConnectInv

LEMMA DataAcceptCtl ==
  ASSUME TypeOK, PhaseInv, DataInv, NEW k \in Conn, NEW ok \in BOOLEAN, SrvAcceptCtl(k, ok),
         \A d \in Clients : Granted(d, Run)' => Granted(d, Run)
  PROVE  DataInv'
<1>1. /\ Accepting(k) /\ ctlfd = NoFd /\ ctlfd' = k /\ UNCHANGED <<spc, datafd, cs, cpc, cstate>>
      /\ spc = "loop" /\ clihost' \in {Host[k[1]], clihost}
  BY DEF SrvAcceptCtl, ServerFree, Accepting
<1>2. PICK v \in {"open", "closed"} : ss' = [ss EXCEPT ![k] = v]
  BY Zenon DEF SrvAcceptCtl
<1>3. /\ ss[k] = "queued" /\ QueueInv' /\ Settled(k)'
      /\ \A x \in Conn : Settled(x) => Settled(x)'
      /\ \A x \in Conn : cs'[x] \in {"none", "synsent"} => ss'[x] = "none"
  BY <1>1, <1>2, DataAccept, Zenon
<1>4. \A c \in Clients : cs[Data(c)] = "none"
  <2>1. \A c \in Clients : Ctl(c) # NoFd
    BY ConnParts, FdAssumption
  <2> QED
    BY <1>1, <2>1, Zenon DEF DataInv, ConnectInv
<1>5. k[2] = "ctl"
  <2>1. PICK c \in Clients, role \in {"ctl", "data"} : k = <<c, role>>
    BY SMTT(30) DEF Conn
  <2>2. CASE role = "data"
    <3>1. k = Data(c)
      BY <2>1, <2>2, ZenonT(30) DEF Data
    <3> QED
      BY <1>3, <1>4, <3>1, Zenon DEF DataInv, ConnectInv
  <2> QED
    BY <2>1, <2>2
<1>6. ConnectInv'
  BY <1>1, <1>3, <1>4, Zenon DEF DataInv, ConnectInv
<1>7. datafd = NoFd /\ clihost = NoFd /\ k # NoFd
  BY <1>1, FdAssumption, Zenon DEF PhaseInv, DataInv, FdInv
<1>8. FdInv'
  BY <1>1, <1>3, <1>5, <1>7, Zenon DEF FdInv
<1>9. RunningInv'
  BY <1>3, ConnParts, Zenon DEF DataInv, RunningInv
<1> QED
  BY <1>3, <1>6, <1>8, <1>9, ZenonT(30) DEF DataInv

\* The address is the controller's, so the client is; and of its connections the
\* control connection is not in the queue any more.
LEMMA DataAcceptData ==
  ASSUME OwnAddresses, TypeOK, PhaseInv, DataInv, NEW k \in Conn, NEW ok \in BOOLEAN,
         SrvAcceptData(k, ok),
         ~ok => \A d \in Clients : Granted(d, Run)' => Granted(d, Run)
  PROVE  DataInv' /\ k = Data(ctlfd[1])
<1>1. /\ Accepting(k) /\ ctlfd # NoFd /\ Host[k[1]] = clihost /\ spc = "loop" /\ datafd = NoFd
      /\ UNCHANGED <<spc, ctlfd, clihost, cs, cpc, cstate>>
      /\ datafd' = IF ok THEN k ELSE datafd
  BY Zenon DEF SrvAcceptData, ServerFree, Accepting, WantsData
<1>2. PICK v \in {"open", "closed"} : ss' = [ss EXCEPT ![k] = v]
  BY Zenon DEF SrvAcceptData
<1>3. /\ ss[k] = "queued" /\ QueueInv' /\ Settled(k)'
      /\ \A x \in Conn : Settled(x) => Settled(x)'
      /\ \A x \in Conn : cs'[x] \in {"none", "synsent"} => ss'[x] = "none"
  BY <1>1, <1>2, DataAccept, Zenon
<1>4. ctlfd \in Conn /\ ctlfd[1] \in Clients /\ ctlfd = Ctl(ctlfd[1])
  <2>1. ctlfd \in Conn /\ ctlfd[2] = "ctl"
    BY <1>1, Zenon DEF TypeOK, SrvType, DataInv, FdInv
  <2>2. PICK c \in Clients, role \in {"ctl", "data"} : ctlfd = <<c, role>>
    BY <2>1 DEF Conn
  <2> QED
    BY <2>1, <2>2, ZenonT(30) DEF Ctl
<1>5. k[1] = ctlfd[1]
  <2>1. k[1] \in Clients /\ Host[k[1]] \in Hosts
    BY ConnParts, ZenonT(30) DEF Hosts
  <2>2. clihost # NoFd
    BY <1>1, <2>1, ZenonT(30) DEF OwnAddresses
  <2>3. clihost = Host[ctlfd[1]]
    BY <2>2 DEF DataInv, FdInv
  <2> QED
    <3>1. Host[k[1]] = Host[ctlfd[1]]
      BY <1>1, <2>3, Zenon
    <3> QED
      BY <1>4, <2>1, <3>1, Zenon DEF OwnAddresses
<1>6. k = Data(ctlfd[1])
  <2>1. PICK c \in Clients, role \in {"ctl", "data"} : k = <<c, role>>
    BY SMTT(30) DEF Conn
  <2>2. Settled(ctlfd) /\ ~Settled(k)
    BY <1>1, <1>3, Zenon DEF DataInv, FdInv, Settled
  <2>3. role # "ctl"
    BY <1>4, <1>5, <2>1, <2>2 DEF Ctl
  <2> QED
    BY <1>5, <2>1, <2>3 DEF Data
<1>7. ConnectInv'
  BY <1>1, <1>3, Zenon DEF DataInv, ConnectInv
<1>8. FdInv'
  <2>1. Settled(ctlfd)'
    BY <1>1, <1>3, <1>4, Zenon DEF DataInv, FdInv, Settled
  <2>2. datafd' # NoFd => datafd' = k /\ Settled(datafd)'
    BY <1>1, <1>3, Zenon DEF Settled
  <2> QED
    BY <1>1, <1>6, <2>1, <2>2, Zenon DEF DataInv, FdInv
<1>9. RunningInv'
  <2> SUFFICES ASSUME NEW c \in Clients, Granted(c, Run)' PROVE Settled(Data(c))'
    BY DEF RunningInv
  <2>1. CASE Granted(c, Run)
    BY <1>3, <2>1, ConnParts, ZenonT(30) DEF DataInv, RunningInv
  <2>2. CASE ~Granted(c, Run)
    <3>1. ok
      BY <2>2, ZenonT(30)
    <3>2. down' = [down EXCEPT ![ctlfd] = Append(@, "RUNNING")] /\ "RUNNING" \in Token
      BY <3>1 DEF SrvAcceptData, Token, States
    <3>3. ctlfd = Ctl(c)
      BY <1>1, <1>4, <2>2, <3>2, GrantByAppend, Zenon
    <3>4. ctlfd[1] = c
      BY <3>3 DEF Ctl
    <3> QED
      BY <1>3, <1>6, <3>4, Zenon
  <2> QED
    BY <2>1, <2>2
<1> QED
  BY <1>3, <1>6, <1>7, <1>8, <1>9, ZenonT(30) DEF DataInv

LEMMA DataSrv ==
  ASSUME OwnAddresses, TypeOK, PhaseInv, DataInv, Srv \/ SrvInterrupt
  PROVE  DataInv'
<1>0. /\ ss \in [Conn -> {"none", "queued", "open", "dead", "closed"}] /\ acceptq \in Seq(Conn)
      /\ ctlfd \in Conn \cup {NoFd} /\ datafd \in Conn \cup {NoFd}
  BY DEF TypeOK, SockType, NetType, SrvType
<1>c. UNCHANGED <<cs, cpc, cstate>>
  BY ZenonT(30) DEF Srv, SrvInterrupt, SrvListen, SrvEpollWait, SrvBatchDone, SrvDestroy, SrvAcceptFails,
         SrvAcceptCtl, SrvAcceptData, SrvDeny, SrvMsg, SrvReadLen, SrvReadJson, SrvRecvStart, SrvRecv
<1>m. \A c \in Clients : Moves(cstate[c], cstate'[c])
  BY <1>c DEF Moves
<1>1. ASSUME NEW k \in Conn, NEW ok \in BOOLEAN, SrvAcceptData(k, ok) PROVE DataInv'
  <2>1. ASSUME ~ok, NEW d \in Clients PROVE Granted(d, Run)' => Granted(d, Run)
    <3>1. "FIN" \in Token \ Run
      BY ZenonT(30) DEF Token, Run
    <3>2. down' = [down EXCEPT ![k] = Append(@, "FIN")]
      BY <1>1, <2>1 DEF SrvAcceptData
    <3> QED
      BY <1>c, <3>1, <3>2, RunServer, Zenon
  <2> QED
    BY <1>1, <2>1, DataAcceptData
<1>2. CASE ~\E k \in Conn : SrvAcceptData(k, TRUE)
  <2>r. \A d \in Clients : Granted(d, Run)' => Granted(d, Run)
    BY <1>2, RunSrv, Zenon
  <2>1. ASSUME UNCHANGED <<ss, acceptq, ctlfd, datafd, clihost>>, spc # "over" PROVE DataInv'
    BY <1>c, <1>m, <2>r, <2>1, KeepsConns, KeepsFds, Zenon DEF DataInv
  <2>2. CASE SrvListen \/ SrvEpollWait \/ SrvRecvStart \/ SrvRecv \/ SrvReadLen \/ SrvReadJson \/ SrvMsg
    BY <2>1, <2>2, Zenon DEF SrvListen, SrvEpollWait, SrvRecvStart, SrvRecv, SrvReadLen, SrvReadJson, SrvMsg
  <2>3. CASE SrvBatchDone /\ ~SrvDestroy
    BY <2>1, <2>3 DEF SrvBatchDone
  <2>4. CASE SrvDestroy
    <3>1. /\ ctlfd' = NoFd /\ datafd' = NoFd /\ clihost' = NoFd /\ spc' = "over"
          /\ ss' = [k \in Conn |-> IF k \in {ctlfd, datafd} THEN "closed" ELSE ss[k]]
          /\ acceptq' = acceptq
      BY <2>4, Zenon DEF SrvDestroy, SrvCloses
    <3>2. \A x \in Conn : x \in {ctlfd, datafd} => Settled(x)
      BY FdAssumption DEF DataInv, FdInv
    <3>3. \A x \in Conn : Settled(x) => Settled(x)'
      BY <1>0, <3>1 DEF Settled
    <3>4. \A x \in Conn : ~Settled(x) => ss'[x] = ss[x]
      BY <1>0, <3>1, <3>2, ZenonT(30)
    <3>5. ConnectInv'
      BY <1>c, <3>1, <3>4, ZenonT(30) DEF DataInv, ConnectInv, Settled
    <3>6. QueueInv'
      <4>1. \A i \in 1..Len(acceptq) : acceptq[i] \in Conn
        BY <1>0, ElementIs, Zenon
      <4> QED
        BY <3>1, <3>4, <4>1, Zenon DEF DataInv, QueueInv, Settled
    <3>7. FdInv'
      BY <3>1 DEF FdInv
    <3>8. RunningInv'
      BY <2>r, <3>3, ConnParts DEF DataInv, RunningInv
    <3> QED
      BY <3>5, <3>6, <3>7, <3>8 DEF DataInv
  <2>5. CASE SrvAcceptFails
    <3>1. /\ UNCHANGED <<spc, ss, ctlfd, datafd, clihost>> /\ spc = "loop"
          /\ acceptq' = acceptq \/ (acceptq # <<>> /\ acceptq' = Tail(acceptq))
      BY <2>5 DEF SrvAcceptFails
    <3>2. CASE acceptq' = acceptq
      BY <2>1, <3>1, <3>2, Zenon
    <3>3. CASE acceptq # <<>> /\ acceptq' = Tail(acceptq)
      <4>1. /\ Len(acceptq') = Len(acceptq) - 1 /\ Len(acceptq) \in Nat
            /\ \A i \in 1..Len(acceptq') : acceptq'[i] = acceptq[i + 1]
        BY <1>0, <3>3, TailIs
      <4>2. \A i \in 1..Len(acceptq') : i + 1 \in 1..Len(acceptq)
        BY <4>1, SMTT(30)
      <4>3. QueueInv'
        <5>1. \A i \in 1..Len(acceptq') : ss'[acceptq'[i]] = "queued"
          BY <3>1, <4>1, <4>2 DEF DataInv, QueueInv
        <5>2. ASSUME NEW i \in 1..Len(acceptq'), NEW j \in 1..Len(acceptq'), acceptq'[i] = acceptq'[j]
              PROVE  i = j
          <6>1. i + 1 = j + 1
            BY <4>1, <4>2, <5>2, SMTT(30) DEF DataInv, QueueInv
          <6> QED
            BY <6>1
        <5> QED
          BY <5>1, <5>2 DEF QueueInv
      <4>4. ConnectInv'
        BY <1>c, <3>1 DEF DataInv, ConnectInv
      <4>5. \A x \in Conn : Settled(x) => Settled(x)'
        BY <3>1 DEF Settled
      <4> QED
        BY <2>r, <3>1, <4>3, <4>4, <4>5, KeepsFds DEF DataInv
    <3> QED
      BY <3>1, <3>2, <3>3, ZenonT(30)
  <2>6. ASSUME NEW k \in Conn, NEW ok \in BOOLEAN, SrvAcceptCtl(k, ok) PROVE DataInv'
    BY <2>r, <2>6, DataAcceptCtl
  <2>7. ASSUME NEW k \in Conn, NEW ok \in BOOLEAN, SrvDeny(k, ok) PROVE DataInv'
    <3>1. /\ Accepting(k) /\ ss' = [ss EXCEPT ![k] = "closed"] /\ spc = "loop"
          /\ UNCHANGED <<spc, ctlfd, datafd, clihost>>
      BY <2>7 DEF SrvDeny, Accepting
    <3>2. /\ QueueInv' /\ \A x \in Conn : Settled(x) => Settled(x)'
          /\ \A x \in Conn : cs'[x] \in {"none", "synsent"} => ss'[x] = "none"
      BY <1>c, <3>1, DataAccept, Zenon
    <3>3. ConnectInv'
      BY <1>c, <3>1, <3>2, Zenon DEF DataInv, ConnectInv
    <3> QED
      BY <2>r, <3>1, <3>2, <3>3, KeepsFds, Zenon DEF DataInv
  <2> QED
    BY <1>1, <2>2, <2>3, <2>4, <2>5, <2>6, <2>7 DEF Srv, SrvInterrupt
<1> QED
  BY <1>1, <1>2, Zenon

LEMMA DataNext ==
  ASSUME OwnAddresses, TypeOK, SessionInv, PhaseInv, DataInv, [Next]_vars
  PROVE  DataInv'
<1>1. \A c \in Clients : Moves(cstate[c], cstate'[c])
  BY PhaseNext, Zenon
<1>2. CASE Net
  <2>1. \A c \in Clients : Granted(c, Run)' => Granted(c, Run)
    <3>1. UNCHANGED <<down, cstate>>
      BY <1>2, Zenon DEF Net, RaiseListener, Establish, Refuse, DeliverUp, DeliverDown, SrvTimeout,
                  CliTimeout
    <3> QED
      BY <3>1 DEF Granted
  <2> QED
    BY <1>2, <2>1, DataNet
<1>3. ASSUME NEW c \in Clients, Cli(c) \/ CliInterrupt(c) PROVE DataInv'
  BY <1>1, <1>3, RunCli, DataCli, Zenon
<1>4. CASE UNCHANGED vars
  BY <1>4, ZenonT(30) DEF vars, DataInv, ConnectInv, QueueInv, FdInv, RunningInv, Settled, Granted
<1> QED
  BY <1>2, <1>3, <1>4, DataSrv, Zenon DEF Next

LEMMA DataInvHolds ==
  ASSUME OwnAddresses
  PROVE  Spec => [](TypeOK /\ SessionInv /\ PhaseInv /\ DataInv)
<1>1. TypeOK /\ SessionInv /\ PhaseInv /\ DataInv /\ [Next]_vars =>
        (TypeOK /\ SessionInv /\ PhaseInv /\ DataInv)'
  BY TypeNext, SessionNext, PhaseNext, DataNext
<1>2. Init => TypeOK /\ SessionInv /\ PhaseInv /\ DataInv
  BY TypeInit, SessionInit, PhaseInit, DataInit
<1> QED
  BY <1>1, <1>2, PTL DEF Spec

\* A client that mperf_handle_client_msg() has put into RUNNING had its own data connection
\* accepted, and mperf_recv() reads that one: mperf_accept() never takes another client's,
\* nor a control connection, when every client has an address of its own.
THEOREM RunningOnOwnDataHolds ==
  ASSUME OwnAddresses
  PROVE  Spec => []RunningOnOwnData
<1>1. DataInv => RunningOnOwnData
  BY DEF DataInv, RunningInv, FdInv, Settled, RunningOnOwnData, Granted, Run
<1> QED
  BY DataInvHolds, <1>1, PTL
=============================================================================
