-------------------------- MODULE MperfDataProofs ---------------------------
(***************************************************************************)
(* Proofs about what an mperf test reads, for any number of clients on     *)
(* hosts of their own, any block and buffer size and any number of         *)
(* failures: when a read of 0 is the close, and that no block is lost or   *)
(* counted twice between mperf_send() and mperf_recv().                    *)
(***************************************************************************)
EXTENDS MperfSessionProofs, FiniteSetTheorems

USE DEF srvVars, srvEvs, cliVars, cliEvs, upVars, downVars, netVars

-----------------------------------------------------------------------------
(* A zero from nread() means the close, where a configuration arrives      *)
(* whole: an event of the control connection always finds something.       *)

Ended == sstate \in {"END", "ERROR"}
InConf == spc \in {"len", "json"}

\* What a client writes on its control connection: the length follows the byte that
\* announces a configuration, the text follows the length, and a queue starts with one
\* of them only where mperf_recv_conf() is between its reads.
CtlToken == {"PARAM_EXCHANGE", "LEN", "JSON", "END", "ERROR", "FIN"}
Formed(q, at) ==
  \A i \in 1..Len(q) :
    /\ q[i] \in CtlToken
    /\ q[i] = "LEN" => (i > 1 /\ q[i - 1] = "PARAM_EXCHANGE") \/ (i = 1 /\ at = "len")
    /\ q[i] = "JSON" => (i > 1 /\ q[i - 1] = "LEN") \/ (i = 1 /\ at = "json")
Within(k) == IF k = ctlfd THEN spc ELSE "none"
FormInv == \A c \in Clients : Formed(up[Ctl(c)], Within(Ctl(c)))

\* What has arrived never ends inside a configuration.
WholeInv ==
  \A c \in Clients : uprdy[Ctl(c)] > 0 =>
    up[Ctl(c)][uprdy[Ctl(c)]] \notin {"PARAM_EXCHANGE", "LEN"}

\* The server's events are those of the sockets it has.
EventInv ==
  /\ spend \cup sbatch \subseteq {ListenFd, ctlfd, datafd}
  /\ \A k \in Conn : ss[k] = "open" => k \in {ctlfd, datafd}

\* An event of the control connection has something to read, and an event raised while
\* another one waits to be handled has something behind the configuration that the
\* first one reads.
AtConf(q) == Len(q) >= 3 /\ q[1] = "PARAM_EXCHANGE" /\ q[2] = "LEN" /\ q[3] = "JSON"
AtLen(q) == Len(q) >= 2 /\ q[1] = "LEN" /\ q[2] = "JSON"
AtJson(q) == Len(q) >= 1 /\ q[1] = "JSON"
Ready(k, n) == uprdy[k] > n \/ ss[k] = "dead"
ReadyInv ==
  /\ ~InConf /\ ctlfd \in spend \cup sbatch => Ready(ctlfd, 0)
  /\ ~InConf /\ ctlfd \in spend \cap sbatch /\ AtConf(up[ctlfd]) => Ready(ctlfd, 3)
  /\ spc = "len" /\ AtLen(up[ctlfd]) =>
       uprdy[ctlfd] > 1 /\ (ctlfd \in spend => Ready(ctlfd, 2))
  /\ spc = "json" /\ AtJson(up[ctlfd]) =>
       uprdy[ctlfd] > 0 /\ (ctlfd \in spend => Ready(ctlfd, 1))
LiveInv == FormInv /\ WholeInv /\ EventInv /\ ReadyInv

\* Where a step of the server leaves the test: out of its loop, at an end that handles no
\* more of the control connection, or going on.
Stopped == Ended /\ ctlfd \notin sbatch /\ spc \in {"loop", "recv"}
ZeroInv == spc = "over" \/ Stopped \/ LiveInv

LEMMA FormedTail ==
  ASSUME NEW q \in Seq(Token), q # <<>>, NEW a, NEW b, Formed(q, a),
         q[1] = "PARAM_EXCHANGE" => b = "len", q[1] = "LEN" => b = "json"
  PROVE  Formed(Tail(q), b)
<1>1. /\ Tail(q) \in Seq(Token) /\ Len(q) \in Nat /\ Len(Tail(q)) = Len(q) - 1
      /\ \A i \in 1..(Len(q) - 1) : Tail(q)[i] = q[i + 1]
  OBVIOUS
<1> DEFINE t == Tail(q)
<1> HIDE DEF t
<1>2. SUFFICES ASSUME NEW i \in 1..Len(t)
               PROVE  /\ t[i] \in CtlToken
                      /\ t[i] = "LEN" => \/ i > 1 /\ t[i - 1] = "PARAM_EXCHANGE"
                                         \/ i = 1 /\ b = "len"
                      /\ t[i] = "JSON" => \/ i > 1 /\ t[i - 1] = "LEN"
                                          \/ i = 1 /\ b = "json"
  BY DEF Formed, t
<1>3. i + 1 \in 1..Len(q) /\ i + 1 > 1 /\ i + 1 # 1 /\ t[i] = q[i + 1] /\ (i + 1) - 1 = i
  BY <1>1 DEF t
<1>4. i > 1 => t[i - 1] = q[i]
  BY <1>1 DEF t
<1>5. /\ q[i + 1] \in CtlToken
      /\ q[i + 1] = "LEN" => q[i] = "PARAM_EXCHANGE"
      /\ q[i + 1] = "JSON" => q[i] = "LEN"
  BY <1>3 DEF Formed
<1>6. i = 1 \/ i > 1
  BY <1>2
<1> QED
  BY <1>3, <1>4, <1>5, <1>6

LEMMA FormedCat ==
  ASSUME NEW q \in Seq(Token), NEW p \in Seq(Token), NEW a, Formed(q, a), Formed(p, "none")
  PROVE  Formed(q \o p, a)
<1> DEFINE t == q \o p
<1>1. /\ Len(q) \in Nat /\ Len(p) \in Nat /\ Len(t) = Len(q) + Len(p)
      /\ \A i \in 1..Len(q) : t[i] = q[i]
      /\ \A i \in 1..Len(p) : t[i + Len(q)] = p[i]
  OBVIOUS
<1> HIDE DEF t
<1>2. SUFFICES ASSUME NEW i \in 1..Len(t)
               PROVE  /\ t[i] \in CtlToken
                      /\ t[i] = "LEN" => \/ i > 1 /\ t[i - 1] = "PARAM_EXCHANGE"
                                         \/ i = 1 /\ a = "len"
                      /\ t[i] = "JSON" => \/ i > 1 /\ t[i - 1] = "LEN"
                                          \/ i = 1 /\ a = "json"
  BY DEF Formed, t
<1>3. CASE i <= Len(q)
  <2>1. i \in 1..Len(q) /\ (i > 1 => i - 1 \in 1..Len(q))
    BY <1>1, <1>3
  <2>2. t[i] = q[i] /\ (i > 1 => t[i - 1] = q[i - 1])
    BY <1>1, <2>1
  <2> QED
    BY <2>1, <2>2 DEF Formed
<1>4. CASE i > Len(q)
  <2>1. PICK j \in 1..Len(p) : i = j + Len(q)
    <3>1. i - Len(q) \in 1..Len(p) /\ i = (i - Len(q)) + Len(q)
      BY <1>1, <1>4
    <3> QED
      BY <3>1, Zenon
  <2>2. t[i] = p[j] /\ (j > 1 => t[i - 1] = p[j - 1] /\ i > 1)
    <3>1. j > 1 => j - 1 \in 1..Len(p) /\ i - 1 = (j - 1) + Len(q) /\ i > 1
      BY <1>1, <2>1
    <3> QED
      BY <1>1, <2>1, <3>1, Zenon
  <2>3. /\ p[j] \in CtlToken
        /\ p[j] = "LEN" => j > 1 /\ p[j - 1] = "PARAM_EXCHANGE"
        /\ p[j] = "JSON" => j > 1 /\ p[j - 1] = "LEN"
    BY <2>1 DEF Formed
  <2> QED
    BY <2>2, <2>3
<1> QED
  BY <1>1, <1>3, <1>4

\* What follows never completes a configuration that has begun to be read.
LEMMA StartsCat ==
  ASSUME NEW q \in Seq(Token), NEW p \in Seq(Token), Formed(p, "none")
  PROVE  /\ AtConf(q \o p) /\ q # <<>> => AtConf(q)
         /\ AtLen(q \o p) => AtLen(q)
         /\ AtJson(q \o p) => AtJson(q)
<1> DEFINE t == q \o p
<1>1. /\ Len(q) \in Nat /\ Len(p) \in Nat /\ Len(t) = Len(q) + Len(p)
      /\ \A i \in 1..Len(q) : t[i] = q[i]
      /\ \A i \in 1..Len(p) : t[i + Len(q)] = p[i]
  OBVIOUS
<1>2. q # <<>> => Len(q) > 0
  BY <1>1
<1>3. Len(p) > 0 => p[1] \notin {"LEN", "JSON"}
  BY <1>1 DEF Formed
<1> HIDE DEF t
<1>4. Len(p) > 0 => t[Len(q) + 1] \notin {"LEN", "JSON"}
  <2>1. Len(p) > 0 => 1 \in 1..Len(p) /\ 1 + Len(q) = Len(q) + 1
    BY <1>1
  <2> QED
    BY <1>1, <1>3, <2>1
<1>5. AtConf(t) /\ q # <<>> => AtConf(q)
  <2>1. CASE Len(q) >= 3
    BY <1>1, <2>1 DEF AtConf
  <2>2. CASE Len(q) < 3
    <3>0. \A n \in Nat : n > 0 /\ n < 3 => n = 1 \/ n = 2
      OBVIOUS
    <3>1. q # <<>> => Len(q) = 1 \/ Len(q) = 2
      BY <1>1, <1>2, <2>2, <3>0, Zenon
    <3> QED
      BY <1>1, <1>4, <2>2, <3>1 DEF AtConf
  <2> QED
    BY <1>1, <2>1, <2>2
<1>6. AtLen(t) => AtLen(q)
  <2>1. CASE Len(q) >= 2
    BY <1>1, <2>1 DEF AtLen
  <2>2. CASE Len(q) < 2
    <3>0. \A n \in Nat : n < 2 => n = 0 \/ n = 1
      OBVIOUS
    <3>1. Len(q) = 0 \/ Len(q) = 1
      BY <1>1, <2>2, <3>0, Zenon
    <3> QED
      BY <1>1, <1>4, <2>2, <3>1, SMTT(30) DEF AtLen
  <2> QED
    BY <1>1, <2>1, <2>2
<1>7. AtJson(t) => AtJson(q)
  <2>1. CASE Len(q) >= 1
    BY <1>1, <2>1 DEF AtJson
  <2>2. CASE Len(q) < 1
    BY <1>1, <1>4, <2>2 DEF AtJson
  <2> QED
    BY <1>1, <2>1, <2>2, SMTT(30)
<1> QED
  BY <1>5, <1>6, <1>7 DEF t

\* Everything a client writes on its control connection is so formed.
Writes == CutConf \cup {Conf, <<"END">>, <<"FIN">>}

LEMMA WritesFormed ==
  ASSUME NEW p \in Writes
  PROVE  p \in Seq(Token) /\ Formed(p, "none")
<1>1. p \in {<<>>, <<"ERROR">>, <<"END">>, <<"FIN">>, <<"PARAM_EXCHANGE">>,
             <<"PARAM_EXCHANGE", "ERROR">>, <<"PARAM_EXCHANGE", "LEN">>,
             <<"PARAM_EXCHANGE", "LEN", "ERROR">>, <<"PARAM_EXCHANGE", "LEN", "JSON">>}
  BY DEF Writes, CutConf, MaybeError, Conf
<1>t. /\ "PARAM_EXCHANGE" \in Token /\ "LEN" \in Token /\ "JSON" \in Token /\ "END" \in Token
      /\ "ERROR" \in Token /\ "FIN" \in Token
  BY DEF Token, States
<1>2. CASE p = <<>>
  BY <1>2 DEF Formed
<1>3. ASSUME NEW x \in CtlToken \ {"LEN", "JSON"}, p = <<x>>
      PROVE  p \in Seq(Token) /\ Formed(p, "none")
  <2>1. x \in Token
    BY <1>t DEF CtlToken
  <2>2. p \in Seq(Token) /\ Len(p) = 1 /\ p[1] = x
    BY <1>3, <2>1
  <2> QED
    BY <2>2 DEF Formed
<1>4. ASSUME NEW x \in {"ERROR", "LEN"}, p = <<"PARAM_EXCHANGE", x>>
      PROVE  p \in Seq(Token) /\ Formed(p, "none")
  <2>1. p \in Seq(Token) /\ Len(p) = 2 /\ p[1] = "PARAM_EXCHANGE" /\ p[2] = x
    BY <1>4, <1>t
  <2>2. \A i \in 1..2 : i = 1 \/ i = 2
    OBVIOUS
  <2> QED
    BY <2>1, <2>2 DEF Formed, CtlToken
<1>5. ASSUME NEW x \in {"ERROR", "JSON"}, p = <<"PARAM_EXCHANGE", "LEN", x>>
      PROVE  p \in Seq(Token) /\ Formed(p, "none")
  <2>1. p \in Seq(Token) /\ Len(p) = 3 /\ p[1] = "PARAM_EXCHANGE" /\ p[2] = "LEN" /\ p[3] = x
    BY <1>5, <1>t
  <2>2. \A i \in 1..3 : i = 1 \/ i = 2 \/ i = 3
    OBVIOUS
  <2> QED
    BY <2>1, <2>2 DEF Formed, CtlToken
<1>6. "ERROR" \in CtlToken /\ "END" \in CtlToken /\ "FIN" \in CtlToken /\ "PARAM_EXCHANGE" \in CtlToken
  BY DEF CtlToken
<1> QED
  BY <1>1, <1>2, <1>3, <1>4, <1>5, <1>6, ZenonT(30)

LEMMA CliWrites ==
  ASSUME TypeOK, NEW c \in Clients, Cli(c) \/ CliInterrupt(c), NEW d \in Clients
  PROVE  \E p \in Writes : up'[Ctl(d)] = up[Ctl(d)] \o p
<1>0. /\ up \in [Conn -> Seq(Token)] /\ up[Ctl(d)] \in Seq(Token)
      /\ Data(c) \in Conn /\ Ctl(d) \in Conn /\ Ctl(c) \in Conn /\ Data(c) # Ctl(d)
      /\ (Ctl(c) = Ctl(d) => c = d) /\ Data(c) # Ctl(c)
  BY DEF TypeOK, UpType, Conn, Data, Ctl
<1>w. <<>> \in Writes /\ <<"END">> \in Writes /\ <<"FIN">> \in Writes /\ Conf \in Writes
      /\ CutConf \subseteq Writes /\ MaybeError \subseteq Writes
  BY DEF Writes, CutConf, MaybeError
<1>a. \A q \in Seq(Token), t \in Token : Append(q, t) = q \o <<t>>
  OBVIOUS
<1>1. CASE up'[Ctl(d)] = up[Ctl(d)]
  <2>1. up[Ctl(d)] = up[Ctl(d)] \o <<>>
    BY <1>0
  <2> QED
    BY <1>1, <1>w, <2>1, Zenon
<1>2. CASE CliDestroy(c)
  <2>1. up'[Ctl(d)] = up[Ctl(d)] \/ up'[Ctl(d)] = Append(up[Ctl(d)], "FIN")
    BY <1>0, <1>2 DEF CliDestroy
  <2>2. "FIN" \in Token
    BY DEF Token
  <2> QED
    BY <1>0, <1>1, <1>a, <1>w, <2>1, <2>2, Zenon
<1>3. CASE CliMsg(c)
  <2>1. up' = up \/ \E p \in Writes : up' = [up EXCEPT ![Ctl(c)] = @ \o p]
    BY <1>3, <1>w, Zenon DEF CliMsg, CliSendConf, CliOpenData
  <2>2. CASE up' # up
    <3>1. PICK p \in Writes : up' = [up EXCEPT ![Ctl(c)] = @ \o p]
      BY <2>1, <2>2
    <3>2. CASE c = d
      BY <1>0, <3>1, <3>2, Zenon
    <3>3. CASE c # d
      BY <1>0, <1>1, <3>1, <3>3, Zenon
    <3> QED
      BY <3>2, <3>3
  <2> QED
    BY <1>1, <2>2
<1>4. CASE CliSend(c) /\ up' # up
  <2>1. PICK n \in Sendable, ok \in BOOLEAN :
          up' = [up EXCEPT ![Data(c)] = @ \o [i \in 1..n |-> "BLOCK"],
                           ![Ctl(c)] = IF ok THEN Append(@, "END") ELSE @]
    BY <1>4, Zenon DEF CliSend
  <2>2. up'[Ctl(d)] = up[Ctl(d)] \/ up'[Ctl(d)] = Append(up[Ctl(d)], "END")
    <3>1. CASE c = d
      BY <1>0, <2>1, <3>1, ZenonT(30)
    <3>2. CASE c # d
      BY <1>0, <2>1, <3>2, ZenonT(30)
    <3> QED
      BY <3>1, <3>2
  <2>3. "END" \in Token
    BY DEF Token, States
  <2> QED
    BY <1>0, <1>1, <1>a, <1>w, <2>2, <2>3, Zenon
<1>5. CASE ~CliDestroy(c) /\ ~CliMsg(c) /\ ~(CliSend(c) /\ up' # up)
  <2>1. up' = up
    BY <1>5, Zenon DEF Cli, CliInterrupt, CliStart, CliEpollWait, CliBatchDone, CliNoMsg
  <2> QED
    BY <1>1, <2>1
<1> QED
  BY <1>2, <1>3, <1>4, <1>5, ZenonT(30)

\* The server's control connection is one of a client's.
LEMMA CtlIs ==
  ASSUME TypeOK, DataInv, ctlfd # NoFd
  PROVE  \E d \in Clients : ctlfd = Ctl(d)
BY DEF DataInv, FdInv, TypeOK, SrvType, Conn, Ctl

LEMMA OneLess ==
  ASSUME NEW a \in Nat, NEW l \in Nat, a <= l, a - 1 > 0
  PROVE  a - 1 \in 1..(l - 1) /\ (a - 1) + 1 = a
OBVIOUS

\* A client only writes behind what is there.
LEMMA ZeroCli ==
  ASSUME TypeOK, DataInv, LiveInv, NEW c \in Clients, Cli(c) \/ CliInterrupt(c)
  PROVE  LiveInv'
<1>1. UNCHANGED <<spc, sstate, ctlfd, datafd, spend, sbatch, ss, uprdy>>
  BY Zenon DEF Cli, CliInterrupt, CliStart, CliEpollWait, CliBatchDone, CliNoMsg, CliMsg, CliSend,
         CliDestroy
<1>2. ASSUME NEW d \in Clients
      PROVE  /\ Formed(up'[Ctl(d)], Within(Ctl(d)))
             /\ uprdy[Ctl(d)] > 0 =>
                  up'[Ctl(d)][uprdy[Ctl(d)]] \notin {"PARAM_EXCHANGE", "LEN"}
             /\ AtConf(up'[Ctl(d)]) /\ up[Ctl(d)] # <<>> => AtConf(up[Ctl(d)])
             /\ AtLen(up'[Ctl(d)]) => AtLen(up[Ctl(d)])
             /\ AtJson(up'[Ctl(d)]) => AtJson(up[Ctl(d)])
  <2>1. PICK p \in Writes : up'[Ctl(d)] = up[Ctl(d)] \o p
    BY CliWrites
  <2>2. p \in Seq(Token) /\ Formed(p, "none")
    BY WritesFormed
  <2>3. /\ up[Ctl(d)] \in Seq(Token) /\ uprdy[Ctl(d)] \in Nat /\ uprdy[Ctl(d)] <= Len(up[Ctl(d)])
    BY ConnParts DEF TypeOK, UpType
  <2>4. Formed(up[Ctl(d)], Within(Ctl(d))) /\ WholeInv
    BY DEF LiveInv, FormInv
  <2>5. Formed(up'[Ctl(d)], Within(Ctl(d)))
    BY <2>1, <2>2, <2>3, <2>4, FormedCat, ZenonT(30)
  <2>6. \A i \in 1..Len(up[Ctl(d)]) : (up[Ctl(d)] \o p)[i] = up[Ctl(d)][i]
    BY <2>2, <2>3, SMTT(30)
  <2>7. uprdy[Ctl(d)] > 0 => uprdy[Ctl(d)] \in 1..Len(up[Ctl(d)])
    BY <2>3, SMTT(30)
  <2>8. ASSUME uprdy[Ctl(d)] > 0
        PROVE  up'[Ctl(d)][uprdy[Ctl(d)]] = up[Ctl(d)][uprdy[Ctl(d)]]
    <3>1. uprdy[Ctl(d)] \in 1..Len(up[Ctl(d)])
      BY <2>7, <2>8, Zenon
    <3>2. (up[Ctl(d)] \o p)[uprdy[Ctl(d)]] = up[Ctl(d)][uprdy[Ctl(d)]]
      BY <2>6, <3>1, Zenon
    <3> QED
      BY <2>1, <3>2, Zenon
  <2>9. uprdy[Ctl(d)] > 0 => up'[Ctl(d)][uprdy[Ctl(d)]] \notin {"PARAM_EXCHANGE", "LEN"}
    BY <2>4, <2>8 DEF WholeInv
  <2> QED
    BY <2>1, <2>2, <2>3, <2>5, <2>9, StartsCat, Zenon
<1>3. FormInv' /\ WholeInv' /\ EventInv'
  BY <1>1, <1>2, Zenon DEF LiveInv, FormInv, WholeInv, EventInv, Within
<1>4. ReadyInv'
  <2>0. NoFd \notin spend \cup sbatch /\ (InConf => ctlfd # NoFd)
    BY FdAssumption DEF TypeOK, SrvEvType, HandlerType, InConf
  <2>1. CASE ctlfd = NoFd
    BY <1>1, <2>0, <2>1, Zenon DEF ReadyInv, InConf
  <2>2. CASE ctlfd # NoFd
    <3>1. PICK d \in Clients : ctlfd = Ctl(d)
      BY <2>2, CtlIs, Zenon
    <3>2. up[ctlfd] = <<>> => ~(uprdy[ctlfd] > 0)
      BY <3>1, ConnParts, SMTT(30) DEF TypeOK, UpType
    <3>3. ReadyInv
      BY DEF LiveInv
    <3>4. ASSUME AtConf(up'[ctlfd]), ~AtConf(up[ctlfd]) PROVE ~(uprdy[ctlfd] > 0)
      BY <1>2, <3>1, <3>2, <3>4, Zenon
    <3>5. (~InConf /\ ctlfd \in spend \cup sbatch => Ready(ctlfd, 0))'
      BY <1>1, <3>3, Zenon DEF ReadyInv, InConf, Ready
    <3>6. (~InConf /\ ctlfd \in spend \cap sbatch /\ AtConf(up[ctlfd]) => Ready(ctlfd, 3))'
      BY <1>1, <3>3, <3>4, Zenon DEF ReadyInv, InConf, Ready
    <3>7. (spc = "len" /\ AtLen(up[ctlfd]) =>
             uprdy[ctlfd] > 1 /\ (ctlfd \in spend => Ready(ctlfd, 2)))'
      BY <1>1, <1>2, <3>1, <3>3, Zenon DEF ReadyInv, Ready
    <3>8. (spc = "json" /\ AtJson(up[ctlfd]) =>
             uprdy[ctlfd] > 0 /\ (ctlfd \in spend => Ready(ctlfd, 1)))'
      BY <1>1, <1>2, <3>1, <3>3, Zenon DEF ReadyInv, Ready
    <3> QED
      BY <3>5, <3>6, <3>7, <3>8, ZenonT(30) DEF ReadyInv
  <2> QED
    BY <2>1, <2>2
<1> QED
  BY <1>3, <1>4 DEF LiveInv

\* A step that reads nothing of a control connection and adds no event of the server's.
LEMMA ZeroSame ==
  ASSUME TypeOK, DataInv, LiveInv, EventInv', ctlfd' = ctlfd,
         spc' = spc \/ (~InConf /\ ~InConf'),
         \A c \in Clients : up'[Ctl(c)] = up[Ctl(c)] /\ uprdy'[Ctl(c)] = uprdy[Ctl(c)],
         ctlfd # NoFd => (ss[ctlfd] = "dead" => ss'[ctlfd] = "dead"),
         ctlfd # NoFd => (ctlfd \in spend' => ctlfd \in spend),
         ctlfd # NoFd => (ctlfd \in sbatch' => ctlfd \in sbatch),
         NoFd \notin spend' \cup sbatch', InConf' => ctlfd # NoFd
  PROVE  LiveInv'
<1>1. FormInv' /\ WholeInv'
  <2>1. \A c \in Clients : Formed(up[Ctl(c)], Within(Ctl(c)))
    BY DEF LiveInv, FormInv
  <2>2. ASSUME NEW c \in Clients PROVE Formed(up[Ctl(c)], Within(Ctl(c))')
    <3>1. CASE Within(Ctl(c))' = Within(Ctl(c))
      BY <2>1, <3>1, Zenon
    <3>2. CASE Within(Ctl(c))' # Within(Ctl(c))
      <4>1. Within(Ctl(c)) \notin {"len", "json"} /\ Within(Ctl(c))' \notin {"len", "json"}
        BY <3>2 DEF Within, InConf
      <4> QED
        BY <2>1, <4>1, ZenonT(30) DEF Formed
    <3> QED
      BY <3>1, <3>2, Zenon
  <2>3. FormInv'
    BY <2>2 DEF FormInv
  <2> QED
    BY <2>3, ZenonT(30) DEF LiveInv, WholeInv
<1>2. ReadyInv'
  <2>1. CASE ctlfd = NoFd
    BY <2>1, Zenon DEF ReadyInv, InConf
  <2>2. CASE ctlfd # NoFd
    <3>1. PICK d \in Clients : ctlfd = Ctl(d)
      BY <2>2, CtlIs, Zenon
    <3>2. up'[ctlfd] = up[ctlfd] /\ uprdy'[ctlfd] = uprdy[ctlfd]
      BY <3>1
    <3>3. ReadyInv
      BY DEF LiveInv
    <3> QED
      BY <2>2, <3>2, <3>3, Zenon DEF ReadyInv, InConf, Ready
  <2> QED
    BY <2>1, <2>2
<1> QED
  BY <1>1, <1>2, Zenon DEF LiveInv

\* mTCP's steps: an arrival brings something new, and a connection mTCP gives up is dead.
LEMMA ZeroNet ==
  ASSUME Coalesced, TypeOK, PhaseInv, DataInv, LiveInv, Net
  PROVE  LiveInv'
<1>0. /\ ctlfd \in Conn \cup {NoFd} /\ datafd \in Conn \cup {NoFd}
      /\ NoFd \notin spend \cup sbatch \cup Conn /\ ListenFd \notin Conn
      /\ (InConf => ctlfd # NoFd)
      /\ ss \in [Conn -> {"none", "queued", "open", "dead", "closed"}]
      /\ up \in [Conn -> Seq(Token)] /\ uprdy \in [Conn -> Nat]
      /\ \A c \in Clients : Ctl(c) \in Conn
  BY FdAssumption, ConnParts, ZenonT(30) DEF TypeOK, SrvType, SrvEvType, HandlerType, InConf, SockType, UpType
<1>1. UNCHANGED <<spc, ctlfd, datafd, sbatch, up>>
  BY Zenon DEF Net, RaiseListener, Establish, Refuse, DeliverUp, DeliverDown, SrvTimeout, CliTimeout
<1>e. EventInv
  BY DEF LiveInv
<1>2. CASE RaiseListener
  <2>1. UNCHANGED <<ss, uprdy>> /\ spend' \subseteq spend \cup {ListenFd}
    BY <1>2 DEF RaiseListener
  <2>2. EventInv'
    BY <1>1, <1>e, <2>1, Zenon DEF EventInv
  <2> QED
    BY <1>0, <1>1, <2>1, <2>2, ZeroSame, FdAssumption, ZenonT(30) DEF InConf
<1>3. ASSUME NEW k \in Conn, Establish(k)
      PROVE  LiveInv'
  <2>1. UNCHANGED <<spend, uprdy>> /\ ss' = [ss EXCEPT ![k] = "queued"] /\ cs[k] = "synsent"
    BY <1>3, Zenon DEF Establish
  <2>2. ss[k] = "none"
    BY <2>1 DEF DataInv, ConnectInv
  <2>3. EventInv'
    BY <1>0, <1>1, <1>e, <2>1, ZenonT(30) DEF EventInv
  <2>4. ctlfd # NoFd => (ss[ctlfd] = "dead" => ss'[ctlfd] = "dead")
    BY <1>0, <2>1, <2>2, ZenonT(30)
  <2> QED
    BY <1>0, <1>1, <2>1, <2>3, <2>4, ZeroSame, ZenonT(30) DEF InConf
<1>4. ASSUME NEW k \in Conn, Refuse(k) \/ DeliverDown(k) \/ CliTimeout(k)
      PROVE  LiveInv'
  <2>1. UNCHANGED <<spend, uprdy, ss>>
    BY <1>4 DEF Refuse, DeliverDown, CliTimeout
  <2>2. EventInv'
    BY <1>1, <1>e, <2>1, ZenonT(30) DEF EventInv
  <2> QED
    BY <1>0, <1>1, <2>1, <2>2, ZeroSame, ZenonT(30) DEF InConf
<1>5. ASSUME NEW k \in Conn, DeliverUp(k)
      PROVE  LiveInv'
  <2>1. PICK r \in (uprdy[k] + 1)..Len(up[k]) :
          /\ up[k][r] \notin {"PARAM_EXCHANGE", "LEN"}
          /\ uprdy' = [uprdy EXCEPT ![k] = r]
    BY <1>5, Zenon DEF DeliverUp
  <2>2. /\ spend' = IF k \in {ctlfd, datafd} THEN spend \cup {k} ELSE spend
        /\ ss' = ss
    BY <1>5, Zenon DEF DeliverUp
  <2>3. EventInv'
    BY <1>1, <1>e, <2>2, ZenonT(30) DEF EventInv
  <2>4. CASE \E d \in Clients : k = Ctl(d)
    <3>1. PICK d \in Clients : k = Ctl(d)
      BY <2>4
    <3>2. r \in Nat /\ uprdy[k] \in Nat /\ r > uprdy[k] /\ uprdy'[k] = r
          /\ \A j \in Conn : j # k => uprdy'[j] = uprdy[j]
      BY <1>0, <2>1
    <3>3. FormInv'
      BY <1>1, ZenonT(30) DEF LiveInv, FormInv, Within
    <3>4. WholeInv'
      BY <1>0, <1>1, <2>1, <3>2, ZenonT(30) DEF LiveInv, WholeInv
    <3>5. CASE k = ctlfd
      <4>1. ReadyInv /\ WholeInv
        BY DEF LiveInv
      <4>2. uprdy[k] > 0 => up[k][uprdy[k]] \notin {"PARAM_EXCHANGE", "LEN"}
        BY <3>1, <4>1, ZenonT(30) DEF WholeInv
      <4>3. \A n, m \in Nat : m > n => m > 0
        OBVIOUS
      <4>4. uprdy'[k] > 0
        BY <3>2, <4>3
      <4>5. (~InConf /\ ctlfd \in spend \cup sbatch => Ready(ctlfd, 0))'
        BY <1>1, <3>5, <4>4, ZenonT(30) DEF Ready
      <4>6. (~InConf /\ ctlfd \in spend \cap sbatch /\ AtConf(up[ctlfd]) => Ready(ctlfd, 3))'
        <5>1. SUFFICES ASSUME ~InConf, ctlfd \in sbatch, AtConf(up[ctlfd])
                       PROVE  uprdy'[k] > 3 \/ ss[k] = "dead"
          BY <1>1, <2>2, <3>5, ZenonT(30) DEF InConf, Ready
        <5>2. uprdy[k] > 0 \/ ss[k] = "dead"
          BY <3>5, <4>1, <5>1, Zenon DEF ReadyInv, Ready
        <5>3. uprdy[k] # 1 \/ ~(uprdy[k] > 0)
          BY <3>5, <4>2, <5>1, ZenonT(30) DEF AtConf
        <5>4. uprdy[k] # 2 \/ ~(uprdy[k] > 0)
          BY <3>5, <4>2, <5>1, ZenonT(30) DEF AtConf
        <5>5. \A n, m \in Nat : n > 0 /\ n # 1 /\ n # 2 /\ m > n => m > 3
          BY SMTT(30)
        <5> QED
          BY <3>2, <5>2, <5>3, <5>4, <5>5, ZenonT(30)
      <4>7. (spc = "len" /\ AtLen(up[ctlfd]) =>
               uprdy[ctlfd] > 1 /\ (ctlfd \in spend => Ready(ctlfd, 2)))'
        <5>1. SUFFICES ASSUME spc = "len", AtLen(up[ctlfd])
                       PROVE  uprdy'[k] > 1 /\ uprdy'[k] > 2
          BY <1>1, <3>5, Zenon DEF Ready
        <5>2. uprdy[k] > 1
          BY <3>5, <4>1, <5>1, Zenon DEF ReadyInv
        <5>3. \A n, m \in Nat : n > 1 /\ m > n => m > 1 /\ m > 2
          OBVIOUS
        <5> QED
          BY <3>2, <5>2, <5>3, Zenon
      <4>8. (spc = "json" /\ AtJson(up[ctlfd]) =>
               uprdy[ctlfd] > 0 /\ (ctlfd \in spend => Ready(ctlfd, 1)))'
        <5>1. SUFFICES ASSUME spc = "json", AtJson(up[ctlfd])
                       PROVE  uprdy'[k] > 0 /\ uprdy'[k] > 1
          BY <1>1, <3>5, ZenonT(30) DEF Ready
        <5>2. uprdy[k] > 0
          BY <3>5, <4>1, <5>1, ZenonT(30) DEF ReadyInv
        <5>3. \A n, m \in Nat : n > 0 /\ m > n => m > 0 /\ m > 1
          BY SMTT(30)
        <5> QED
          BY <3>2, <5>2, <5>3, Zenon
      <4>9. ReadyInv'
        BY <4>5, <4>6, <4>7, <4>8, Zenon DEF ReadyInv
      <4> QED
        BY <2>3, <3>3, <3>4, <4>9, ZenonT(30) DEF LiveInv
    <3>6. CASE k # ctlfd
      <4>1. ctlfd # NoFd => uprdy'[ctlfd] = uprdy[ctlfd] /\ (ctlfd \in spend' => ctlfd \in spend)
        BY <1>0, <2>2, <3>2, <3>6, ZenonT(30)
      <4>2. ctlfd = NoFd => ctlfd' \notin spend' \cup sbatch'
        BY <1>0, <1>1, <2>2, Zenon
      <4>3. ReadyInv'
        BY <1>0, <1>1, <2>2, <4>1, <4>2, Zenon DEF LiveInv, ReadyInv, Ready, InConf
      <4> QED
        BY <2>3, <3>3, <3>4, <4>3 DEF LiveInv
    <3> QED
      BY <3>5, <3>6
  <2>5. CASE ~\E d \in Clients : k = Ctl(d)
    <3>1. \A d \in Clients : uprdy'[Ctl(d)] = uprdy[Ctl(d)]
      BY <1>0, <2>1, <2>5, ZenonT(30)
    <3>2. k # ctlfd
      BY <1>0, <2>5, SMTT(30) DEF DataInv, FdInv, Conn, Ctl
    <3>3. NoFd \notin spend'
      BY <1>0, <2>2
    <3> QED
      BY <1>0, <1>1, <2>2, <2>3, <3>1, <3>2, <3>3, ZeroSame, ZenonT(30) DEF InConf
  <2> QED
    BY <2>4, <2>5
<1>6. ASSUME NEW k \in Conn, SrvTimeout(k)
      PROVE  LiveInv'
  <2>1. /\ ss' = [ss EXCEPT ![k] = "dead"] /\ spend' = spend \cup {k} /\ ss[k] = "open"
        /\ uprdy' = uprdy
    BY <1>6 DEF SrvTimeout
  <2>2. EventInv'
    BY <1>0, <1>1, <1>e, <2>1, ZenonT(30) DEF EventInv
  <2>3. CASE k = ctlfd
    <3>1. ss'[ctlfd] = "dead"
      BY <1>0, <2>1, <2>3, Zenon
    <3>2. ReadyInv'
      BY <1>1, <2>1, <3>1 DEF LiveInv, ReadyInv, Ready
    <3>3. FormInv' /\ WholeInv'
      BY <1>1, <2>1, Zenon DEF LiveInv, FormInv, WholeInv, Within
    <3> QED
      BY <2>2, <3>2, <3>3, ZenonT(30) DEF LiveInv
  <2>4. CASE k # ctlfd
    <3>1. ctlfd # NoFd => ss'[ctlfd] = ss[ctlfd]
      BY <1>0, <2>1, <2>4, ZenonT(30)
    <3> QED
      BY <1>0, <1>1, <2>1, <2>2, <2>4, <3>1, ZeroSame, ZenonT(30) DEF InConf
  <2> QED
    BY <2>3, <2>4, ZenonT(30)
<1> QED
  BY <1>2, <1>3, <1>4, <1>5, <1>6, ZenonT(30) DEF Net

\* A read of the control connection keeps its stream in form.
LEMMA ZeroConsume ==
  ASSUME TypeOK, DataInv, LiveInv, ctlfd \in Conn, uprdy[ctlfd] > 0, SrvConsume(ctlfd, FALSE),
         UNCHANGED <<ctlfd, datafd, ss>>, sbatch' \subseteq sbatch,
         up[ctlfd][1] = "PARAM_EXCHANGE" => spc' = "len", up[ctlfd][1] = "LEN" => spc' = "json"
  PROVE  FormInv' /\ WholeInv' /\ EventInv'
<1>0. /\ up \in [Conn -> Seq(Token)] /\ uprdy \in [Conn -> Nat]
      /\ uprdy[ctlfd] <= Len(up[ctlfd]) /\ up[ctlfd] \in Seq(Token) /\ uprdy[ctlfd] \in Nat
      /\ \A c \in Clients : Ctl(c) \in Conn
  BY ConnParts DEF TypeOK, UpType
<1>1. /\ up' = [up EXCEPT ![ctlfd] = Tail(@)] /\ uprdy' = [uprdy EXCEPT ![ctlfd] = @ - 1]
      /\ spend' \subseteq spend \cup {ctlfd}
  BY DEF SrvConsume
<1>2. /\ up'[ctlfd] = Tail(up[ctlfd]) /\ uprdy'[ctlfd] = uprdy[ctlfd] - 1
      /\ \A k \in Conn : k # ctlfd => up'[k] = up[k] /\ uprdy'[k] = uprdy[k]
  BY <1>0, <1>1
<1>3. up[ctlfd] # <<>> /\ Len(up[ctlfd]) \in Nat
      /\ \A i \in 1..(Len(up[ctlfd]) - 1) : Tail(up[ctlfd])[i] = up[ctlfd][i + 1]
  BY <1>0, SMTT(30)
<1>4. ASSUME NEW c \in Clients PROVE Formed(up'[Ctl(c)], Within(Ctl(c))')
  <2>0. Formed(up[Ctl(c)], Within(Ctl(c)))
    BY Zenon DEF LiveInv, FormInv
  <2>1. CASE Ctl(c) = ctlfd
    <3>1. Within(Ctl(c))' = spc'
      BY <2>1 DEF Within
    <3>2. Formed(Tail(up[ctlfd]), spc')
      BY <1>0, <1>3, <2>0, <2>1, FormedTail, ZenonT(30)
    <3> QED
      BY <1>2, <2>1, <3>1, <3>2, ZenonT(30)
  <2>2. CASE Ctl(c) # ctlfd
    <3>1. Within(Ctl(c))' = "none" /\ Within(Ctl(c)) = "none" /\ up'[Ctl(c)] = up[Ctl(c)]
      BY <1>0, <1>2, <2>2, Zenon DEF Within
    <3> QED
      BY <2>0, <3>1, Zenon
  <2> QED
    BY <2>1, <2>2, Zenon
<1>5. ASSUME NEW c \in Clients, uprdy'[Ctl(c)] > 0
      PROVE  up'[Ctl(c)][uprdy'[Ctl(c)]] \notin {"PARAM_EXCHANGE", "LEN"}
  <2>0. uprdy[Ctl(c)] > 0 => up[Ctl(c)][uprdy[Ctl(c)]] \notin {"PARAM_EXCHANGE", "LEN"}
    BY DEF LiveInv, WholeInv
  <2>1. CASE Ctl(c) = ctlfd
    <3>1. uprdy[ctlfd] - 1 \in 1..(Len(up[ctlfd]) - 1) /\ (uprdy[ctlfd] - 1) + 1 = uprdy[ctlfd]
      <4>1. uprdy[ctlfd] - 1 > 0
        BY <1>2, <1>5, <2>1, Zenon
      <4> QED
        BY <1>0, <1>3, <4>1, OneLess, Zenon
    <3>2. Tail(up[ctlfd])[uprdy[ctlfd] - 1] = up[ctlfd][uprdy[ctlfd]]
      BY <1>3, <3>1, Zenon
    <3> QED
      BY <1>2, <2>0, <2>1, <3>2, Zenon
  <2>2. CASE Ctl(c) # ctlfd
    BY <1>0, <1>2, <1>5, <2>0, <2>2, Zenon
  <2> QED
    BY <2>1, <2>2, ZenonT(30)
<1>6. EventInv'
  BY <1>1 DEF LiveInv, EventInv
<1> QED
  BY <1>4, <1>5, <1>6, Zenon DEF FormInv, WholeInv

LEMMA ZeroMsg ==
  ASSUME TypeOK, TypeOK', PhaseInv, DataInv, LiveInv, SrvMsg
  PROVE  Stopped' \/ LiveInv'
<1>0. /\ ctlfd \in Conn /\ spc = "loop" /\ ctlfd \in sbatch
      /\ UNCHANGED <<ctlfd, datafd, ss>>
  BY FdAssumption, Zenon DEF TypeOK, SrvType, SrvEvType, SrvMsg
<1>n. ctlfd # NoFd /\ NoFd \notin Conn
  BY <1>0, FdAssumption, Zenon
<1>1. PICK d \in Clients : ctlfd = Ctl(d)
  BY <1>0, <1>n, SMTT(30) DEF DataInv, FdInv, Conn, Ctl
<1>2. /\ up[ctlfd] \in Seq(Token) /\ uprdy[ctlfd] \in Nat /\ uprdy[ctlfd] <= Len(up[ctlfd])
      /\ ss[ctlfd] \in {"none", "queued", "open", "dead", "closed"}
  BY <1>0 DEF TypeOK, UpType, SockType
<1> DEFINE tok == SrvRead(ctlfd)
<1>3. CASE tok \in Nothing
  BY <1>0, <1>3, Zenon DEF SrvMsg, Stopped, Ended, Nothing
<1>4. CASE tok = "ENOTCONN"
  <2>1. /\ sbatch' = {} /\ UNCHANGED <<spc, sstate, spend, up, uprdy>>
    BY <1>4 DEF SrvMsg, Nothing
  <2>2. EventInv'
    BY <1>0, <2>1, Zenon DEF LiveInv, EventInv
  <2>3. NoFd \notin spend
    BY FdAssumption DEF TypeOK, SrvEvType
  <2> QED
    BY <1>0, <1>n, <2>1, <2>2, <2>3, ZeroSame, Zenon DEF InConf
<1>5. CASE tok \notin Nothing \cup {"ENOTCONN"}
  <2>1. /\ uprdy[ctlfd] > 0 /\ tok = Head(up[ctlfd]) /\ up[ctlfd] # <<>>
    BY <1>0, <1>5, ReadGot, Zenon DEF Nothing
  <2>2. ss[ctlfd] # "dead"
    BY <1>5, Zenon DEF SrvRead
  <2>3. Head(up[ctlfd]) = up[ctlfd][1] /\ Len(up[ctlfd]) > 0 /\ 1 \in 1..Len(up[ctlfd])
    BY <1>2, <2>1, SMTT(30)
  <2>4. SrvConsume(ctlfd, FALSE)
    BY <1>5, Zenon DEF SrvMsg, Nothing
  <2>5. Formed(up[ctlfd], spc)
    BY <1>1 DEF LiveInv, FormInv, Within
  <2>6. tok \in CtlToken /\ tok \notin {"LEN", "JSON", "FIN"}
    <3>1. up[ctlfd][1] \in CtlToken /\ up[ctlfd][1] \notin {"LEN", "JSON"}
      BY <1>0, <2>3, <2>5, SMTT(30) DEF Formed
    <3> QED
      BY <1>5, <2>1, <2>3, <3>1, ZenonT(30) DEF Nothing
  <2>7. CASE tok \in {"END", "ERROR"}
    BY <1>0, <1>5, <2>7, Zenon DEF SrvMsg, Stopped, Ended, Nothing
  <2>8. CASE tok = "PARAM_EXCHANGE" /\ sstate # "PARAM_EXCHANGE"
    BY <1>0, <1>5, <2>8, ZenonT(30) DEF SrvMsg, SrvFails, Stopped, Ended, Nothing
  <2>9. CASE tok = "PARAM_EXCHANGE" /\ sstate = "PARAM_EXCHANGE"
    <3>1. spc' = "len" /\ sbatch' = sbatch
      BY <1>0, <1>5, <2>9, ZenonT(30) DEF SrvMsg, Nothing
    <3>2. FormInv' /\ WholeInv' /\ EventInv'
      BY <1>0, <2>1, <2>3, <2>4, <2>9, <3>1, ZeroConsume, ZenonT(30)
    <3>3. /\ up'[ctlfd] = Tail(up[ctlfd]) /\ uprdy'[ctlfd] = uprdy[ctlfd] - 1
          /\ spend' = IF uprdy[ctlfd] > 1 /\ up[ctlfd][2] = "FIN"
                      THEN spend \cup {ctlfd} ELSE spend
      BY <1>0, <2>4, ZenonT(30) DEF SrvConsume, TypeOK, UpType
    <3>4. ASSUME AtLen(Tail(up[ctlfd]))
          PROVE  uprdy'[ctlfd] > 1 /\ (ctlfd \in spend' => uprdy'[ctlfd] > 2)
      <4>1. AtConf(up[ctlfd])
        <5> DEFINE q == up[ctlfd]
        <5>1. q \in Seq(Token) /\ q # <<>> /\ q[1] = "PARAM_EXCHANGE" /\ AtLen(Tail(q))
          BY <1>2, <2>1, <2>3, <2>9, <3>4, ZenonT(30)
        <5> HIDE DEF q
        <5>2. Len(Tail(q)) = Len(q) - 1 /\ Len(q) \in Nat
              /\ \A i \in 1..(Len(q) - 1) : Tail(q)[i] = q[i + 1]
          BY <5>1
        <5>3. AtConf(q)
          BY <5>1, <5>2 DEF AtLen, AtConf
        <5> QED
          BY <5>3, ZenonT(30) DEF q
      <4>2. /\ uprdy[ctlfd] # 1 /\ uprdy[ctlfd] # 2
        BY <1>1, <2>1, <4>1, ZenonT(30) DEF LiveInv, WholeInv, AtConf
      <4>3. ctlfd \in spend' => ctlfd \in spend
        BY <3>3, <4>1, ZenonT(30) DEF AtConf
      <4>4. ctlfd \in spend => uprdy[ctlfd] > 3
        BY <1>0, <2>2, <4>1, ZenonT(30) DEF LiveInv, ReadyInv, Ready, InConf
      <4>5. \A n \in Nat : n > 0 /\ n # 1 /\ n # 2 => n - 1 > 1
        OBVIOUS
      <4>6. \A n \in Nat : n > 3 => n - 1 > 2
        BY SMTT(30)
      <4> QED
        BY <1>2, <2>1, <3>3, <4>2, <4>3, <4>4, <4>5, <4>6, ZenonT(30)
    <3>5. ReadyInv'
      BY <1>0, <3>1, <3>3, <3>4, ZenonT(30) DEF ReadyInv, InConf, Ready
    <3> QED
      BY <3>2, <3>5, Zenon DEF LiveInv
  <2> QED
    BY <2>6, <2>7, <2>8, <2>9, ZenonT(30) DEF CtlToken
<1> QED
  BY <1>3, <1>4, <1>5, ZenonT(30)

\* JSON_read(): both reads find what was announced, or the test ends.
LEMMA ZeroRead ==
  ASSUME TypeOK, TypeOK', PhaseInv, DataInv, LiveInv, SrvReadLen \/ SrvReadJson
  PROVE  Stopped' \/ LiveInv'
<1>0. /\ ctlfd \in Conn /\ InConf /\ UNCHANGED <<ctlfd, datafd, ss>>
  BY FdAssumption, Zenon DEF TypeOK, SrvType, HandlerType, InConf, SrvReadLen, SrvReadJson
<1>n. ctlfd # NoFd /\ NoFd \notin Conn
  BY <1>0, FdAssumption, Zenon
<1>1. PICK d \in Clients : ctlfd = Ctl(d)
  BY <1>0, <1>n, SMTT(30) DEF DataInv, FdInv, Conn, Ctl
<1>2. /\ up[ctlfd] \in Seq(Token) /\ uprdy[ctlfd] \in Nat /\ uprdy[ctlfd] <= Len(up[ctlfd])
  BY <1>0 DEF TypeOK, UpType
<1>3. CASE \E ok \in BOOLEAN : SrvFails(ok)
  BY <1>3, ZenonT(30) DEF SrvFails, Stopped, Ended
<1>4. ASSUME SrvRead(ctlfd) \in {"LEN", "JSON"}, SrvConsume(ctlfd, FALSE)
      PROVE  /\ uprdy[ctlfd] > 0 /\ SrvRead(ctlfd) = up[ctlfd][1] /\ ss[ctlfd] # "dead"
             /\ up[ctlfd] # <<>>
             /\ up'[ctlfd] = Tail(up[ctlfd]) /\ uprdy'[ctlfd] = uprdy[ctlfd] - 1
             /\ spend' = IF uprdy[ctlfd] > 1 /\ up[ctlfd][2] = "FIN"
                         THEN spend \cup {ctlfd} ELSE spend
  <2>1. uprdy[ctlfd] > 0 /\ SrvRead(ctlfd) = Head(up[ctlfd]) /\ up[ctlfd] # <<>>
    BY <1>0, <1>4, ReadGot, ZenonT(30)
  <2>2. Head(up[ctlfd]) = up[ctlfd][1]
    BY <1>2, <2>1
  <2>3. ss[ctlfd] # "dead"
    BY <1>4 DEF SrvRead
  <2> QED
    BY <1>0, <1>4, <2>1, <2>2, <2>3, ZenonT(30) DEF SrvConsume, TypeOK, UpType
<1>5. CASE SrvReadLen /\ SrvRead(ctlfd) = "LEN"
  <2>1. SrvConsume(ctlfd, FALSE) /\ spc = "len" /\ spc' = "json" /\ sbatch' = sbatch
    BY <1>5, Zenon DEF SrvReadLen
  <2>2. FormInv' /\ WholeInv' /\ EventInv'
    BY <1>0, <1>4, <1>5, <2>1, ZeroConsume, ZenonT(30)
  <2>3. ASSUME AtJson(Tail(up[ctlfd]))
        PROVE  uprdy'[ctlfd] > 0 /\ (ctlfd \in spend' => uprdy'[ctlfd] > 1)
    <3>1. AtLen(up[ctlfd])
      <4> DEFINE q == up[ctlfd]
      <4>1. q \in Seq(Token) /\ q # <<>> /\ q[1] = "LEN" /\ AtJson(Tail(q))
        BY <1>2, <1>4, <1>5, <2>1, <2>3, ZenonT(30)
      <4> HIDE DEF q
      <4>2. Len(Tail(q)) = Len(q) - 1 /\ Len(q) \in Nat
            /\ \A i \in 1..(Len(q) - 1) : Tail(q)[i] = q[i + 1]
        BY <4>1
      <4>3. AtLen(q)
        BY <4>1, <4>2, SMTT(30) DEF AtJson, AtLen
      <4> QED
        BY <4>3, ZenonT(30) DEF q
    <3>2. uprdy[ctlfd] > 1 /\ (ctlfd \in spend => uprdy[ctlfd] > 2)
      BY <1>4, <1>5, <2>1, <3>1, Zenon DEF LiveInv, ReadyInv, Ready
    <3>3. ctlfd \in spend' => ctlfd \in spend
      BY <1>4, <1>5, <2>1, <3>1, Zenon DEF AtLen
    <3>4. \A n \in Nat : (n > 1 => n - 1 > 0) /\ (n > 2 => n - 1 > 1)
      OBVIOUS
    <3> QED
      BY <1>2, <1>4, <1>5, <2>1, <3>2, <3>3, <3>4, ZenonT(30)
  <2>4. ReadyInv'
    BY <1>0, <1>4, <1>5, <2>1, <2>3, Zenon DEF ReadyInv, InConf, Ready
  <2> QED
    BY <2>2, <2>4 DEF LiveInv
<1>6. CASE SrvReadJson /\ SrvRead(ctlfd) = "JSON" /\ ~\E ok \in BOOLEAN : SrvFails(ok)
  <2>1. /\ SrvConsume(ctlfd, FALSE) /\ spc = "json" /\ spc' = "loop"
        /\ \/ sstate' = "CREATE_STREAM" /\ sbatch' = sbatch \ {ctlfd}
           \/ sstate' = "ERROR" /\ sbatch' = {}
    BY <1>6, Zenon DEF SrvReadJson
  <2>2. CASE sstate' = "ERROR"
    BY <2>1, <2>2, ZenonT(30) DEF Stopped, Ended
  <2>3. CASE sstate' = "CREATE_STREAM"
    <3>1. FormInv' /\ WholeInv' /\ EventInv'
      BY <1>0, <1>4, <1>6, <2>1, ZeroConsume, ZenonT(30)
    <3>2. AtJson(up[ctlfd])
      <4>1. \A q \in Seq(Token) : q # <<>> => Len(q) >= 1
        BY SMTT(30)
      <4> QED
        BY <1>2, <1>4, <1>6, <2>1, <4>1, Zenon DEF AtJson
    <3>3. ctlfd \in spend => uprdy[ctlfd] > 1
      BY <1>4, <1>6, <2>1, <3>2, ZenonT(30) DEF LiveInv, ReadyInv, Ready
    <3>4. ctlfd \in spend' => uprdy[ctlfd] > 1
      BY <1>4, <1>6, <2>1, <3>3, ZenonT(30)
    <3>5. ctlfd \in spend' => uprdy'[ctlfd] > 0
      <4>1. \A n \in Nat : n > 1 => n - 1 > 0
        BY SMTT(30)
      <4> QED
        BY <1>2, <1>4, <1>6, <2>1, <3>4, <4>1, ZenonT(30)
    <3>6. ReadyInv'
      BY <1>0, <2>1, <2>3, <3>5, ZenonT(30) DEF ReadyInv, InConf, Ready
    <3> QED
      BY <3>1, <3>6 DEF LiveInv
  <2> QED
    BY <2>1, <2>2, <2>3, Zenon
<1> QED
  BY <1>3, <1>5, <1>6, Zenon DEF SrvReadLen, SrvReadJson

LEMMA ZeroSrv ==
  ASSUME TypeOK, TypeOK', PhaseInv, DataInv, LiveInv, Srv \/ SrvInterrupt
  PROVE  ZeroInv'
<1>0. /\ ctlfd \in Conn \cup {NoFd} /\ datafd \in Conn \cup {NoFd}
      /\ NoFd \notin spend \cup sbatch \cup Conn /\ ListenFd \notin Conn
      /\ NoFd \notin spend' \cup sbatch' /\ (InConf' => ctlfd' # NoFd)
      /\ ss \in [Conn -> {"none", "queued", "open", "dead", "closed"}]
      /\ up \in [Conn -> Seq(Token)] /\ uprdy \in [Conn -> Nat]
      /\ \A c \in Clients : Ctl(c) \in Conn
  BY FdAssumption, ConnParts, Zenon DEF TypeOK, SrvType, SrvEvType, HandlerType, InConf, SockType, UpType
<1>e. EventInv
  BY Zenon DEF LiveInv
<1>1. CASE SrvDestroy
  BY <1>1, Zenon DEF SrvDestroy, ZeroInv
<1>2. CASE \/ SrvListen /\ spc' # "over"
           \/ SrvBatchDone /\ ~SrvDestroy
           \/ SrvAcceptFails \/ SrvRecvStart
  <2>1. /\ UNCHANGED <<ctlfd, datafd, spend, ss, up, uprdy>> /\ sbatch' \subseteq sbatch
        /\ ~InConf /\ ~InConf'
    BY <1>2 DEF SrvListen, SrvBatchDone, SrvAcceptFails, SrvRecvStart, InConf
  <2>2. EventInv'
    BY <1>e, <2>1, ZenonT(30) DEF EventInv
  <2> QED
    BY <1>0, <2>1, <2>2, ZeroSame, ZenonT(30) DEF ZeroInv
<1>3. CASE SrvListen /\ spc' = "over"
  BY <1>3 DEF ZeroInv
<1>4. CASE SrvEpollWait
  <2>1. /\ UNCHANGED <<ctlfd, datafd, ss, up, uprdy>> /\ sbatch' = spend /\ spend' = {}
        /\ spc = "wait" /\ spc' = "loop"
    BY <1>4, Zenon DEF SrvEpollWait
  <2>2. EventInv'
    BY <1>e, <2>1 DEF EventInv
  <2>3. FormInv' /\ WholeInv'
    <3>1. ASSUME NEW c \in Clients PROVE Formed(up[Ctl(c)], Within(Ctl(c))')
      <4>1. Formed(up[Ctl(c)], Within(Ctl(c)))
        BY DEF LiveInv, FormInv
      <4>2. Within(Ctl(c)) \notin {"len", "json"} /\ Within(Ctl(c))' \notin {"len", "json"}
        BY <2>1 DEF Within
      <4> QED
        BY <4>1, <4>2, Zenon DEF Formed
    <3> QED
      BY <2>1, <3>1, Zenon DEF LiveInv, FormInv, WholeInv
  <2>4. ReadyInv'
    BY <2>1, Zenon DEF LiveInv, ReadyInv, InConf, Ready
  <2> QED
    BY <2>2, <2>3, <2>4, ZenonT(30) DEF LiveInv, ZeroInv
<1>5. ASSUME NEW k \in Conn, NEW ok \in BOOLEAN, SrvAcceptCtl(k, ok)
      PROVE  ZeroInv'
  <2>1. /\ ctlfd = NoFd /\ ctlfd' = k /\ UNCHANGED <<datafd, up, uprdy, spc>> /\ spc = "loop"
        /\ ss' = [ss EXCEPT ![k] = IF ok THEN "open" ELSE "closed"]
        /\ spend' = spend \cup Relisten \cup (IF ok THEN Readable(k) ELSE {})
        /\ sbatch' \subseteq sbatch
    BY <1>5, Zenon DEF SrvAcceptCtl, Accepting, ServerFree
  <2>2. datafd = NoFd
    BY <2>1, Zenon DEF PhaseInv
  <2>3. k \notin spend \cup sbatch \cup Relisten /\ Relisten \subseteq {ListenFd}
    BY <1>0, <1>e, <2>1, <2>2, ZenonT(30) DEF EventInv, Relisten
  <2>4. k \in spend' => uprdy[k] > 0
    BY <2>1, <2>3, Zenon DEF Readable
  <2>5. k \notin sbatch'
    BY <2>1, <2>3, ZenonT(30)
  <2>6. EventInv'
    <3>1. spend \cup sbatch \subseteq {ListenFd}
      BY <1>0, <1>e, <2>1, <2>2, ZenonT(30) DEF EventInv
    <3>2. spend' \cup sbatch' \subseteq {ListenFd, k}
      BY <2>1, <2>3, <3>1, ZenonT(30) DEF Readable
    <3>3. \A j \in Conn : ss[j] # "open"
      BY <1>0, <1>e, <2>1, <2>2, ZenonT(30) DEF EventInv
    <3>4. \A j \in Conn : ss'[j] = "open" => j = k
      BY <1>0, <2>1, <3>3, ZenonT(30)
    <3> QED
      BY <2>1, <3>2, <3>4, ZenonT(30) DEF EventInv
  <2>7. FormInv' /\ WholeInv'
    <3>1. ASSUME NEW c \in Clients PROVE Formed(up[Ctl(c)], Within(Ctl(c))')
      <4>1. Formed(up[Ctl(c)], Within(Ctl(c)))
        BY DEF LiveInv, FormInv
      <4>2. Within(Ctl(c)) \notin {"len", "json"} /\ Within(Ctl(c))' \notin {"len", "json"}
        BY <2>1 DEF Within
      <4> QED
        BY <4>1, <4>2, Zenon DEF Formed
    <3> QED
      BY <2>1, <3>1, Zenon DEF LiveInv, FormInv, WholeInv
  <2>8. ReadyInv'
    BY <2>1, <2>4, <2>5, Zenon DEF ReadyInv, InConf, Ready
  <2> QED
    BY <2>6, <2>7, <2>8, ZenonT(30) DEF LiveInv, ZeroInv
<1>6. ASSUME NEW k \in Conn, NEW ok \in BOOLEAN, SrvAcceptData(k, ok) \/ SrvDeny(k, ok)
      PROVE  ZeroInv'
  <2>1. /\ UNCHANGED <<ctlfd, up, uprdy, spc>> /\ spc = "loop" /\ sbatch' \subseteq sbatch
        /\ acceptq # <<>> /\ k = Head(acceptq) /\ ctlfd # NoFd
    BY <1>6, Zenon DEF SrvAcceptData, SrvDeny, Accepting, ServerFree
  <2>2. \/ /\ ss' = [ss EXCEPT ![k] = "open"] /\ datafd = NoFd /\ datafd' = k
           /\ spend' = spend \cup Relisten \cup Readable(k)
        \/ /\ ss' = [ss EXCEPT ![k] = "closed"] /\ datafd' = datafd
           /\ spend' = spend \cup Relisten
    BY <1>6, Zenon DEF SrvAcceptData, SrvDeny, WantsData
  <2>3. ss[k] = "queued" /\ k # ctlfd
    <3>1. acceptq \in Seq(Conn)
      BY DEF TypeOK, NetType
    <3>2. 1 \in 1..Len(acceptq) /\ k = acceptq[1]
      BY <2>1, <3>1, SMTT(30)
    <3>3. ss[k] = "queued"
      BY <3>2, ZenonT(30) DEF DataInv, QueueInv
    <3> QED
      BY <2>1, <3>3, Zenon DEF DataInv, FdInv, Settled
  <2>4. Relisten \subseteq {ListenFd} /\ Readable(k) \subseteq {k}
    BY DEF Relisten, Readable
  <2>5. EventInv'
    <3>1. \A j \in Conn : ss'[j] = "open" => ss[j] = "open" \/ j = k
      BY <1>0, <2>2, ZenonT(30)
    <3>2. CASE datafd' = k /\ datafd = NoFd
      BY <1>0, <1>e, <2>1, <2>2, <2>4, <3>1, <3>2, ZenonT(30) DEF EventInv
    <3>3. CASE ss' = [ss EXCEPT ![k] = "closed"] /\ datafd' = datafd /\ spend' = spend \cup Relisten
      <4>1. \A j \in Conn : ss'[j] = "open" => ss[j] = "open"
        BY <1>0, <3>3, ZenonT(30)
      <4> QED
        BY <1>e, <2>1, <2>4, <3>3, <4>1, ZenonT(30) DEF EventInv
    <3> QED
      BY <2>2, <3>2, <3>3, ZenonT(30)
  <2>6. ss'[ctlfd] = ss[ctlfd]
    BY <1>0, <2>1, <2>2, <2>3, ZenonT(30)
  <2>7. ctlfd \in spend' => ctlfd \in spend
    <3>1. spend' \subseteq spend \cup {ListenFd, k}
      BY <2>2, <2>4, ZenonT(30)
    <3>2. ctlfd # ListenFd
      BY <1>0, <2>1, Zenon
    <3> QED
      BY <2>3, <3>1, <3>2, ZenonT(30)
  <2> QED
    BY <1>0, <2>1, <2>5, <2>6, <2>7, ZeroSame, ZenonT(30) DEF ZeroInv, InConf
<1>7. CASE SrvMsg
  BY <1>7, ZeroMsg, Zenon DEF ZeroInv
<1>8. CASE SrvReadLen \/ SrvReadJson
  BY <1>8, ZeroRead, Zenon DEF ZeroInv
<1>9. CASE SrvRecv
  <2>1. /\ UNCHANGED <<ctlfd, datafd, ss>> /\ sbatch' \subseteq sbatch
        /\ ~InConf /\ ~InConf' /\ datafd # NoFd
    BY <1>9, Zenon DEF SrvRecv, InConf, TypeOK, HandlerType
  <2>2. \/ UNCHANGED <<spend, up, uprdy>>
        \/ SrvConsume(datafd, TRUE)
    BY <1>9, Zenon DEF SrvRecv
  <2>3. /\ spend' \subseteq spend \cup {datafd}
        /\ \A j \in Conn : j # datafd => up'[j] = up[j] /\ uprdy'[j] = uprdy[j]
    BY <1>0, <2>2, Zenon DEF SrvConsume
  <2>4. ctlfd # datafd /\ \A c \in Clients : datafd # Ctl(c)
    <3>1. datafd = Data(ctlfd[1]) /\ ctlfd[2] = "ctl"
      BY <2>1, Zenon DEF PhaseInv, DataInv, FdInv
    <3>2. datafd[2] = "data" /\ \A c \in Clients : Ctl(c)[2] = "ctl"
      BY <3>1 DEF Data, Ctl
    <3> QED
      BY <3>1, <3>2, Zenon
  <2>5. EventInv'
    BY <1>e, <2>1, <2>3, Zenon DEF EventInv
  <2>6. \A c \in Clients : up'[Ctl(c)] = up[Ctl(c)] /\ uprdy'[Ctl(c)] = uprdy[Ctl(c)]
    BY <1>0, <2>3, <2>4, Zenon
  <2>7. ctlfd \in spend' => ctlfd \in spend
    BY <2>3, <2>4, ZenonT(30)
  <2> QED
    BY <1>0, <2>1, <2>5, <2>6, <2>7, ZeroSame, Zenon DEF ZeroInv
<1> QED
  BY <1>1, <1>2, <1>3, <1>4, <1>5, <1>6, <1>7, <1>8, <1>9, ZenonT(30) DEF Srv, SrvInterrupt

\* Nothing restarts a test that has stopped.
LEMMA ZeroStopped ==
  ASSUME TypeOK, PhaseInv, spc = "over" \/ Stopped, [Next]_vars
  PROVE  ZeroInv'
<1>1. CASE UNCHANGED <<spc, sstate, ctlfd, sbatch>>
  BY <1>1 DEF ZeroInv, Stopped, Ended
<1>2. CASE Net \/ UNCHANGED vars
  BY <1>1, <1>2, ZenonT(30) DEF Net, RaiseListener, Establish, Refuse, DeliverUp, DeliverDown, SrvTimeout,
                    CliTimeout, vars
<1>3. CASE \E c \in Clients : Cli(c) \/ CliInterrupt(c)
  BY <1>1, <1>3, ZenonT(30) DEF Cli, CliInterrupt, CliStart, CliEpollWait, CliBatchDone, CliNoMsg, CliMsg,
                    CliSend, CliDestroy
<1>4. CASE Srv \/ SrvInterrupt
  <2>1. spc # "over" /\ Stopped
    BY <1>4, ZenonT(30) DEF Srv, SrvInterrupt, SrvListen, SrvEpollWait, SrvBatchDone, SrvAcceptFails,
                SrvAcceptCtl, SrvAcceptData, SrvDeny, Accepting, SrvMsg, SrvReadLen, SrvReadJson,
                SrvRecvStart, SrvRecv
  <2>2. ctlfd # NoFd /\ sstate \in {"END", "ERROR"} /\ ctlfd \notin sbatch /\ spc \in {"loop", "recv"}
    BY <2>1 DEF Stopped, Ended, PhaseInv
  <2>3. CASE SrvBatchDone
    BY <2>2, <2>3, Zenon DEF SrvBatchDone, SrvDestroy, ZeroInv
  <2>4. CASE SrvAcceptFails \/ SrvRecvStart \/ SrvRecv
    <3>1. /\ ctlfd' = ctlfd /\ sbatch' \subseteq sbatch /\ spc' \in {"loop", "recv"}
          /\ sstate' \in {sstate, "ERROR"}
      BY <2>2, <2>4, Zenon DEF SrvAcceptFails, SrvRecvStart, SrvRecv
    <3> QED
      BY <2>2, <3>1 DEF ZeroInv, Stopped, Ended
  <2>5. ASSUME NEW k \in Conn, NEW ok \in BOOLEAN,
               SrvAcceptCtl(k, ok) \/ SrvAcceptData(k, ok) \/ SrvDeny(k, ok)
        PROVE  ZeroInv'
    BY <2>2, <2>5, Zenon DEF SrvAcceptCtl, SrvAcceptData, SrvDeny, ServerFree, WantsData, ZeroInv, Stopped,
                      Ended
  <2> QED
    BY <1>4, <2>2, <2>3, <2>4, <2>5, Zenon
    DEF Srv, SrvInterrupt, SrvListen, SrvEpollWait, SrvMsg, SrvReadLen, SrvReadJson
<1> QED
  BY <1>2, <1>3, <1>4, ZenonT(30) DEF Next

LEMMA ZeroInit == Init => ZeroInv
<1> SUFFICES ASSUME Init PROVE LiveInv
  BY Zenon DEF ZeroInv
<1>1. FormInv /\ WholeInv
  BY ConnParts, SMTT(30) DEF Init, FormInv, WholeInv, Formed
<1>2. EventInv /\ ReadyInv
  BY DEF Init, EventInv, ReadyInv, InConf
<1> QED
  BY <1>1, <1>2 DEF LiveInv

LEMMA ZeroNext ==
  ASSUME Coalesced, TypeOK, TypeOK', PhaseInv, DataInv, ZeroInv, [Next]_vars
  PROVE  ZeroInv'
<1>1. CASE spc = "over" \/ Stopped
  BY <1>1, ZeroStopped, Zenon
<1>2. CASE LiveInv
  <2>1. CASE UNCHANGED vars
    BY <1>2, <2>1, Zenon DEF vars, ZeroInv, LiveInv, FormInv, WholeInv, EventInv, ReadyInv, Within, InConf,
                      Ready
  <2>2. CASE Net
    BY <1>2, <2>2, ZeroNet, ZenonT(30) DEF ZeroInv
  <2>3. CASE \E c \in Clients : Cli(c) \/ CliInterrupt(c)
    BY <1>2, <2>3, ZeroCli, ZenonT(30) DEF ZeroInv
  <2> QED
    BY <1>2, <2>1, <2>2, <2>3, ZeroSrv, ZenonT(30) DEF Next
<1> QED
  BY <1>1, <1>2 DEF ZeroInv

\* mperf_handle_server_msg() takes a 0 from nread() for the client's close.  That is right
\* whenever TCP delivers the three writes of a configuration together: no event of the control
\* connection is then handled with an empty buffer, whatever else is late, lost or timed out.
THEOREM ZeroMeansClosedIfWhole ==
  ASSUME OwnAddresses, Coalesced
  PROVE  Spec => []ZeroMeansClosed
<1>1. Init => TypeOK /\ SessionInv /\ PhaseInv /\ DataInv /\ ZeroInv
  BY TypeInit, SessionInit, PhaseInit, DataInit, ZeroInit, ZenonT(30)
<1>2. TypeOK /\ SessionInv /\ PhaseInv /\ DataInv /\ ZeroInv /\ [Next]_vars =>
        (TypeOK /\ SessionInv /\ PhaseInv /\ DataInv /\ ZeroInv)'
  BY TypeNext, SessionNext, PhaseNext, DataNext, ZeroNext, ZenonT(30)
<1>3. TypeOK /\ ZeroInv => ZeroMeansClosed
  <2> SUFFICES ASSUME TypeOK, ZeroInv, spc = "loop", ctlfd \in sbatch
               PROVE  SrvRead(ctlfd) # "EAGAIN"
    BY DEF ZeroMeansClosed
  <2>1. LiveInv /\ ctlfd \in Conn
    BY FdAssumption, ZenonT(30) DEF ZeroInv, Stopped, TypeOK, SrvType, SrvEvType
  <2>2. Ready(ctlfd, 0)
    BY <2>1, ZenonT(30) DEF LiveInv, ReadyInv, InConf
  <2>3. /\ up[ctlfd] \in Seq(Token) /\ uprdy[ctlfd] \in Nat /\ uprdy[ctlfd] <= Len(up[ctlfd])
    BY <2>1 DEF TypeOK, UpType
  <2>4. CASE ss[ctlfd] = "dead"
    BY <2>4 DEF SrvRead
  <2>5. CASE ss[ctlfd] # "dead"
    <3>1. uprdy[ctlfd] # 0 /\ up[ctlfd] # <<>>
      BY <2>2, <2>3, <2>5, SMTT(30) DEF Ready
    <3>2. Head(up[ctlfd]) \in Token
      BY <2>3, <3>1, SMTT(30)
    <3>3. SrvRead(ctlfd) = Head(up[ctlfd])
      BY <2>5, <3>1, Zenon DEF SrvRead
    <3> QED
      BY <3>2, <3>3, Zenon DEF Token, States
  <2> QED
    BY <2>4, <2>5
<1> QED
  BY <1>1, <1>2, <1>3, PTL DEF Spec

-----------------------------------------------------------------------------
(* The blocks. *)

\* A data connection carries blocks and at last the FIN, and those of every
\* client that mperf_recv() has not counted are still on the way.
BlockInv ==
  /\ spc # "over" /\ datafd = NoFd => rx = 0
  /\ \A c \in Clients :
       /\ \A i \in 1..Len(up[Data(c)]) : up[Data(c)][i] \in {"BLOCK", "FIN"}
       /\ spc # "over" =>
            tx[c] = (IF datafd = Data(c) THEN rx ELSE 0) + Blocks(up[Data(c)])

-----------------------------------------------------------------------------
(* Counting blocks. *)

At(q) == {i \in 1..Len(q) : q[i] = "BLOCK"}

LEMMA AtFinite ==
  ASSUME NEW q \in Seq(Token)
  PROVE  IsFiniteSet(At(q)) /\ Blocks(q) = Cardinality(At(q)) /\ Blocks(q) \in Nat
<1>1. Len(q) \in Nat /\ IsFiniteSet(1..Len(q))
  BY FS_Interval
<1>2. At(q) \in SUBSET (1..Len(q))
  BY DEF At
<1>3. IsFiniteSet(At(q))
  BY <1>1, <1>2, FS_Subset, ZenonT(30)
<1> QED
  BY <1>3, FS_CardinalityType, ZenonT(30) DEF Blocks, At

LEMMA BlocksAppend ==
  ASSUME NEW q \in Seq(Token), NEW t \in Token, t # "BLOCK"
  PROVE  Blocks(Append(q, t)) = Blocks(q)
<1>1. /\ Len(Append(q, t)) = Len(q) + 1 /\ Len(q) \in Nat /\ Append(q, t)[Len(q) + 1] = t
      /\ \A i \in 1..Len(q) : Append(q, t)[i] = q[i]
  BY AppendIs
<1>2. {i \in 1..Len(Append(q, t)) : Append(q, t)[i] = "BLOCK"} = {i \in 1..Len(q) : q[i] = "BLOCK"}
  BY <1>1
<1> QED
  BY <1>2, Zenon DEF Blocks

LEMMA BlocksCat ==
  ASSUME NEW q \in Seq(Token), NEW n \in Nat
  PROVE  /\ q \o [i \in 1..n |-> "BLOCK"] \in Seq(Token)
         /\ Blocks(q \o [i \in 1..n |-> "BLOCK"]) = Blocks(q) + n
         /\ Len(q \o [i \in 1..n |-> "BLOCK"]) = Len(q) + n /\ Len(q) \in Nat
         /\ \A i \in 1..(Len(q) + n) :
              (q \o [j \in 1..n |-> "BLOCK"])[i] = IF i <= Len(q) THEN q[i] ELSE "BLOCK"
<1> DEFINE b == [i \in 1..n |-> "BLOCK"]
           r == q \o b
<1>1. b \in Seq(Token) /\ Len(b) = n /\ \A i \in 1..n : b[i] = "BLOCK"
  BY DEF Token
<1> HIDE DEF b
<1>2. /\ r \in Seq(Token) /\ Len(r) = Len(q) + n /\ Len(q) \in Nat
      /\ \A i \in 1..(Len(q) + n) : r[i] = IF i <= Len(q) THEN q[i] ELSE b[i - Len(q)]
  <2>1. q \o b \in Seq(Token) /\ Len(q \o b) = Len(q) + Len(b)
    BY <1>1, CatIs, Zenon
  <2>2. \A i \in 1..(Len(q) + Len(b)) :
          (q \o b)[i] = IF i <= Len(q) THEN q[i] ELSE b[i - Len(q)]
    BY <1>1, CatIs, Zenon
  <2>3. Len(q) \in Nat
    OBVIOUS
  <2> QED
    BY <1>1, <2>1, <2>2, <2>3, Zenon
<1>3. \A i \in 1..(Len(q) + n) : r[i] = IF i <= Len(q) THEN q[i] ELSE "BLOCK"
  <2> SUFFICES ASSUME NEW i \in 1..(Len(q) + n), i > Len(q) PROVE r[i] = "BLOCK"
    BY <1>2, SMTT(30)
  <2>1. i - Len(q) \in 1..n /\ r[i] = b[i - Len(q)]
    BY <1>2, SMTT(30)
  <2> QED
    BY <1>1, <2>1, ZenonT(30)
<1> HIDE DEF r
<1> DEFINE new == (Len(q) + 1)..(Len(q) + n)
<1>4. At(r) = At(q) \cup new /\ At(q) \cap new = {}
  BY <1>2, <1>3, SMTT(30) DEF At
<1>5. IsFiniteSet(new) /\ Cardinality(new) = n
  <2>1. /\ Len(q) + 1 \in Int /\ Len(q) + n \in Int /\ (Len(q) + 1 > Len(q) + n <=> n = 0)
        /\ Len(q) + n - (Len(q) + 1) + 1 = n
    BY <1>2, SMTT(30)
  <2> QED
    BY <2>1, FS_Interval, SMTT(30)
<1> HIDE DEF new
<1>6. IsFiniteSet(At(q)) /\ Blocks(q) = Cardinality(At(q)) /\ Blocks(q) \in Nat /\ Blocks(r) = Cardinality(At(r))
  BY <1>2, AtFinite, Zenon
<1>7. Cardinality(At(q) \cup new) = Cardinality(At(q)) + Cardinality(new) - Cardinality(At(q) \cap new)
  BY <1>5, <1>6, FS_Union, Zenon
<1>8. Cardinality(At(q) \cap new) = 0
  BY <1>4, FS_EmptySet, Zenon
<1>9. Blocks(r) = Blocks(q) + n
  BY <1>4, <1>5, <1>6, <1>7, <1>8, SMTT(30)
<1> QED
  BY <1>2, <1>3, <1>9, Zenon DEF r, b

LEMMA BlocksTail ==
  ASSUME NEW q \in Seq(Token), q # <<>>, Head(q) = "BLOCK"
  PROVE  Blocks(q) = Blocks(Tail(q)) + 1
<1> DEFINE t == Tail(q)
           rest == At(q) \ {1}
<1>1. /\ t \in Seq(Token) /\ Len(t) = Len(q) - 1 /\ Len(q) \in Nat /\ Len(q) > 0 /\ q[1] = "BLOCK"
      /\ \A i \in 1..Len(t) : t[i] = q[i + 1]
  BY TailIs, SMTT(30)
<1> HIDE DEF t
<1>2. /\ IsFiniteSet(At(q)) /\ Blocks(q) = Cardinality(At(q)) /\ Blocks(q) \in Nat
      /\ IsFiniteSet(At(t)) /\ Blocks(t) = Cardinality(At(t)) /\ Blocks(t) \in Nat
  BY <1>1, AtFinite, Zenon
<1>3. 1 \in At(q)
  BY <1>1 DEF At
<1>4. Cardinality(rest) = Cardinality(At(q)) - 1
  BY <1>2, <1>3, FS_RemoveElement, Zenon
<1>5. Cardinality(rest) = Cardinality(At(t))
  <2> DEFINE f == [i \in At(t) |-> i + 1]
  <2>1. \A i \in At(t) : i \in Nat /\ i + 1 \in rest
    BY <1>1 DEF At
  <2>2. \A j \in rest : j - 1 \in At(t) /\ (j - 1) + 1 = j
    <3> SUFFICES ASSUME NEW j \in rest PROVE j - 1 \in At(t) /\ (j - 1) + 1 = j
      OBVIOUS
    <3>1. j \in 1..Len(q) /\ j # 1 /\ q[j] = "BLOCK"
      BY DEF At
    <3>2. j - 1 \in 1..Len(t) /\ (j - 1) + 1 = j /\ t[j - 1] = q[(j - 1) + 1]
      BY <1>1, <3>1, SMTT(30)
    <3>3. t[j - 1] = "BLOCK"
      BY <3>1, <3>2, Zenon
    <3> QED
      BY <3>2, <3>3, Zenon DEF At
  <2> HIDE DEF rest
  <2>3. f \in [At(t) -> rest]
    BY <2>1
  <2>4. \A i, j \in At(t) : f[i] = f[j] => i = j
    BY <2>1
  <2>5. \A j \in rest : \E i \in At(t) : f[i] = j
    BY <2>2
  <2> HIDE DEF f
  <2>6. f \in Bijection(At(t), rest)
    BY <2>3, <2>4, <2>5, Zenon DEF Bijection, Injection, IsInjective, Surjection
  <2>7. ExistsBijection(At(t), rest)
    BY <2>6, Zenon DEF ExistsBijection
  <2> QED
    BY <1>2, <2>7, FS_Bijection, Zenon
<1> QED
  BY <1>2, <1>4, <1>5 DEF t

-----------------------------------------------------------------------------
(* No block is lost or counted twice. *)

LEMMA BlockInit == Init => BlockInv
<1> SUFFICES ASSUME Init PROVE BlockInv
  OBVIOUS
<1>1. Blocks(<<>>) = 0
  <2>1. {i \in 1..Len(<<>>) : <<>>[i] = "BLOCK"} = {}
    OBVIOUS
  <2> QED
    BY <2>1, FS_EmptySet, Zenon DEF Blocks
<1>2. \A c \in Clients : up[Data(c)] = <<>> /\ tx[c] = 0 /\ Data(c) # NoFd
  BY ConnParts, FdAssumption, ZenonT(30) DEF Init
<1> QED
  BY <1>1, <1>2, SMTT(30) DEF Init, BlockInv

LEMMA BlockSame ==
  ASSUME BlockInv, UNCHANGED <<rx, datafd, tx>>, spc = "over" => spc' = "over",
         \A c \in Clients : up'[Data(c)] = up[Data(c)]
  PROVE  BlockInv'
BY DEF BlockInv

LEMMA BlockCli ==
  ASSUME TypeOK, BlockInv, NEW c \in Clients, Cli(c) \/ CliInterrupt(c)
  PROVE  BlockInv'
<1>0. /\ up \in [Conn -> Seq(Token)] /\ tx \in [Clients -> Nat] /\ rx \in Nat
      /\ \A d \in Clients : up[Data(d)] \in Seq(Token) /\ Data(d) \in Conn /\ Ctl(d) \in Conn
      /\ \A d \in Clients : Data(d) # Ctl(c) /\ (d # c => Data(d) # Data(c))
  BY ZenonT(30) DEF TypeOK, UpType, CliType, SrvType, Conn, Data, Ctl
<1>1. UNCHANGED <<spc, rx, datafd>>
  BY Zenon DEF Cli, CliInterrupt, CliStart, CliEpollWait, CliBatchDone, CliNoMsg, CliMsg, CliSend,
         CliDestroy
<1>2. CASE tx' = tx /\ \A d \in Clients : up'[Data(d)] = up[Data(d)]
  BY <1>1, <1>2, BlockSame, ZenonT(30)
<1>3. CASE CliDestroy(c)
  <2>1. /\ tx' = tx
        /\ \A d \in Clients : up'[Data(d)] = up[Data(d)] \/ up'[Data(d)] = Append(up[Data(d)], "FIN")
    BY <1>0, <1>3, ZenonT(30) DEF CliDestroy
  <2>2. ASSUME NEW d \in Clients
        PROVE  /\ \A i \in 1..Len(up'[Data(d)]) : up'[Data(d)][i] \in {"BLOCK", "FIN"}
               /\ Blocks(up'[Data(d)]) = Blocks(up[Data(d)])
    <3>1. CASE up'[Data(d)] = up[Data(d)]
      BY <3>1, Zenon DEF BlockInv
    <3>2. CASE up'[Data(d)] = Append(up[Data(d)], "FIN")
      <4> DEFINE q == up[Data(d)]
      <4>1. q \in Seq(Token) /\ "FIN" \in Token /\ \A i \in 1..Len(q) : q[i] \in {"BLOCK", "FIN"}
        BY <1>0, Zenon DEF Token, BlockInv
      <4> HIDE DEF q
      <4>2. /\ Len(Append(q, "FIN")) = Len(q) + 1 /\ Append(q, "FIN")[Len(q) + 1] = "FIN"
            /\ \A i \in 1..Len(q) : Append(q, "FIN")[i] = q[i]
        BY <4>1, AppendIs, SMTT(30)
      <4>3. \A i \in 1..Len(Append(q, "FIN")) : Append(q, "FIN")[i] \in {"BLOCK", "FIN"}
        BY <4>1, <4>2, SMTT(30)
      <4>4. Blocks(Append(q, "FIN")) = Blocks(q)
        BY <4>1, BlocksAppend, Zenon
      <4> QED
        BY <3>2, <4>3, <4>4, ZenonT(30) DEF q
    <3> QED
      BY <2>1, <3>1, <3>2, Zenon
  <2> QED
    BY <1>1, <2>1, <2>2, Zenon DEF BlockInv
<1>4. CASE CliMsg(c)
  <2>1. tx' = tx /\ (up' = up \/ \E t : up' = [up EXCEPT ![Ctl(c)] = @ \o t])
    BY <1>4, Zenon DEF CliMsg, CliSendConf, CliOpenData
  <2> QED
    BY <1>0, <1>2, <2>1, Zenon
<1>5. CASE CliSend(c) /\ up' # up
  <2>1. PICK n \in Sendable, ok \in BOOLEAN :
          /\ up' = [up EXCEPT ![Data(c)] = @ \o [i \in 1..n |-> "BLOCK"],
                              ![Ctl(c)] = IF ok THEN Append(@, "END") ELSE @]
          /\ tx' = [tx EXCEPT ![c] = TxBytes(c, n)]
    BY <1>5, Zenon DEF CliSend
  <2>2. n \in Nat
    BY SizeAssumption DEF Sendable
  <2> DEFINE q == up[Data(c)]
             b == [i \in 1..n |-> "BLOCK"]
  <2>3. /\ up'[Data(c)] = q \o b /\ tx'[c] = tx[c] + n
        /\ \A d \in Clients : d # c => up'[Data(d)] = up[Data(d)] /\ tx'[d] = tx[d]
    BY <1>0, <2>1, Zenon DEF TxBytes
  <2>4. q \in Seq(Token) /\ \A i \in 1..Len(q) : q[i] \in {"BLOCK", "FIN"}
    BY <1>0, Zenon DEF BlockInv
  <2>5. /\ Blocks(q \o b) = Blocks(q) + n /\ Len(q \o b) = Len(q) + n /\ Len(q) \in Nat
        /\ \A i \in 1..(Len(q) + n) : (q \o b)[i] = IF i <= Len(q) THEN q[i] ELSE "BLOCK"
    <3> HIDE DEF q
    <3> QED
      BY <2>2, <2>4, BlocksCat, ZenonT(30)
  <2>6. \A i \in 1..Len(up'[Data(c)]) : up'[Data(c)][i] \in {"BLOCK", "FIN"}
    <3> HIDE DEF q, b
    <3> QED
      BY <2>2, <2>3, <2>4, <2>5, SMTT(30)
  <2>7. Blocks(q) \in Nat
    BY <2>4, AtFinite, Zenon
  <2>8. spc # "over" =>
          tx'[c] = (IF datafd = Data(c) THEN rx ELSE 0) + Blocks(up'[Data(c)])
    <3>1. spc # "over" => tx[c] = (IF datafd = Data(c) THEN rx ELSE 0) + Blocks(q)
      BY Zenon DEF BlockInv
    <3>2. Blocks(up'[Data(c)]) = Blocks(q) + n
      BY <2>3, <2>5, ZenonT(30)
    <3> HIDE DEF q, b
    <3> QED
      BY <1>0, <2>2, <2>3, <2>7, <3>1, <3>2, SMTT(30)
  <2> HIDE DEF q, b
  <2> QED
    BY <1>1, <2>3, <2>6, <2>8, Zenon DEF BlockInv
<1>6. CASE CliSend(c) /\ up' = up
  <2>1. CASE tx' = tx
    BY <1>2, <1>6, <2>1, ZenonT(30)
  <2>2. CASE tx' # tx
    <3>1. PICK n \in Sendable, ok \in BOOLEAN :
            /\ up' = [up EXCEPT ![Data(c)] = @ \o [i \in 1..n |-> "BLOCK"],
                                ![Ctl(c)] = IF ok THEN Append(@, "END") ELSE @]
            /\ tx' = [tx EXCEPT ![c] = TxBytes(c, n)]
      BY <1>6, <2>2, Zenon DEF CliSend
    <3>2. n \in Nat
      BY SizeAssumption DEF Sendable
    <3>3. up'[Data(c)] = up[Data(c)] \o [i \in 1..n |-> "BLOCK"]
      BY <1>0, <3>1, Zenon
    <3>4. Len(up[Data(c)]) = Len(up[Data(c)]) + n /\ Len(up[Data(c)]) \in Nat
      BY <1>0, <1>6, <3>2, <3>3, BlocksCat, ZenonT(30)
    <3>5. n = 0
      BY <3>2, <3>4, SMTT(30)
    <3>6. tx' = tx
      BY <1>0, <3>1, <3>5, SMTT(30) DEF TxBytes
    <3> QED
      BY <2>2, <3>6, Zenon
  <2> QED
    BY <2>1, <2>2, ZenonT(30)
<1>7. CASE ~CliDestroy(c) /\ ~CliMsg(c) /\ ~CliSend(c)
  <2>1. tx' = tx /\ up' = up
    BY <1>7, Zenon DEF Cli, CliInterrupt, CliStart, CliEpollWait, CliBatchDone, CliNoMsg
  <2> QED
    BY <1>2, <2>1, ZenonT(30)
<1> QED
  BY <1>3, <1>4, <1>5, <1>6, <1>7, ZenonT(30)

LEMMA BlockSrv ==
  ASSUME OwnAddresses, TypeOK, PhaseInv, DataInv, BlockInv, Srv \/ SrvInterrupt
  PROVE  BlockInv'
<1>0. /\ up \in [Conn -> Seq(Token)] /\ tx \in [Clients -> Nat] /\ rx \in Nat
      /\ ctlfd \in Conn \cup {NoFd} /\ datafd \in Conn \cup {NoFd}
      /\ \A d \in Clients : up[Data(d)] \in Seq(Token) /\ Data(d) \in Conn
      /\ \A d \in Clients : Data(d) # NoFd /\ Data(d)[1] = d /\ Data(d)[2] = "data"
  BY FdAssumption, Zenon DEF TypeOK, UpType, CliType, SrvType, Conn, Data
<1>1. tx' = tx
  BY ZenonT(30) DEF Srv, SrvInterrupt, SrvListen, SrvEpollWait, SrvBatchDone, SrvDestroy, SrvAcceptFails,
         SrvAcceptCtl, SrvAcceptData, SrvDeny, SrvMsg, SrvReadLen, SrvReadJson, SrvRecvStart, SrvRecv
<1>2. CASE SrvDestroy
  BY <1>1, <1>2, Zenon DEF SrvDestroy, BlockInv
<1>3. CASE \/ SrvListen \/ SrvEpollWait \/ SrvAcceptFails \/ SrvRecvStart
           \/ (SrvBatchDone /\ ~SrvDestroy)
           \/ \E k \in Conn, ok \in BOOLEAN : SrvAcceptCtl(k, ok) \/ SrvDeny(k, ok)
  <2>1. UNCHANGED <<rx, datafd, up>> /\ spc # "over"
    BY <1>3, Zenon DEF SrvListen, SrvEpollWait, SrvAcceptFails, SrvRecvStart, SrvBatchDone, SrvAcceptCtl,
                SrvDeny, Accepting
  <2> QED
    BY <1>1, <2>1, BlockSame, ZenonT(30)
<1>4. ASSUME NEW k \in Conn, NEW ok \in BOOLEAN, SrvAcceptData(k, ok) PROVE BlockInv'
  <2>1. /\ UNCHANGED <<rx, up, spc>> /\ spc = "loop" /\ datafd = NoFd /\ datafd' \in {k, NoFd}
    BY <1>4, Zenon DEF SrvAcceptData, Accepting, WantsData
  <2>2. rx = 0 /\ \A d \in Clients : datafd # Data(d)
    BY <1>0, <2>1, Zenon DEF BlockInv
  <2> QED
    BY <1>1, <2>1, <2>2, Zenon DEF BlockInv
<1>5. CASE SrvMsg \/ SrvReadLen \/ SrvReadJson
  <2>1. ctlfd \in Conn /\ ctlfd # NoFd
    BY <1>5, FdAssumption, Zenon
    DEF TypeOK, SrvType, SrvEvType, HandlerType, SrvMsg, SrvReadLen, SrvReadJson
  <2>2. ctlfd[2] = "ctl"
    BY <2>1, ZenonT(30) DEF DataInv, FdInv
  <2>3. UNCHANGED <<rx, datafd>> /\ spc # "over"
    BY <1>5, Zenon DEF SrvMsg, SrvReadLen, SrvReadJson
  <2>4. up' = up \/ up' = [up EXCEPT ![ctlfd] = Tail(@)]
    BY <1>5, Zenon DEF SrvMsg, SrvReadLen, SrvReadJson, SrvConsume
  <2>5. \A d \in Clients : up'[Data(d)] = up[Data(d)]
    <3>1. \A d \in Clients : Data(d) # ctlfd
      BY <1>0, <2>2, ZenonT(30)
    <3> QED
      BY <1>0, <2>4, <3>1, ZenonT(30)
  <2> QED
    BY <1>1, <2>3, <2>5, BlockSame, ZenonT(30)
<1>6. CASE SrvRecv /\ UNCHANGED <<rx, up>>
  <2>1. datafd' = datafd /\ spc # "over"
    BY <1>6 DEF SrvRecv
  <2> QED
    BY <1>1, <1>6, <2>1, BlockSame, ZenonT(30)
<1>7. CASE SrvRecv /\ ~UNCHANGED <<rx, up>>
  <2>1. /\ spc = "recv" /\ datafd' = datafd /\ rx' = rx + 1
        /\ SrvRead(datafd) \notin {"FIN", "ENOTCONN", "EAGAIN"}
        /\ up' = [up EXCEPT ![datafd] = Tail(@)] /\ spc' \in {"loop", "recv"}
    BY <1>7, ZenonT(30) DEF SrvRecv, SrvConsume
  <2>2. datafd \in Conn /\ datafd # NoFd
    BY <1>0, <2>1, FdAssumption, ZenonT(30) DEF TypeOK, HandlerType
  <2>3. ctlfd \in Conn /\ ctlfd # NoFd
    BY <1>0, <2>2, FdAssumption, ZenonT(30) DEF PhaseInv
  <2>4. PICK c \in Clients : datafd = Data(c)
    BY <2>2, <2>3, ConnParts, Zenon DEF DataInv, FdInv
  <2> DEFINE q == up[Data(c)]
  <2>5. q \in Seq(Token) /\ q # <<>> /\ Head(q) \notin {"FIN", "ENOTCONN", "EAGAIN"}
    BY <2>1, <2>2, <2>4, ReadGot, ZenonT(30) DEF TypeOK, UpType
  <2>6. \A i \in 1..Len(q) : q[i] \in {"BLOCK", "FIN"}
    BY DEF BlockInv
  <2>7. /\ up'[Data(c)] = Tail(q)
        /\ \A d \in Clients : d # c => up'[Data(d)] = up[Data(d)] /\ Data(d) # datafd
    <3>1. \A d \in Clients : d # c => Data(d) # Data(c)
      BY Zenon DEF Data
    <3> QED
      BY <1>0, <2>1, <2>4, <3>1, ZenonT(30)
  <2>8. spc # "over" => tx[c] = rx + Blocks(q)
    BY <2>4, Zenon DEF BlockInv
  <2> HIDE DEF q
  <2>9. /\ Tail(q) \in Seq(Token) /\ Len(Tail(q)) = Len(q) - 1 /\ Len(q) \in Nat /\ Len(q) > 0
        /\ Head(q) = q[1] /\ \A i \in 1..Len(Tail(q)) : Tail(q)[i] = q[i + 1]
    BY <2>5, TailIs, SMTT(30)
  <2>10. Head(q) = "BLOCK"
    BY <2>5, <2>6, <2>9, SMTT(30)
  <2>11. Blocks(q) = Blocks(Tail(q)) + 1 /\ Blocks(Tail(q)) \in Nat
    BY <2>5, <2>9, <2>10, BlocksTail, AtFinite, Zenon
  <2>12. \A i \in 1..Len(Tail(q)) : Tail(q)[i] \in {"BLOCK", "FIN"}
    BY <2>6, <2>9, SMTT(30)
  <2>13. tx[c] = rx' + Blocks(Tail(q))
    BY <1>0, <2>1, <2>8, <2>11, SMTT(30)
  <2>14. \A d \in Clients : tx'[d] = (IF datafd' = Data(d) THEN rx' ELSE 0) + Blocks(up'[Data(d)])
    <3> SUFFICES ASSUME NEW d \in Clients
                 PROVE  tx'[d] = (IF datafd' = Data(d) THEN rx' ELSE 0) + Blocks(up'[Data(d)])
      OBVIOUS
    <3>1. CASE d = c
      BY <1>1, <2>1, <2>4, <2>7, <2>13, <3>1, Zenon
    <3>2. CASE d # c
      BY <1>1, <2>1, <2>7, <3>2, ZenonT(30) DEF BlockInv
    <3> QED
      BY <3>1, <3>2
  <2>15. \A d \in Clients : \A i \in 1..Len(up'[Data(d)]) : up'[Data(d)][i] \in {"BLOCK", "FIN"}
    <3> SUFFICES ASSUME NEW d \in Clients
                 PROVE  \A i \in 1..Len(up'[Data(d)]) : up'[Data(d)][i] \in {"BLOCK", "FIN"}
      OBVIOUS
    <3>1. CASE d = c
      BY <2>7, <2>12, <3>1, Zenon
    <3>2. CASE d # c
      BY <2>7, <3>2, Zenon DEF BlockInv
    <3> QED
      BY <3>1, <3>2, ZenonT(30)
  <2> QED
    BY <2>1, <2>2, <2>14, <2>15, Zenon DEF BlockInv
<1> QED
  BY <1>2, <1>3, <1>4, <1>5, <1>6, <1>7, ZenonT(30) DEF Srv, SrvInterrupt

LEMMA BlockNext ==
  ASSUME OwnAddresses, TypeOK, PhaseInv, DataInv, BlockInv, [Next]_vars
  PROVE  BlockInv'
<1>1. CASE Net
  <2>1. UNCHANGED <<rx, datafd, tx, spc, up>>
    BY <1>1, Zenon DEF Net, RaiseListener, Establish, Refuse, DeliverUp, DeliverDown, SrvTimeout, CliTimeout
  <2> QED
    BY <2>1, BlockSame, Zenon
<1>2. CASE UNCHANGED vars
  BY <1>2, BlockSame, Zenon DEF vars
<1> QED
  BY <1>1, <1>2, BlockSrv, BlockCli, ZenonT(30) DEF Next

\* mperf_recv() counts every block mperf_send() counted, once: what the server's counter
\* lacks is still in the stream, however TCP cuts it and whenever the loops look at it.
THEOREM BlocksAreConserved ==
  ASSUME OwnAddresses
  PROVE  Spec => []BlocksConserved
<1>1. Init => TypeOK /\ SessionInv /\ PhaseInv /\ DataInv /\ BlockInv
  BY TypeInit, SessionInit, PhaseInit, DataInit, BlockInit, ZenonT(30)
<1>2. TypeOK /\ SessionInv /\ PhaseInv /\ DataInv /\ BlockInv /\ [Next]_vars =>
        (TypeOK /\ SessionInv /\ PhaseInv /\ DataInv /\ BlockInv)'
  BY TypeNext, SessionNext, PhaseNext, DataNext, BlockNext, Zenon
<1>3. TypeOK /\ PhaseInv /\ DataInv /\ BlockInv => BlocksConserved
  <2> SUFFICES ASSUME TypeOK, PhaseInv, DataInv, BlockInv, datafd # NoFd
               PROVE  tx[datafd[1]] = rx + Blocks(up[datafd])
    BY ZenonT(30) DEF BlocksConserved
  <2>1. ctlfd \in Conn /\ spc # "over"
    BY DEF PhaseInv, TypeOK, SrvType
  <2>2. PICK c \in Clients : datafd = Data(c)
    BY <2>1, ConnParts, Zenon DEF DataInv, FdInv
  <2>3. datafd[1] = c
    BY <2>2 DEF Data
  <2> QED
    BY <2>1, <2>2, <2>3, ZenonT(30) DEF BlockInv
<1> QED
  BY <1>1, <1>2, <1>3, PTL DEF Spec
=============================================================================
