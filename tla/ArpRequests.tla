---------------------------- MODULE ArpRequests ----------------------------
(***************************************************************************)
(* ARP at run time: a stack thread that has a packet for a host it has no  *)
(* hardware address for asks for it, the thread of the core that the NIC   *)
(* gives the ARP packets to enters the answers in the table, and every     *)
(* thread reads the table without a lock.  Requests that are not answered  *)
(* time out.                                                               *)
(*                                                                         *)
(* A request in progress is represented by its age.  Routing has the       *)
(* look-up with prefixes; the entries here are learned ones (prefix 32),   *)
(* but they are seen while they are being written.                         *)
(***************************************************************************)
EXTENDS Integers, Sequences, FiniteSets

CONSTANTS
  Hosts,     \* IP addresses on the link; a host's hardware address is its own name
  Gateway,   \* CONFIG.gateway->daddr, one of them
  Outside,   \* IP addresses that are reached through the gateway
  Cores,     \* stack threads
  ArpCore,   \* the core that gets ARP packets (it may have nothing to send)
  Timeout,   \* SEC_TO_TS(ARP_TIMEOUT_SEC)
  MaxLost    \* bound: packets that the network loses

\* Finitely many hosts are on the link, the addresses behind the gateway are others, and
\* none is the zero address ("none") or a null pointer.
ASSUME ArpAssumption ==
  /\ Gateway \in Hosts /\ Timeout \in Nat \ {0} /\ MaxLost \in Nat
  /\ IsFiniteSet(Hosts) /\ Hosts \cap Outside = {}
  /\ "none" \notin Hosts \cup Outside /\ "NULL" \notin Hosts

VARIABLES
  entry, entries,   \* CONFIG.arp: the table, and how many of its entries count
  gateway,          \* CONFIG.arp.gateway: the gateway's entry, 0 for NULL
  list,             \* g_arpm.list: the age of the request for each host, -1 for none
  want,             \* the host that each core has a packet for
  reg,              \* the ARP core in ProcessARPRequest() or ProcessARPReply()
  net, lost,        \* ARP packets under way; how many were lost
  sent              \* the packet that went out last: to which host, to which address

arpvars == <<entry, entries, gateway, list, want, reg, net, lost, sent>>
table == <<entry, entries, gateway>>

NoHost == "none"
Idle == [at |-> 0, idx |-> 0, ip |-> NoHost, reply |-> FALSE]
Slots == 1..(Cardinality(Hosts) + 1)

\* An entry for ip of which RegisterARPEntry() has done the first k assignments: to
\* prefix, haddr, ip_mask and ip_masked.
Filled(k, ip) ==
  [prefix |-> IF k >= 1 THEN 32 ELSE 0, haddr |-> IF k >= 2 THEN ip ELSE NoHost,
   mask |-> k >= 3, masked |-> IF k >= 4 THEN ip ELSE NoHost]

\* The step at which the entry is counted, after those and the gateway's.
CountFirst == 1  \* MUTANT of CountAt

CountAt == 6

\* InitARPTable(), and a configuration with no entries.
ArpInit ==
  /\ entry = [i \in Slots |-> Filled(0, NoHost)] /\ entries = 0 /\ gateway = 0
  /\ list = [h \in Hosts |-> -1] /\ want = [c \in Cores |-> NoHost]
  /\ reg = Idle /\ net = {} /\ lost = 0
  /\ sent = [ip |-> NoHost, haddr |-> NoHost]

\* GetDestinationHWaddr(), "NULL" for NULL.  The zeros of an empty mask match anything.
GetDestinationHWaddr(h, external) ==
  LET Matches(e) == e.prefix > 0 /\ e.masked = (IF e.mask THEN h ELSE NoHost)
      found == {i \in 1..entries : Matches(entry[i])}
  IN IF external /\ gateway # 0 THEN entry[gateway].haddr
     ELSE IF found = {} THEN "NULL"
     ELSE entry[CHOOSE i \in found : \A j \in found : i <= j].haddr

-----------------------------------------------------------------------------
(* Sending *)

\* TCP has a packet for a host.
Packet(c, h) ==
  /\ want[c] = NoHost /\ want' = [want EXCEPT ![c] = h]
  /\ UNCHANGED <<table, list, reg, net, lost, sent>>

\* RequestARP(), unless the request is in progress; the buffer for it may be missing.
RequestARP(h) ==
  /\ list[h] = -1 /\ list' = [list EXCEPT ![h] = 0]
  /\ net' \in {net, net \cup {[op |-> "request", host |-> h]}}

NextHop(h) == IF h \in Outside THEN Gateway ELSE h

\* IPOutput(): TCP tries again later as long as there is no address.
IPOutput(c) ==
  LET h == want[c]
      haddr == GetDestinationHWaddr(h, h \in Outside)
  IN /\ h # NoHost /\ (c = ArpCore => reg = Idle)
     /\ IF haddr # "NULL"
        THEN /\ want' = [want EXCEPT ![c] = NoHost] /\ sent' = [ip |-> h, haddr |-> haddr]
             /\ UNCHANGED <<list, net>>
        ELSE RequestARP(NextHop(h)) /\ UNCHANGED <<want, sent>>
     /\ UNCHANGED <<table, reg, lost>>

\* MUTANT of ARPTimer: a request that timed out stays in the list.
TimerKeeps == UNCHANGED arpvars

\* ARPTimer(), by the thread of the master core.
ARPTimer ==
  /\ \E h \in Hosts : list[h] > Timeout
  /\ list' = [h \in Hosts |-> IF list[h] > Timeout THEN -1 ELSE list[h]]
  /\ UNCHANGED <<table, want, reg, net, lost, sent>>

Tick ==
  /\ \E h \in Hosts : list[h] \in 0..Timeout
  /\ list' = [h \in Hosts |-> IF list[h] \in 0..Timeout THEN list[h] + 1 ELSE list[h]]
  /\ UNCHANGED <<table, want, reg, net, lost, sent>>

-----------------------------------------------------------------------------
(* Receiving, by the ARP core *)

\* MUTANT of Receive: the table is not looked at.
ReceiveAlways(m) ==
  /\ reg = Idle /\ m \in net /\ m.op \in {"reply", "ask"} /\ net' = net \ {m}
  /\ reg' = [at |-> 1, idx |-> entries + 1, ip |-> m.host, reply |-> m.op = "reply"]
  /\ UNCHANGED <<table, list, want, lost, sent>>

\* ProcessARPPacket(): a request of a host for our address, or a reply, that is entered
\* if the host has no entry.
Receive(m) ==
  /\ reg = Idle /\ m \in net /\ m.op \in {"reply", "ask"} /\ net' = net \ {m}
  /\ reg' = [at |-> IF GetDestinationHWaddr(m.host, FALSE) = "NULL" THEN 1 ELSE 7,
             idx |-> entries + 1, ip |-> m.host, reply |-> m.op = "reply"]
  /\ UNCHANGED <<table, list, want, lost, sent>>

\* RegisterARPEntry(), one assignment at a time.
RegisterARPEntry ==
  /\ reg.at \in 1..6 /\ reg' = [reg EXCEPT !.at = @ + 1]
  /\ entry' = [entry EXCEPT ![reg.idx] = IF reg.at <= 4 THEN Filled(reg.at, reg.ip) ELSE @]
  /\ gateway' = IF reg.at = 5 /\ reg.ip = Gateway THEN reg.idx ELSE gateway
  /\ entries' = IF reg.at = CountAt THEN reg.idx ELSE entries
  /\ UNCHANGED <<list, want, net, lost, sent>>

\* The handler's end: a reply ends the request.
ProcessARPReply ==
  /\ reg.at = 7 /\ reg' = Idle
  /\ list' = IF reg.reply THEN [list EXCEPT ![reg.ip] = -1] ELSE list
  /\ UNCHANGED <<table, want, net, lost, sent>>

-----------------------------------------------------------------------------
(* The network *)

HostReplies(h) ==
  /\ [op |-> "request", host |-> h] \in net
  /\ net' = (net \ {[op |-> "request", host |-> h]}) \cup {[op |-> "reply", host |-> h]}
  /\ UNCHANGED <<table, list, want, reg, lost, sent>>

HostAsks(h) ==
  /\ net' = net \cup {[op |-> "ask", host |-> h]} /\ net' # net
  /\ UNCHANGED <<table, list, want, reg, lost, sent>>

Lose(m) ==
  /\ m \in net /\ lost < MaxLost /\ net' = net \ {m} /\ lost' = lost + 1
  /\ UNCHANGED <<table, list, want, reg, sent>>

-----------------------------------------------------------------------------
Message == [op : {"request", "reply", "ask"}, host : Hosts]
Learns == RegisterARPEntry \/ ProcessARPReply

ArpNext ==
  \/ \E c \in Cores : IPOutput(c) \/ \E h \in Hosts \cup Outside : Packet(c, h)
  \/ ARPTimer \/ Tick \/ Learns
  \/ \E h \in Hosts : HostReplies(h) \/ HostAsks(h)
  \/ \E m \in Message : Receive(m) \/ Lose(m)

ArpSpec == ArpInit /\ [][ArpNext]_arpvars

\* TCP tries again in every round of the main loop, between the packets that it handles,
\* the clock runs, hosts answer, and a free transmit buffer turns up in the end.
ArpFairSpec ==
  /\ ArpSpec /\ WF_arpvars(ARPTimer) /\ WF_arpvars(Tick) /\ WF_arpvars(Learns)
  /\ \A c \in Cores : SF_arpvars(IPOutput(c))
  /\ \A h \in Hosts :
       /\ SF_arpvars(\E c \in Cores : IPOutput(c) /\ list[h] = -1
                                   /\ [op |-> "request", host |-> h] \in net')
       /\ WF_arpvars(HostReplies(h))
       /\ SF_arpvars(Receive([op |-> "reply", host |-> h]))

-----------------------------------------------------------------------------
\* Types; the table has room for one entry of every host.
ArpTypeOK ==
  /\ entries \in 0..Cardinality(Hosts)
  /\ list \in [Hosts -> -1..(Timeout + 1)] /\ want \in [Cores -> Hosts \cup Outside \cup {NoHost}]
  /\ reg.at \in 0..7 /\ gateway \in 0..Cardinality(Hosts) /\ net \subseteq Message

\* A packet goes to the hardware address of its host or of the gateway, although the
\* threads read the table while an entry is being written.
RightAddress == sent.haddr = NextHop(sent.ip)

\* "register the arp entry if not exist": a host has one entry at most.
OneEntry == \A i, j \in 1..entries : i # j => entry[i].masked # entry[j].masked

\* LIVENESS, "tcp will retry sending the packet later": a packet for a host that
\* answers goes out, although requests and replies are lost.
Resolves == \A c \in Cores, h \in Hosts \cup Outside : want[c] = h ~> want[c] = NoHost

\* "if the arp requet is timed out, retransmit": when a request is taken off the list
\* because of its age, another one is sent.
Retransmits ==
  [][ARPTimer => \E h \in Hosts : list[h] > Timeout /\ [op |-> "request", host |-> h] \in net']_arpvars

\* The table as its readers without a lock and its writer see it: the right hardware
\* address for every packet, and one entry for a host.
TableKept == ArpTypeOK /\ RightAddress /\ OneEntry
=============================================================================
