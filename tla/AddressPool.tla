---------------------------- MODULE AddressPool ----------------------------
(***************************************************************************)
(* The source addresses of outgoing connections: the pool of an interface, *)
(* shared by the cores, the pool that mtcp_init_rss() makes for one core   *)
(* and one destination, and the calls that take from them and give back:   *)
(* mtcp_bind(), mtcp_connect() and DestroyTCPStream().                     *)
(*                                                                         *)
(* There is one interface with one IP address, so an address is its port.  *)
(* Every call on a pool holds its lock and is one step.  The RSS hash is   *)
(* RssHash; here any function of the two ports decides the core.  A socket *)
(* and the stream it gets stand for each other.                            *)
(***************************************************************************)
EXTENDS Integers, Sequences, FiniteSets, Functions

CONSTANTS
  NumCores,   \* num_cpus = num_queues
  Ports,      \* the ports are 1..Ports: MAX_PORT - MIN_PORT
  Dests,      \* destinations, numbers
  Sockets,    \* sockets, given to the cores in turn
  Late        \* may mtcp_init_rss() be called with connections open

ASSUME AddressPoolAssumption ==
  /\ {NumCores, Ports, Sockets} \subseteq Nat \ {0} /\ Dests \subseteq Nat \ {0}
  /\ Late \in BOOLEAN

VARIABLES
  ap,         \* the pool of the interface
  core_ap,    \* mtcp->ap of each core, or NoPool
  sock,       \* the sockets: opts, bound and source port, destination, stream
  failed,     \* FreeAddress() has returned -1
  broken      \* FreeAddress() has unlinked an entry that was not in use

poolvars == <<ap, core_ap, sock, failed, broken>>

Core == 0..(NumCores - 1)
Socket == 1..Sockets
CoreOf(s) == s % NumCores
Port == 1..Ports
ANY == 0
NoPool == [entries |-> {}, free |-> <<>>, used |-> {}, num_entry |-> 0, num_free |-> 0,
           num_used |-> 0, dst |-> 0]

\* GetRSSCPUCore().
RssCore(p, d) == (p + d) % NumCores

Closed == [open |-> FALSE, ip |-> FALSE, sport |-> ANY, asked |-> ANY, dst |-> 0,
           stream |-> FALSE, is_bound_addr |-> FALSE, fetched |-> FALSE]

\* CreateAddressPool().
NewPool(f, d) == [entries |-> Range(f), free |-> f, used |-> {}, num_entry |-> Len(f),
                  num_free |-> Len(f), num_used |-> 0, dst |-> d]

PoolInit ==
  /\ ap = NewPool([i \in Port |-> i], 0)
  /\ core_ap = [c \in Core |-> NoPool]
  /\ sock = [s \in Socket |-> Closed] /\ failed = FALSE /\ broken = FALSE

-----------------------------------------------------------------------------
(* addr_pool.c *)

\* CreateAddressPoolPerCore(): the ports whose packets come to the core, in order, as
\* many as its share; one is left out only when the share is full of smaller ones.
CreateAddressPoolPerCore(c, d) ==
  LET own == {p \in Port : RssCore(p, d) = c}
      share == Ports \div NumCores
  IN {f \in UNION {[1..n -> own] : n \in 0..share} :
        /\ \A i, j \in DOMAIN f : i < j => f[i] < f[j]
        /\ \A p \in own \ Range(f) : Len(f) = share /\ \A i \in DOMAIN f : f[i] < p}

\* TAILQ_REMOVE() of the entry at a position.
Removed(list, i) == [j \in 1..(Len(list) - 1) |-> IF j < i THEN list[j] ELSE list[j + 1]]

\* The entry at a position of the free list goes to the other list.
Taken(pool, i) ==
  [entries |-> pool.entries, free |-> Removed(pool.free, i),
   used |-> pool.used \cup {pool.free[i]}, num_entry |-> pool.num_entry,
   num_free |-> pool.num_free - 1, num_used |-> pool.num_used + 1, dst |-> pool.dst]

\* MUTANT of FetchAddress: the core is not compared.
FetchAny(s, d) ==
  {i \in DOMAIN ap.free : sock[s].sport \in {ANY, ap.free[i]}}

\* FetchAddress(): the positions of the free list that will do; it takes the first.
FetchAddress(s, d) ==
  {i \in DOMAIN ap.free : /\ sock[s].sport \in {ANY, ap.free[i]}
                          /\ RssCore(ap.free[i], d) = CoreOf(s)}

\* FetchAddressPerCore(): the first of all.
FetchAddressPerCore(c) == IF core_ap[c].free = <<>> THEN {} ELSE {1}

Given(pool, p) ==
  [entries |-> pool.entries, free |-> Append(pool.free, p), used |-> pool.used \ {p},
   num_entry |-> pool.num_entry, num_free |-> pool.num_free + 1,
   num_used |-> pool.num_used - 1, dst |-> pool.dst]

\* FreeAddress() finds the entry by its number and does not look whether it is used.
FreeAddress(pool, p) ==
  IF p \notin pool.entries THEN pool
  ELSE IF p \in pool.used THEN Given(pool, p)
  ELSE [pool EXCEPT !.num_free = @ + 1, !.num_used = @ - 1]

-----------------------------------------------------------------------------
(* The calls of the application *)

\* The pool that a core had is destroyed first.
mtcp_init_rss(c, d) ==
  /\ Late \/ (core_ap[c] = NoPool /\ \A s \in Socket : CoreOf(s) = c => ~sock[s].open)
  /\ \E f \in CreateAddressPoolPerCore(c, d) :
       core_ap' = [core_ap EXCEPT ![c] = NewPool(f, d)]
  /\ UNCHANGED <<ap, sock, failed, broken>>

mtcp_socket(s) ==
  /\ ~sock[s].open /\ sock' = [sock EXCEPT ![s] = [Closed EXCEPT !.open = TRUE]]
  /\ UNCHANGED <<ap, core_ap, failed, broken>>

\* With the address of the interface or with INADDR_ANY.
mtcp_bind(s) ==
  /\ sock[s].open /\ sock[s].asked = ANY /\ ~sock[s].fetched
  /\ \E p \in Port, ip \in BOOLEAN :
       sock' = [sock EXCEPT ![s] = [@ EXCEPT !.sport = p, !.asked = p, !.ip = ip]]
  /\ UNCHANGED <<ap, core_ap, failed, broken>>

Connected(s, p, d, dyn) ==
  [sock[s] EXCEPT !.sport = p, !.ip = TRUE, !.dst = d, !.stream = TRUE, !.is_bound_addr = dyn,
                  !.fetched = @ \/ dyn]

\* MUTANT of ConnectBound: the core is not compared.
ConnectBoundAny(s, d) ==
  /\ sock[s].ip /\ sock' = [sock EXCEPT ![s] = Connected(s, @.sport, d, FALSE)]
  /\ UNCHANGED <<ap, core_ap>>

\* The socket has its address.
ConnectBound(s, d) ==
  /\ sock[s].ip /\ RssCore(sock[s].sport, d) = CoreOf(s)
  /\ sock' = [sock EXCEPT ![s] = Connected(s, @.sport, d, FALSE)]
  /\ UNCHANGED <<ap, core_ap>>

\* The socket gets one; CreateTCPStream() may find no memory after that.
ConnectFetched(s, d) ==
  LET c == CoreOf(s)
      own == core_ap[c] # NoPool
      pool == IF own THEN core_ap[c] ELSE ap
      found == IF own THEN FetchAddressPerCore(c) ELSE FetchAddress(s, d)
      first == CHOOSE i \in found : \A j \in found : i <= j
      p == pool.free[first]
  IN /\ ~sock[s].ip /\ found # {}
     /\ own => d = pool.dst   \* the application connects to what it initialised RSS for
     /\ \E memory \in BOOLEAN :
          sock' = [sock EXCEPT ![s] = IF memory THEN Connected(s, p, d, TRUE)
                                      ELSE [@ EXCEPT !.sport = p, !.ip = TRUE, !.fetched = TRUE]]
     /\ IF own THEN core_ap' = [core_ap EXCEPT ![c] = Taken(pool, first)] /\ UNCHANGED ap
        ELSE ap' = Taken(ap, first) /\ UNCHANGED core_ap

mtcp_connect(s) ==
  /\ sock[s].open /\ ~sock[s].stream
  /\ \E d \in Dests : ConnectBound(s, d) \/ ConnectFetched(s, d)
  /\ UNCHANGED <<failed, broken>>

\* mtcp_close() of a socket that has no stream.
CloseUnconnected(s) ==
  /\ sock[s].open /\ ~sock[s].stream /\ sock' = [sock EXCEPT ![s] = Closed]
  /\ UNCHANGED <<ap, core_ap, failed, broken>>

\* MUTANT of DestroyTCPStream: an address that was bound by the application is
\* given to the pool as well.
DestroyGivesAll(s) ==
  LET c == CoreOf(s)
      own == core_ap[c] # NoPool
  IN /\ sock[s].stream /\ sock' = [sock EXCEPT ![s] = Closed]
     /\ IF own THEN core_ap' = [core_ap EXCEPT ![c] = FreeAddress(@, sock[s].sport)] /\ UNCHANGED ap
        ELSE ap' = FreeAddress(ap, sock[s].sport) /\ UNCHANGED core_ap
     /\ UNCHANGED <<failed, broken>>

DestroyTCPStream(s) ==
  LET c == CoreOf(s)
      own == core_ap[c] # NoPool
      pool == IF own THEN core_ap[c] ELSE ap
      p == sock[s].sport
  IN /\ sock[s].stream /\ sock' = [sock EXCEPT ![s] = Closed]
     /\ IF sock[s].is_bound_addr
        THEN /\ IF own THEN core_ap' = [core_ap EXCEPT ![c] = FreeAddress(@, p)] /\ UNCHANGED ap
                ELSE ap' = FreeAddress(ap, p) /\ UNCHANGED core_ap
             /\ failed' = (failed \/ p \notin pool.entries)
             /\ broken' = (broken \/ p \in pool.entries \ pool.used)
        ELSE UNCHANGED <<ap, core_ap, failed, broken>>

PoolNext ==
  \/ \E c \in Core, d \in Dests : mtcp_init_rss(c, d)
  \/ \E s \in Socket : \/ mtcp_socket(s) \/ mtcp_bind(s) \/ mtcp_connect(s)
                       \/ CloseUnconnected(s) \/ DestroyTCPStream(s)

PoolSpec == PoolInit /\ [][PoolNext]_poolvars

Sound == ~broken

-----------------------------------------------------------------------------
Pools == {ap} \cup {core_ap[c] : c \in Core}
PoolOf(s) == IF core_ap[CoreOf(s)] # NoPool THEN core_ap[CoreOf(s)] ELSE ap

\* Types and bounds; the counts of a pool stay between 0 and its entries.
PoolTypeOK ==
  /\ \A pool \in Pools : /\ pool.num_free \in 0..pool.num_entry
                          /\ pool.num_used \in 0..pool.num_entry
                          /\ pool.entries \subseteq Port
  /\ \A s \in Socket : sock[s].sport \in Port \cup {ANY} /\ sock[s].dst \in Dests \cup {0}

\* Every entry of a pool is on one of its lists, once, and num_free and num_used count
\* them, whatever the order of fetches, failed connects and frees.
Partition ==
  \A pool \in Pools :
    /\ IsInjective(pool.free) /\ Range(pool.free) \cap pool.used = {}
    /\ Range(pool.free) \cup pool.used = pool.entries
    /\ pool.num_free = Len(pool.free) /\ pool.num_used = Cardinality(pool.used)

\* The packets of a connection come to the core that opened it, whichever of the
\* three ways it got its address.
SameCore == \A s \in Socket : sock[s].stream => RssCore(sock[s].sport, sock[s].dst) = CoreOf(s)

\* Two connections that got their addresses from pools differ in address or
\* destination, although a port can be in two pools at once.
Distinct ==
  \A s, t \in Socket :
    s # t /\ sock[s].stream /\ sock[t].stream /\ sock[s].fetched /\ sock[t].fetched =>
      <<sock[s].sport, sock[s].dst>> # <<sock[t].sport, sock[t].dst>>

\* The address of a connection that will give it back is in use in the pool it goes
\* to: FreeAddress(), which does not look, never takes an entry off the wrong list.
HeldIsUsed == \A s \in Socket : sock[s].is_bound_addr => sock[s].sport \in PoolOf(s).used

\* "(NEVER HAPPEN) Failed to free address."
NeverHappens == ~failed

\* "All the underlying resources pertaining to the connection are also destroyed":
\* an address that is in use is the address of an open socket.
AllReturned == \A pool \in Pools : pool.used \subseteq {sock[s].sport : s \in Socket}

\* "The addr structure contains the address and the port number ... to be bound": a
\* socket that was bound to a port connects from that port.
KeepsBound == \A s \in Socket : sock[s].stream /\ sock[s].asked # ANY => sock[s].sport = sock[s].asked

\* The bookkeeping of the pools: their lists and counters agree, and what a connection
\* will give back is in use in the pool it goes to.
PoolsKept == PoolTypeOK /\ Partition /\ HeldIsUsed

\* What mtcp_connect() promises of an address: its packets come to the core that opened
\* the connection, and no other connection of the pools has it.
OwnAddress == SameCore /\ Distinct
=============================================================================
