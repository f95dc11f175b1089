------------------------------ MODULE RssHash ------------------------------
(***************************************************************************)
(* Which core gets the packets of a connection: the Toeplitz hash of its   *)
(* addresses and ports under mTCP's key, and the queue that the hash       *)
(* selects, as rss.c computes it to predict what the NIC does.             *)
(*                                                                         *)
(* A word is the set of the positions of its one bits, 0 for the most      *)
(* significant, so that ^ is symmetric difference.                         *)
(***************************************************************************)
EXTENDS Integers, FiniteSets, FiniteSetsExt

CONSTANTS
  Bits32,   \* the bits of an IP address that vary
  Bits16,   \* the bits of a port that vary
  Queues    \* num_queues

\* What the constants must satisfy; the modules that instantiate this one assume it.
RssHashAssumption ==
  Bits32 \subseteq 0..31 /\ Bits16 \subseteq 0..15 /\ Queues \subseteq Nat \ {0}

VARIABLES saddr, daddr, sport, dport   \* a connection, in host byte order

vars == <<saddr, daddr, sport, dport>>

\* MUTANT of key: the bytes differ, as in the key that the NIC starts with.
keyDefault(i) == {j \in 0..7 : (i + j) % 3 = 0}

\* 0x05 in every byte.
key(i) == {5, 7}

\* The bit that BuildKeyCache() shifts in.
KeyBit(idx) == (idx % 8) \in key(idx \div 8)

\* BuildKeyCache(): result starts with the first 32 bits of the key, and every turn
\* shifts one bit out and the next one in: bit b of entry i.
key_cache(i, b) == KeyBit(i + b)

At(word, first) == {first + i : i \in word}

\* The exclusive or of the entries that the one bits select.
GetRSSHash(sip, dip, sp, dp) ==
  LET picked == At(sip, 0) \cup At(dip, 32) \cup At(sp, 64) \cup At(dp, 80)
  IN {b \in 0..31 : Cardinality({i \in picked : key_cache(i, b)}) % 2 = 1}

\* The number made of the n least significant bits.
Low(word, n) == SumSet({2 ^ (31 - b) : b \in word \cap (32 - n)..31})

\* MUTANT of RSS_BIT_MASK: too few bits for eight queues.
MaskShort(endian_check) == 2

RSS_BIT_MASK(endian_check) == IF endian_check THEN 9 ELSE 7

\* The queue that a hash selects: i40e if endian_check is set, else ixgbe and mlx.
Queue(hash, num_queues, endian_check) ==
  LET off == <<3, 1, -1, -3>>
      masked == Low(hash, RSS_BIT_MASK(endian_check))
  IN (IF endian_check THEN masked + off[1 + (masked % 4)] ELSE masked) % num_queues

GetRSSCPUCore(sip, dip, sp, dp, num_queues, endian_check) ==
  Queue(GetRSSHash(sip, dip, sp, dp), num_queues, endian_check)

-----------------------------------------------------------------------------
(* How the callers ask *)

\* Network byte order on a little endian host.
Swap(word, bytes) == {(bytes - 1 - b \div 8) * 8 + (b % 8) : b \in word}

\* CreateAddressPoolPerCore() asks for the packets that come in.
PerCoreAsks(n, e) == GetRSSCPUCore(daddr, saddr, dport, sport, n, e)

\* FetchAddress() asks for the packets that go out.
FetchAsks(n, e) == GetRSSCPUCore(saddr, daddr, sport, dport, n, e)

\* mtcp_connect() with a bound address asks in network byte order.
BoundAsks(n, e) ==
  GetRSSCPUCore(Swap(saddr, 4), Swap(daddr, 4), Swap(sport, 2), Swap(dport, 2), n, e)

-----------------------------------------------------------------------------
(* Every connection is reached by changing one bit at a time. *)

Flip(word, b) == IF b \in word THEN word \ {b} ELSE word \cup {b}

Init == saddr = {} /\ daddr = {} /\ sport = {} /\ dport = {}

Next ==
  \/ \E b \in Bits32 : saddr' = Flip(saddr, b) /\ UNCHANGED <<daddr, sport, dport>>
  \/ \E b \in Bits32 : daddr' = Flip(daddr, b) /\ UNCHANGED <<saddr, sport, dport>>
  \/ \E b \in Bits16 : sport' = Flip(sport, b) /\ UNCHANGED <<saddr, daddr, dport>>
  \/ \E b \in Bits16 : dport' = Flip(dport, b) /\ UNCHANGED <<saddr, daddr, sport>>

Spec == Init /\ [][Next]_vars

\* The packets of both directions come to one core, and the three places that ask for
\* it get the same answer although they ask with the ends exchanged or with the bytes
\* in another order.
CallersAgree ==
  \A n \in Queues, e \in BOOLEAN :
    PerCoreAsks(n, e) = FetchAsks(n, e) /\ BoundAsks(n, e) = FetchAsks(n, e)

\* Whatever the two addresses and the destination's port, every core has source ports
\* whose packets come to it: no pool of CreateAddressPoolPerCore() is empty.
EveryCoreHasPorts ==
  sport = {} =>
    LET hashes == {GetRSSHash(daddr, saddr, dport, sp) : sp \in SUBSET (9..15)}
    IN \A n \in Queues, e \in BOOLEAN : {Queue(h, n, e) : h \in hashes} = 0..(n - 1)
=============================================================================
