------------------------------ MODULE Routing ------------------------------
(***************************************************************************)
(* The routing table and the static part of the ARP table, as config.c     *)
(* reads them from route.conf and arp.conf, and the two look-ups that the  *)
(* packets of the stack go through, GetOutputInterface() and               *)
(* GetDestinationHWaddr().                                                 *)
(*                                                                         *)
(* An IP address is the set of the positions of its one bits, 0 for the    *)
(* first in network order, so that & is intersection.                      *)
(***************************************************************************)
EXTENDS Integers, Sequences, FiniteSets

CONSTANTS
  Bits,        \* the bits of an address that vary
  Prefixes,    \* prefix lengths
  Nifs,        \* interfaces
  Haddrs,      \* hardware addresses
  MaxRoutes,   \* MAX_ROUTE_ENTRY
  MaxArp       \* bound: lines of arp.conf

\* What the constants must satisfy; the modules that instantiate this one assume it.
RoutingAssumption ==
  /\ Bits \subseteq 0..31 /\ Prefixes \subseteq 0..32 /\ Nifs \subseteq Nat
  /\ {MaxRoutes, MaxArp} \subseteq Nat

VARIABLES
  rtable,        \* CONFIG.rtable
  gateway,       \* index of CONFIG.gateway in it, 0 for NULL
  arp,           \* CONFIG.arp.entry
  arp_gateway    \* index of CONFIG.arp.gateway in it, 0 for NULL

vars == <<rtable, gateway, arp, arp_gateway>>

Addr == SUBSET Bits

Init == rtable = <<>> /\ gateway = 0 /\ arp = <<>> /\ arp_gateway = 0

-----------------------------------------------------------------------------
(* config.c *)

\* MUTANT of MaskFromPrefix: the last byte is left out.
MaskWholeBytes(prefix) ==
  {8 * i + j : i \in {i \in 0..3 : i < prefix \div 8}, j \in 0..7}

\* Byte by byte, from the most significant bit of each.
MaskFromPrefix(prefix) ==
  UNION {{8 * i + j : j \in {j \in 0..7 : j < prefix - i * 8}} :
           i \in {i \in 0..3 : i <= prefix \div 8}}

\* A line of route.conf.  After the default route the program stops.
EnrollRouteTableEntry(daddr, prefix, nif) ==
  /\ gateway = 0 /\ Len(rtable) < MaxRoutes /\ arp = <<>>
  /\ LET mask == MaskFromPrefix(prefix)
     IN /\ rtable' = Append(rtable, [daddr |-> daddr, prefix |-> prefix, mask |-> mask,
                                     masked |-> daddr \cap mask, nif |-> nif])
        /\ gateway' = IF mask = {} THEN Len(rtable) + 1 ELSE 0
  /\ UNCHANGED <<arp, arp_gateway>>

\* A line of arp.conf, which is read after route.conf.
EnrollARPTableEntry(ip, prefix, haddr) ==
  /\ Len(arp) < MaxArp
  /\ LET mask == MaskFromPrefix(prefix)
     IN /\ arp' = Append(arp, [prefix |-> prefix, ip |-> ip, haddr |-> haddr,
                               ip_mask |-> mask, ip_masked |-> ip \cap mask])
        /\ arp_gateway' = IF gateway # 0 /\ rtable[gateway].daddr \cap mask = ip \cap mask
                          THEN Len(arp) + 1 ELSE arp_gateway
  /\ UNCHANGED <<rtable, gateway>>

-----------------------------------------------------------------------------
(* The look-ups *)

NoRoute == [nif |-> -1, is_external |-> FALSE]
Covers(r, daddr) == daddr \cap r.mask = r.masked

\* MUTANT of GetOutputInterface: the last route that matches.
OutputLast(daddr) ==
  LET match == {i \in DOMAIN rtable : Covers(rtable[i], daddr)}
  IN IF match = {} THEN NoRoute
     ELSE LET r == rtable[CHOOSE i \in match : \A j \in match : i >= j]
          IN IF r.prefix > 0 THEN [nif |-> r.nif, is_external |-> FALSE]
             ELSE [nif |-> rtable[gateway].nif, is_external |-> TRUE]

\* The loop ends with the first route that matches.
GetOutputInterface(daddr) ==
  LET match == {i \in DOMAIN rtable : Covers(rtable[i], daddr)}
  IN IF match = {} THEN NoRoute
     ELSE LET r == rtable[CHOOSE i \in match : \A j \in match : i <= j]
          IN IF r.prefix > 0 THEN [nif |-> r.nif, is_external |-> FALSE]
             ELSE [nif |-> rtable[gateway].nif, is_external |-> TRUE]

\* MUTANT of Scan: a later entry of the same length is taken.
ScanLast(dip) ==
  [i \in 0..Len(arp) |-> LET m == {k \in 1..i : dip \cap arp[k].ip_mask = arp[k].ip_masked}
                         IN IF m = {} THEN 0 ELSE CHOOSE k \in m : \A l \in m : k >= l]

\* The entry that the loop over the table has found after each turn, 0 for none: a
\* longer prefix replaces a shorter one, and an entry with prefix 1 is compared whole
\* and ends the loop.
Scan(dip) ==
  LET exact == {k \in DOMAIN arp : arp[k].prefix = 1 /\ arp[k].ip = dip}
      Better(k, old) ==
        /\ arp[k].prefix # 1 /\ dip \cap arp[k].ip_mask = arp[k].ip_masked
        /\ arp[k].prefix > IF old = 0 THEN 0 ELSE arp[old].prefix
      found[i \in 0..Len(arp)] ==
        IF i = 0 THEN 0
        ELSE LET old == found[i - 1]
             IN IF old \in exact THEN old
                ELSE IF i \in exact \/ Better(i, old) THEN i ELSE old
  IN found

GetDestinationHWaddr(dip, is_gateway) ==
  LET i == IF is_gateway /\ arp_gateway # 0 THEN arp_gateway ELSE Scan(dip)[Len(arp)]
  IN IF i = 0 THEN "NULL" ELSE arp[i].haddr

-----------------------------------------------------------------------------
Next ==
  \/ \E a \in Addr, p \in Prefixes, n \in Nifs : EnrollRouteTableEntry(a, p, n)
  \/ \E a \in Addr, p \in Prefixes, h \in Haddrs : EnrollARPTableEntry(a, p, h)

Spec == Init /\ [][Next]_vars

-----------------------------------------------------------------------------
\* The mask of a route has as many leading ones as its prefix says, on both sides of
\* a byte boundary, and the default route is the last one if there is one.
MaskIsPrefix ==
  \A i \in DOMAIN rtable :
    /\ rtable[i].mask = {b \in 0..31 : b < rtable[i].prefix}
    /\ rtable[i].prefix = 0 <=> i = gateway

\* The routes and entries that match best, by definition.
Longest(table, matches) ==
  {i \in matches : \A j \in matches : table[i].prefix >= table[j].prefix}

Routes(daddr) == Longest(rtable, {i \in DOMAIN rtable : Covers(rtable[i], daddr)})

\* With the longer prefixes first in route.conf, a packet leaves by a route that
\* matches best, and goes to the gateway exactly if that is the default route.
SortedRoutes ==
  (\A i, j \in DOMAIN rtable : i < j => rtable[i].prefix >= rtable[j].prefix) =>
    \A daddr \in Addr :
      LET out == GetOutputInterface(daddr)
      IN IF Routes(daddr) = {} THEN out = NoRoute
         ELSE \E i \in Routes(daddr) : out = [nif |-> rtable[i].nif, is_external |-> i = gateway]

\* "Longest prefix matching" of the routes, in whatever order they are.
RouteLongest ==
  \A daddr \in Addr : Routes(daddr) # {} =>
    \E i \in Routes(daddr) : GetOutputInterface(daddr).nif = rtable[i].nif

Entries(dip) == Longest(arp, {i \in DOMAIN arp : dip \cap arp[i].ip_mask = arp[i].ip_masked})

\* "Longest prefix matching" of the ARP table holds in whatever order the entries are,
\* if no prefix is 0 or 1; and the packets for the gateway have its hardware address
\* whenever an entry covers it.
ArpMatches ==
  /\ (\A i \in DOMAIN arp : arp[i].prefix > 1) =>
       \A dip \in Addr :
         LET h == GetDestinationHWaddr(dip, FALSE)
         IN IF Entries(dip) = {} THEN h = "NULL" ELSE \E i \in Entries(dip) : h = arp[i].haddr
  /\ gateway # 0 =>
       LET covering == {i \in DOMAIN arp : rtable[gateway].daddr \cap arp[i].ip_mask = arp[i].ip_masked}
       IN covering # {} => \A dip \in Addr :
            \E i \in covering : GetDestinationHWaddr(dip, TRUE) = arp[i].haddr

\* "Longest prefix matching" of the ARP table with every prefix.
ArpLongest ==
  \A dip \in Addr : Entries(dip) # {} =>
    \E i \in Entries(dip) : GetDestinationHWaddr(dip, FALSE) = arp[i].haddr
=============================================================================
