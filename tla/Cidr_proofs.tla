----------------------------- MODULE Cidr_proofs -----------------------------
(***************************************************************************)
(* What the CIDR operators of filter.go compute, for every address width   *)
(* W: each of them is shown to be the set operation on addresses that its  *)
(* name promises.                                                          *)
(***************************************************************************)
EXTENDS Cidr, TLAPS, WellFoundedInduction

\* splitCIDRInHalf returns two networks ...
LEMMA HalvesAreNets ==
    ASSUME NEW n \in Net, n.ones < W
    PROVE  /\ splitCIDRInHalf(n)[1] \in Net
           /\ splitCIDRInHalf(n)[2] \in Net
  <1> DEFINE h1 == [ip |-> n.ip, ones |-> n.ones + 1]
             h2 == [ip |-> [n.ip EXCEPT ![n.ones] = 1], ones |-> n.ones + 1]
  <1>1. /\ n.ip \in Address /\ n.ones \in 0 .. W /\ n.ones + 1 \in 0 .. W
        /\ n.ones \in Position
    BY WAssumption DEF Net, Position
  <1>2. h1 \in Net
    BY <1>1, WAssumption DEF Net, Position
  <1>3. h2.ip \in Address
    BY <1>1 DEF Address
  <1>4. \A i \in Position : i >= h2.ones => h2.ip[i] = 0
    BY <1>1, WAssumption DEF Net, Position, Address
  <1>5. h2 \in Net
    BY <1>1, <1>3, <1>4 DEF Net
  <1> QED
    BY <1>2, <1>5 DEF splitCIDRInHalf

\* ... that cut the network in two: each of its addresses is in one of them.
LEMMA HalvesPartition ==
    ASSUME NEW n \in Net, n.ones < W, NEW a \in Address
    PROVE  /\ Contains(n, a) <=> \/ Contains(splitCIDRInHalf(n)[1], a)
                                 \/ Contains(splitCIDRInHalf(n)[2], a)
           /\ ~(/\ Contains(splitCIDRInHalf(n)[1], a)
                /\ Contains(splitCIDRInHalf(n)[2], a))
  <1> DEFINE h1 == splitCIDRInHalf(n)[1]
             h2 == splitCIDRInHalf(n)[2]
  <1>1. /\ n.ip \in Address /\ n.ones \in Position
        /\ n.ip[n.ones] = 0 /\ a[n.ones] \in {0, 1}
        /\ Position \subseteq Int
    BY WAssumption DEF Net, Position, Address
  <1>2. /\ h1.ip = n.ip /\ h1.ones = n.ones + 1 /\ h2.ones = n.ones + 1
        /\ h2.ip[n.ones] = 1
        /\ \A i \in Position : i # n.ones => h2.ip[i] = n.ip[i]
    BY <1>1 DEF splitCIDRInHalf, Address
  <1>3. Contains(h1, a) <=> Contains(n, a) /\ a[n.ones] = 0
    BY <1>1, <1>2 DEF Contains, Position
  <1>4. Contains(h2, a) <=> Contains(n, a) /\ a[n.ones] = 1
    BY <1>1, <1>2 DEF Contains, Position
  <1> QED
    BY <1>1, <1>3, <1>4

\* Of two networks that overlap, the one with the shorter mask contains
\* every address of the other.
LEMMA OverlapNests ==
    ASSUME NEW n \in Net, NEW m \in Net, overlaps(n, m), m.ones <= n.ones
    PROVE  /\ Contains(m, n.ip)
           /\ \A a \in Address : Contains(n, a) => Contains(m, a)
  <1>1. \A i \in Position : i < m.ones => m.ip[i] = n.ip[i]
    BY WAssumption DEF overlaps, Contains, Net, Position
  <1> QED
    BY <1>1, WAssumption DEF Contains, Net, Position

-----------------------------------------------------------------------------
\* Of the positions where something holds, one comes first.
LEMMA FirstPosition ==
    ASSUME NEW S \in SUBSET Position, S # {}
    PROVE  \E p \in S : \A q \in S : p <= q
  <1>1. S \subseteq Nat
    BY WAssumption DEF Position
  <1>2. \E p \in S : \A q \in S : ~(<<q, p>> \in OpToRel(<, Nat))
    BY <1>1, WFMin, NatLessThanWellFounded
  <1>3. PICK p \in S : \A q \in S : ~(<<q, p>> \in OpToRel(<, Nat))
    BY <1>2
  <1>4. ASSUME NEW q \in S PROVE p <= q
    <2>1. ~(q < p)
      BY <1>1, <1>3, <1>4, Zenon DEF OpToRel
    <2> QED
      BY <1>1, <2>1
  <1> QED
    BY <1>4

\* splitCIDRAroundSubnet returns networks.
LEMMA KeptHalfIsNet ==
    ASSUME NEW cidr \in Net, NEW subnet \in Net, NEW p \in cidr.ones .. subnet.ones - 1
    PROVE  KeptHalf(cidr, subnet, p) \in Net
  <1> DEFINE k == KeptHalf(cidr, subnet, p)
  <1>1. cidr.ip \in Address /\ subnet.ip \in Address /\ cidr.ones \in 0 .. W
        /\ subnet.ones \in 0 .. W /\ p \in 0 .. W - 1
    BY WAssumption DEF Net
  <1>2. k.ip \in Address
    <2>1. \A i \in Position : /\ subnet.ip[i] \in {0, 1} /\ 1 - subnet.ip[i] \in {0, 1}
                              /\ cidr.ip[i] \in {0, 1}
      BY <1>1 DEF Address
    <2>2. k.ip = [i \in Position |-> IF i < p THEN subnet.ip[i]
                                     ELSE IF i = p THEN 1 - subnet.ip[i]
                                     ELSE cidr.ip[i]]
      BY DEF KeptHalf
    <2> HIDE DEF k
    <2> QED
      BY <2>1, <2>2 DEF Address
  <1>3. k.ones \in 0 .. W
    BY <1>1, WAssumption DEF KeptHalf
  <1>4. \A i \in Position : i >= k.ones => k.ip[i] = 0
    BY <1>1, WAssumption DEF KeptHalf, Net, Position
  <1> QED
    BY <1>2, <1>3, <1>4 DEF Net, KeptHalf

\* An address of the network is in none of the kept halves exactly if it is
\* in the subnet.
LEMMA SplitIsDifference ==
    ASSUME NEW cidr \in Net, NEW subnet \in Net, overlaps(cidr, subnet),
           cidr.ones < subnet.ones, NEW a \in Address
    PROVE  (\E n \in splitCIDRAroundSubnet(cidr, subnet) : Contains(n, a))
              <=> Contains(cidr, a) /\ ~Contains(subnet, a)
  <1>1. cidr.ip \in Address /\ subnet.ip \in Address /\ cidr.ones \in 0 .. W
        /\ subnet.ones \in 0 .. W /\ Position = 0 .. W - 1 /\ W \in Nat
    BY WAssumption DEF Net, Position
  <1>2. \A i \in Position : i < cidr.ones => cidr.ip[i] = subnet.ip[i]
    BY <1>1, OverlapNests DEF overlaps, Contains
  <1>3. ASSUME NEW p \in cidr.ones .. subnet.ones - 1
        PROVE  Contains(KeptHalf(cidr, subnet, p), a)
                 <=> /\ \A i \in Position : i < p => a[i] = subnet.ip[i]
                     /\ a[p] # subnet.ip[p]
    <2>1. p \in Position /\ subnet.ip[p] \in {0, 1} /\ a[p] \in {0, 1}
      BY <1>1 DEF Address
    <2> QED
      BY <1>1, <2>1 DEF KeptHalf, Contains
  <1>4. ASSUME NEW p \in cidr.ones .. subnet.ones - 1, Contains(KeptHalf(cidr, subnet, p), a)
        PROVE  Contains(cidr, a) /\ ~Contains(subnet, a)
    <2>1. p \in Position /\ cidr.ones <= p /\ p < subnet.ones
      BY <1>1
    <2>2. (\A i \in Position : i < p => a[i] = subnet.ip[i]) /\ a[p] # subnet.ip[p]
      BY <1>3, <1>4
    <2>3. Contains(cidr, a)
      BY <1>1, <1>2, <2>1, <2>2 DEF Contains
    <2>4. ~Contains(subnet, a)
      BY <2>1, <2>2 DEF Contains
    <2> QED
      BY <2>3, <2>4
  <1>5. ASSUME Contains(cidr, a), ~Contains(subnet, a)
        PROVE  \E p \in cidr.ones .. subnet.ones - 1 : Contains(KeptHalf(cidr, subnet, p), a)
    <2> DEFINE D == { i \in Position : i < subnet.ones /\ a[i] # subnet.ip[i] }
    <2>1. PICK p \in D : \A q \in D : p <= q
      BY <1>5, FirstPosition DEF Contains
    <2>2. p \in cidr.ones .. subnet.ones - 1
      BY <1>1, <1>2, <1>5, <2>1 DEF Contains
    <2>3. \A i \in Position : i < p => a[i] = subnet.ip[i]
      BY <1>1, <2>1
    <2> QED
      BY <1>3, <2>1, <2>2, <2>3
  <1> QED
    BY <1>4, <1>5 DEF splitCIDRAroundSubnet

\* Networks that do not overlap share no address.
LEMMA ApartNets ==
    ASSUME NEW n \in Net, NEW m \in Net, ~overlaps(n, m), NEW a \in Address
    PROVE  ~(Contains(n, a) /\ Contains(m, a))
  <1> SUFFICES ASSUME Contains(n, a), Contains(m, a) PROVE overlaps(n, m)
    OBVIOUS
  <1>0. n.ones \in 0 .. W /\ m.ones \in 0 .. W
    BY DEF Net
  <1>1. CASE n.ones <= m.ones
    BY <1>0, <1>1, WAssumption DEF overlaps, Contains, Position
  <1>2. CASE m.ones <= n.ones
    BY <1>0, <1>2, WAssumption DEF overlaps, Contains, Position
  <1> QED
    BY <1>0, <1>1, <1>2

\* removeNetFromCIDR returns networks, and they contain the addresses of the
\* blocked network that are not in the allowed one.
THEOREM RemoveNetIsDifference ==
    ASSUME NEW block \in Net, NEW allow \in Net
    PROVE  /\ removeNetFromCIDR(block, allow) \subseteq Net
           /\ \A a \in Address :
                (\E n \in removeNetFromCIDR(block, allow) : Contains(n, a))
                  <=> Contains(block, a) /\ ~Contains(allow, a)
  <1>0. block.ones \in 0 .. W /\ allow.ones \in 0 .. W
    BY DEF Net
  <1>1. CASE ~overlaps(block, allow)
    BY <1>1, ApartNets DEF removeNetFromCIDR
  <1>2. CASE overlaps(block, allow) /\ Contains(allow, block.ip) /\ allow.ones <= block.ones
    BY <1>2, OverlapNests DEF removeNetFromCIDR
  <1>3. CASE overlaps(block, allow) /\ ~(Contains(allow, block.ip) /\ allow.ones <= block.ones)
    <2>1. block.ones < allow.ones
      BY <1>0, <1>3, OverlapNests
    <2>2. removeNetFromCIDR(block, allow) = splitCIDRAroundSubnet(block, allow)
      BY <1>3 DEF removeNetFromCIDR
    <2>3. splitCIDRAroundSubnet(block, allow) \subseteq Net
      BY KeptHalfIsNet DEF splitCIDRAroundSubnet
    <2> QED
      BY <1>3, <2>1, <2>2, <2>3, SplitIsDifference
  <1> QED
    BY <1>1, <1>2, <1>3

\* removeNetFromNetList takes the addresses of the allowed network, and only
\* them, out of a list of blocked networks.
THEOREM RemoveFromListIsDifference ==
    ASSUME NEW nets \in SUBSET Net, NEW allow \in Net
    PROVE  /\ removeNetFromNetList(nets, allow) \in SUBSET Net
           /\ Covered(removeNetFromNetList(nets, allow)) = Covered(nets) \ Addresses(allow)
  BY RemoveNetIsDifference DEF removeNetFromNetList, Covered, Addresses

\* A load balancer address as a network contains that address alone.
LEMMA HostNet ==
    ASSUME NEW ip \in Address
    PROVE  ipToCIDR(ip) \in Net /\ \A a \in Address : Contains(ipToCIDR(ip), a) <=> a = ip
  <1>1. ipToCIDR(ip) \in Net
    BY WAssumption DEF ipToCIDR, Net, Position
  <1>2. \A a \in Address : (\A i \in Position : ip[i] = a[i]) => a = ip
    BY DEF Address
  <1> QED
    BY <1>1, <1>2, WAssumption DEF ipToCIDR, Contains, Position

\* A round of filterIPNetListForIPs takes one load balancer address, and no
\* other address, out of a list of blocked networks.
THEOREM RemoveIPIsDifference ==
    ASSUME NEW nets \in SUBSET Net, NEW lbIP \in Address
    PROVE  /\ removeIPFromNetList(nets, lbIP) \in SUBSET Net
           /\ Covered(removeIPFromNetList(nets, lbIP)) = Covered(nets) \ {lbIP}
  BY RemoveNetIsDifference, HostNet DEF removeIPFromNetList, Covered
=============================================================================
