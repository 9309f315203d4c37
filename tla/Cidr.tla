-------------------------------- MODULE Cidr --------------------------------
(***************************************************************************)
(* The CIDR arithmetic of pkg/controller/lifecycle/filter.go.              *)
(*                                                                         *)
(* An address is its W bits, bit 0 being the most significant one: the     *)
(* code's net.IP with W = 32 or W = 128.  A net.IPNet is a masked address  *)
(* and the number of ones of its mask.  A list of networks is the SET of   *)
(* its members, because an address is blocked when some member contains    *)
(* it, whatever the order.                                                 *)
(***************************************************************************)
EXTENDS Integers

CONSTANT W    \* the number of bits of an address

ASSUME WAssumption == W \in Nat

Position == 0 .. W - 1

Address == [Position -> {0, 1}]

\* net.ParseCIDR clears the bits behind the mask.
Net == { n \in [ip : Address, ones : 0 .. W] :
            \A i \in Position : i >= n.ones => n.ip[i] = 0 }

\* (*net.IPNet).Contains
Contains(n, a) == \A i \in Position : i < n.ones => n.ip[i] = a[i]

\* The addresses of one network, and of a list of networks.
Addresses(n) == { a \in Address : Contains(n, a) }

Covered(nets) == { a \in Address : \E n \in nets : Contains(n, a) }

overlaps(n, m) == Contains(n, m.ip) \/ Contains(m, n.ip)

\* Mutant: the second half starts one bit too far.
SplitOneBitLate(n) ==
    << [ip |-> n.ip, ones |-> n.ones + 1],
       [ip |-> [i \in Position |-> IF i = n.ones + 1 THEN 1 ELSE n.ip[i]],
        ones |-> n.ones + 1] >>

\* Mutant: the bit of the second half is not set.
SplitWithoutBit(n) ==
    << [ip |-> n.ip, ones |-> n.ones + 1], [ip |-> n.ip, ones |-> n.ones + 1] >>

\* Setting bit "ones" (ip[bytePos] |= 1 << bitPos) starts the second half.
splitCIDRInHalf(n) ==
    << [ip |-> n.ip, ones |-> n.ones + 1],
       [ip |-> [n.ip EXCEPT ![n.ones] = 1], ones |-> n.ones + 1] >>

\* Mutant: the mask is one bit short of the bit that is left.
ShortMaskHalf(cidr, subnet, p) ==
    [ip   |-> [i \in Position |-> IF i < p THEN subnet.ip[i]
                                  ELSE IF i = p THEN 1 - subnet.ip[i]
                                  ELSE cidr.ip[i]],
     ones |-> p]

\* The half that round p of splitCIDRAroundSubnet keeps: it agrees with the
\* subnet before bit p, leaves it at bit p, and is zero behind its mask.
KeptHalf(cidr, subnet, p) ==
    [ip   |-> [i \in Position |-> IF i < p THEN subnet.ip[i]
                                  ELSE IF i = p THEN 1 - subnet.ip[i]
                                  ELSE cidr.ip[i]],
     ones |-> p + 1]

\* One kept half for each round of the loop; module SplitCidr is the loop.
splitCIDRAroundSubnet(cidr, subnet) ==
    { KeptHalf(cidr, subnet, p) : p \in cidr.ones .. subnet.ones - 1 }

\* Mutant: a network that overlaps an exception is dropped as a whole.
DropOverlapping(block, allow) == IF overlaps(block, allow) THEN {} ELSE {block}

removeNetFromCIDR(block, allow) ==
    IF ~overlaps(block, allow) THEN {block}
    ELSE IF Contains(allow, block.ip) /\ allow.ones <= block.ones THEN {}
    ELSE splitCIDRAroundSubnet(block, allow)

removeNetFromNetList(nets, allow) ==
    UNION { removeNetFromCIDR(b, allow) : b \in nets }

ipToCIDR(a) == [ip |-> a, ones |-> W]

\* Mutant: a network with a load balancer in it is dropped as a whole.
DropNetOfIP(nets, lbIP) == { n \in nets : ~Contains(n, lbIP) }

\* One round of filterIPNetListForIPs, for one load balancer address.
removeIPFromNetList(nets, lbIP) ==
    { n \in nets : ~Contains(n, lbIP) }
      \cup UNION { removeNetFromCIDR(n, ipToCIDR(lbIP)) :
                     n \in { m \in nets : Contains(m, lbIP) } }
=============================================================================
