------------------------------ MODULE SplitCidr ------------------------------
(***************************************************************************)
(* The loop of splitCIDRAroundSubnet (filter.go): the network cidr is      *)
(* halved until what is left is exactly the subnet to keep out, and the    *)
(* other half of every round goes to the result.  removeNetFromCIDR calls  *)
(* it with two networks that overlap.                                      *)
(***************************************************************************)
EXTENDS Cidr

VARIABLES
    cidr, subnet,      \* the arguments
    currentNet,        \* the part of cidr that still holds the subnet
    prefixLen,         \* the loop counter
    result,            \* the halves kept so far
    pc

vars == <<cidr, subnet, currentNet, prefixLen, result, pc>>

Init ==
    /\ cidr \in Net
    /\ subnet \in Net
    /\ overlaps(cidr, subnet)
    /\ currentNet = cidr
    /\ prefixLen = cidr.ones
    /\ result = {}
    /\ pc = "call"

\* "If subnet is equal to or larger than cidr, nothing remains."
NothingRemains ==
    /\ pc = "call"
    /\ subnet.ones <= cidr.ones
    /\ pc' = "done"
    /\ UNCHANGED <<cidr, subnet, currentNet, prefixLen, result>>

EnterLoop ==
    /\ pc = "call"
    /\ subnet.ones > cidr.ones
    /\ pc' = "loop"
    /\ UNCHANGED <<cidr, subnet, currentNet, prefixLen, result>>

InRound == pc = "loop" /\ prefixLen < subnet.ones

\* Mutant: the result is assigned instead of appended to.
KeepOnlyLast(kept, next) ==
    /\ result' = {kept}
    /\ currentNet' = next
    /\ prefixLen' = prefixLen + 1
    /\ UNCHANGED <<cidr, subnet, pc>>

\* Mutant: the network that is being split is kept instead of its half.
KeepWhole(kept, next) ==
    /\ result' = result \cup {currentNet}
    /\ currentNet' = next
    /\ prefixLen' = prefixLen + 1
    /\ UNCHANGED <<cidr, subnet, pc>>

\* The round keeps the half "kept" and goes on with the other one.
Keep(kept, next) ==
    /\ result' = result \cup {kept}
    /\ currentNet' = next
    /\ prefixLen' = prefixLen + 1
    /\ UNCHANGED <<cidr, subnet, pc>>

KeepSecondHalf ==
    /\ InRound
    /\ LET half == splitCIDRInHalf(currentNet)
       IN  Contains(half[1], subnet.ip) /\ Keep(half[2], half[1])

\* Mutant: the half with the subnet is kept, the other one is split on.
KeepWrongHalf ==
    /\ InRound
    /\ LET half == splitCIDRInHalf(currentNet)
       IN  ~Contains(half[1], subnet.ip) /\ Keep(half[2], half[1])

KeepFirstHalf ==
    /\ InRound
    /\ LET half == splitCIDRInHalf(currentNet)
       IN  ~Contains(half[1], subnet.ip) /\ Keep(half[1], half[2])

\* Mutant: the loop ends one round early.
ReturnEarly ==
    /\ pc = "loop"
    /\ prefixLen + 1 >= subnet.ones
    /\ pc' = "done"
    /\ UNCHANGED <<cidr, subnet, currentNet, prefixLen, result>>

Return ==
    /\ pc = "loop"
    /\ prefixLen >= subnet.ones
    /\ pc' = "done"
    /\ UNCHANGED <<cidr, subnet, currentNet, prefixLen, result>>

Next == NothingRemains \/ EnterLoop \/ KeepSecondHalf \/ KeepFirstHalf \/ Return

Spec == Init /\ [][Next]_vars

-----------------------------------------------------------------------------
TypeOK ==
    /\ cidr \in Net /\ subnet \in Net /\ currentNet \in Net
    /\ prefixLen \in 0 .. W
    /\ result \in SUBSET Net
    /\ pc \in {"call", "loop", "done"}

\* No address of cidr is lost and none is gained while the loop of
\* splitCIDRAroundSubnet runs: the kept halves and the current network
\* together are the network it was called with.
NoAddressLost ==
    Covered(result) \cup Addresses(currentNet) = Addresses(cidr)

\* The halves splitCIDRAroundSubnet has kept never reach into the network
\* that is still being split, so the subnet stays out of every one of them.
SubnetStaysOut ==
    /\ Covered(result) \cap Addresses(currentNet) = {}
    /\ pc = "loop" => Addresses(subnet) \subseteq Addresses(currentNet)

\* What splitCIDRAroundSubnet returns blocks the addresses of cidr that are
\* not in the subnet, and no others.
ReturnsTheDifference ==
    pc = "done" => Covered(result) = Addresses(cidr) \ Addresses(subnet)

\* The list has no redundant entry: two networks that
\* splitCIDRAroundSubnet returns share no address.
HalvesAreDisjoint ==
    \A n, m \in result : n # m => Addresses(n) \cap Addresses(m) = {}

\* The closed form that the other modules use is what the loop computes.
ReturnsClosedForm ==
    pc = "done" => result = splitCIDRAroundSubnet(cidr, subnet)

\* What every round of splitCIDRAroundSubnet leaves true: currentNet is the
\* prefixLen-bit network around the subnet, and the result holds one kept
\* half for each round made.
LoopInv ==
    /\ overlaps(cidr, subnet)
    /\ prefixLen = currentNet.ones
    /\ prefixLen > cidr.ones => Contains(currentNet, subnet.ip)
    /\ \A i \in Position : i < cidr.ones \/ i >= prefixLen
                             => currentNet.ip[i] = cidr.ip[i]
    /\ result = { KeptHalf(cidr, subnet, p) : p \in cidr.ones .. prefixLen - 1 }
    /\ pc = "call" => prefixLen = cidr.ones
    /\ pc = "loop" => cidr.ones < subnet.ones /\ prefixLen \in cidr.ones .. subnet.ones
    /\ pc = "done" => \/ cidr.ones < subnet.ones /\ prefixLen = subnet.ones
                      \/ subnet.ones <= cidr.ones /\ prefixLen = cidr.ones
=============================================================================
