--------------------------- MODULE SplitCidr_proofs ---------------------------
(***************************************************************************)
(* Proofs about the loop of splitCIDRAroundSubnet, for every address       *)
(* width W: the loop is type correct, computes the closed form that the    *)
(* other modules use, and returns exactly the addresses of the network     *)
(* that are not in the subnet.                                             *)
(***************************************************************************)
EXTENDS SplitCidr, Cidr_proofs, FiniteSetTheorems

-----------------------------------------------------------------------------
IndInv == TypeOK /\ LoopInv

\* What a round of the loop starts from.
LEMMA RoundStart ==
    ASSUME IndInv, InRound
    PROVE  /\ pc = "loop" /\ prefixLen \in Position /\ prefixLen = currentNet.ones
           /\ cidr.ones <= prefixLen /\ cidr.ones \in 0 .. W
           /\ subnet.ones \in 0 .. W /\ prefixLen < subnet.ones
           /\ cidr.ip \in Address /\ subnet.ip \in Address /\ currentNet.ip \in Address
           /\ \A i \in Position : i < prefixLen => currentNet.ip[i] = subnet.ip[i]
           /\ \A i \in Position : i >= prefixLen
                 => currentNet.ip[i] = 0 /\ cidr.ip[i] = 0
  <1>1. /\ pc = "loop" /\ prefixLen \in Position /\ prefixLen = currentNet.ones
        /\ cidr.ones <= prefixLen /\ cidr.ones \in 0 .. W
        /\ subnet.ones \in 0 .. W /\ prefixLen < subnet.ones
        /\ cidr.ip \in Address /\ subnet.ip \in Address /\ currentNet.ip \in Address
    BY WAssumption DEF IndInv, TypeOK, LoopInv, InRound, Net, Position
  <1>2. \A i \in Position : i >= prefixLen => currentNet.ip[i] = 0 /\ cidr.ip[i] = 0
    BY <1>1, WAssumption DEF IndInv, TypeOK, Net, Position
  <1>3. \A i \in Position : i < prefixLen => currentNet.ip[i] = subnet.ip[i]
    <2>1. CASE prefixLen > cidr.ones
      BY <2>1, <1>1 DEF IndInv, LoopInv, Contains
    <2>2. CASE prefixLen = cidr.ones
      <3>1. Contains(cidr, subnet.ip)
        <4>1. cidr \in Net /\ subnet \in Net /\ overlaps(subnet, cidr)
          BY DEF IndInv, TypeOK, LoopInv, overlaps
        <4> QED
          BY <4>1, <1>1, <2>2, OverlapNests DEF Position
      <3> QED
        BY <3>1, <2>2, <1>1 DEF IndInv, LoopInv, Contains
    <2> QED
      BY <1>1, <2>1, <2>2, WAssumption DEF Position
  <1> QED
    BY <1>1, <1>2, <1>3

\* Round p keeps KeptHalf(cidr, subnet, p) and goes on with the half that
\* contains the subnet.
LEMMA RoundKeeps ==
    ASSUME IndInv, InRound, KeepFirstHalf \/ KeepSecondHalf
    PROVE  /\ result' = result \cup {KeptHalf(cidr, subnet, prefixLen)}
           /\ currentNet' \in Net
           /\ currentNet'.ones = prefixLen + 1
           /\ prefixLen' = prefixLen + 1
           /\ Contains(currentNet', subnet.ip)
           /\ \A i \in Position : i # prefixLen => currentNet'.ip[i] = currentNet.ip[i]
           /\ UNCHANGED <<cidr, subnet, pc>>
           /\ KeptHalf(cidr, subnet, prefixLen) \in Net
           /\ \/ splitCIDRInHalf(currentNet) = << KeptHalf(cidr, subnet, prefixLen), currentNet' >>
              \/ splitCIDRInHalf(currentNet) = << currentNet', KeptHalf(cidr, subnet, prefixLen) >>
  <1> DEFINE h1 == splitCIDRInHalf(currentNet)[1]
             h2 == splitCIDRInHalf(currentNet)[2]
             p  == prefixLen
             kept == KeptHalf(cidr, subnet, prefixLen)
  <1>1. /\ p \in Position /\ p = currentNet.ones /\ cidr.ones <= p
        /\ cidr.ones \in 0 .. W /\ cidr.ip \in Address /\ subnet.ip \in Address
        /\ currentNet.ip \in Address /\ subnet.ip[p] \in {0, 1}
        /\ \A i \in Position : i < p => currentNet.ip[i] = subnet.ip[i]
        /\ \A i \in Position : i >= p => currentNet.ip[i] = 0 /\ cidr.ip[i] = 0
    BY RoundStart DEF Address
  <1>2. currentNet \in Net /\ currentNet.ones < W
    BY <1>1, WAssumption DEF IndInv, TypeOK, Position
  <1>3. /\ h1 = [ip |-> currentNet.ip, ones |-> p + 1]
        /\ h2 = [ip |-> [currentNet.ip EXCEPT ![p] = 1], ones |-> p + 1]
        /\ h1 \in Net /\ h2 \in Net
        /\ splitCIDRInHalf(currentNet) = <<h1, h2>>
    BY <1>1, <1>2, HalvesAreNets DEF splitCIDRInHalf
  <1>4. Contains(h1, subnet.ip) <=> subnet.ip[p] = 0
    BY <1>1, <1>3, WAssumption DEF Contains, Position
  <1>5. CASE KeepSecondHalf
    <2>1. subnet.ip[p] = 0
      BY <1>4, <1>5 DEF KeepSecondHalf
    <2>2. /\ result' = result \cup {h2} /\ currentNet' = h1
          /\ prefixLen' = p + 1 /\ UNCHANGED <<cidr, subnet, pc>>
      BY <1>5 DEF KeepSecondHalf, Keep
    <2>3. h2.ip = kept.ip
      <3>1. \A i \in Position : kept.ip[i] = h2.ip[i]
        BY <1>1, <1>3, <2>1, WAssumption DEF KeptHalf, Address, Position
      <3> QED
        BY <3>1, <1>1, <1>3 DEF KeptHalf, Address
    <2>4. h2 = kept
      BY <2>3, <1>3 DEF KeptHalf
    <2> QED
      BY <1>3, <1>5, <2>2, <2>4 DEF KeepSecondHalf
  <1>6. CASE KeepFirstHalf
    <2>1. subnet.ip[p] = 1
      BY <1>1, <1>4, <1>6 DEF KeepFirstHalf
    <2>2. /\ result' = result \cup {h1} /\ currentNet' = h2
          /\ prefixLen' = p + 1 /\ UNCHANGED <<cidr, subnet, pc>>
      BY <1>6 DEF KeepFirstHalf, Keep
    <2>3. h1.ip = kept.ip
      <3>1. \A i \in Position : kept.ip[i] = h1.ip[i]
        BY <1>1, <1>3, <2>1, WAssumption DEF KeptHalf, Address, Position
      <3> QED
        BY <3>1, <1>1, <1>3 DEF KeptHalf, Address
    <2>4. h1 = kept
      BY <2>3, <1>3 DEF KeptHalf
    <2>5. Contains(h2, subnet.ip)
      BY <1>1, <1>3, <2>1, WAssumption DEF Contains, Address, Position
    <2>6. \A i \in Position : i # p => h2.ip[i] = currentNet.ip[i]
      BY <1>1, <1>3 DEF Address
    <2> QED
      BY <1>3, <2>2, <2>4, <2>5, <2>6
  <1> QED
    BY <1>5, <1>6

-----------------------------------------------------------------------------
\* The type invariant and the loop invariant are inductive together: that a
\* kept half is a network needs prefixLen to be the length of currentNet.
LEMMA IndInvHolds == Spec => []IndInv
  <1>1. Init => IndInv
    <2> SUFFICES ASSUME Init PROVE IndInv
      OBVIOUS
    <2>1. cidr.ones \in 0 .. W
      BY DEF Init, Net
    <2>2. cidr.ones .. prefixLen - 1 = {}
      BY <2>1 DEF Init
    <2> QED
      BY <2>1, <2>2, WAssumption DEF Init, IndInv, TypeOK, LoopInv
  <1>2. IndInv /\ [Next]_vars => IndInv'
    <2> SUFFICES ASSUME IndInv, [Next]_vars PROVE IndInv'
      OBVIOUS
    <2>0. cidr.ones \in 0 .. W /\ subnet.ones \in 0 .. W
      BY DEF IndInv, TypeOK, Net
    <2>1. CASE NothingRemains
      BY <2>0, <2>1 DEF NothingRemains, IndInv, TypeOK, LoopInv
    <2>2. CASE EnterLoop
      BY <2>0, <2>2 DEF EnterLoop, IndInv, TypeOK, LoopInv
    <2>3. CASE KeepFirstHalf \/ KeepSecondHalf
      <3>1. InRound
        BY <2>3 DEF KeepFirstHalf, KeepSecondHalf
      <3>2. TypeOK'
        BY <3>1, <2>3, RoundStart, RoundKeeps, WAssumption
           DEF IndInv, TypeOK, Position
      <3>3. result' = { KeptHalf(cidr, subnet, p) : p \in cidr.ones .. prefixLen' - 1 }
        <4>1. cidr.ones .. prefixLen' - 1 = (cidr.ones .. prefixLen - 1) \cup {prefixLen}
          BY <3>1, <2>0, <2>3, RoundStart, RoundKeeps, WAssumption DEF Position
        <4> QED
          BY <4>1, <3>1, <2>3, RoundKeeps DEF IndInv, LoopInv
      <3>4. \A i \in Position : i < cidr.ones \/ i >= prefixLen'
                                  => currentNet'.ip[i] = cidr.ip[i]
        <4> SUFFICES ASSUME NEW i \in Position, i < cidr.ones \/ i >= prefixLen'
                     PROVE  currentNet'.ip[i] = cidr.ip[i]
          OBVIOUS
        <4>1. i # prefixLen /\ (i < cidr.ones \/ i >= prefixLen)
          BY <3>1, <2>0, <2>3, RoundStart, RoundKeeps, WAssumption DEF Position
        <4>2. currentNet'.ip[i] = currentNet.ip[i]
          BY <4>1, <3>1, <2>3, RoundKeeps
        <4> QED
          BY <4>1, <4>2 DEF IndInv, LoopInv
      <3>5. LoopInv'
        BY <3>1, <3>3, <3>4, <2>0, <2>3, RoundStart, RoundKeeps, WAssumption
           DEF IndInv, LoopInv, overlaps, Contains, Position
      <3> QED
        BY <3>2, <3>5 DEF IndInv
    <2>4. CASE Return
      BY <2>0, <2>4 DEF Return, IndInv, TypeOK, LoopInv
    <2>5. CASE UNCHANGED vars
      BY <2>5 DEF vars, IndInv, TypeOK, LoopInv
    <2> QED
      BY <2>1, <2>2, <2>3, <2>4, <2>5 DEF Next
  <1> QED
    BY <1>1, <1>2, PTL DEF Spec

\* Every variable of the loop of splitCIDRAroundSubnet keeps its type; in
\* particular every half it keeps is a network, whatever the address width.
THEOREM SplitTyped == Spec => []TypeOK
  BY IndInvHolds, PTL DEF IndInv

\* The loop invariant of splitCIDRAroundSubnet holds for every address width.
THEOREM SplitKeepsLoopInv == Spec => []LoopInv
  <1>1. IndInv => LoopInv
    BY DEF IndInv
  <1> QED
    BY <1>1, IndInvHolds, PTL

\* What the loop of splitCIDRAroundSubnet returns is the closed form that
\* removeNetFromCIDR uses.
THEOREM SplitReturnsClosedForm == Spec => []ReturnsClosedForm
  <1>1. IndInv => ReturnsClosedForm
    <2> SUFFICES ASSUME IndInv, pc = "done"
                 PROVE  result = splitCIDRAroundSubnet(cidr, subnet)
      BY DEF ReturnsClosedForm
    <2>1. cidr.ones \in 0 .. W /\ subnet.ones \in 0 .. W
      BY DEF IndInv, TypeOK, Net
    <2>2. cidr.ones .. prefixLen - 1 = cidr.ones .. subnet.ones - 1
      BY <2>1 DEF IndInv, LoopInv
    <2> QED
      BY <2>2 DEF IndInv, LoopInv, splitCIDRAroundSubnet
  <1> QED
    BY <1>1, IndInvHolds, PTL

-----------------------------------------------------------------------------
\* A round splits the addresses of currentNet between the kept half and the
\* new currentNet.
LEMMA RoundSplits ==
    ASSUME IndInv, InRound, KeepFirstHalf \/ KeepSecondHalf, NEW a \in Address
    PROVE  LET kept == KeptHalf(cidr, subnet, prefixLen) IN
           /\ Contains(currentNet, a) <=> Contains(kept, a) \/ Contains(currentNet', a)
           /\ ~(Contains(kept, a) /\ Contains(currentNet', a))
  <1>1. currentNet \in Net /\ currentNet.ones < W
    BY RoundStart, WAssumption DEF IndInv, TypeOK, Position
  <1> QED
    BY <1>1, RoundKeeps, HalvesPartition

\* The partition of the addresses, by address instead of by set.
Partition ==
    /\ \A a \in Address :
          /\ Contains(cidr, a) <=> Contains(currentNet, a) \/ \E n \in result : Contains(n, a)
          /\ ~(Contains(currentNet, a) /\ \E n \in result : Contains(n, a))
    /\ \A n, m \in result, a \in Address : Contains(n, a) /\ Contains(m, a) => n = m

LEMMA PartitionHolds == Spec => []Partition
  <1>1. Init => Partition
    BY DEF Init, Partition
  <1>2. IndInv /\ Partition /\ [Next]_vars => Partition'
    <2> SUFFICES ASSUME IndInv, Partition, [Next]_vars PROVE Partition'
      OBVIOUS
    <2>1. CASE KeepFirstHalf \/ KeepSecondHalf
      <3>1. InRound
        BY <2>1 DEF KeepFirstHalf, KeepSecondHalf
      <3> DEFINE kept == KeptHalf(cidr, subnet, prefixLen)
      <3>2. cidr' = cidr /\ result' = result \cup {kept}
        BY <2>1, <3>1, RoundKeeps
      <3>3. \A a \in Address :
               /\ Contains(currentNet, a) <=> Contains(kept, a) \/ Contains(currentNet', a)
               /\ ~(Contains(kept, a) /\ Contains(currentNet', a))
        BY <2>1, <3>1, RoundSplits
      <3> HIDE DEF kept
      <3> QED
        BY <3>2, <3>3 DEF Partition
    <2>2. CASE UNCHANGED <<cidr, currentNet, result>>
      BY <2>2 DEF Partition
    <2> QED
      BY <2>1, <2>2 DEF Next, NothingRemains, EnterLoop, Return, vars
  <1> QED
    BY <1>1, <1>2, IndInvHolds, PTL DEF Spec

\* Throughout the loop of splitCIDRAroundSubnet, the kept halves and the
\* current network together are exactly the network it was called with.
THEOREM SplitLosesNoAddress == Spec => []NoAddressLost
  <1>1. Partition => NoAddressLost
    BY DEF Partition, NoAddressLost, Covered, Addresses
  <1> QED
    BY <1>1, PartitionHolds, PTL

\* No half the loop of splitCIDRAroundSubnet keeps reaches into the network
\* that still holds the subnet.
THEOREM SplitKeepsSubnetOut == Spec => []SubnetStaysOut
  <1>1. IndInv /\ Partition => SubnetStaysOut
    <2> SUFFICES ASSUME IndInv, Partition PROVE SubnetStaysOut
      OBVIOUS
    <2>1. Covered(result) \cap Addresses(currentNet) = {}
      BY DEF Partition, Covered, Addresses
    <2>2. ASSUME pc = "loop", NEW a \in Address, Contains(subnet, a)
          PROVE  Contains(currentNet, a)
      <3>1. \A i \in Position : i < prefixLen => currentNet.ip[i] = subnet.ip[i]
        <4>1. CASE prefixLen > cidr.ones
          BY <4>1 DEF IndInv, LoopInv, Contains
        <4>2. CASE prefixLen = cidr.ones
          <5>1. Contains(cidr, subnet.ip)
            <6>1. cidr \in Net /\ subnet \in Net /\ overlaps(subnet, cidr)
                  /\ cidr.ones <= subnet.ones
              BY <2>2 DEF IndInv, TypeOK, LoopInv, overlaps, Net
            <6> QED
              BY <6>1, OverlapNests
          <5> QED
            BY <4>2, <5>1 DEF IndInv, LoopInv, Contains
        <4> QED
          BY <2>2, <4>1, <4>2 DEF IndInv, TypeOK, LoopInv, Net
      <3> QED
        BY <2>2, <3>1, WAssumption DEF IndInv, TypeOK, LoopInv, Contains, Net, Position
    <2> QED
      BY <2>1, <2>2 DEF SubnetStaysOut, Addresses
  <1> QED
    BY <1>1, IndInvHolds, PartitionHolds, PTL

\* Two halves that the loop of splitCIDRAroundSubnet keeps share no address.
THEOREM SplitHalvesAreDisjoint == Spec => []HalvesAreDisjoint
  <1>1. Partition => HalvesAreDisjoint
    BY DEF Partition, HalvesAreDisjoint, Addresses
  <1> QED
    BY <1>1, PartitionHolds, PTL

\* splitCIDRAroundSubnet returns the addresses of the network that are not
\* in the subnet, and no others: for 32-bit, 128-bit and every other width.
THEOREM SplitReturnsTheDifference == Spec => []ReturnsTheDifference
  <1>1. IndInv /\ Partition => ReturnsTheDifference
    <2> SUFFICES ASSUME IndInv, Partition, pc = "done"
                 PROVE  Covered(result) = Addresses(cidr) \ Addresses(subnet)
      BY DEF ReturnsTheDifference
    <2>1. cidr \in Net /\ subnet \in Net /\ overlaps(cidr, subnet)
          /\ cidr.ones \in 0 .. W /\ subnet.ones \in 0 .. W
      BY DEF IndInv, TypeOK, LoopInv, Net
    <2>2. CASE subnet.ones <= cidr.ones
      <3>1. result = {}
        BY <2>1, <2>2 DEF IndInv, LoopInv
      <3> QED
        BY <3>1, <2>1, <2>2, OverlapNests DEF Covered, Addresses
    <2>3. CASE cidr.ones < subnet.ones
      <3>1. prefixLen = subnet.ones /\ currentNet.ones = subnet.ones
            /\ Contains(currentNet, subnet.ip)
        BY <2>1, <2>3 DEF IndInv, LoopInv
      <3>2. \A a \in Address : Contains(currentNet, a) <=> Contains(subnet, a)
        BY <3>1 DEF Contains
      <3> QED
        BY <3>2 DEF Partition, Covered, Addresses
    <2> QED
      BY <2>1, <2>2, <2>3
  <1> QED
    BY <1>1, IndInvHolds, PartitionHolds, PTL
-----------------------------------------------------------------------------
(* The end of the loop.                                                    *)

\* The steps left until the loop is done.
StepsLeft ==
    IF pc = "done" THEN 0
    ELSE IF pc = "loop" THEN (subnet.ones - prefixLen) + 1
    ELSE IF subnet.ones > cidr.ones THEN (subnet.ones - cidr.ones) + 2
    ELSE 1

CountsDown == [][StepsLeft' = StepsLeft - 1]_vars

\* The loop of splitCIDRAroundSubnet ends: each step takes one off a natural
\* number that is 0 only at the end, for every address width.
THEOREM SplitTerminates ==
  Spec => [](StepsLeft \in Nat /\ (StepsLeft = 0 <=> pc = "done")) /\ CountsDown
  <1>1. IndInv => StepsLeft \in Nat /\ (StepsLeft = 0 <=> pc = "done")
    <2> SUFFICES ASSUME IndInv PROVE StepsLeft \in Nat /\ (StepsLeft = 0 <=> pc = "done")
      OBVIOUS
    <2>1. cidr.ones \in 0 .. W /\ subnet.ones \in 0 .. W /\ pc \in {"call", "loop", "done"}
      BY DEF IndInv, TypeOK, Net
    <2>2. pc = "loop" => prefixLen \in cidr.ones .. subnet.ones
      BY DEF IndInv, LoopInv
    <2> QED
      BY <2>1, <2>2, WAssumption DEF StepsLeft
  <1>2. IndInv /\ [Next]_vars => [StepsLeft' = StepsLeft - 1]_vars
    <2> SUFFICES ASSUME IndInv, Next PROVE StepsLeft' = StepsLeft - 1
      OBVIOUS
    <2>1. cidr.ones \in 0 .. W /\ subnet.ones \in 0 .. W
      BY DEF IndInv, TypeOK, Net
    <2>2. CASE NothingRemains
      BY <2>1, <2>2 DEF NothingRemains, StepsLeft
    <2>3. CASE EnterLoop
      <3>1. prefixLen = cidr.ones
        BY <2>3 DEF EnterLoop, IndInv, LoopInv
      <3> QED
        BY <2>1, <2>3, <3>1 DEF EnterLoop, StepsLeft
    <2>4. CASE KeepFirstHalf \/ KeepSecondHalf
      <3>1. InRound
        BY <2>4 DEF KeepFirstHalf, KeepSecondHalf
      <3>2. pc = "loop" /\ prefixLen \in Int
        BY <3>1, RoundStart DEF Position
      <3>3. pc' = "loop" /\ subnet' = subnet /\ prefixLen' = prefixLen + 1
        BY <2>4, <3>1, <3>2, RoundKeeps
      <3> QED
        BY <2>1, <3>2, <3>3 DEF StepsLeft
    <2>5. CASE Return
      <3>1. prefixLen = subnet.ones
        BY <2>1, <2>5 DEF Return, IndInv, LoopInv
      <3> QED
        BY <2>1, <2>5, <3>1 DEF Return, StepsLeft
    <2> QED
      BY <2>2, <2>3, <2>4, <2>5 DEF Next
  <1> QED
    BY <1>1, <1>2, IndInvHolds, PTL DEF Spec, CountsDown

\* One network has been kept for each round.
Counted == IsFiniteSet(result) /\ Cardinality(result) = prefixLen - cidr.ones

ReturnsOnePerBit ==
    pc = "done" => Cardinality(result) = IF subnet.ones > cidr.ones
                                         THEN subnet.ones - cidr.ones ELSE 0

\* An exception that is carved out of a network costs as many networks as its
\* mask is longer, at most the address width: the bound on how a block list
\* grows (splitCIDRAroundSubnet, filter.go).
THEOREM SplitReturnsFew == Spec => [](ReturnsOnePerBit /\ Cardinality(result) <= W)
  <1>1. Init => Counted
    <2> SUFFICES ASSUME Init PROVE Counted
      OBVIOUS
    <2>1. cidr.ones \in 0 .. W
      BY DEF Init, Net
    <2> QED
      BY <2>1, FS_EmptySet DEF Init, Counted
  <1>2. IndInv /\ Counted /\ [Next]_vars => Counted'
    <2> SUFFICES ASSUME IndInv, Counted, [Next]_vars PROVE Counted'
      OBVIOUS
    <2>1. CASE NothingRemains \/ EnterLoop \/ Return \/ UNCHANGED vars
      BY <2>1 DEF NothingRemains, EnterLoop, Return, vars, Counted
    <2>2. CASE KeepFirstHalf \/ KeepSecondHalf
      <3> DEFINE kept == KeptHalf(cidr, subnet, prefixLen)
      <3>1. InRound
        BY <2>2 DEF KeepFirstHalf, KeepSecondHalf
      <3>2. prefixLen \in Nat /\ cidr.ones \in Nat
        BY <3>1, RoundStart DEF Position
      <3>3. result' = result \cup {kept} /\ prefixLen' = prefixLen + 1 /\ cidr' = cidr
        BY <2>2, <3>1, RoundKeeps
      <3>4. kept \notin result
        <4>1. kept.ones = prefixLen + 1
          BY DEF KeptHalf
        <4>2. \A n \in result : \E p \in cidr.ones .. prefixLen - 1 : n = KeptHalf(cidr, subnet, p)
          BY DEF IndInv, LoopInv
        <4>3. \A p \in cidr.ones .. prefixLen - 1 : KeptHalf(cidr, subnet, p).ones = p + 1
          BY DEF KeptHalf
        <4> HIDE DEF kept
        <4> QED
          BY <3>2, <4>1, <4>2, <4>3
      <3> HIDE DEF kept
      <3>5. /\ IsFiniteSet(result \cup {kept})
            /\ Cardinality(result \cup {kept}) = Cardinality(result) + 1
        BY <3>4, FS_AddElement DEF Counted
      <3> QED
        BY <3>2, <3>3, <3>5 DEF Counted
    <2> QED
      BY <2>1, <2>2 DEF Next
  <1>3. IndInv /\ Counted => ReturnsOnePerBit /\ Cardinality(result) <= W
    <2> SUFFICES ASSUME IndInv, Counted PROVE ReturnsOnePerBit /\ Cardinality(result) <= W
      OBVIOUS
    <2>1. cidr.ones \in 0 .. W /\ subnet.ones \in 0 .. W /\ prefixLen \in 0 .. W
      BY DEF IndInv, TypeOK, Net
    <2>2. pc = "done" => \/ cidr.ones < subnet.ones /\ prefixLen = subnet.ones
                         \/ subnet.ones <= cidr.ones /\ prefixLen = cidr.ones
      BY DEF IndInv, LoopInv
    <2> QED
      BY <2>1, <2>2, WAssumption DEF Counted, ReturnsOnePerBit
  <1> QED
    BY <1>1, <1>2, <1>3, IndInvHolds, PTL DEF Spec
=============================================================================
