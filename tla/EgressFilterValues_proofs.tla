---------------------- MODULE EgressFilterValues_proofs ----------------------
(***************************************************************************)
(* Proofs about the computation of the block list, for every address       *)
(* width, filter list, set of reserved ranges and set of load balancers:   *)
(* the list is exact, and its computation implements BlockedAddresses.     *)
(***************************************************************************)
EXTENDS EgressFilterValues, Cidr_proofs, FiniteSetTheorems

\* How far the passes have come, in addresses: the strengthening that makes
\* the exactness of the list inductive.
Progress ==
    /\ lbLeft \subseteq lbIPs
    /\ pass \in {"block", "allow"} => lbLeft = lbIPs
    /\ pass = "block" => Covered(nets) = ListedBefore("block", pos)
    /\ pass = "allow" => Covered(nets) = Listed("block") \ ListedBefore("allow", pos)
    /\ pass = "balancers"
         => Covered(nets) = (Listed("block") \ Listed("allow")) \ (lbIPs \ lbLeft)
    /\ pass = "done" => lbLeft = {} /\ Covered(nets) = Wanted

\* Every variable of the computation keeps its type.
THEOREM ValuesTyped == Spec => []TypeOK
  <1>1. Init => TypeOK
    BY InputAssumption DEF Init, TypeOK
  <1>2. TypeOK /\ [Next]_vars => TypeOK'
    <2> SUFFICES ASSUME TypeOK, [Next]_vars PROVE TypeOK'
      OBVIOUS
    <2>0. /\ Len(entries) \in Nat /\ DOMAIN entries = 1 .. Len(entries)
          /\ \A k \in DOMAIN entries : entries[k] \in Entry
      BY DEF TypeOK
    <2>1. CASE CollectBlock
      <3>1. entries[pos].network \in Net
        BY <2>0, <2>1 DEF CollectBlock, InPass, Handles, Entry
      <3> QED
        BY <2>0, <2>1, <3>1 DEF CollectBlock, InPass, TypeOK
    <2>2. CASE CarveAllow
      <3>1. entries[pos].network \in Net
        BY <2>0, <2>2 DEF CarveAllow, InPass, Handles, Entry
      <3>2. nets' \in SUBSET Net
        BY <2>2, <3>1, RemoveFromListIsDifference DEF CarveAllow, TypeOK
      <3> QED
        BY <2>0, <2>2, <3>2 DEF CarveAllow, InPass, TypeOK
    <2>3. CASE SkipEntry
      BY <2>0, <2>3 DEF SkipEntry, InPass, TypeOK
    <2>4. CASE NextPass
      BY <2>0, <2>4 DEF NextPass, TypeOK
    <2>5. CASE RemoveLBAddress
      <3>1. PICK ip \in lbLeft : nets' = removeIPFromNetList(nets, ip)
                                 /\ lbLeft' = lbLeft \ {ip}
        BY <2>5 DEF RemoveLBAddress
      <3>2. nets' \in SUBSET Net
        BY <3>1, RemoveIPIsDifference DEF TypeOK
      <3> QED
        BY <2>5, <3>1, <3>2 DEF RemoveLBAddress, TypeOK
    <2>6. CASE Return
      BY <2>6 DEF Return, TypeOK
    <2>7. CASE UNCHANGED vars
      BY <2>7 DEF vars, TypeOK
    <2> QED
      BY <2>1, <2>2, <2>3, <2>4, <2>5, <2>6, <2>7 DEF Next
  <1> QED
    BY <1>1, <1>2, PTL DEF Spec

\* Moving one position on adds the addresses of the entry there, if the
\* pass handles it.
LEMMA ListedStep ==
    ASSUME TypeOK, NEW p, pos \in DOMAIN entries
    PROVE  ListedBefore(p, pos + 1) =
             ListedBefore(p, pos)
               \cup IF Handles(p, entries[pos]) THEN Addresses(entries[pos].network) ELSE {}
  <1>1. DOMAIN entries \subseteq Int /\ pos \in Int
    BY DEF TypeOK
  <1>2. \A j \in DOMAIN entries : j < pos + 1 <=> j < pos \/ j = pos
    BY <1>1
  <1> QED
    BY <1>2 DEF ListedBefore, Addresses

\* No pass has looked at anything before the first position, and a pass
\* has looked at everything behind the last.
LEMMA ListedEnds ==
    ASSUME TypeOK, NEW p
    PROVE  ListedBefore(p, 1) = {}
           /\ (pos > Len(entries) => ListedBefore(p, pos) = Listed(p))
  <1>1. /\ Len(entries) \in Nat /\ DOMAIN entries = 1 .. Len(entries)
        /\ pos \in 1 .. Len(entries) + 1
    BY DEF TypeOK
  <1>2. ListedBefore(p, 1) = {}
    BY <1>1 DEF ListedBefore
  <1>3. pos > Len(entries) => pos = Len(entries) + 1
    BY <1>1
  <1> QED
    BY <1>2, <1>3 DEF Listed

\* A pass only handles networks of this family.
LEMMA HandledIsNet ==
    ASSUME TypeOK, NEW p, NEW k \in DOMAIN entries, Handles(p, entries[k])
    PROVE  entries[k].network \in Net
  <1>1. entries[k] \in Entry
    BY DEF TypeOK
  <1> QED
    BY <1>1 DEF Entry, Handles

\* No step changes the filter list, so what it lists stays the same.
LEMMA ListedUnchanged ==
    ASSUME entries' = entries
    PROVE  /\ \A p, k : ListedBefore(p, k)' = ListedBefore(p, k)
           /\ \A p : Listed(p)' = Listed(p)
  BY DEF ListedBefore, Listed, Handles, InReservedRange

\* Progress is inductive.
LEMMA ProgressHolds == Spec => []Progress
  <1>1. Init => Progress
    <2> SUFFICES ASSUME Init PROVE Progress
      OBVIOUS
    <2>1. TypeOK
      BY InputAssumption DEF Init, TypeOK
    <2>2. Covered(nets) = {}
      BY DEF Init, Covered
    <2>3. ListedBefore("block", 1) = {}
      BY <2>1, ListedEnds
    <2> QED
      BY <2>2, <2>3 DEF Init, Progress
  <1>2. TypeOK /\ Progress /\ [Next]_vars => Progress'
    <2> SUFFICES ASSUME TypeOK, Progress, [Next]_vars PROVE Progress'
      OBVIOUS
    <2>0. /\ entries' = entries /\ lbIPs' = lbIPs
          /\ \A p, k : ListedBefore(p, k)' = ListedBefore(p, k)
          /\ \A p : Listed(p)' = Listed(p)
      <3>1. entries' = entries /\ lbIPs' = lbIPs
        BY DEF Next, CollectBlock, CarveAllow, SkipEntry, NextPass, RemoveLBAddress,
               Return, vars
      <3> QED
        BY <3>1, ListedUnchanged
    <2>1. CASE CollectBlock
      <3>1. /\ pass = "block" /\ pass' = "block" /\ pos' = pos + 1 /\ lbLeft' = lbLeft
            /\ pos \in DOMAIN entries /\ Handles("block", entries[pos])
            /\ nets' = nets \cup {entries[pos].network}
        BY <2>1 DEF CollectBlock, InPass
      <3>2. Covered(nets') = Covered(nets) \cup Addresses(entries[pos].network)
        BY <3>1 DEF Covered, Addresses
      <3>3. Covered(nets') = ListedBefore("block", pos + 1)
        BY <3>1, <3>2, ListedStep DEF Progress
      <3> QED
        BY <2>0, <3>1, <3>3 DEF Progress, Covered
    <2>2. CASE CarveAllow
      <3>1. /\ pass = "allow" /\ pass' = "allow" /\ pos' = pos + 1 /\ lbLeft' = lbLeft
            /\ pos \in DOMAIN entries /\ Handles("allow", entries[pos])
            /\ nets' = removeNetFromNetList(nets, entries[pos].network)
        BY <2>2 DEF CarveAllow, InPass
      <3>2. entries[pos].network \in Net
        BY <3>1, HandledIsNet
      <3>3. Covered(nets') = Covered(nets) \ Addresses(entries[pos].network)
        BY <3>1, <3>2, RemoveFromListIsDifference DEF TypeOK
      <3>4. Covered(nets') = Listed("block") \ ListedBefore("allow", pos + 1)
        BY <3>1, <3>3, ListedStep DEF Progress
      <3> QED
        BY <2>0, <3>1, <3>4 DEF Progress, Covered
    <2>3. CASE SkipEntry
      <3>1. /\ pass \in {"block", "allow"} /\ pass' = pass /\ pos' = pos + 1
            /\ lbLeft' = lbLeft /\ pos \in DOMAIN entries
            /\ ~Handles(pass, entries[pos]) /\ nets' = nets
        BY <2>3 DEF SkipEntry, InPass
      <3>2. ListedBefore(pass, pos + 1) = ListedBefore(pass, pos)
        BY <3>1, ListedStep
      <3> QED
        BY <2>0, <3>1, <3>2 DEF Progress
    <2>4. CASE NextPass
      <3>1. /\ pass \in {"block", "allow"} /\ pos > Len(entries) /\ pos' = 1
            /\ pass' = (IF pass = "block" THEN "allow" ELSE "balancers")
            /\ lbLeft' = lbLeft /\ nets' = nets
        BY <2>4 DEF NextPass
      <3>2. ListedBefore("allow", 1) = {} /\ ListedBefore(pass, pos) = Listed(pass)
        BY <3>1, ListedEnds
      <3> QED
        BY <2>0, <3>1, <3>2 DEF Progress
    <2>5. CASE RemoveLBAddress
      <3>1. PICK ip \in lbLeft : nets' = removeIPFromNetList(nets, ip)
                                 /\ lbLeft' = lbLeft \ {ip}
        BY <2>5 DEF RemoveLBAddress
      <3>2. ip \in Address
        BY DEF TypeOK
      <3>3. Covered(nets') = Covered(nets) \ {ip}
        BY <3>1, <3>2, RemoveIPIsDifference DEF TypeOK
      <3> QED
        BY <2>0, <2>5, <3>1, <3>3 DEF RemoveLBAddress, Progress
    <2>6. CASE Return
      BY <2>0, <2>6 DEF Return, Progress, Wanted
    <2>7. CASE UNCHANGED vars
      BY <2>0, <2>7 DEF vars, Progress, Wanted
    <2> QED
      BY <2>1, <2>2, <2>3, <2>4, <2>5, <2>6, <2>7 DEF Next
  <1> QED
    BY <1>1, <1>2, ValuesTyped, PTL DEF Spec

-----------------------------------------------------------------------------
\* The list that generateSecretData returns blocks exactly the addresses it
\* should, whatever the order of the entries.
THEOREM ValuesAreExact == Spec => []ListIsExact
  <1>1. Progress => ListIsExact
    BY DEF Progress, ListIsExact
  <1> QED
    BY <1>1, ProgressHolds, PTL

\* The entries that the first pass collects stay clear of reserved ranges.
LEMMA ListedAvoidsReserved ==
    ASSUME TypeOK, NEW k
    PROVE  ListedBefore("block", k) \cap Covered(privateRanges) = {}
  <1> SUFFICES ASSUME NEW a \in Address, NEW j \in DOMAIN entries, NEW r \in privateRanges,
                      Handles("block", entries[j]), Contains(entries[j].network, a),
                      Contains(r, a)
               PROVE  FALSE
    BY DEF ListedBefore, Covered
  <1>1. entries[j].network \in Net /\ r \in Net
    BY HandledIsNet, InputAssumption
  <1>2. ~overlaps(r, entries[j].network)
    BY DEF Handles, InReservedRange
  <1> QED
    BY <1>1, <1>2, ApartNets

LEMMA CoveredAvoidsReserved ==
    ASSUME TypeOK, Progress
    PROVE  /\ Covered(nets) \cap Covered(privateRanges) = {}
           /\ Wanted \cap Covered(privateRanges) = {}
  <1>1. Covered(nets) \subseteq ListedBefore("block", pos) \cup Listed("block")
    BY DEF TypeOK, Progress, Wanted
  <1>2. Wanted \subseteq Listed("block")
    BY DEF Wanted
  <1> QED
    BY <1>1, <1>2, ListedAvoidsReserved DEF Listed

\* No moment of the computation has an address of a reserved range blocked.
THEOREM ReservedStaysOpen == Spec => []ReservedNeverBlocked
  <1>1. TypeOK /\ Progress => ReservedNeverBlocked
    BY CoveredAvoidsReserved DEF ReservedNeverBlocked
  <1> QED
    BY <1>1, ValuesTyped, ProgressHolds, PTL

\* Every step of the two passes and of the load balancer rounds is a step
\* or a stutter of the abstract set that first grows and then shrinks to the
\* wanted addresses.
THEOREM ValuesImplementBlocked == Spec => ImplementsBlocked
  <1>1. Init => Blocked!Init
    <2> SUFFICES ASSUME Init PROVE Blocked!Init
      OBVIOUS
    <2>1. TypeOK /\ Covered(nets) = {}
      BY InputAssumption DEF Init, TypeOK, Covered
    <2>2. Wanted \subseteq Address /\ Wanted \cap Covered(privateRanges) = {}
      BY <2>1, ListedAvoidsReserved DEF Wanted, Listed, ListedBefore
    <2> QED
      BY <2>1, <2>2 DEF Init, Blocked!Init
  <1>2. TypeOK /\ Progress /\ Progress' /\ ReservedNeverBlocked' /\ [Next]_vars
          => [Blocked!Next]_(Blocked!vars)
    <2> SUFFICES ASSUME TypeOK, Progress, Progress', ReservedNeverBlocked', [Next]_vars
                 PROVE  Blocked!Next \/ UNCHANGED Blocked!vars
      OBVIOUS
    <2>0. Wanted' = Wanted
      <3>1. entries' = entries /\ lbIPs' = lbIPs
        BY DEF Next, CollectBlock, CarveAllow, SkipEntry, NextPass, RemoveLBAddress,
               Return, vars
      <3> QED
        BY <3>1, ListedUnchanged DEF Wanted
    <2>1. CASE CollectBlock
      <3>1. pass = "block" /\ pass' = "block" /\ Covered(nets) \subseteq Covered(nets')
        BY <2>1 DEF CollectBlock, Covered
      <3>2. Covered(nets') \in SUBSET (Address \ Covered(privateRanges))
        BY DEF Covered, ReservedNeverBlocked
      <3>3. Covered(nets') = Covered(nets) \cup Covered(nets')
        BY <3>1
      <3> QED
        BY <2>0, <3>1, <3>2, <3>3 DEF Blocked!Next, Blocked!Block, Covered
    <2>2. CASE CarveAllow
      <3>1. /\ pass = "allow" /\ pass' = "allow"
            /\ pos \in DOMAIN entries /\ Handles("allow", entries[pos])
            /\ nets' = removeNetFromNetList(nets, entries[pos].network)
        BY <2>2 DEF CarveAllow, InPass
      <3>2. entries[pos].network \in Net
        BY <3>1, HandledIsNet
      <3> DEFINE S == Addresses(entries[pos].network)
      <3>3. Covered(nets') = Covered(nets) \ S
        BY <3>1, <3>2, RemoveFromListIsDifference DEF TypeOK
      <3>4. S \subseteq Listed("allow")
        <4>1. pos < Len(entries) + 1
          BY <3>1 DEF TypeOK
        <4> QED
          BY <3>1, <4>1 DEF Listed, ListedBefore, Addresses
      <3>5. S \in SUBSET (Address \ Wanted)
        BY <3>4 DEF Wanted, Addresses
      <3>6. Covered(nets)' = Covered(nets')
        BY DEF Covered
      <3> HIDE DEF S
      <3> QED
        BY <2>0, <3>1, <3>3, <3>5, <3>6 DEF Blocked!Next, Blocked!Except
    <2>3. CASE SkipEntry
      BY <2>0, <2>3 DEF SkipEntry, Blocked!vars, Covered
    <2>4. CASE NextPass
      <3>1. CASE pass = "block"
        <4>1. Covered(nets) = Listed("block") /\ pass' = "allow" /\ nets' = nets
          BY <2>4, <3>1, ListedEnds DEF NextPass, Progress
        <4>2. Wanted \subseteq Covered(nets)
          BY <4>1 DEF Wanted
        <4> QED
          BY <2>0, <3>1, <4>1, <4>2 DEF Blocked!Next, Blocked!MakeExceptions, Covered
      <3>2. CASE pass = "allow"
        BY <2>0, <2>4, <3>2 DEF NextPass, Blocked!vars, Covered
      <3> QED
        BY <2>4, <3>1, <3>2 DEF NextPass
    <2>5. CASE RemoveLBAddress
      <3>1. PICK ip \in lbLeft : nets' = removeIPFromNetList(nets, ip)
        BY <2>5 DEF RemoveLBAddress
      <3>2. ip \in Address /\ ip \in lbIPs
        BY DEF TypeOK
      <3>3. Covered(nets)' = Covered(nets) \ {ip}
        BY <3>1, <3>2, RemoveIPIsDifference DEF TypeOK, Covered
      <3>4. {ip} \in SUBSET (Address \ Wanted)
        BY <3>2 DEF Wanted
      <3>5. pass = "balancers" /\ pass' = pass
        BY <2>5 DEF RemoveLBAddress
      <3> QED
        BY <2>0, <3>3, <3>4, <3>5 DEF Blocked!Next, Blocked!Except
    <2>6. CASE Return
      BY <2>0, <2>6 DEF Return, Progress, Blocked!Next, Blocked!Finish, Covered
    <2>7. CASE UNCHANGED vars
      BY <2>0, <2>7 DEF vars, Blocked!vars, Covered
    <2> QED
      BY <2>1, <2>2, <2>3, <2>4, <2>5, <2>6, <2>7 DEF Next
  <1> QED
    BY <1>1, <1>2, ValuesTyped, ProgressHolds, ReservedStaysOpen, PTL
       DEF Spec, ImplementsBlocked, Blocked!Spec
-----------------------------------------------------------------------------
(* The end of the computation.                                             *)

\* The steps left until the list is done: the rest of the pass and its end, the
\* passes behind it, and the load balancers.
StepsLeft ==
    LET rounds == Cardinality(lbLeft) + 1
        rest   == (Len(entries) - pos) + 2
    IN  IF pass = "done" THEN 0
        ELSE IF pass = "balancers" THEN rounds
        ELSE IF pass = "allow" THEN rest + rounds
        ELSE rest + (Len(entries) + 1) + rounds

CountsDown == [][StepsLeft' = StepsLeft - 1]_vars

\* The addresses that are left are finitely many.
LEMMA LBAddressesAreFinite ==
  ASSUME \A S \in LBAddressSets : IsFiniteSet(S)
  PROVE  Spec => [](IsFiniteSet(lbLeft) /\ Cardinality(lbLeft) \in Nat)
  <1>1. Init => IsFiniteSet(lbLeft)
    BY DEF Init
  <1>2. IsFiniteSet(lbLeft) /\ [Next]_vars => IsFiniteSet(lbLeft)'
    <2> SUFFICES ASSUME IsFiniteSet(lbLeft), [Next]_vars PROVE IsFiniteSet(lbLeft')
      OBVIOUS
    <2>1. CASE RemoveLBAddress
      <3>1. PICK ip \in lbLeft : lbLeft' = lbLeft \ {ip}
        BY <2>1 DEF RemoveLBAddress
      <3> QED
        BY <3>1, FS_RemoveElement
    <2>2. CASE ~RemoveLBAddress
      BY <2>2 DEF Next, CollectBlock, CarveAllow, SkipEntry, NextPass, Return, vars
    <2> QED
      BY <2>1, <2>2
  <1>3. IsFiniteSet(lbLeft) => Cardinality(lbLeft) \in Nat
    BY FS_CardinalityType
  <1> QED
    BY <1>1, <1>2, <1>3, PTL DEF Spec

\* Rendering ends for every list and finitely many load balancers: each step
\* takes one off a natural number that is 0 only at the end.
THEOREM ValuesTerminate ==
  ASSUME \A S \in LBAddressSets : IsFiniteSet(S)
  PROVE  Spec => [](StepsLeft \in Nat /\ (StepsLeft = 0 <=> pass = "done")) /\ CountsDown
  <1> DEFINE Finite == IsFiniteSet(lbLeft) /\ Cardinality(lbLeft) \in Nat
  <1>1. TypeOK /\ Finite => StepsLeft \in Nat /\ (StepsLeft = 0 <=> pass = "done")
    <2> SUFFICES ASSUME TypeOK, Finite PROVE StepsLeft \in Nat /\ (StepsLeft = 0 <=> pass = "done")
      OBVIOUS
    <2>1. Len(entries) \in Nat /\ pos \in 1 .. Len(entries) + 1
      BY DEF TypeOK
    <2> QED
      BY <2>1 DEF StepsLeft, TypeOK
  <1>2. TypeOK /\ Finite /\ [Next]_vars => [StepsLeft' = StepsLeft - 1]_vars
    <2> SUFFICES ASSUME TypeOK, Finite, Next PROVE StepsLeft' = StepsLeft - 1
      OBVIOUS
    <2>1. /\ Len(entries) \in Nat /\ pos \in 1 .. Len(entries) + 1
          /\ DOMAIN entries = 1 .. Len(entries)
      BY DEF TypeOK
    <2>2. CASE CollectBlock \/ CarveAllow \/ SkipEntry
      <3>1. /\ pass \in {"block", "allow"} /\ pass' = pass /\ pos' = pos + 1
            /\ UNCHANGED <<entries, lbLeft>>
        BY <2>2 DEF CollectBlock, CarveAllow, SkipEntry, InPass
      <3> QED
        BY <2>1, <3>1 DEF StepsLeft
    <2>3. CASE NextPass
      <3>1. pos = Len(entries) + 1 /\ pos' = 1 /\ UNCHANGED <<entries, lbLeft>>
        BY <2>1, <2>3 DEF NextPass
      <3>2. \/ pass = "block" /\ pass' = "allow"
            \/ pass = "allow" /\ pass' = "balancers"
        BY <2>3 DEF NextPass
      <3> QED
        BY <2>1, <3>1, <3>2 DEF StepsLeft
    <2>4. CASE RemoveLBAddress
      <3>1. PICK ip \in lbLeft : lbLeft' = lbLeft \ {ip}
        BY <2>4 DEF RemoveLBAddress
      <3>2. Cardinality(lbLeft') = Cardinality(lbLeft) - 1
        BY <3>1, FS_RemoveElement
      <3>3. pass = "balancers" /\ pass' = "balancers"
        BY <2>4 DEF RemoveLBAddress
      <3> QED
        BY <3>2, <3>3 DEF StepsLeft
    <2>5. CASE Return
      <3>1. Cardinality(lbLeft) = 0
        BY <2>5, FS_EmptySet DEF Return
      <3> QED
        BY <2>5, <3>1 DEF Return, StepsLeft
    <2> QED
      BY <2>2, <2>3, <2>4, <2>5 DEF Next
  <1>3. Spec => []Finite
    BY LBAddressesAreFinite
  <1> QED
    BY <1>1, <1>2, <1>3, ValuesTyped, PTL DEF Spec, CountsDown
=============================================================================
