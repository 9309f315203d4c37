-------------------------- MODULE EgressFilterValues --------------------------
(***************************************************************************)
(* From a combined filter list to the list of blocked networks of one      *)
(* address family: generateEgressFilterValues and, for the load balancers  *)
(* of the seed, filterSecretDataForIPs (filter.go), called one after the   *)
(* other by generateSecretData (actuator.go).                              *)
(*                                                                         *)
(* The two families are handled alike and never meet, so the module is     *)
(* about one of them, with the width W of its addresses.  Rendering the    *)
(* networks as text and reading them back gives the same networks.         *)
(***************************************************************************)
EXTENDS Cidr, Sequences

CONSTANTS
    privateRanges,   \* privateIPv4Ranges or privateIPv6Ranges
    NotHere,         \* a network of the other family, or text that is no CIDR
    FilterLists,     \* the combined filter lists considered
    LBAddressSets    \* the sets of load balancer addresses considered

Block == "BLOCK_ACCESS"
Allow == "ALLOW_ACCESS"

\* Policies come unchecked from downloads and secrets: any text is possible.
Entry == [network : Net \cup {NotHere}, policy : {Block, Allow, "other"}]

ASSUME InputAssumption ==
    /\ privateRanges \subseteq Net
    /\ NotHere \notin Net
    /\ FilterLists \subseteq Seq(Entry)
    /\ LBAddressSets \subseteq SUBSET Address

VARIABLES
    entries,     \* the combined filter list
    lbIPs,       \* the load balancer addresses, none without ensureConnectivity
    lbLeft,      \* those of them still to be taken out
    pass,        \* "block", "allow", "balancers" or "done"
    pos,         \* the position of the current pass in entries
    nets         \* the list of blocked networks

vars == <<entries, lbIPs, lbLeft, pass, pos, nets>>

Init ==
    /\ entries \in FilterLists
    /\ lbIPs \in LBAddressSets
    /\ lbLeft = lbIPs
    /\ pass = "block"
    /\ pos = 1
    /\ nets = {}

\* Mutant: only the address of the network is looked at.
AddressInReservedRange(n) == \E r \in privateRanges : Contains(r, n.ip)

InReservedRange(n) == \E r \in privateRanges : overlaps(r, n)

\* An entry that the pass looks for, with a network of this family.
Handles(p, e) ==
    /\ e.network # NotHere
    /\ \/ p = "block" /\ e.policy = Block /\ ~InReservedRange(e.network)
       \/ p = "allow" /\ e.policy = Allow

InPass == pass \in {"block", "allow"} /\ pos \in DOMAIN entries

\* First pass: collect the networks to block, except those that touch a
\* reserved range.
CollectBlock ==
    /\ InPass /\ pass = "block" /\ Handles("block", entries[pos])
    /\ nets' = nets \cup {entries[pos].network}
    /\ pos' = pos + 1
    /\ UNCHANGED <<entries, lbIPs, lbLeft, pass>>

\* Second pass: carve the allowed network out of the blocked ones.
CarveAllow ==
    /\ InPass /\ pass = "allow" /\ Handles("allow", entries[pos])
    /\ nets' = removeNetFromNetList(nets, entries[pos].network)
    /\ pos' = pos + 1
    /\ UNCHANGED <<entries, lbIPs, lbLeft, pass>>

SkipEntry ==
    /\ InPass /\ ~Handles(pass, entries[pos])
    /\ pos' = pos + 1
    /\ UNCHANGED <<entries, lbIPs, lbLeft, pass, nets>>

NextPass ==
    /\ pass \in {"block", "allow"} /\ pos > Len(entries)
    /\ pass' = IF pass = "block" THEN "allow" ELSE "balancers"
    /\ pos' = 1
    /\ UNCHANGED <<entries, lbIPs, lbLeft, nets>>

\* filterIPNetListForIPs, for the next load balancer address.
RemoveLBAddress ==
    /\ pass = "balancers"
    /\ \E ip \in lbLeft :
          /\ nets' = removeIPFromNetList(nets, ip)
          /\ lbLeft' = lbLeft \ {ip}
    /\ UNCHANGED <<entries, lbIPs, pass, pos>>

Return ==
    /\ pass = "balancers" /\ lbLeft = {}
    /\ pass' = "done"
    /\ UNCHANGED <<entries, lbIPs, lbLeft, pos, nets>>

Next == CollectBlock \/ CarveAllow \/ SkipEntry \/ NextPass \/ RemoveLBAddress \/ Return

Spec == Init /\ [][Next]_vars

-----------------------------------------------------------------------------
TypeOK ==
    /\ entries \in Seq(Entry)
    /\ lbIPs \subseteq Address
    /\ lbLeft \subseteq lbIPs
    /\ pass \in {"block", "allow", "balancers", "done"}
    /\ pos \in 1 .. Len(entries) + 1
    /\ nets \in SUBSET Net

\* The addresses of the entries before position k that pass p handles.
ListedBefore(p, k) ==
    { a \in Address : \E j \in DOMAIN entries :
        j < k /\ Handles(p, entries[j]) /\ Contains(entries[j].network, a) }

Listed(p) == ListedBefore(p, Len(entries) + 1)

\* The set the documentation's key principle describes: ALLOW_ACCESS
\* entries carve exceptions out of BLOCK_ACCESS entries, wherever they stand.
Wanted == (Listed("block") \ Listed("allow")) \ lbIPs

\* The list that generateSecretData returns blocks the addresses of the
\* BLOCK_ACCESS entries without those of the ALLOW_ACCESS entries and the
\* load balancers, and no others, in whatever order the entries come.
ListIsExact == pass = "done" => Covered(nets) = Wanted

\* No address of a private, loopback or link local range is blocked at any
\* moment: generateEgressFilterValues drops the entry that touches one.
ReservedNeverBlocked == Covered(nets) \cap Covered(privateRanges) = {}

\* The two passes of generateEgressFilterValues and the load balancer rounds
\* never take away an address that has to stay blocked, and after the first
\* pass never add one: they implement the abstract growing and shrinking set.
Blocked == INSTANCE BlockedAddresses
             WITH Reserved <- Covered(privateRanges),
                  wanted   <- Wanted,
                  blocked  <- Covered(nets),
                  phase    <- IF pass \in {"allow", "balancers"} THEN "except" ELSE pass

ImplementsBlocked == Blocked!Spec
=============================================================================
