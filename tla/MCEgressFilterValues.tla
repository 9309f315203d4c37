------------------------- MODULE MCEgressFilterValues -------------------------
(* Addresses of two bits, lists of at most MaxEntries entries. *)
EXTENDS EgressFilterValues, FiniteSets

CONSTANTS MaxEntries, MaxLBAddresses

Last == [i \in Position |-> 1]

\* The last address stands for the private ranges.
MCPrivateRanges == { [ip |-> Last, ones |-> W] }

\* One entry of each kind that neither pass handles is enough.
MCEntries ==
    [network : Net, policy : {Block, Allow}]
      \cup { [network |-> NotHere, policy |-> Block],
             [network |-> [ip |-> [i \in Position |-> 0], ones |-> 0], policy |-> "other"] }

MCFilterLists == UNION { [1 .. n -> MCEntries] : n \in 0 .. MaxEntries }

MCLBAddressSets == { S \in SUBSET Address : Cardinality(S) <= MaxLBAddresses }
=============================================================================
