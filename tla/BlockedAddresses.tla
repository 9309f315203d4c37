--------------------------- MODULE BlockedAddresses ---------------------------
(***************************************************************************)
(* What a filter list promises about addresses, without networks or order: *)
(* the blocked addresses first only grow, and stay out of the reserved     *)
(* ones; once the exceptions are being made they only shrink; in the end   *)
(* they are the addresses wanted, which are known from the start.          *)
(***************************************************************************)
CONSTANTS
    Address,
    Reserved      \* the addresses of the reserved ranges

VARIABLES
    wanted,       \* the addresses to block in the end
    blocked,      \* the addresses blocked so far
    phase         \* "block", "except" or "done"

vars == <<wanted, blocked, phase>>

Init ==
    /\ wanted \in SUBSET (Address \ Reserved)
    /\ blocked = {}
    /\ phase = "block"

Block ==
    /\ phase = "block"
    /\ \E S \in SUBSET (Address \ Reserved) : blocked' = blocked \cup S
    /\ UNCHANGED <<wanted, phase>>

MakeExceptions ==
    /\ phase = "block"
    /\ wanted \subseteq blocked
    /\ phase' = "except"
    /\ UNCHANGED <<wanted, blocked>>

\* An exception takes away addresses that are not wanted, and only them.
Except ==
    /\ phase = "except"
    /\ \E S \in SUBSET (Address \ wanted) : blocked' = blocked \ S
    /\ UNCHANGED <<wanted, phase>>

Finish ==
    /\ phase = "except"
    /\ blocked = wanted
    /\ phase' = "done"
    /\ UNCHANGED <<wanted, blocked>>

Next == Block \/ MakeExceptions \/ Except \/ Finish

Spec == Init /\ [][Next]_vars
=============================================================================
