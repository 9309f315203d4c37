--------------------------- MODULE FilterDeployment ---------------------------
(***************************************************************************)
(* What the owner of a shoot sees of the egress filter, whatever fails on  *)
(* the seeds.  Each seed has its own copy of the filter list and deploys   *)
(* while it has the control plane: never an older list than it has         *)
(* deployed before.  A seed that the control plane moves to may still have *)
(* an older list than the one it comes from.  The filter goes away once,   *)
(* when the shoot is deleted.                                              *)
(***************************************************************************)
EXTENDS Naturals

CONSTANTS Seed, FirstSeed, MaxVersion

VARIABLES
    list,       \* the version of the filter list that each seed has
    home,       \* the seed of the control plane
    shown,      \* the version that each seed has deployed last, or 0
    filter,     \* the version of the filter in the shoot, 0 for none
    deleting    \* the deletion of the shoot has been asked for

vars == <<list, home, shown, filter, deleting>>

Init ==
    /\ list = [s \in Seed |-> 1]
    /\ home = FirstSeed
    /\ shown = [s \in Seed |-> 0]
    /\ filter = 0
    /\ deleting = FALSE

GetNewerList(s) ==
    /\ \E v \in list[s] + 1 .. MaxVersion : list' = [list EXCEPT ![s] = v]
    /\ UNCHANGED <<home, shown, filter, deleting>>

Deploy ==
    /\ filter' \in (shown[home] .. list[home]) \ {0}
    /\ shown' = [shown EXCEPT ![home] = filter']
    /\ UNCHANGED <<list, home, deleting>>

Move ==
    /\ ~deleting
    /\ home' \in Seed
    /\ UNCHANGED <<list, shown, filter, deleting>>

AskForDeletion ==
    /\ ~deleting
    /\ deleting' = TRUE
    /\ UNCHANGED <<list, home, shown, filter>>

Remove ==
    /\ deleting
    /\ filter' = 0
    /\ UNCHANGED <<list, home, shown, deleting>>

Next ==
    \/ \E s \in Seed : GetNewerList(s)
    \/ Deploy \/ Move \/ AskForDeletion \/ Remove

Spec == Init /\ [][Next]_vars
=============================================================================
