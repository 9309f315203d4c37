----------------------------- MODULE MCSplitCidr -----------------------------
(* Every pair of overlapping networks of W-bit addresses. *)
EXTENDS SplitCidr
=============================================================================
