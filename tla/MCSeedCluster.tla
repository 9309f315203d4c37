---------------------------- MODULE MCSeedCluster ----------------------------
(* All three programs in one cluster; the bounds are in the cfg. *)
EXTENDS SeedCluster
=============================================================================
