---------------------------- MODULE MCClusterSync ----------------------------
(* Values for the constants of ClusterSync.                                *)
EXTENDS ClusterSync, TLC

CONSTANTS f1, f2, e1, e2, e3, k1, k2
SlotSymmetry == Permutations(Calls)
=============================================================================
