--------------------------- MODULE MCClusterRouting ---------------------------
(* Values for the constants of ClusterRouting.                             *)
EXTENDS ClusterRouting

CONSTANTS i1, i2, u1, u2, f1, f2

\* The administration page states nothing; a script may state anything.
Blank == [health |-> "unset", config |-> "unset", man |-> NoManifest,
          repo |-> "nil"]
Claim == [health |-> "healthy", config |-> "match",
          man |-> [cfg |-> f1, gen |-> 1], repo |-> "viable"]
MCBodies == {Blank, Claim}
=============================================================================
