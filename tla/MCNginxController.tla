------------------------ MODULE MCNginxController ------------------------
(* Values for the constants of NginxController.                            *)
EXTENDS NginxController

CONSTANTS r1, r2, u1, u2, c1, c2
Start == [m |-> <<r1, u1>>, c |-> c1]
=============================================================================
