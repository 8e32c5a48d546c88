--------------------------- MODULE MCNginxProcess ---------------------------
(* The supervised Nginx process for TLC. *)
EXTENDS NginxProcess

(* Process ids are numbers; two are enough for a master that is slow to    *)
(* start and the one started after it.                                     *)
MCPids == {1, 2}
=============================================================================
