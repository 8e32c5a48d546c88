------------------------------ MODULE MCWarmup ------------------------------
(* Values for the constants of Warmup.                                     *)
EXTENDS Warmup

CONSTANTS j1, j2, x1, x2

\* The administration page sends a blank status; a script may claim a run.
Counters(status, total, done) ==
    [status |-> status, total |-> total, done |-> done, failed |-> 0]
MCBodies == {Counters("", 0, 0), Counters("running", 1, 0),
             Counters("completed", 0, 2)}
=============================================================================
