------------------------- MODULE ActiveConfiguration -------------------------
(***************************************************************************)
(* What the managed Nginx controller promises the rest of MirrorRelay:     *)
(* one configuration is committed at a time, under ever higher versions,   *)
(* and it is one the tables once had as a whole or what a reader of the    *)
(* repositories sees around one change of them.  Memory shows the          *)
(* committed configuration or nothing, and requests are routed by what     *)
(* memory shows.  A crash may come at any time and takes nothing but       *)
(* memory: what is shown next was committed last.                          *)
(***************************************************************************)
EXTENDS Naturals

CONSTANTS
    Configs,   \* configurations; the component m is the repositories, a pair
               \* of the mirrors and the upstreams table
    First,     \* the configuration of the first start
    Nothing    \* no configuration, no repositories

VARIABLES
    proposed,  \* configurations the tables have held or shown a reader
    version,   \* version of the committed configuration, 0 before the first
    committed,
    shown,     \* the configuration memory calls active
    routed     \* the repositories requests are routed by

configurationVars == <<proposed, version, committed, shown, routed>>

ConfigurationInit ==
    /\ proposed = {First} /\ version = 0
    /\ committed = Nothing /\ shown = Nothing /\ routed = Nothing

\* An operator or a Coordinator changes the tables.
Propose ==
    /\ \E c \in Configs : proposed' = proposed \cup {c}
    /\ UNCHANGED <<version, committed, shown, routed>>

\* An operator changes the repositories while they are being read: the reader
\* has the mirrors from before and the upstreams from after the change.
ProposeUnderReader ==
    /\ \E old \in proposed, c \in Configs :
          /\ c.c = old.c
          /\ proposed' = proposed
                \cup {c, [c EXCEPT !.m = <<old.m[1], c.m[2]>>]}
    /\ UNCHANGED <<version, committed, shown, routed>>

\* A version is committed; that it is newer is all its number says.
Commit ==
    /\ version' \in Nat /\ version' > version
    /\ committed' \in proposed
    /\ UNCHANGED <<proposed, shown, routed>>

Show ==
    /\ committed # Nothing
    /\ shown' = committed
    /\ UNCHANGED <<proposed, version, committed, routed>>

Route ==
    /\ shown # Nothing
    /\ routed' = shown.m
    /\ UNCHANGED <<proposed, version, committed, shown>>

\* MirrorRelay ends.
Forget ==
    /\ shown' = Nothing /\ routed' = Nothing
    /\ UNCHANGED <<proposed, version, committed>>

ConfigurationNext ==
    \/ Propose \/ ProposeUnderReader
    \/ Commit \/ Show \/ Route \/ Forget

ConfigurationSpec == ConfigurationInit /\ [][ConfigurationNext]_configurationVars
==============================================================================
