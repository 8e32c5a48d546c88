------------------------------ MODULE AlertFeed ------------------------------
(***************************************************************************)
(* What the webhook dispatcher promises: alerts reach the receiver in the  *)
(* order they were accepted, each at most once, and none after the feed    *)
(* was closed.  Alerts may be lost.                                        *)
(***************************************************************************)
EXTENDS Sequences

CONSTANT Alerts

VARIABLES
  pending,  \* accepted and not yet disposed of, oldest first
  received, \* what the receiver got
  closed    \* the feed was closed

feedVars == <<pending, received, closed>>

FeedInit == pending = <<>> /\ received = <<>> /\ closed = FALSE

Accept(a) ==
  /\ pending' = Append(pending, a)
  /\ UNCHANGED <<received, closed>>

Receive ==
  /\ ~closed /\ pending # <<>>
  /\ received' = Append(received, Head(pending))
  /\ pending' = Tail(pending)
  /\ UNCHANGED closed

Discard ==
  /\ pending # <<>>
  /\ pending' = Tail(pending)
  /\ UNCHANGED <<received, closed>>

Close == closed' = TRUE /\ UNCHANGED <<pending, received>>

FeedNext == (\E a \in Alerts : Accept(a)) \/ Receive \/ Discard \/ Close

FeedSpec == FeedInit /\ [][FeedNext]_feedVars
==============================================================================
