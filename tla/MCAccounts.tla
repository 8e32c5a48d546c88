----------------------------- MODULE MCAccounts -----------------------------
(***************************************************************************)
(* The three parts of sign-in for TLC: accounts and sessions, passkeys and *)
(* recovery codes, and the login limiter.  They share no state, so one     *)
(* behaviour follows one of them ("focus") and the others keep still.      *)
(***************************************************************************)
EXTENDS Accounts, Passkeys, LoginLimiter, TLC

CONSTANTS u1, u2, k1, k2

VARIABLE focus

(* A credential registered before the process started. *)
MCEnrolled == {[cred |-> k1, serial |-> 1, user |-> u1, count |-> 0]}

MCInit ==
  /\ focus \in {"accounts", "passkeys", "limiter"}
  /\ AccountsInit /\ PasskeysInit /\ LimiterInit

MCNext ==
  /\ \/ focus = "accounts" /\ AccountsNext /\ UNCHANGED <<passkeyVars, limiterVars>>
     \/ focus = "passkeys" /\ PasskeysNext /\ UNCHANGED <<accountVars, limiterVars>>
     \/ focus = "limiter" /\ LimiterNext /\ UNCHANGED <<accountVars, passkeyVars>>
  /\ UNCHANGED focus

MCSpec == MCInit /\ [][MCNext]_<<accountVars, passkeyVars, limiterVars, focus>>

MCSymmetry == Permutations(Requests) \cup Permutations(Logins)
=============================================================================
