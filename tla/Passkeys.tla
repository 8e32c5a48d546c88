------------------------------ MODULE Passkeys ------------------------------
(***************************************************************************)
(* Passkey and recovery-code sign-in: the WebAuthn challenges held in      *)
(* memory (ChallengeManager), the passkey_credentials and                  *)
(* admin_recovery_codes tables, the switch that disables password login,   *)
(* and the local command that resets them.                                 *)
(*                                                                         *)
(* A WebAuthn response is a record of the facts the verifier compares; the *)
(* CBOR, COSE and signature code decides them and is represented by the    *)
(* two flags "wellformed" and "signed".  The authenticator is outside this *)
(* repository: it may present any counter, also an old one (a clone).      *)
(*                                                                         *)
(* passkeyLoginVerify and recoveryLogin take no lock.  The handlers of a   *)
(* signed-in account hold Server.mutationMu; only one of them is between   *)
(* its check and its write at any time, which "account" records.           *)
(***************************************************************************)
EXTENDS Naturals, Sequences, FiniteSets

CONSTANTS
  PasskeyUsers,       \* user ids of existing accounts
  Credentials,    \* credential ids of authenticators
  Codes,          \* recovery codes that can be generated
  Logins,         \* sign-in requests in progress
  MaxChallenges,  \* bound: challenges ever issued
  ChallengeLimit, \* ChallengeManager.maxSessions
  MaxCount,       \* bound: signature counters
  MaxRegistrations, \* bound: rows ever inserted into passkey_credentials
  Enrolled        \* passkey rows registered before the process started

Challenges == 1..MaxChallenges
Anyone == "anyone"   \* user id 0 of a login challenge: username-less sign-in

ChallengeRows ==
  [id: Challenges, user: PasskeyUsers \cup {Anyone}, action: {"login", "register"},
   expired: BOOLEAN]
PasskeyRows ==
  [cred: Credentials, serial: 1..MaxRegistrations, user: PasskeyUsers, count: 0..MaxCount]
CodeRows == [code: Codes, user: PasskeyUsers, used: BOOLEAN]

ASSUME PasskeysAssumption ==
  /\ MaxChallenges \in Nat /\ ChallengeLimit \in Nat /\ MaxCount \in Nat
  /\ MaxRegistrations \in Nat /\ Anyone \notin PasskeyUsers
  /\ Enrolled \subseteq PasskeyRows /\ Cardinality(Enrolled) \in 0..MaxRegistrations
  /\ \A p \in Enrolled : p.serial <= Cardinality(Enrolled)
  /\ \A p, q \in Enrolled : p.cred = q.cred \/ p.serial = q.serial => p = q

VARIABLES
  exists,         \* accounts that are in the users table
  disabled,       \* users.password_login_disabled
  challenges,     \* ChallengeManager.sessions
  issued,         \* number of challenges issued
  passkeys,       \* the passkey_credentials table
  registrations,  \* its AUTOINCREMENT counter
  codes,          \* the admin_recovery_codes table
  minted,         \* codes generated so far (random, never generated twice)
  login,          \* the sign-in requests
  account,        \* the account handler holding mutationMu
  granted,        \* auxiliary: the sign-ins granted, in order
  recovered       \* auxiliary: how often each code has granted one

passkeyVars == <<exists, disabled, challenges, issued, passkeys, registrations, codes,
                 minted, login, account, granted, recovered>>

NoLogin == [pc |-> "idle"]
NoHandler == [op |-> "none"]

Of(u) == {p \in passkeys : p.user = u}
Unused(u) == {c \in codes : c.user = u /\ ~c.used}
Unexpired == {c \in challenges : ~c.expired}

-----------------------------------------------------------------------------

(* ChallengeManager.Create: prune, refuse at the limit, insert. *)
ChallengeCreate(u, action) ==
  /\ issued < MaxChallenges
  /\ issued' = issued + 1
  /\ challenges' = IF Cardinality(Unexpired) >= ChallengeLimit THEN Unexpired
                   ELSE Unexpired \cup {[id |-> issued + 1, user |-> u, action |-> action,
                                     expired |-> FALSE]}

(* Mutant: the challenge stays until it expires. *)
ChallengeConsume_Kept(id) == challenges' = Unexpired

(* ChallengeManager.Consume: the challenge is gone whatever the outcome. *)
ChallengeConsume(id) == challenges' = {c \in Unexpired : c.id # id}
Consumable(id, action) == {c \in Unexpired : c.id = id /\ c.action = action}

ChallengeExpires ==
  /\ \E c \in Unexpired : challenges' = (challenges \ {c}) \cup {[c EXCEPT !.expired = TRUE]}
  /\ UNCHANGED <<exists, disabled, issued, passkeys, registrations, codes, minted, login,
                 account, granted, recovered>>

(* A WebAuthn response, by the facts the verifier compares.  "wellformed":  *)
(* the encodings and lengths parse; "origin": type, challenge and origin of *)
(* the client data are the expected ones; "rpid": the hash of the RP ID;    *)
(* "present": user presence and verification flags; "attested": it carries  *)
(* a new credential; "signed": the signature verifies.                      *)
Responses == [wellformed: BOOLEAN, origin: BOOLEAN, rpid: BOOLEAN, present: BOOLEAN,
              attested: BOOLEAN, signed: BOOLEAN]

VerifyClientData(a) == a.origin
ParseAuthenticatorData(a) == a.wellformed
VerifyRPID(a) == a.rpid
VerifyAuthenticationSignature(a) == a.signed

(* Everything about a response that needs no table; a registration carries *)
(* a new credential, a sign-in none.                                       *)
CeremonyOK(a, attested) ==
  /\ VerifyClientData(a) /\ ParseAuthenticatorData(a) /\ VerifyRPID(a)
  /\ a.present /\ a.attested = attested

(* The responses worth telling apart: the valid one, and one wrong fact.   *)
Valid(attested) == [wellformed |-> TRUE, origin |-> TRUE, rpid |-> TRUE, present |-> TRUE,
                    attested |-> attested, signed |-> TRUE]
Presented(attested) ==
  {a \in Responses : Cardinality({f \in DOMAIN a : a[f] # Valid(attested)[f]}) <= 1}

-----------------------------------------------------------------------------
(* passkeyLoginOptions: a challenge for a named account, or for anyone. *)
PasskeyLoginOptions ==
  /\ \E u \in exists \cup {Anyone} : ChallengeCreate(u, "login")
  /\ UNCHANGED <<exists, disabled, passkeys, registrations, codes, minted, login, account,
                 granted, recovered>>

(* passkeyLoginVerify up to the first table read: consume the challenge,   *)
(* then the ceremony checks.                                               *)
PasskeyLoginVerify(l) ==
  /\ login[l].pc = "idle"
  /\ \E id \in 1..issued :
       /\ ChallengeConsume(id)
       /\ \/ \E c \in Consumable(id, "login"), a \in Presented(FALSE), k \in Credentials,
                n \in 0..MaxCount :
               /\ CeremonyOK(a, FALSE)
               /\ login' = [login EXCEPT ![l] = [pc |-> "lookup", challenge |-> c, cred |-> k,
                                                 count |-> n, signed |-> VerifyAuthenticationSignature(a)]]
          \/ UNCHANGED login       \* 401: no such challenge, or any other response
  /\ UNCHANGED <<exists, disabled, issued, passkeys, registrations, codes, minted, account,
                 granted, recovered>>

Advances(stored, n) == (stored = 0 /\ n = 0) \/ n > stored

(* GetPasskeyByCredentialID, the account binding, the counter check against *)
(* the row just read, and the signature.                                    *)
PasskeyLookup(l) ==
  /\ login[l].pc = "lookup"
  /\ LET q == login[l]
         row == {p \in passkeys : p.cred = q.cred /\ q.challenge.user \in {Anyone, p.user}
                                  /\ Advances(p.count, q.count) /\ q.signed}
     IN login' = [login EXCEPT ![l] =
          IF row = {} THEN NoLogin
          ELSE [pc |-> "advance", challenge |-> q.challenge, cred |-> q.cred,
                count |-> q.count, user |-> (CHOOSE p \in row : TRUE).user]]
  /\ UNCHANGED <<exists, disabled, challenges, issued, passkeys, registrations, codes, minted,
                 account, granted, recovered>>

(* AdvancePasskeySignCount: compare and update in one statement. *)
AdvancePasskeySignCount(l) ==
  /\ login[l].pc = "advance"
  /\ LET q == login[l]
         row == {p \in passkeys : p.cred = q.cred /\ Advances(p.count, q.count)}
     IN IF row = {}
        THEN /\ login' = [login EXCEPT ![l] = NoLogin]
             /\ UNCHANGED passkeys
        ELSE LET p == CHOOSE p \in row : TRUE
             IN /\ passkeys' = (passkeys \ {p}) \cup {[p EXCEPT !.count = q.count]}
                /\ login' = [login EXCEPT ![l] = [pc |-> "create", challenge |-> q.challenge.id,
                                serial |-> p.serial, count |-> q.count, user |-> q.user]]
  /\ UNCHANGED <<exists, disabled, challenges, issued, registrations, codes, minted, account,
                 granted, recovered>>

(* ListUsers finds the owner and Sessions.Create gives the session. *)
PasskeySignIn(l) ==
  /\ login[l].pc = "create"
  /\ LET q == login[l]
     IN granted' = IF q.user \notin exists THEN granted
                   ELSE Append(granted, [challenge |-> q.challenge, serial |-> q.serial,
                                         count |-> q.count, user |-> q.user])
  /\ login' = [login EXCEPT ![l] = NoLogin]
  /\ UNCHANGED <<exists, disabled, challenges, issued, passkeys, registrations, codes, minted,
                 account, recovered>>

(* recoveryLogin: UserByName; VerifyAndUseRecoveryCode in one statement;    *)
(* Sessions.Create.                                                         *)
RecoveryLookup(l) ==
  /\ login[l].pc = "idle"
  /\ \E u \in exists, k \in minted :
       login' = [login EXCEPT ![l] = [pc |-> "code", user |-> u, code |-> k]]
  /\ UNCHANGED <<exists, disabled, challenges, issued, passkeys, registrations, codes, minted,
                 account, granted, recovered>>

VerifyAndUseRecoveryCode(l) ==
  /\ login[l].pc = "code"
  /\ LET row == {c \in Unused(login[l].user) : c.code = login[l].code}
     IN /\ codes' = (codes \ row) \cup {[c EXCEPT !.used = TRUE] : c \in row}
        /\ recovered' = IF row = {} THEN recovered
                        ELSE [recovered EXCEPT ![login[l].code] = @ + 1]
  /\ login' = [login EXCEPT ![l] = NoLogin]
  /\ UNCHANGED <<exists, disabled, challenges, issued, passkeys, registrations, minted,
                 account, granted>>

-----------------------------------------------------------------------------
(* Handlers of a signed-in account.  The first step holds the lock and     *)
(* reads, the second writes and unlocks.                                   *)

RegisterPasskeyOptions ==
  /\ account = NoHandler
  /\ \E u \in PasskeyUsers : ChallengeCreate(u, "register")
  /\ UNCHANGED <<exists, disabled, passkeys, registrations, codes, minted, login, account,
                 granted, recovered>>

RegisterPasskeyVerify ==
  /\ account = NoHandler
  /\ \E id \in 1..issued :
       /\ ChallengeConsume(id)
       /\ \/ \E u \in PasskeyUsers, c \in Consumable(id, "register"), a \in Presented(TRUE),
                k \in Credentials, n \in 0..MaxCount :
               /\ c.user = u /\ CeremonyOK(a, TRUE)
               /\ account' = [op |-> "register", user |-> u, cred |-> k, count |-> n]
          \/ UNCHANGED account
  /\ UNCHANGED <<exists, disabled, issued, passkeys, registrations, codes, minted, login,
                 granted, recovered>>

(* CreatePasskey: credential_id is UNIQUE, user_id a foreign key. *)
CreatePasskey ==
  /\ account.op = "register"
  /\ \/ /\ account.user \in exists /\ registrations < MaxRegistrations
        /\ \A p \in passkeys : p.cred # account.cred
        /\ registrations' = registrations + 1
        /\ passkeys' = passkeys \cup {[cred |-> account.cred, serial |-> registrations + 1,
                                       user |-> account.user, count |-> account.count]}
     \/ UNCHANGED <<registrations, passkeys>>
  /\ account' = NoHandler
  /\ UNCHANGED <<exists, disabled, challenges, issued, codes, minted, login, granted, recovered>>

(* deletePasskey: the handler's own check of the last passkey ... *)
DeletePasskeyCheck ==
  /\ account = NoHandler
  /\ \E p \in passkeys : \E u \in PasskeyUsers :
       /\ ~(u \in exists /\ disabled[u] /\ Cardinality(Of(u)) <= 1)
       /\ account' = [op |-> "delete", user |-> u, serial |-> p.serial]
  /\ UNCHANGED <<exists, disabled, challenges, issued, passkeys, registrations, codes, minted,
                 login, granted, recovered>>

(* ... and the one the DELETE repeats. *)
DeletePasskey ==
  /\ account.op = "delete"
  /\ passkeys' = {p \in passkeys :
       ~ /\ p.serial = account.serial /\ p.user = account.user
         /\ (account.user \in exists /\ ~disabled[account.user]) \/ Cardinality(Of(account.user)) > 1}
  /\ account' = NoHandler
  /\ UNCHANGED <<exists, disabled, challenges, issued, registrations, codes, minted, login,
                 granted, recovered>>

(* generateRecoveryCodes: one transaction replaces every code. *)
GenerateRecoveryCodes ==
  /\ account = NoHandler
  /\ \E u \in exists, new \in SUBSET (Codes \ minted) :
       /\ new # {}
       /\ minted' = minted \cup new
       /\ codes' = {c \in codes : c.user # u}
                     \cup {[code |-> k, user |-> u, used |-> FALSE] : k \in new}
  /\ UNCHANGED <<exists, disabled, challenges, issued, passkeys, registrations, login, account,
                 granted, recovered>>

(* setPasswordLoginDisabled: counts first, then DisablePasswordLogin, whose *)
(* UPDATE repeats both conditions; enabling needs none.                     *)
DisableCheck ==
  /\ account = NoHandler
  /\ \E u \in exists :
       /\ Of(u) # {} /\ Unused(u) # {}
       /\ account' = [op |-> "disable", user |-> u]
  /\ UNCHANGED <<exists, disabled, challenges, issued, passkeys, registrations, codes, minted,
                 login, granted, recovered>>

(* Mutant: the UPDATE trusts the counts the handler read. *)
DisablePasswordLogin_Trusting ==
  /\ account.op = "disable"
  /\ disabled' = [disabled EXCEPT ![account.user] = TRUE]
  /\ account' = NoHandler
  /\ UNCHANGED <<exists, challenges, issued, passkeys, registrations, codes, minted, login,
                 granted, recovered>>

DisablePasswordLogin ==
  /\ account.op = "disable"
  /\ LET u == account.user
     IN disabled' = IF u \in exists /\ Of(u) # {} /\ Unused(u) # {}
                    THEN [disabled EXCEPT ![u] = TRUE] ELSE disabled
  /\ account' = NoHandler
  /\ UNCHANGED <<exists, challenges, issued, passkeys, registrations, codes, minted, login,
                 granted, recovered>>

(* SetPasswordLoginDisabled(false), UpdatePassword and, from the command   *)
(* line, ResetPasswordAndSessions: each restores password login.           *)
EnablePasswordLogin ==
  /\ account = NoHandler
  /\ \E u \in exists : disabled' = [disabled EXCEPT ![u] = FALSE]
  /\ UNCHANGED <<exists, challenges, issued, passkeys, registrations, codes, minted, login,
                 account, granted, recovered>>

(* ResetPasskeysAndEnablePassword: the local command, in one transaction and *)
(* without mutationMu.                                                       *)
ResetPasskeysAndEnablePassword ==
  /\ \E u \in exists :
       /\ disabled' = [disabled EXCEPT ![u] = FALSE]
       /\ passkeys' = passkeys \ Of(u)
  /\ UNCHANGED <<exists, challenges, issued, registrations, codes, minted, login, account,
                 granted, recovered>>

(* DeleteUser by an administrator, with the cascade to passkeys and codes. *)
DeleteAccount ==
  /\ account = NoHandler
  /\ \E u \in exists :
       /\ exists' = exists \ {u}
       /\ passkeys' = passkeys \ Of(u)
       /\ codes' = {c \in codes : c.user # u}
       /\ disabled' = [disabled EXCEPT ![u] = FALSE]
  /\ UNCHANGED <<challenges, issued, registrations, minted, login, account, granted, recovered>>

PasskeysInit ==
  /\ exists = PasskeyUsers /\ disabled = [u \in PasskeyUsers |-> FALSE]
  /\ challenges = {} /\ issued = 0
  /\ passkeys = Enrolled /\ registrations = Cardinality(Enrolled)
  /\ codes = {} /\ minted = {}
  /\ login = [l \in Logins |-> NoLogin] /\ account = NoHandler
  /\ granted = <<>> /\ recovered = [k \in Codes |-> 0]

SignInStep(l) ==
  \/ PasskeyLoginVerify(l) \/ PasskeyLookup(l) \/ AdvancePasskeySignCount(l) \/ PasskeySignIn(l)
  \/ RecoveryLookup(l) \/ VerifyAndUseRecoveryCode(l)

PasskeysNext ==
  \/ \E l \in Logins : SignInStep(l)
  \/ PasskeyLoginOptions \/ ChallengeExpires
  \/ RegisterPasskeyOptions \/ RegisterPasskeyVerify \/ CreatePasskey
  \/ DeletePasskeyCheck \/ DeletePasskey
  \/ GenerateRecoveryCodes \/ DisableCheck \/ DisablePasswordLogin \/ EnablePasswordLogin
  \/ ResetPasskeysAndEnablePassword \/ DeleteAccount

PasskeysSpec == PasskeysInit /\ [][PasskeysNext]_passkeyVars

-----------------------------------------------------------------------------
(* Every variable has its type and the tables respect their keys. *)
PasskeysTypeOK ==
  /\ exists \subseteq PasskeyUsers /\ disabled \in [PasskeyUsers -> BOOLEAN]
  /\ challenges \subseteq ChallengeRows /\ issued \in 0..MaxChallenges
  /\ passkeys \subseteq PasskeyRows /\ registrations \in 0..MaxRegistrations
  /\ codes \subseteq CodeRows /\ minted \subseteq Codes
  /\ recovered \in [Codes -> Nat]
  /\ \A p, q \in passkeys : p.cred = q.cred \/ p.serial = q.serial => p = q
  /\ Cardinality(challenges) <= ChallengeLimit

(* An account whose password login is disabled still has a passkey: the    *)
(* handlers count and write in separate statements, and the local command  *)
(* deletes passkeys in between (DisablePasswordLogin, DeletePasskey).      *)
NoLockout == \A u \in exists : disabled[u] => Of(u) # {}

(* A challenge grants at most one sign-in, to the account it was issued    *)
(* for, whatever requests present it at the same time (Consume).           *)
ChallengeOnce ==
  \A i, j \in 1..Len(granted) : granted[i].challenge = granted[j].challenge => i = j

(* No positive signature counter of one registration is accepted twice: of *)
(* two concurrent assertions with the same counter one is refused, although*)
(* both passed the check in the handler (AdvancePasskeySignCount).         *)
CounterOnce ==
  \A i, j \in 1..Len(granted) :
    i # j /\ granted[i].serial = granted[j].serial
      => granted[i].count # granted[j].count \/ granted[i].count = 0

(* A recovery code grants at most one sign-in. *)
RecoveryCodeOnce == \A k \in Codes : recovered[k] <= 1

(* A sign-in credential is accepted once: challenge, positive counter and  *)
(* recovery code, whatever concurrent requests present them.               *)
OneTimeCredentials == ChallengeOnce /\ CounterOnce /\ RecoveryCodeOnce
=============================================================================
