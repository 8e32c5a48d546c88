------------------------------ MODULE Accounts ------------------------------
(***************************************************************************)
(* User accounts and the sessions of the administration API: the users and *)
(* sessions tables, Sessions.Get with its sliding renewal, password login, *)
(* first-use enrolment, and the handlers and the local recovery command    *)
(* that end sessions.                                                      *)
(*                                                                         *)
(* Tables are sets of rows.  A user id comes from AUTOINCREMENT and is     *)
(* never reused; a session token is 32 random bytes, so every mint gives a *)
(* new one.  SQLite enforces ON DELETE CASCADE from users to sessions and  *)
(* refuses a session of a user that is gone (PRAGMA foreign_keys).         *)
(*                                                                         *)
(* Two requests run concurrently.  What a handler reads, decides and       *)
(* writes in separate statements is separate steps here; one statement, or *)
(* one transaction, is one step.  mutationMu serializes every request but  *)
(* the logins, and only AFTER Sessions.Get has returned.                   *)
(*                                                                         *)
(* The in-memory map Sessions.items decides nothing when a store is set,   *)
(* as it always is in the server, and is left out.  Password hashes are    *)
(* left out too: a verification succeeds or fails, and no property depends *)
(* on which password it was.                                               *)
(***************************************************************************)
EXTENDS Naturals, FiniteSets

CONSTANTS
  Names,        \* usernames
  Requests,     \* request goroutines
  MaxUsers,     \* bound: rows ever inserted into users
  MaxTokens     \* bound: session tokens ever minted

Roles == {"admin", "viewer"}
Remaining == {"long", "short", "expired"}  \* time left: over ttl/2, under it, none

Users == [id: 1..MaxUsers, name: Names, role: Roles]
SessionRows ==
  [token: 1..MaxTokens, user: 1..MaxUsers, name: Names, role: Roles, left: Remaining]

VARIABLES
  users,      \* the users table
  nextUser,   \* its AUTOINCREMENT counter
  sessions,   \* the sessions table
  nextToken,  \* the next token to be minted
  mutationMu, \* the request holding Server.mutationMu, or NoRequest
  req,        \* what every request goroutine is doing
  cli         \* the user id a local "admin reset-password" has looked up, or 0

accountVars == <<users, nextUser, sessions, nextToken, mutationMu, req, cli>>

NoRequest == "none"

ASSUME AccountsAssumption ==
  MaxUsers \in Nat /\ MaxTokens \in Nat /\ NoRequest \notin Requests

(* A request: the operation, where it stands, the token it presents (0: none), *)
(* the session Get returned to it, the user it acts on, and whether its token  *)
(* was a live session when it arrived (an auxiliary fact no action reads).     *)
NoSession == [token |-> 0, user |-> 0, name |-> "", role |-> "", left |-> ""]
Idle == [op |-> "", pc |-> "idle", token |-> 0, sess |-> NoSession, target |-> 0,
         live |-> FALSE]

UserByName(n) == {u \in users : u.name = n}
UserByID(i) == {u \in users : u.id = i}
Row(t) == {s \in sessions : s.token = t}
Live(t) == \E s \in Row(t) : s.left # "expired"

Put(r, q) == req' = [req EXCEPT ![r] = q]
Finish(r) == Put(r, Idle)

(***************************************************************************)
(* Sessions.Create: mint a token, PutSession.                              *)
(***************************************************************************)
Create(u) ==
  /\ nextToken <= MaxTokens
  /\ nextToken' = nextToken + 1
  /\ sessions' = sessions \cup {[token |-> nextToken, user |-> u.id, name |-> u.name,
                                 role |-> u.role, left |-> "long"]}

(* Mutant: the renewal writes back the session it read. *)
RefreshSession_Upsert(t) ==
  LET r == CHOOSE r \in Requests : req[r].pc = "refresh" /\ req[r].token = t
  IN sessions' = (sessions \ Row(t)) \cup {[req[r].sess EXCEPT !.left = "long"]}

RefreshSession(t) ==
  sessions' = {IF s.token = t /\ s.left # "expired" THEN [s EXCEPT !.left = "long"] ELSE s :
                 s \in sessions}

DeleteUserSessions(uid, except) ==
  sessions' = {s \in sessions : s.user # uid \/ s.token = except}

-----------------------------------------------------------------------------
(* First-use enrolment: under mutationMu, no session. *)
RegisterBegin(r) ==
  /\ req[r].pc = "idle" /\ mutationMu = NoRequest
  /\ mutationMu' = r
  /\ IF users = {} THEN Put(r, [Idle EXCEPT !.op = "register", !.pc = "insert"])
                   ELSE Put(r, [Idle EXCEPT !.op = "register", !.pc = "unlock"])
  /\ UNCHANGED <<users, nextUser, sessions, nextToken, cli>>

(* CreateInitialAdmin: INSERT ... WHERE NOT EXISTS, one statement. *)
CreateInitialAdmin(r) ==
  /\ req[r].op = "register" /\ req[r].pc = "insert"
  /\ \/ \E n \in Names :
          /\ users = {} /\ nextUser <= MaxUsers
          /\ users' = {[id |-> nextUser, name |-> n, role |-> "admin"]}
          /\ nextUser' = nextUser + 1
          /\ Put(r, [req[r] EXCEPT !.pc = "create", !.target = nextUser])
     \/ /\ Put(r, [req[r] EXCEPT !.pc = "unlock"])   \* not inserted, or an error
        /\ UNCHANGED <<users, nextUser>>
  /\ UNCHANGED <<sessions, nextToken, mutationMu, cli>>

-----------------------------------------------------------------------------
(* Password login: no mutationMu.  UserByName and VerifyPassword, then     *)
(* Sessions.Create with the user row read before.                          *)
LoginVerify(r) ==
  /\ req[r].pc = "idle"
  /\ \E u \in users :     \* a failed attempt ends without a session
          Put(r, [Idle EXCEPT !.op = "login", !.pc = "create", !.target = u.id])
  /\ UNCHANGED <<users, nextUser, sessions, nextToken, mutationMu, cli>>

(* Sessions.Create of a login or of the enrolment; the insertion fails when *)
(* the user is gone (foreign key) or with the store.                        *)
CreateSession(r) ==
  /\ req[r].pc = "create"
  /\ \/ \E u \in UserByID(req[r].target) : Create(u)
     \/ UNCHANGED <<sessions, nextToken>>
  /\ IF req[r].op = "register" THEN Put(r, [req[r] EXCEPT !.pc = "unlock"]) ELSE Finish(r)
  /\ UNCHANGED <<users, nextUser, mutationMu, cli>>

-----------------------------------------------------------------------------
Operations == {"read", "logout", "password", "create_user", "delete_user"}

(* A request with a session cookie arrives. *)
Arrive(r) ==
  /\ req[r].pc = "idle"
  /\ \E op \in Operations, t \in 1..(nextToken - 1) :
       Put(r, [Idle EXCEPT !.op = op, !.pc = "get", !.token = t, !.live = Live(t)])
  /\ UNCHANGED <<users, nextUser, sessions, nextToken, mutationMu, cli>>

(* Reads end here, and so does a write with a wrong CSRF token. *)
Accepted(r, s) ==
  IF req[r].op = "read" THEN Finish(r)
  ELSE Put(r, [req[r] EXCEPT !.pc = "lock", !.sess = s])

(* Sessions.Get, first statement: GetSession.  A read error, a missing row *)
(* and an expired one are treated alike.                                   *)
GetSession(r) ==
  /\ req[r].pc = "get"
  /\ \/ \E s \in Row(req[r].token) :
          \/ s.left = "expired" /\ Put(r, [req[r] EXCEPT !.pc = "drop"])
          \/ s.left = "short" /\ Put(r, [req[r] EXCEPT !.pc = "refresh", !.sess = s])
          \/ s.left = "long" /\ Accepted(r, s)
     \/ Row(req[r].token) = {} /\ Put(r, [req[r] EXCEPT !.pc = "drop"])
     \/ Put(r, [req[r] EXCEPT !.pc = "drop"])   \* the read failed
  /\ UNCHANGED <<users, nextUser, sessions, nextToken, mutationMu, cli>>

(* DeleteSession of a session that was not accepted, its error ignored, 401. *)
DropSession(r) ==
  /\ req[r].pc = "drop"
  /\ \/ sessions' = {s \in sessions : s.token # req[r].token}
     \/ UNCHANGED sessions
  /\ Finish(r)
  /\ UNCHANGED <<users, nextUser, nextToken, mutationMu, cli>>

(* RefreshSession: an UPDATE of an unexpired row; no row updated, or an *)
(* error, means 401.                                                    *)
Refresh(r) ==
  /\ req[r].pc = "refresh"
  /\ \/ /\ RefreshSession(req[r].token)
        /\ IF Live(req[r].token) THEN Accepted(r, req[r].sess) ELSE Finish(r)
     \/ UNCHANGED sessions /\ Finish(r)
  /\ UNCHANGED <<users, nextUser, nextToken, mutationMu, cli>>

Lock(r) ==
  /\ req[r].pc = "lock" /\ mutationMu = NoRequest
  /\ mutationMu' = r
  /\ Put(r, [req[r] EXCEPT !.pc = "run"])
  /\ UNCHANGED <<users, nextUser, sessions, nextToken, cli>>

Unlock(r) ==
  /\ req[r].pc = "unlock"
  /\ mutationMu' = NoRequest
  /\ Finish(r)
  /\ UNCHANGED <<users, nextUser, sessions, nextToken, cli>>

Running(r, op) == req[r].pc = "run" /\ req[r].op = op
Done(r) == Put(r, [req[r] EXCEPT !.pc = "unlock"])

Logout(r) ==
  /\ Running(r, "logout")
  /\ sessions' = {s \in sessions : s.token # req[r].token}
  /\ Done(r)
  /\ UNCHANGED <<users, nextUser, nextToken, mutationMu, cli>>

(* password: UserByName and VerifyPassword; UpdatePassword; RevokeUser of  *)
(* every session but the caller's, whose failure is only logged.           *)
PasswordVerify(r) ==
  /\ Running(r, "password")
  /\ \/ \E u \in UserByName(req[r].sess.name) :
          Put(r, [req[r] EXCEPT !.pc = "update", !.target = u.id])
     \/ Done(r)                                      \* wrong password or no user
  /\ UNCHANGED <<users, nextUser, sessions, nextToken, mutationMu, cli>>

UpdatePassword(r) ==
  /\ req[r].op = "password" /\ req[r].pc = "update"
  /\ Put(r, [req[r] EXCEPT !.pc = "revoke"]) \/ Done(r)   \* or the store failed
  /\ UNCHANGED <<users, nextUser, sessions, nextToken, mutationMu, cli>>

RevokeUser(r) ==
  /\ req[r].op = "password" /\ req[r].pc = "revoke"
  /\ \/ DeleteUserSessions(req[r].target, req[r].token)
     \/ UNCHANGED sessions                           \* the store failed
  /\ Done(r)
  /\ UNCHANGED <<users, nextUser, nextToken, mutationMu, cli>>

(* createUser: admin only; username is UNIQUE. *)
CreateUser(r) ==
  /\ Running(r, "create_user")
  /\ \/ \E n \in Names, role \in Roles :
          /\ req[r].sess.role = "admin" /\ UserByName(n) = {} /\ nextUser <= MaxUsers
          /\ users' = users \cup {[id |-> nextUser, name |-> n, role |-> role]}
          /\ nextUser' = nextUser + 1
     \/ UNCHANGED <<users, nextUser>>                 \* forbidden, conflict or bad input
  /\ Done(r)
  /\ UNCHANGED <<sessions, nextToken, mutationMu, cli>>

(* Mutant: the caller is taken from the session instead of looked up again. *)
DeleteUserCheck_BySession(r) ==
  /\ Running(r, "delete_user")
  /\ \E i \in 1..MaxUsers :
       /\ req[r].sess.role = "admin" /\ req[r].sess.user # i
       /\ Put(r, [req[r] EXCEPT !.pc = "delete", !.target = i])
  /\ UNCHANGED <<users, nextUser, sessions, nextToken, mutationMu, cli>>

(* deleteUser: admin only; the caller is looked up again by name, and must *)
(* not be the user to delete.                                              *)
DeleteUserCheck(r) ==
  /\ Running(r, "delete_user")
  /\ \/ \E i \in 1..MaxUsers :
          /\ req[r].sess.role = "admin"
          /\ \E u \in UserByName(req[r].sess.name) : u.id # i
          /\ Put(r, [req[r] EXCEPT !.pc = "delete", !.target = i])
     \/ Done(r)                                      \* forbidden, not found, own account
  /\ UNCHANGED <<users, nextUser, sessions, nextToken, mutationMu, cli>>

(* DELETE FROM users, with the cascade to sessions. *)
DeleteUser(r) ==
  /\ req[r].op = "delete_user" /\ req[r].pc = "delete"
  /\ users' = users \ UserByID(req[r].target)
  /\ DeleteUserSessions(req[r].target, 0)
  /\ Done(r)
  /\ UNCHANGED <<nextUser, nextToken, mutationMu, cli>>

-----------------------------------------------------------------------------
(* "mirrorrelay admin reset-password": another process on the same         *)
(* database, without mutationMu.                                           *)
ResetPasswordLookup ==
  /\ cli = 0
  /\ \E u \in users : cli' = u.id
  /\ UNCHANGED <<users, nextUser, sessions, nextToken, mutationMu, req>>

(* ResetPasswordAndSessions: one transaction. *)
ResetPasswordAndSessions ==
  /\ cli # 0
  /\ cli' = 0
  /\ DeleteUserSessions(cli, 0)
  /\ UNCHANGED <<users, nextUser, nextToken, mutationMu, req>>

(* Time passes for one session. *)
Age ==
  /\ \E s \in sessions, l \in Remaining :
       /\ <<s.left, l>> \in {<<"long", "short">>, <<"short", "expired">>}
       /\ sessions' = (sessions \ {s}) \cup {[s EXCEPT !.left = l]}
  /\ UNCHANGED <<users, nextUser, nextToken, mutationMu, req, cli>>

AccountsInit ==
  /\ users = {} /\ nextUser = 1
  /\ sessions = {} /\ nextToken = 1
  /\ mutationMu = NoRequest
  /\ req = [r \in Requests |-> Idle]
  /\ cli = 0

RequestStep(r) ==
  \/ RegisterBegin(r) \/ CreateInitialAdmin(r)
  \/ LoginVerify(r) \/ CreateSession(r)
  \/ Arrive(r) \/ GetSession(r) \/ DropSession(r) \/ Refresh(r)
  \/ Lock(r) \/ Unlock(r) \/ Logout(r)
  \/ PasswordVerify(r) \/ UpdatePassword(r) \/ RevokeUser(r)
  \/ CreateUser(r) \/ DeleteUserCheck(r) \/ DeleteUser(r)

AccountsNext ==
  \/ \E r \in Requests : RequestStep(r)
  \/ ResetPasswordLookup \/ ResetPasswordAndSessions
  \/ Age

AccountsSpec == AccountsInit /\ [][AccountsNext]_accountVars

-----------------------------------------------------------------------------
(* Every variable has its type; names, ids and tokens are keys. *)
AccountsTypeOK ==
  /\ users \subseteq Users /\ nextUser \in 1..(MaxUsers + 1)
  /\ sessions \subseteq SessionRows /\ nextToken \in 1..(MaxTokens + 1)
  /\ \A u, v \in users : u.id = v.id \/ u.name = v.name => u = v
  /\ \A s, t \in sessions : s.token = t.token => s = t
  /\ mutationMu \in Requests \cup {NoRequest}
  /\ cli \in 0..MaxUsers

(* A session that logout, revocation, password recovery, expiry or the     *)
(* deletion of its user removed never comes back: a renewal that was read  *)
(* before and written after cannot insert it again (RefreshSession).       *)
RevokedStaysRevoked ==
  [][\A t \in 1..(nextToken - 1) : Row(t) = {} => Row(t)' = {}]_accountVars

(* A request gets past Sessions.Get only if its token was a live session   *)
(* when the request arrived: nothing that happens meanwhile, a renewal by  *)
(* another request included, revives a revoked or expired session.         *)
AcceptedWasLive ==
  \A r \in Requests : req[r].pc \in {"lock", "run", "update", "revoke", "delete"} => req[r].live

(* First-use enrolment never reopens: once the initial administrator was   *)
(* registered there is always a user, even when two administrators whose   *)
(* sessions were read before the lock delete each other (deleteUser).      *)
EnrolmentClosed == nextUser > 1 => users # {}

(* The name and role a session carries are those of its user, who exists:  *)
(* handlers trust session.Role and look the caller up by session.Username. *)
SessionsMatchUsers ==
  \A s \in sessions :
    \E u \in users : u.id = s.user /\ u.name = s.name /\ u.role = s.role

(* A request never runs for somebody who is not there: its session was     *)
(* live when it came, sessions belong to present users with their role,    *)
(* and the last account cannot go, which would reopen enrolment.           *)
AccountsSound == EnrolmentClosed /\ AcceptedWasLive /\ SessionsMatchUsers
=============================================================================
