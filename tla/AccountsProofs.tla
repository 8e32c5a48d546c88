--------------------------- MODULE AccountsProofs ----------------------------
(***************************************************************************)
(* Accounts and sessions, passkeys and recovery codes, and the login       *)
(* limiter, each on its own: for every number of accounts, tokens,         *)
(* requests, credentials, codes, keys and attempts.                        *)
(***************************************************************************)
EXTENDS Accounts, Passkeys, LoginLimiter, Integers, FiniteSetTheorems, SequenceTheorems, TLAPS

AccountRequest ==
  [op: {"", "register", "login"} \cup Operations,
   pc: {"idle", "insert", "unlock", "create", "get", "drop", "refresh", "lock", "run",
        "update", "revoke", "delete"},
   token: 0..MaxTokens, sess: SessionRows \cup {NoSession}, target: 0..MaxUsers, live: BOOLEAN]

(* The requests that have taken mutationMu. *)
Holds(q) ==
  \/ q.pc \in {"insert", "run", "update", "revoke", "delete", "unlock"}
  \/ q.pc = "create" /\ q.op = "register"

(* AccountsSound needs that ids and tokens are fresh, that the holder of   *)
(* mutationMu is one, that a deletion under it leaves somebody, and that a *)
(* token that was dead when a request came stays dead.                     *)
TablesInv ==
  /\ users \subseteq Users /\ nextUser \in 1..(MaxUsers + 1)
  /\ sessions \subseteq SessionRows /\ nextToken \in 1..(MaxTokens + 1)
  /\ req \in [Requests -> AccountRequest]
  /\ \A u \in users : u.id < nextUser
  /\ \A s \in sessions : s.token < nextToken
  /\ \A r \in Requests : req[r].token < nextToken
LockInv == \A r \in Requests : Holds(req[r]) => mutationMu = r
OthersRemain ==
  \A r \in Requests : req[r].pc = "delete" => \E u \in users : u.id # req[r].target
DeadStaysDead == \A r \in Requests : ~req[r].live => ~Live(req[r].token)
AccountsInv ==
  TablesInv /\ LockInv /\ OthersRemain /\ DeadStaysDead /\ AccountsSound

-----------------------------------------------------------------------------
(* What a step makes of the sessions: rows stay what they are and expired  *)
(* ones expired, and a new row has a token that was never used and belongs *)
(* to a user.                                                              *)
Continues(x, s) ==
  /\ x.token = s.token /\ x.user = s.user /\ x.name = s.name /\ x.role = s.role
  /\ s.left = "expired" => x.left = "expired"
Minted(x) ==
  /\ x.token = nextToken /\ nextToken' = nextToken + 1
  /\ \E u \in users : u.id = x.user /\ u.name = x.name /\ u.role = x.role
SessionStep ==
  \A x \in sessions' : /\ x \in SessionRows
                       /\ Minted(x) \/ \E s \in sessions : Continues(x, s)

(* A row whose remaining life changes is still the same session.           *)
LEMMA Renewed ==
  ASSUME NEW s \in SessionRows, NEW l \in Remaining, s.left = "expired" => l = "expired"
  PROVE  [s EXCEPT !.left = l] \in SessionRows /\ Continues([s EXCEPT !.left = l], s)
  BY DEF SessionRows, Continues

(* Deleting sessions is a legal move of the table.                         *)
LEMMA SubsetContinues ==
  ASSUME TablesInv, sessions' \subseteq sessions PROVE SessionStep
  BY DEF TablesInv, SessionStep, Continues

(* Create adds one session, with the next token, for a user of the table.  *)
LEMMA CreateStep ==
  ASSUME TablesInv, NEW u \in users, Create(u) PROVE SessionStep
<1> DEFINE row == [token |-> nextToken, user |-> u.id, name |-> u.name, role |-> u.role,
                   left |-> "long"]
<1>1. nextToken \in 1..MaxTokens /\ nextToken' = nextToken + 1 /\ sessions' = sessions \cup {row}
  BY AccountsAssumption DEF Create, TablesInv
<1>2. u \in Users
  BY DEF TablesInv
<1>3. row \in SessionRows
  BY <1>1, <1>2 DEF SessionRows, Users, Remaining
<1>4. Minted(row)
  BY <1>1 DEF Minted
<1>5. \A s \in sessions : s \in SessionRows /\ Continues(s, s)
  BY DEF TablesInv, Continues
<1>. QED
  BY <1>1, <1>3, <1>4, <1>5 DEF SessionStep

(* RefreshSession renews what has not expired and nothing else.            *)
LEMMA RefreshStep ==
  ASSUME TablesInv, NEW t, RefreshSession(t) PROVE SessionStep
<1> SUFFICES ASSUME NEW x \in sessions'
             PROVE  x \in SessionRows /\ \E s \in sessions : Continues(x, s)
  BY DEF SessionStep
<1>1. PICK s \in sessions : x = IF s.token = t /\ s.left # "expired"
                                THEN [s EXCEPT !.left = "long"] ELSE s
  BY DEF RefreshSession
<1>2. s \in SessionRows /\ Continues(s, s)
  BY DEF TablesInv, Continues
<1>. QED
  BY <1>1, <1>2, Renewed DEF Remaining

(* The passing of time ages one session and revives none.                  *)
LEMMA AgeStep ==
  ASSUME TablesInv, Age PROVE SessionStep
<1>1. PICK s \in sessions, l \in Remaining :
        /\ s.left # "expired" /\ sessions' = (sessions \ {s}) \cup {[s EXCEPT !.left = l]}
  BY DEF Age
<1>2. \A x \in sessions : x \in SessionRows /\ Continues(x, x)
  BY DEF TablesInv, Continues
<1>. QED
  BY <1>1, <1>2, Renewed DEF SessionStep

(* Every step moves the session table in a legal way.                      *)
LEMMA SessionsStep ==
  ASSUME TablesInv, [AccountsNext]_accountVars PROVE SessionStep
<1>1. ASSUME NEW r \in Requests, RequestStep(r) PROVE SessionStep
  <2>1. CASE CreateSession(r)
    BY <2>1, CreateStep, SubsetContinues DEF CreateSession, UserByID
  <2>2. CASE Refresh(r)
    BY <2>2, RefreshStep, SubsetContinues DEF Refresh
  <2>3. CASE DropSession(r) \/ Logout(r) \/ RevokeUser(r) \/ DeleteUser(r)
    BY <2>3, SubsetContinues
       DEF DropSession, Logout, RevokeUser, DeleteUser, DeleteUserSessions
  <2>4. CASE UNCHANGED sessions
    BY <2>4, SubsetContinues
  <2>. QED
    BY <1>1, <2>1, <2>2, <2>3, <2>4
       DEF RequestStep, RegisterBegin, CreateInitialAdmin, LoginVerify, Arrive, GetSession,
           Lock, Unlock, PasswordVerify, UpdatePassword, CreateUser, DeleteUserCheck
<1>2. CASE ResetPasswordLookup \/ ResetPasswordAndSessions \/ UNCHANGED accountVars
  BY <1>2, SubsetContinues
     DEF ResetPasswordLookup, ResetPasswordAndSessions, DeleteUserSessions, accountVars
<1>3. CASE Age
  BY <1>3, AgeStep
<1>. QED
  BY <1>1, <1>2, <1>3 DEF AccountsNext

-----------------------------------------------------------------------------
(* What a step makes of its own request. *)
PastTokens == {"lock", "run", "update", "revoke", "delete"}
KeepsRequest(r, q) == q.token = req[r].token /\ q.live = req[r].live
Presents(q) ==
  q.token < nextToken /\ q.pc = "get" /\ (~q.live => ~Live(q.token))
LockStep(r, q) ==
  \/ mutationMu' = mutationMu /\ (Holds(q) => Holds(req[r]))
  \/ mutationMu = NoRequest /\ mutationMu' = r
  \/ Holds(req[r]) /\ ~Holds(q) /\ mutationMu' = NoRequest
RequestMove(r, q) ==
  /\ q \in AccountRequest /\ req' = [req EXCEPT ![r] = q]
  /\ q = Idle \/ Presents(q) \/ KeepsRequest(r, q) \/ (q.token = 0 /\ q.pc \notin PastTokens)
  /\ q.pc \in PastTokens => req[r].pc \in PastTokens \/ Live(req[r].token)
  /\ LockStep(r, q)
  /\ q.pc = "delete" => \E u \in users : u.id # q.target /\ u \in users'

(* A handler that is not running holds no lock and no token.               *)
LEMMA IdleType == Idle \in AccountRequest /\ ~Holds(Idle) /\ Idle.pc = "idle" /\ Idle.token = 0
  BY AccountsAssumption DEF Idle, AccountRequest, Holds

(* Tokens are compared as numbers.                                         *)
LEMMA TokenType == \A q \in AccountRequest : q.token \in Int
<1> SUFFICES ASSUME NEW q \in AccountRequest PROVE q.token \in Int
  OBVIOUS
<1>1. q.token \in 0..MaxTokens
  BY Zenon DEF AccountRequest
<1>. QED
  BY <1>1, AccountsAssumption

(* A request whose place and operation change. *)
LEMMA GoesTo ==
  ASSUME NEW q \in AccountRequest,
         NEW p \in {"idle", "insert", "unlock", "create", "get", "drop", "refresh", "lock", "run",
                    "update", "revoke", "delete"}
  PROVE  LET n == [q EXCEPT !.pc = p]
         IN  /\ n \in AccountRequest /\ n.pc = p /\ n.op = q.op /\ n.token = q.token
             /\ n.live = q.live /\ n.target = q.target
  BY DEF AccountRequest
Aimed(q, p, i) == [q EXCEPT !.pc = p, !.target = i]
(* A request that learns the account it works on.                          *)
LEMMA TargetOf ==
  ASSUME NEW q \in AccountRequest, NEW p \in {"create", "update", "delete"}, NEW i \in 0..MaxUsers
  PROVE  /\ Aimed(q, p, i) \in AccountRequest /\ Aimed(q, p, i).pc = p
         /\ Aimed(q, p, i).op = q.op /\ Aimed(q, p, i).token = q.token
         /\ Aimed(q, p, i).live = q.live /\ Aimed(q, p, i).target = i
  BY Zenon DEF AccountRequest, Aimed
Holding(q, p, x) == [q EXCEPT !.pc = p, !.sess = x]
(* A request that has read the row of its session.                         *)
LEMMA Reads ==
  ASSUME NEW q \in AccountRequest, NEW p \in {"refresh", "lock"},
         NEW x \in SessionRows \cup {NoSession}
  PROVE  /\ Holding(q, p, x) \in AccountRequest /\ Holding(q, p, x).pc = p
         /\ Holding(q, p, x).op = q.op /\ Holding(q, p, x).token = q.token
         /\ Holding(q, p, x).live = q.live
  BY Zenon DEF AccountRequest, Holding
(* A registration or a login starts without a token.                       *)
LEMMA OpBegins ==
  ASSUME NEW o \in {"register", "login"}, NEW p \in {"insert", "unlock", "create"}
  PROVE  LET n == [Idle EXCEPT !.op = o, !.pc = p]
         IN  n \in AccountRequest /\ n.pc = p /\ n.op = o /\ n.token = 0
<1>1. ASSUME NEW q \in AccountRequest
      PROVE  LET n == [q EXCEPT !.op = o, !.pc = p]
             IN  n \in AccountRequest /\ n.pc = p /\ n.op = o /\ n.token = q.token
  BY Zenon DEF AccountRequest
<1>. QED
  BY <1>1, IdleType
(* A login that found its account.                                         *)
LEMMA LogsIn ==
  ASSUME NEW i \in 0..MaxUsers
  PROVE  LET n == [Idle EXCEPT !.op = "login", !.pc = "create", !.target = i]
         IN  n \in AccountRequest /\ n.pc = "create" /\ n.op = "login" /\ n.token = 0
<1>1. ASSUME NEW q \in AccountRequest
      PROVE  LET n == [q EXCEPT !.op = "login", !.pc = "create", !.target = i]
             IN  n \in AccountRequest /\ n.pc = "create" /\ n.op = "login" /\ n.token = q.token
  BY Zenon DEF AccountRequest
<1>. QED
  BY <1>1, IdleType
Arriving(q, o, t, b) == [q EXCEPT !.op = o, !.pc = "get", !.token = t, !.live = b]
(* A request that presents a token.                                        *)
LEMMA Arrives ==
  ASSUME NEW q \in AccountRequest, NEW o \in Operations, NEW t \in 0..MaxTokens, NEW b \in BOOLEAN
  PROVE  /\ Arriving(q, o, t, b) \in AccountRequest /\ Arriving(q, o, t, b).pc = "get"
         /\ Arriving(q, o, t, b).token = t /\ Arriving(q, o, t, b).live = b
  BY Zenon DEF AccountRequest, Arriving

(* Every step of a request moves it in one of these ways. *)
LEMMA RequestMoves ==
  ASSUME AccountsInv, NEW r \in Requests, RequestStep(r)
  PROVE  \E q : RequestMove(r, q)
<1> USE DEF RequestMove
<1>0. /\ req[r] \in AccountRequest /\ req \in [Requests -> AccountRequest]
      /\ nextUser \in Nat /\ nextToken \in 1..(MaxTokens + 1)
      /\ \A u \in users : u.id \in 0..MaxUsers
      /\ \A s \in sessions : s \in SessionRows
  BY AccountsAssumption DEF AccountsInv, TablesInv, Users
<1>f. ASSUME Finish(r), LockStep(r, Idle) PROVE \E q : RequestMove(r, q)
  BY <1>f, IdleType DEF Finish, Put, PastTokens
<1>d. ASSUME Done(r), UNCHANGED mutationMu, Holds(req[r]) PROVE \E q : RequestMove(r, q)
  BY <1>d, <1>0, GoesTo DEF Done, Put, PastTokens, KeepsRequest, LockStep
<1>1. CASE RegisterBegin(r)
  BY <1>1, OpBegins DEF RegisterBegin, Put, PastTokens, LockStep
<1>2. CASE CreateInitialAdmin(r)
  <2>1. Holds(req[r]) /\ mutationMu' = mutationMu
    BY <1>2 DEF CreateInitialAdmin, Holds
  <2>2. CASE Put(r, [req[r] EXCEPT !.pc = "unlock"])
    BY <2>1, <2>2, <1>d DEF Done
  <2>3. CASE nextUser <= MaxUsers /\ Put(r, [req[r] EXCEPT !.pc = "create", !.target = nextUser])
    <3>1. nextUser \in 0..MaxUsers
      BY <1>0, <2>3, AccountsAssumption
    <3>2. req' = [req EXCEPT ![r] = Aimed(req[r], "create", nextUser)]
      BY <2>3 DEF Put, Aimed
    <3>. QED
      BY <1>0, <2>1, <3>1, <3>2, TargetOf DEF PastTokens, KeepsRequest, LockStep
  <2>. QED
    BY <1>2, <2>2, <2>3 DEF CreateInitialAdmin
<1>3. CASE LoginVerify(r)
  <2>1. PICK u \in users : Put(r, [Idle EXCEPT !.op = "login", !.pc = "create", !.target = u.id])
    BY <1>3 DEF LoginVerify
  <2>2. mutationMu' = mutationMu
    BY <1>3 DEF LoginVerify
  <2>. QED
    BY <1>0, <2>1, <2>2, LogsIn DEF Put, PastTokens, LockStep, Holds
<1>4. CASE CreateSession(r)
  <2>1. CASE req[r].op = "register"
    BY <1>4, <2>1, <1>d DEF CreateSession, Holds, Done
  <2>2. CASE req[r].op # "register"
    BY <1>4, <2>2, <1>f, IdleType DEF CreateSession, LockStep
  <2>. QED
    BY <2>1, <2>2
<1>5. CASE Arrive(r)
  <2>1. PICK op \in Operations, t \in 1..(nextToken - 1) :
          Put(r, [Idle EXCEPT !.op = op, !.pc = "get", !.token = t, !.live = Live(t)])
    BY <1>5 DEF Arrive
  <2>2. t \in 0..MaxTokens /\ t < nextToken /\ Live(t) \in BOOLEAN /\ mutationMu' = mutationMu
    BY <1>0, <1>5, AccountsAssumption DEF Arrive, Live
  <2> DEFINE q == Arriving(Idle, op, t, Live(t))
  <2>3. q \in AccountRequest /\ q.pc = "get" /\ q.token = t /\ q.live = Live(t)
    BY <2>2, IdleType, Arrives
  <2>4. req' = [req EXCEPT ![r] = q]
    BY <2>1 DEF Put, Arriving
  <2> HIDE DEF q
  <2>. QED
    BY <2>2, <2>3, <2>4 DEF PastTokens, LockStep, Presents, Holds
<1>6. CASE GetSession(r)
  <2>1. mutationMu' = mutationMu /\ req[r].pc = "get" /\ ~Holds(req[r])
    BY <1>6 DEF GetSession, Holds
  <2>2. CASE Put(r, [req[r] EXCEPT !.pc = "drop"])
    BY <1>0, <2>1, <2>2, GoesTo DEF Put, PastTokens, KeepsRequest, LockStep, Holds
  <2>3. ASSUME NEW s \in Row(req[r].token), Put(r, [req[r] EXCEPT !.pc = "refresh", !.sess = s])
        PROVE  \E q : RequestMove(r, q)
    <3> DEFINE q == Holding(req[r], "refresh", s)
    <3>0. s \in SessionRows
      BY <1>0 DEF Row
    <3>1. q \in AccountRequest /\ q.pc = "refresh" /\ q.token = req[r].token /\ q.live = req[r].live
      BY <1>0, <3>0, Reads
    <3>2. req' = [req EXCEPT ![r] = q]
      BY <2>3 DEF Put, Holding
    <3> HIDE DEF q
    <3>. QED
      BY <2>1, <3>1, <3>2 DEF PastTokens, KeepsRequest, LockStep, Holds
  <2>4. ASSUME NEW s \in Row(req[r].token), s.left = "long", Accepted(r, s)
        PROVE  \E q : RequestMove(r, q)
    <3>1. Live(req[r].token)
      BY <2>4 DEF Live
    <3>2. CASE Finish(r)
      BY <2>1, <3>2, <1>f, IdleType DEF LockStep
    <3>3. CASE Put(r, [req[r] EXCEPT !.pc = "lock", !.sess = s])
      <4> DEFINE q == Holding(req[r], "lock", s)
      <4>0. s \in SessionRows
        BY <1>0 DEF Row
      <4>1. q \in AccountRequest /\ q.pc = "lock" /\ q.token = req[r].token /\ q.live = req[r].live
        BY <1>0, <4>0, Reads
      <4>2. req' = [req EXCEPT ![r] = q]
        BY <3>3 DEF Put, Holding
      <4> HIDE DEF q
      <4>. QED
        BY <2>1, <3>1, <4>1, <4>2 DEF PastTokens, KeepsRequest, LockStep, Holds
    <3>. QED
      BY <2>4, <3>2, <3>3 DEF Accepted
  <2>. QED
    BY <1>6, <2>2, <2>3, <2>4 DEF GetSession
<1>7. CASE DropSession(r)
  BY <1>7, <1>f, IdleType DEF DropSession, LockStep
<1>8. CASE Refresh(r)
  <2>1. mutationMu' = mutationMu
    BY <1>8 DEF Refresh
  <2>2. CASE Finish(r)
    BY <2>1, <2>2, <1>f, IdleType DEF LockStep
  <2>3. CASE Live(req[r].token) /\ Accepted(r, req[r].sess)
    <3>1. CASE Finish(r)
      BY <2>2, <3>1
    <3>2. CASE Put(r, [req[r] EXCEPT !.pc = "lock", !.sess = req[r].sess])
      <4> DEFINE q == Holding(req[r], "lock", req[r].sess)
      <4>0. req[r].sess \in SessionRows \cup {NoSession}
        BY <1>0 DEF AccountRequest
      <4>1. q \in AccountRequest /\ q.pc = "lock" /\ q.token = req[r].token /\ q.live = req[r].live
        BY <1>0, <4>0, Reads
      <4>2. req' = [req EXCEPT ![r] = q]
        BY <3>2 DEF Put, Holding
      <4> HIDE DEF q
      <4>. QED
        BY <2>1, <2>3, <4>1, <4>2 DEF PastTokens, KeepsRequest, LockStep, Holds
    <3>. QED
      BY <2>3, <3>1, <3>2 DEF Accepted
  <2>. QED
    BY <1>8, <2>2, <2>3 DEF Refresh
<1>9. CASE Lock(r)
  BY <1>0, <1>9, GoesTo DEF Lock, Put, PastTokens, KeepsRequest, LockStep
<1>10. CASE Unlock(r)
  BY <1>10, <1>f, IdleType DEF Unlock, LockStep, Holds
<1>11. CASE Logout(r) \/ RevokeUser(r) \/ CreateUser(r) \/ DeleteUser(r)
  BY <1>11, <1>d DEF Logout, RevokeUser, CreateUser, DeleteUser, Running, Holds
<1>12. CASE PasswordVerify(r)
  <2>1. mutationMu' = mutationMu /\ req[r].pc = "run"
    BY <1>12 DEF PasswordVerify, Running
  <2>2. ASSUME NEW u \in users, Put(r, [req[r] EXCEPT !.pc = "update", !.target = u.id])
        PROVE  \E q : RequestMove(r, q)
    <3> DEFINE q == Aimed(req[r], "update", u.id)
    <3>1. q \in AccountRequest /\ q.pc = "update" /\ q.token = req[r].token /\ q.live = req[r].live
      BY <1>0, TargetOf
    <3>2. req' = [req EXCEPT ![r] = q]
      BY <2>2 DEF Put, Aimed
    <3> HIDE DEF q
    <3>. QED
      BY <2>1, <3>1, <3>2 DEF PastTokens, KeepsRequest, LockStep, Holds
  <2>. QED
    BY <1>12, <2>1, <2>2, <1>d DEF PasswordVerify, UserByName, Holds
<1>13. CASE UpdatePassword(r)
  <2>1. mutationMu' = mutationMu /\ req[r].pc = "update"
    BY <1>13 DEF UpdatePassword
  <2>2. CASE Put(r, [req[r] EXCEPT !.pc = "revoke"])
    BY <1>0, <2>1, <2>2, GoesTo DEF Put, PastTokens, KeepsRequest, LockStep, Holds
  <2>. QED
    BY <1>13, <2>1, <2>2, <1>d DEF UpdatePassword, Holds
<1>14. CASE DeleteUserCheck(r)
  <2>1. mutationMu' = mutationMu /\ req[r].pc = "run" /\ users' = users
    BY <1>14 DEF DeleteUserCheck, Running
  <2>2. ASSUME NEW i \in 1..MaxUsers, \E u \in users : u.id # i,
               Put(r, [req[r] EXCEPT !.pc = "delete", !.target = i])
        PROVE  \E q : RequestMove(r, q)
    <3>1. i \in 0..MaxUsers
      BY AccountsAssumption
    <3> DEFINE q == Aimed(req[r], "delete", i)
    <3>2. /\ q \in AccountRequest /\ q.pc = "delete" /\ q.token = req[r].token
          /\ q.live = req[r].live /\ q.target = i
      BY <1>0, <3>1, TargetOf
    <3>3. req' = [req EXCEPT ![r] = q]
      BY <2>2 DEF Put, Aimed
    <3> HIDE DEF q
    <3>. QED
      BY <2>1, <2>2, <3>2, <3>3 DEF PastTokens, KeepsRequest, LockStep, Holds
  <2>. QED
    BY <1>14, <2>1, <2>2, <1>d DEF DeleteUserCheck, UserByName, Holds
<1>. QED
  BY <1>1, <1>2, <1>3, <1>4, <1>5, <1>6, <1>7, <1>8, <1>9, <1>10, <1>11, <1>12, <1>13, <1>14
     DEF RequestStep

-----------------------------------------------------------------------------
(* What a step makes of the users: an account is added with a fresh id, or *)
(* the target of a deletion goes with its sessions.                        *)
UsersStep ==
  \/ UNCHANGED <<users, nextUser>>
  \/ /\ nextUser <= MaxUsers /\ nextUser' = nextUser + 1
     /\ \E n \in Names, role \in Roles :
          users' = users \cup {[id |-> nextUser, name |-> n, role |-> role]}
  \/ \E r \in Requests :
       /\ req[r].pc = "delete" /\ nextUser' = nextUser
       /\ users' = {u \in users : u.id # req[r].target}
       /\ sessions' = {s \in sessions : s.user # req[r].target \/ s.token = 0}
       /\ req'[r].pc # "delete"

(* No step changes the users but by one legal change.                      *)
LEMMA UsersMove ==
  ASSUME TablesInv, [AccountsNext]_accountVars PROVE UsersStep
<1>1. ASSUME NEW r \in Requests, RequestStep(r) PROVE UsersStep
  <2>1. CASE CreateInitialAdmin(r)
    BY <2>1 DEF CreateInitialAdmin, UsersStep, Roles
  <2>2. CASE CreateUser(r)
    BY <2>2 DEF CreateUser, UsersStep
  <2>3. CASE DeleteUser(r)
    <3>1. req'[r].pc # "delete"
      BY <2>3, GoesTo DEF DeleteUser, Done, Put, TablesInv
    <3>. QED
      BY <2>3, <3>1 DEF DeleteUser, UsersStep, DeleteUserSessions, UserByID
  <2>4. CASE UNCHANGED <<users, nextUser>>
    BY <2>4 DEF UsersStep
  <2>. QED
    BY <1>1, <2>1, <2>2, <2>3, <2>4
       DEF RequestStep, RegisterBegin, LoginVerify, CreateSession, Arrive, GetSession,
           DropSession, Refresh, Lock, Unlock, Logout, PasswordVerify, UpdatePassword,
           RevokeUser, DeleteUserCheck
<1>. QED
  BY <1>1 DEF AccountsNext, ResetPasswordLookup, ResetPasswordAndSessions, Age, accountVars,
              UsersStep

(* Tokens are minted one after the other. *)
LEMMA TokensMove ==
  ASSUME [AccountsNext]_accountVars
  PROVE  nextToken' = nextToken \/ (nextToken <= MaxTokens /\ nextToken' = nextToken + 1)
  BY DEF AccountsNext, RequestStep, RegisterBegin, CreateInitialAdmin, LoginVerify,
         CreateSession, Create, Arrive, GetSession, DropSession, Refresh, Lock, Unlock, Logout,
         PasswordVerify, UpdatePassword, RevokeUser, CreateUser, DeleteUserCheck, DeleteUser,
         ResetPasswordLookup, ResetPasswordAndSessions, Age, accountVars

(* A step leaves tokens dead that are dead, and gone that are gone. *)
Dead(S, t) == \A s \in S : s.token = t => s.left = "expired"
Gone(S, t) == \A s \in S : s.token # t
(* A token already given out that is gone, or dead, stays so: nothing is   *)
(* inserted under an old token and nothing expired is renewed.             *)
LEMMA NoRevival ==
  ASSUME TablesInv, [AccountsNext]_accountVars
  PROVE  \A t \in Int : t < nextToken =>
           /\ Gone(sessions, t) => Gone(sessions', t)
           /\ Dead(sessions, t) => Dead(sessions', t)
<1> SUFFICES ASSUME NEW t \in Int, t < nextToken
             PROVE  /\ Gone(sessions, t) => Gone(sessions', t)
                    /\ Dead(sessions, t) => Dead(sessions', t)
  OBVIOUS
<1>1. SessionStep
  BY SessionsStep
<1>2. ASSUME NEW x \in sessions', x.token = t PROVE \E s \in sessions : Continues(x, s)
  BY <1>1, <1>2 DEF SessionStep, Minted, TablesInv
<1>. QED
  BY <1>2 DEF Gone, Dead, Continues

(* A token is live when it is not dead.                                    *)
LEMMA DeadOrLive == \A t : Live(t) <=> ~Dead(sessions, t)
  BY DEF Live, Row, Dead

(* The first state. *)
LEMMA AccountsStart == AccountsInit => AccountsInv
<1> SUFFICES ASSUME AccountsInit PROVE AccountsInv
  OBVIOUS
<1>1. \A r \in Requests : req[r] = Idle
  BY DEF AccountsInit
<1>2. TablesInv
  BY <1>1, IdleType, AccountsAssumption DEF AccountsInit, TablesInv
<1>3. LockInv /\ OthersRemain /\ DeadStaysDead
  BY <1>1, IdleType DEF AccountsInit, LockInv, OthersRemain, DeadStaysDead, Live, Row
<1>4. AccountsSound
  BY <1>1, IdleType
     DEF AccountsInit, AccountsSound, EnrolmentClosed, AcceptedWasLive, SessionsMatchUsers
<1>. QED
  BY <1>2, <1>3, <1>4 DEF AccountsInv

(* A step by a request, or by none. *)
LEMMA SomebodyMoves ==
  ASSUME AccountsInv, [AccountsNext]_accountVars
  PROVE  \/ \E r \in Requests, q \in AccountRequest : RequestMove(r, q)
         \/ UNCHANGED <<req, mutationMu>>
<1>1. ASSUME NEW r \in Requests, RequestStep(r) PROVE \E q \in AccountRequest : RequestMove(r, q)
  BY <1>1, RequestMoves DEF RequestMove
<1>. QED
  BY <1>1 DEF AccountsNext, ResetPasswordLookup, ResetPasswordAndSessions, Age, accountVars

(* The invariant is inductive: what a request holds, who has the lock,     *)
(* and that somebody else remains when an account is deleted.              *)
LEMMA AccountsKeep == AccountsInv /\ [AccountsNext]_accountVars => AccountsInv'
<1> SUFFICES ASSUME AccountsInv, [AccountsNext]_accountVars PROVE AccountsInv'
  OBVIOUS
<1>0. /\ TablesInv /\ LockInv /\ OthersRemain /\ DeadStaysDead
      /\ EnrolmentClosed /\ AcceptedWasLive /\ SessionsMatchUsers
  BY DEF AccountsInv, AccountsSound
<1>1. SessionStep /\ UsersStep
  BY <1>0, SessionsStep, UsersMove
<1>2. \/ \E r \in Requests, q \in AccountRequest : RequestMove(r, q)
      \/ UNCHANGED <<req, mutationMu>>
  BY SomebodyMoves
<1>3. nextToken \in Int /\ nextToken' \in Int /\ nextToken <= nextToken'
      /\ nextToken' \in 1..(MaxTokens + 1)
  BY <1>0, TokensMove, AccountsAssumption DEF TablesInv
<1>4. /\ users' \subseteq Users /\ nextUser' \in 1..(MaxUsers + 1)
      /\ \A u \in users' : u.id < nextUser'
  <2>1. CASE \E n \in Names, role \in Roles :
               users' = users \cup {[id |-> nextUser, name |-> n, role |-> role]}
             /\ nextUser <= MaxUsers /\ nextUser' = nextUser + 1
    BY <1>0, <2>1, AccountsAssumption DEF TablesInv, Users
  <2>. QED
    BY <1>0, <1>1, <2>1 DEF UsersStep, TablesInv
<1>5. sessions' \subseteq SessionRows /\ \A x \in sessions' : x.token < nextToken'
  <2> SUFFICES ASSUME NEW x \in sessions' PROVE x \in SessionRows /\ x.token < nextToken'
    OBVIOUS
  <2>1. x \in SessionRows /\ (Minted(x) \/ \E s \in sessions : Continues(x, s))
    BY <1>1 DEF SessionStep
  <2>2. x.token \in Int
    BY <2>1 DEF SessionRows
  <2>. QED
    BY <1>0, <1>3, <2>1, <2>2 DEF Minted, Continues, TablesInv
<1>6. req' \in [Requests -> AccountRequest] /\ \A r \in Requests : req'[r].token < nextToken'
  <2>1. \A r \in Requests : req[r] \in AccountRequest /\ req[r].token < nextToken
    BY <1>0 DEF TablesInv
  <2>t. \A q \in AccountRequest : q.token \in Int
    BY TokenType
  <2>2. ASSUME NEW r \in Requests, NEW q \in AccountRequest, RequestMove(r, q)
        PROVE  req' \in [Requests -> AccountRequest] /\ \A x \in Requests : req'[x].token < nextToken'
    <3>0. 0 < nextToken
      BY <1>0 DEF TablesInv
    <3>1. q.token < nextToken
      BY <2>1, <2>2, <3>0, IdleType DEF RequestMove, Presents, KeepsRequest
    <3>. QED
      BY <1>0, <1>3, <2>1, <2>t, <2>2, <3>1 DEF RequestMove, TablesInv
  <2>. QED
    BY <1>0, <1>2, <1>3, <2>1, <2>t, <2>2 DEF TablesInv
<1>7. TablesInv'
  BY <1>3, <1>4, <1>5, <1>6 DEF TablesInv
<1>8. LockInv'
  BY <1>0, <1>2, AccountsAssumption DEF LockInv, RequestMove, LockStep, TablesInv
<1>9. OthersRemain'
  <2> SUFFICES ASSUME NEW x \in Requests, req'[x].pc = "delete"
               PROVE  \E u \in users' : u.id # req'[x].target
    BY DEF OthersRemain
  <2>1. CASE req'[x] = req[x]
    <3>1. PICK u \in users : u.id # req[x].target
      BY <1>0, <2>1 DEF OthersRemain
    <3>2. CASE u \in users'
      BY <2>1, <3>1, <3>2
    <3>3. CASE u \notin users'
      <4>1. PICK r \in Requests : req[r].pc = "delete" /\ req'[r].pc # "delete"
        BY <1>1, <3>3 DEF UsersStep
      <4>2. r = x
        BY <1>0, <2>1, <4>1 DEF LockInv, Holds
      <4>. QED
        BY <4>1, <4>2
    <3>. QED
      BY <3>2, <3>3
  <2>2. CASE req'[x] # req[x]
    BY <1>0, <1>2, <2>2 DEF RequestMove, TablesInv
  <2>. QED
    BY <2>1, <2>2
<1>10. DeadStaysDead' /\ AcceptedWasLive'
  <2> SUFFICES ASSUME NEW x \in Requests
               PROVE  /\ ~req'[x].live => Dead(sessions', req'[x].token)
                      /\ req'[x].pc \in PastTokens => req'[x].live
    BY DEF DeadStaysDead, AcceptedWasLive, PastTokens, Live, Row, Dead
  <2>1. /\ ~req[x].live => Dead(sessions, req[x].token)
        /\ req[x].pc \in PastTokens => req[x].live
    BY <1>0, DeadOrLive DEF DeadStaysDead, AcceptedWasLive, PastTokens
  <2>t. req[x].token \in Int /\ req[x].token < nextToken
    BY <1>0, TokenType DEF TablesInv
  <2>2. CASE req'[x] = req[x]
    BY <1>0, <2>1, <2>t, <2>2, NoRevival
  <2>3. ASSUME NEW q \in AccountRequest, RequestMove(x, q)
        PROVE  /\ ~req'[x].live => Dead(sessions', req'[x].token)
               /\ req'[x].pc \in PastTokens => req'[x].live
    <3>1. req'[x] = q
      BY <1>0, <2>3 DEF RequestMove, TablesInv
    <3>i. q.token \in Int
      BY TokenType
    <3>2. CASE q.token = 0 /\ q.pc \notin PastTokens
      <4>1. \A s \in sessions' : s.token # 0
        BY <1>5 DEF SessionRows
      <4>. QED
        BY <3>1, <3>2, <4>1 DEF Dead
    <3>3. CASE Presents(q)
      BY <1>0, <3>1, <3>i, <3>3, NoRevival, DeadOrLive DEF Presents, PastTokens
    <3>4. CASE KeepsRequest(x, q)
      <4>1. q.pc \in PastTokens => req[x].pc \in PastTokens \/ ~Dead(sessions, req[x].token)
        BY <2>3, DeadOrLive DEF RequestMove
      <4>. QED
        BY <1>0, <2>1, <2>t, <3>1, <3>4, <4>1, NoRevival DEF KeepsRequest
    <3>5. CASE q = Idle
      BY <3>2, <3>5, IdleType DEF PastTokens
    <3>. QED
      BY <2>3, <3>2, <3>3, <3>4, <3>5 DEF RequestMove
  <2>4. ASSUME NEW r \in Requests, NEW q \in AccountRequest, RequestMove(r, q), r # x
        PROVE  req'[x] = req[x]
    BY <1>0, <2>4 DEF RequestMove, TablesInv
  <2>. QED
    BY <1>2, <2>2, <2>3, <2>4
<1>11. SessionsMatchUsers' /\ EnrolmentClosed'
  <2>1. CASE users \subseteq users' /\ (users' = users => nextUser' = nextUser)
    <3>1. SessionsMatchUsers'
      BY <1>0, <1>1, <2>1 DEF SessionStep, Minted, Continues, SessionsMatchUsers
    <3>2. EnrolmentClosed'
      BY <1>0, <2>1 DEF EnrolmentClosed
    <3>. QED
      BY <3>1, <3>2
  <2>a. ASSUME NEW n \in Names, NEW role \in Roles,
               users' = users \cup {[id |-> nextUser, name |-> n, role |-> role]}
        PROVE  users \subseteq users' /\ (users' = users => nextUser' = nextUser)
    <3>1. \A u \in users : u.id # nextUser
      BY <1>0 DEF TablesInv, Users
    <3> DEFINE row == [id |-> nextUser, name |-> n, role |-> role]
    <3>2. row \in users' /\ row.id = nextUser
      BY <2>a
    <3> HIDE DEF row
    <3>. QED
      BY <2>a, <3>1, <3>2
  <2>2. ASSUME NEW r \in Requests, req[r].pc = "delete", nextUser' = nextUser,
               users' = {u \in users : u.id # req[r].target},
               sessions' = {s \in sessions : s.user # req[r].target \/ s.token = 0}
        PROVE  SessionsMatchUsers' /\ EnrolmentClosed'
    <3>1. \E u \in users : u.id # req[r].target
      BY <1>0, <2>2 DEF OthersRemain
    <3>2. \A s \in sessions' : s.token # 0
      BY <1>5 DEF SessionRows
    <3>. QED
      BY <1>0, <2>2, <3>1, <3>2 DEF SessionsMatchUsers, EnrolmentClosed
  <2>. QED
    BY <1>1, <2>1, <2>a, <2>2 DEF UsersStep
<1>. QED
  BY <1>7, <1>8, <1>9, <1>10, <1>11 DEF AccountsInv, AccountsSound

(* For any number of requests, names, users and tokens a request that runs *)
(* had a live session when it came, sessions belong to present users and   *)
(* enrolment does not reopen.                                              *)
THEOREM AccountsSoundHolds == AccountsSpec => []AccountsSound
<1>1. AccountsInv => AccountsSound
  BY DEF AccountsInv
<1>. QED
  BY <1>1, AccountsStart, AccountsKeep, PTL DEF AccountsSpec

(* No session of a minted token comes back once it is gone. *)
THEOREM RevokedStaysRevokedHolds == AccountsSpec => RevokedStaysRevoked
<1>1. AccountsInv /\ [AccountsNext]_accountVars
        => [\A t \in 1..(nextToken - 1) : Row(t) = {} => Row(t)' = {}]_accountVars
  <2> SUFFICES ASSUME AccountsInv, [AccountsNext]_accountVars, NEW t \in 1..(nextToken - 1),
                      Row(t) = {}
               PROVE  Row(t)' = {}
    OBVIOUS
  <2>1. t \in Int /\ t < nextToken /\ TablesInv
    BY DEF AccountsInv, TablesInv
  <2>2. Gone(sessions', t)
    BY <2>1, NoRevival DEF Row, Gone
  <2>. QED
    BY <2>2 DEF Row, Gone
<1>. QED
  BY <1>1, AccountsStart, AccountsKeep, PTL DEF AccountsSpec, RevokedStaysRevoked

-----------------------------------------------------------------------------
(* The shapes of a sign-in request, of an account handler and of a grant. *)
LookupShape ==
  [pc: {"lookup"}, challenge: ChallengeRows, cred: Credentials, count: 0..MaxCount,
   signed: BOOLEAN]
AdvanceShape ==
  [pc: {"advance"}, challenge: ChallengeRows, cred: Credentials, count: 0..MaxCount,
   user: PasskeyUsers]
CreateShape ==
  [pc: {"create"}, challenge: Challenges, serial: 1..MaxRegistrations, count: 0..MaxCount,
   user: PasskeyUsers]
CodeShape == [pc: {"code"}, user: PasskeyUsers, code: Codes]
LoginShape == {NoLogin} \cup LookupShape \cup AdvanceShape \cup CreateShape \cup CodeShape
RegisterShape ==
  [op: {"register"}, user: PasskeyUsers, cred: Credentials, count: 0..MaxCount]
DeleteShape == [op: {"delete"}, user: PasskeyUsers, serial: 1..MaxRegistrations]
DisableShape == [op: {"disable"}, user: PasskeyUsers]
HandlerShape == {NoHandler} \cup RegisterShape \cup DeleteShape \cup DisableShape
GrantShape ==
  [challenge: Challenges, serial: 1..MaxRegistrations, count: 0..MaxCount, user: PasskeyUsers]

(* What a login carries at each place.                                     *)
LEMMA LoginByPlace ==
  ASSUME NEW x \in LoginShape
  PROVE  /\ x.pc = "lookup" => x \in LookupShape
         /\ x.pc = "advance" => x \in AdvanceShape
         /\ x.pc = "create" => x \in CreateShape
         /\ x.pc = "code" => x \in CodeShape
  BY DEF LoginShape, LookupShape, AdvanceShape, CreateShape, CodeShape, NoLogin
(* What a handler of passkeys carries for each operation.                  *)
LEMMA HandlerByOp ==
  ASSUME NEW x \in HandlerShape
  PROVE  /\ x.op = "register" => x \in RegisterShape
         /\ x.op = "delete" => x \in DeleteShape
         /\ x.op = "disable" => x \in DisableShape
  BY DEF HandlerShape, RegisterShape, DeleteShape, DisableShape, NoHandler

-----------------------------------------------------------------------------
(* A recovery code has one row, which is unused as long as the code granted *)
(* nothing.                                                                 *)
CodesInv ==
  /\ exists \subseteq PasskeyUsers
  /\ codes \subseteq CodeRows /\ minted \subseteq Codes
  /\ recovered \in [Codes -> Nat]
  /\ \A c \in codes : c.code \in minted
  /\ \A c, d \in codes : c.code = d.code => c = d
  /\ \A c \in codes : ~c.used => recovered[c.code] = 0
  /\ \A k \in Codes \ minted : recovered[k] = 0
  /\ RecoveryCodeOnce

(* The recovery codes at the start.                                        *)
LEMMA CodesStart == PasskeysInit => CodesInv
  BY DEF PasskeysInit, CodesInv, RecoveryCodeOnce

(* The recovery codes that were accepted stay consumed.                    *)
LEMMA CodesKeep == CodesInv /\ [PasskeysNext]_passkeyVars => CodesInv'
<1> SUFFICES ASSUME CodesInv, [PasskeysNext]_passkeyVars PROVE CodesInv'
  OBVIOUS
<1>1. ASSUME NEW l \in Logins, VerifyAndUseRecoveryCode(l) PROVE CodesInv'
  <2> DEFINE k == login[l].code
             row == {c \in Unused(login[l].user) : c.code = k}
  <2>0. /\ codes' = (codes \ row) \cup {[c EXCEPT !.used = TRUE] : c \in row}
        /\ recovered' = IF row = {} THEN recovered ELSE [recovered EXCEPT ![k] = @ + 1]
        /\ minted' = minted /\ exists' = exists
    BY <1>1 DEF VerifyAndUseRecoveryCode
  <2>1. CASE row = {}
    BY <2>0, <2>1 DEF CodesInv, RecoveryCodeOnce
  <2>2. CASE row # {}
    <3>1. PICK c \in codes : c.code = k /\ ~c.used /\ c \in row
      BY <2>2 DEF Unused
    <3>2. \A d \in row : d = c
      BY <3>1 DEF CodesInv, Unused
    <3> DEFINE e == [c EXCEPT !.used = TRUE]
    <3>3. e \in CodeRows /\ e.code = k /\ e.used
      BY <3>1 DEF CodesInv, CodeRows
    <3>4. codes' = (codes \ {c}) \cup {e}
      BY <2>0, <3>1, <3>2
    <3>5. k \in Codes /\ k \in minted /\ recovered[k] = 0
      BY <3>1 DEF CodesInv
    <3>6. recovered' = [recovered EXCEPT ![k] = 1]
      BY <2>0, <2>2, <3>5
    <3> HIDE DEF e, row, k
    <3>7. \A d \in codes' : d = e \/ (d \in codes /\ d.code # k)
      BY <3>1, <3>4 DEF CodesInv
    <3>. QED
      BY <2>0, <3>3, <3>4, <3>5, <3>6, <3>7 DEF CodesInv, RecoveryCodeOnce
  <2>. QED
    BY <2>1, <2>2
<1>2. CASE GenerateRecoveryCodes
  <2>1. PICK u \in exists, new \in SUBSET (Codes \ minted) :
          /\ minted' = minted \cup new
          /\ codes' = {c \in codes : c.user # u}
                        \cup {[code |-> k, user |-> u, used |-> FALSE] : k \in new}
    BY <1>2 DEF GenerateRecoveryCodes
  <2> DEFINE row(k) == [code |-> k, user |-> u, used |-> FALSE]
             fresh == {row(k) : k \in new}
  <2>0. u \in PasskeyUsers /\ new \subseteq Codes
    BY DEF CodesInv
  <2>r. \A k \in new : /\ row(k).code = k /\ row(k).user = u /\ row(k).used = FALSE
                       /\ row(k) \in CodeRows
    BY <2>0 DEF CodeRows
  <2>e. fresh = {[code |-> k, user |-> u, used |-> FALSE] : k \in new}
    OBVIOUS
  <2> HIDE DEF row
  <2>2. \A c \in fresh : c.code \in new /\ c.user = u /\ c.used = FALSE /\ c \in CodeRows
    BY <2>r
  <2>3. \A c, d \in fresh : c.code = d.code => c = d
    BY <2>r
  <2>4. /\ codes' = {c \in codes : c.user # u} \cup fresh
        /\ exists' = exists /\ recovered' = recovered
    BY <1>2, <2>1, <2>e DEF GenerateRecoveryCodes
  <2> HIDE DEF fresh
  <2>5. \A c \in codes' : c \in fresh \/ c \in codes
    BY <2>4
  <2>6. \A c \in codes', d \in codes' : c.code = d.code => c = d
    BY <2>2, <2>3, <2>5 DEF CodesInv
  <2>. QED
    BY <2>1, <2>2, <2>4, <2>5, <2>6 DEF CodesInv, RecoveryCodeOnce
<1>3. CASE DeleteAccount
  BY <1>3 DEF DeleteAccount, CodesInv, RecoveryCodeOnce
<1>4. CASE UNCHANGED <<exists, codes, minted, recovered>>
  BY <1>4 DEF CodesInv, RecoveryCodeOnce
<1>. QED
  BY <1>1, <1>2, <1>3, <1>4
     DEF PasskeysNext, SignInStep, PasskeyLoginVerify, PasskeyLookup, AdvancePasskeySignCount,
         PasskeySignIn, RecoveryLookup, PasskeyLoginOptions, ChallengeExpires,
         RegisterPasskeyOptions, RegisterPasskeyVerify, CreatePasskey, DeletePasskeyCheck,
         DeletePasskey, DisableCheck, DisablePasswordLogin, EnablePasswordLogin,
         ResetPasskeysAndEnablePassword, passkeyVars

-----------------------------------------------------------------------------
(* The other tables: rows have their types, ids are unique and below the   *)
(* counters that produce them.                                             *)
ChallengeTable == challenges \subseteq ChallengeRows /\ issued \in 0..MaxChallenges
KeyTable ==
  /\ exists \subseteq PasskeyUsers /\ disabled \in [PasskeyUsers -> BOOLEAN]
  /\ passkeys \subseteq PasskeyRows /\ registrations \in 0..MaxRegistrations
  /\ \A p, q \in passkeys : p.cred = q.cred \/ p.serial = q.serial => p = q
  /\ \A p \in passkeys : p.serial <= registrations
Requesters ==
  /\ login \in [Logins -> LoginShape] /\ account \in HandlerShape
  /\ granted \in Seq(GrantShape)
PasskeyTables == ChallengeTable /\ KeyTable /\ Requesters

(* The tables at the start.                                                *)
LEMMA TablesStart == PasskeysInit => PasskeyTables
<1> SUFFICES ASSUME PasskeysInit PROVE PasskeyTables
  OBVIOUS
<1>1. ChallengeTable
  BY PasskeysAssumption DEF PasskeysInit, ChallengeTable
<1>2. KeyTable
  BY PasskeysAssumption DEF PasskeysInit, KeyTable
<1>3. Requesters
  BY DEF PasskeysInit, Requesters, LoginShape, HandlerShape
<1>. QED
  BY <1>1, <1>2, <1>3 DEF PasskeyTables

(* Challenges are issued with new numbers only, and consumed.              *)
LEMMA ChallengeTableKeep ==
  ASSUME PasskeyTables, [PasskeysNext]_passkeyVars PROVE ChallengeTable'
<1> USE DEF ChallengeTable
<1>0. ChallengeTable /\ Unexpired \subseteq challenges /\ exists \subseteq PasskeyUsers
  BY DEF PasskeyTables, Unexpired, KeyTable
<1>1. ASSUME NEW u \in PasskeyUsers \cup {Anyone}, NEW action \in {"login", "register"},
             ChallengeCreate(u, action)
      PROVE  ChallengeTable'
  <2> DEFINE row == [id |-> issued + 1, user |-> u, action |-> action, expired |-> FALSE]
  <2>1. issued' = issued + 1 /\ issued + 1 \in 1..MaxChallenges
    BY <1>0, <1>1, PasskeysAssumption DEF ChallengeCreate
  <2>2. row \in ChallengeRows
    BY <2>1 DEF ChallengeRows, Challenges
  <2>3. challenges' \subseteq Unexpired \cup {row}
    BY <1>1 DEF ChallengeCreate
  <2> HIDE DEF row
  <2>. QED
    BY <1>0, <2>1, <2>2, <2>3, PasskeysAssumption
<1>2. CASE ChallengeExpires
  <2>1. PICK c \in Unexpired : challenges' = (challenges \ {c}) \cup {[c EXCEPT !.expired = TRUE]}
    BY <1>2 DEF ChallengeExpires
  <2>2. [c EXCEPT !.expired = TRUE] \in ChallengeRows
    BY <1>0 DEF ChallengeRows
  <2>. QED
    BY <1>0, <1>2, <2>1, <2>2 DEF ChallengeExpires
<1>3. CASE challenges' \subseteq challenges /\ issued' = issued
  BY <1>0, <1>3
<1>4. CASE PasskeyLoginOptions \/ RegisterPasskeyOptions
  BY <1>0, <1>1, <1>4 DEF PasskeyLoginOptions, RegisterPasskeyOptions
<1>5. ASSUME NEW id, ChallengeConsume(id) PROVE challenges' \subseteq challenges
  BY <1>5 DEF ChallengeConsume, Unexpired
<1>. QED
  BY <1>2, <1>3, <1>4, <1>5
     DEF PasskeysNext, SignInStep, PasskeyLoginVerify, PasskeyLookup, AdvancePasskeySignCount,
         PasskeySignIn, RecoveryLookup, VerifyAndUseRecoveryCode, RegisterPasskeyVerify,
         CreatePasskey, DeletePasskeyCheck, DeletePasskey, GenerateRecoveryCodes, DisableCheck,
         DisablePasswordLogin, EnablePasswordLogin, ResetPasskeysAndEnablePassword,
         DeleteAccount, passkeyVars

(* What a step makes of the passkeys. *)
Advanced(p, n) == [p EXCEPT !.count = n]
KeyStep ==
  \/ passkeys' \subseteq passkeys /\ registrations' = registrations
  \/ \E l \in Logins, p \in passkeys :
       /\ login[l].pc = "advance" /\ Advances(p.count, login[l].count)
       /\ passkeys' = (passkeys \ {p}) \cup {Advanced(p, login[l].count)}
       /\ registrations' = registrations
  \/ /\ account.op = "register" /\ registrations < MaxRegistrations
     /\ \A p \in passkeys : p.cred # account.cred
     /\ registrations' = registrations + 1
     /\ passkeys' = passkeys \cup {[cred |-> account.cred, serial |-> registrations + 1,
                                    user |-> account.user, count |-> account.count]}

(* Every step inserts one passkey, deletes passkeys, or advances one       *)
(* counter.                                                                *)
LEMMA KeysMove ==
  ASSUME [PasskeysNext]_passkeyVars PROVE KeyStep
<1>1. ASSUME NEW l \in Logins, AdvancePasskeySignCount(l) PROVE KeyStep
  <2> DEFINE row == {p \in passkeys : p.cred = login[l].cred /\ Advances(p.count, login[l].count)}
  <2>1. CASE row = {}
    BY <1>1, <2>1 DEF AdvancePasskeySignCount, KeyStep
  <2>2. CASE row # {}
    <3> DEFINE p == CHOOSE p \in row : TRUE
    <3>1. p \in row
      BY <2>2
    <3>2. passkeys' = (passkeys \ {p}) \cup {[p EXCEPT !.count = login[l].count]}
      BY <1>1, <2>2 DEF AdvancePasskeySignCount
    <3>3. registrations' = registrations /\ login[l].pc = "advance"
      BY <1>1 DEF AdvancePasskeySignCount
    <3> HIDE DEF p
    <3>. QED
      BY <3>1, <3>2, <3>3 DEF KeyStep, Advanced
  <2>. QED
    BY <2>1, <2>2
<1>2. CASE CreatePasskey
  BY <1>2 DEF CreatePasskey, KeyStep
<1>3. CASE passkeys' \subseteq passkeys /\ registrations' = registrations
  BY <1>3 DEF KeyStep
<1>. QED
  BY <1>1, <1>2, <1>3
     DEF PasskeysNext, SignInStep, PasskeyLoginVerify, PasskeyLookup,
         PasskeySignIn, RecoveryLookup, VerifyAndUseRecoveryCode, PasskeyLoginOptions,
         ChallengeExpires, RegisterPasskeyOptions, RegisterPasskeyVerify,
         DeletePasskeyCheck, DeletePasskey, GenerateRecoveryCodes, DisableCheck,
         DisablePasswordLogin, EnablePasswordLogin, ResetPasskeysAndEnablePassword,
         DeleteAccount, passkeyVars

(* A passkey whose counter advances is the same passkey.                   *)
LEMMA AdvancedRow ==
  ASSUME NEW p \in PasskeyRows, NEW n \in 0..MaxCount
  PROVE  /\ Advanced(p, n) \in PasskeyRows /\ Advanced(p, n).serial = p.serial
         /\ Advanced(p, n).cred = p.cred /\ Advanced(p, n).user = p.user
         /\ Advanced(p, n).count = n
  BY DEF PasskeyRows, Advanced

(* Accounts and the switch against password logins keep their type.        *)
LEMMA SwitchKeeps ==
  ASSUME PasskeyTables, [PasskeysNext]_passkeyVars
  PROVE  exists' \subseteq PasskeyUsers /\ disabled' \in [PasskeyUsers -> BOOLEAN]
  BY DEF PasskeyTables, KeyTable,
         PasskeysNext, SignInStep, PasskeyLoginVerify, PasskeyLookup, AdvancePasskeySignCount,
         PasskeySignIn, RecoveryLookup, VerifyAndUseRecoveryCode, PasskeyLoginOptions,
         ChallengeExpires, RegisterPasskeyOptions, RegisterPasskeyVerify, CreatePasskey,
         DeletePasskeyCheck, DeletePasskey, GenerateRecoveryCodes, DisableCheck,
         DisablePasswordLogin, EnablePasswordLogin, ResetPasskeysAndEnablePassword,
         DeleteAccount, passkeyVars

(* The table of passkeys keeps one row for each credential and             *)
(* registration.                                                           *)
LEMMA KeyTableKeep ==
  ASSUME PasskeyTables, [PasskeysNext]_passkeyVars PROVE KeyTable'
<1> DEFINE Rows == /\ passkeys \subseteq PasskeyRows /\ registrations \in 0..MaxRegistrations
                   /\ \A p, q \in passkeys : p.cred = q.cred \/ p.serial = q.serial => p = q
                   /\ \A p \in passkeys : p.serial <= registrations
<1>0. Rows /\ \A p \in passkeys : p.serial \in Nat
  BY DEF PasskeyTables, KeyTable, PasskeyRows
<1>1. CASE passkeys' \subseteq passkeys /\ registrations' = registrations
  BY <1>0, <1>1, SwitchKeeps DEF KeyTable
<1>2. ASSUME NEW l \in Logins, NEW p \in passkeys, login[l].pc = "advance",
             passkeys' = (passkeys \ {p}) \cup {Advanced(p, login[l].count)},
             registrations' = registrations
      PROVE  KeyTable'
  <2>1. login[l].count \in 0..MaxCount
    <3>1. login[l] \in AdvanceShape
      BY <1>2, LoginByPlace DEF PasskeyTables, Requesters
    <3>. QED
      BY <3>1 DEF AdvanceShape
  <2> DEFINE e == Advanced(p, login[l].count)
  <2>2. e \in PasskeyRows /\ e.serial = p.serial /\ e.cred = p.cred
    BY <1>0, <2>1, AdvancedRow
  <2> HIDE DEF e
  <2>3. \A q \in passkeys' : q = e \/ (q \in passkeys /\ q # p)
    BY <1>2 DEF e
  <2>. QED
    BY <1>0, <1>2, <2>2, <2>3, SwitchKeeps DEF KeyTable
<1>3. ASSUME account.op = "register", registrations < MaxRegistrations,
             \A p \in passkeys : p.cred # account.cred,
             registrations' = registrations + 1,
             passkeys' = passkeys \cup {[cred |-> account.cred, serial |-> registrations + 1,
                                         user |-> account.user, count |-> account.count]}
      PROVE  KeyTable'
  <2> DEFINE e == [cred |-> account.cred, serial |-> registrations + 1,
                   user |-> account.user, count |-> account.count]
  <2>1. account \in RegisterShape
    BY <1>3, HandlerByOp DEF PasskeyTables, Requesters
  <2>2. registrations + 1 \in 1..MaxRegistrations
    BY <1>0, <1>3, PasskeysAssumption
  <2>3. e \in PasskeyRows /\ e.serial = registrations + 1 /\ e.cred = account.cred
    BY <2>1, <2>2 DEF RegisterShape, PasskeyRows
  <2>4. passkeys' = passkeys \cup {e}
    BY <1>3
  <2> HIDE DEF e
  <2>. QED
    BY <1>0, <1>3, <2>2, <2>3, <2>4, SwitchKeeps, PasskeysAssumption DEF KeyTable
<1>. QED
  BY <1>1, <1>2, <1>3, KeysMove DEF KeyStep

-----------------------------------------------------------------------------
(* The challenge a sign-in request has consumed. *)
InFlight(x) == x.pc \in {"lookup", "advance", "create"}
Spent(x) == IF x.pc = "create" THEN x.challenge ELSE x.challenge.id
Grant(x) == [challenge |-> x.challenge, serial |-> x.serial, count |-> x.count, user |-> x.user]

(* How a step of request l that leaves q there moves it on. *)
Ends(l, q) == q.pc \in {"idle", "code"} /\ granted' = granted
Consumes(l, q) ==
  /\ q.pc = "lookup" /\ granted' = granted
  /\ \E c \in challenges : c.id = Spent(q)
  /\ \A c \in challenges' : c \in challenges /\ c.id # Spent(q)
Finds(l, q) ==
  /\ q.pc = "advance" /\ login[l].pc = "lookup" /\ Spent(q) = Spent(login[l])
  /\ granted' = granted
Counts(l, q) ==
  /\ q.pc = "create" /\ login[l].pc = "advance" /\ Spent(q) = Spent(login[l])
  /\ granted' = granted /\ registrations' = registrations
  /\ \E p \in passkeys : /\ q.serial = p.serial /\ Advances(p.count, q.count)
                         /\ passkeys' = (passkeys \ {p}) \cup {Advanced(p, q.count)}
SignsIn(l, q) ==
  /\ q.pc = "idle" /\ login[l].pc = "create" /\ granted' = Append(granted, Grant(login[l]))
LoginMove(l, q) ==
  /\ login' = [login EXCEPT ![l] = q]
  /\ Ends(l, q) \/ Consumes(l, q) \/ Finds(l, q) \/ Counts(l, q) \/ SignsIn(l, q)
LoginStep ==
  \/ UNCHANGED <<login, granted>>
  \/ \E l \in Logins, q \in LoginShape : LoginMove(l, q)

(* A login that is not running.                                            *)
LEMMA NoLoginShape == NoLogin \in LoginShape /\ NoLogin.pc = "idle"
  BY DEF LoginShape, NoLogin

(* The verification of an assertion moves its login in a legal way.        *)
LEMMA VerifyMoves ==
  ASSUME PasskeyTables, NEW l \in Logins, PasskeyLoginVerify(l) PROVE LoginStep
<1>1. PICK id \in 1..issued :
        /\ ChallengeConsume(id)
        /\ \/ \E c \in Consumable(id, "login"), a \in Presented(FALSE), k \in Credentials,
                n \in 0..MaxCount :
                login' = [login EXCEPT ![l] = [pc |-> "lookup", challenge |-> c, cred |-> k,
                                 count |-> n, signed |-> VerifyAuthenticationSignature(a)]]
           \/ UNCHANGED login
  BY DEF PasskeyLoginVerify
<1>2. granted' = granted
  BY DEF PasskeyLoginVerify
<1>3. ASSUME NEW c \in Consumable(id, "login"), NEW a \in Presented(FALSE),
             NEW k \in Credentials, NEW n \in 0..MaxCount,
             login' = [login EXCEPT ![l] = [pc |-> "lookup", challenge |-> c, cred |-> k,
                                 count |-> n, signed |-> VerifyAuthenticationSignature(a)]]
      PROVE  LoginStep
  <2> DEFINE q == [pc |-> "lookup", challenge |-> c, cred |-> k,
                   count |-> n, signed |-> VerifyAuthenticationSignature(a)]
  <2>1. c \in challenges /\ c.id = id /\ c \in ChallengeRows
    BY DEF Consumable, Unexpired, PasskeyTables, ChallengeTable
  <2>2. VerifyAuthenticationSignature(a) \in BOOLEAN
    BY DEF Presented, Responses, VerifyAuthenticationSignature
  <2>3. q \in LookupShape /\ q.pc = "lookup" /\ Spent(q) = id
    BY <2>1, <2>2 DEF LookupShape, Spent
  <2>4. login' = [login EXCEPT ![l] = q]
    BY <1>3
  <2> HIDE DEF q
  <2>5. Consumes(l, q)
    BY <1>1, <1>2, <2>1, <2>3 DEF ChallengeConsume, Unexpired, Consumes
  <2>. QED
    BY <2>3, <2>4, <2>5 DEF LoginStep, LoginMove, LoginShape
<1>. QED
  BY <1>1, <1>2, <1>3 DEF LoginStep

(* The lookup of the passkey moves its login in a legal way.               *)
LEMMA LookupMoves ==
  ASSUME PasskeyTables, NEW l \in Logins, PasskeyLookup(l) PROVE LoginStep
<1> DEFINE q == login[l]
           row == {p \in passkeys : p.cred = q.cred /\ q.challenge.user \in {Anyone, p.user}
                                    /\ Advances(p.count, q.count) /\ q.signed}
<1>0. q.pc = "lookup" /\ granted' = granted /\ q \in LookupShape
  BY LoginByPlace DEF PasskeyLookup, PasskeyTables, Requesters
<1>1. CASE row = {}
  BY <1>0, <1>1, NoLoginShape DEF PasskeyLookup, LoginStep, LoginMove, Ends
<1>2. CASE row # {}
  <2> DEFINE p == CHOOSE p \in row : TRUE
             x == [pc |-> "advance", challenge |-> q.challenge, cred |-> q.cred,
                   count |-> q.count, user |-> p.user]
  <2>1. p \in PasskeyRows
    BY <1>2 DEF PasskeyTables, KeyTable
  <2>2. login' = [login EXCEPT ![l] = x]
    BY <1>2 DEF PasskeyLookup
  <2> HIDE DEF p
  <2>3. x \in AdvanceShape /\ x.pc = "advance" /\ Spent(x) = Spent(login[l])
    BY <1>0, <2>1 DEF AdvanceShape, LookupShape, PasskeyRows, Spent
  <2> HIDE DEF x
  <2>. QED
    BY <1>0, <2>2, <2>3 DEF LoginStep, LoginMove, Finds, LoginShape
<1>. QED
  BY <1>1, <1>2

(* The advance of the counter moves its login in a legal way.              *)
LEMMA AdvanceMoves ==
  ASSUME PasskeyTables, NEW l \in Logins, AdvancePasskeySignCount(l) PROVE LoginStep
<1> DEFINE q == login[l]
           row == {p \in passkeys : p.cred = q.cred /\ Advances(p.count, q.count)}
<1>0. /\ q.pc = "advance" /\ granted' = granted /\ registrations' = registrations
      /\ q \in AdvanceShape
  BY LoginByPlace DEF AdvancePasskeySignCount, PasskeyTables, Requesters
<1>1. CASE row = {}
  BY <1>0, <1>1, NoLoginShape DEF AdvancePasskeySignCount, LoginStep, LoginMove, Ends
<1>2. CASE row # {}
  <2> DEFINE p == CHOOSE p \in row : TRUE
             x == [pc |-> "create", challenge |-> q.challenge.id, serial |-> p.serial,
                   count |-> q.count, user |-> q.user]
  <2>1. p \in row
    BY <1>2
  <2>2. /\ login' = [login EXCEPT ![l] = x]
        /\ passkeys' = (passkeys \ {p}) \cup {[p EXCEPT !.count = q.count]}
    BY <1>2 DEF AdvancePasskeySignCount
  <2> HIDE DEF p
  <2>3. p \in PasskeyRows
    BY <2>1 DEF PasskeyTables, KeyTable
  <2>4. /\ x \in CreateShape /\ x.pc = "create" /\ Spent(x) = Spent(login[l])
        /\ x.serial = p.serial /\ x.count = q.count
    BY <1>0, <2>3 DEF AdvanceShape, CreateShape, ChallengeRows, PasskeyRows, Spent
  <2> HIDE DEF x
  <2>5. Counts(l, x)
    BY <1>0, <2>1, <2>2, <2>4 DEF Counts, Advanced
  <2>. QED
    BY <2>2, <2>4, <2>5 DEF LoginStep, LoginMove, LoginShape
<1>. QED
  BY <1>1, <1>2

(* Every step moves the logins in a legal way.                             *)
LEMMA LoginsMove ==
  ASSUME PasskeyTables, CodesInv, [PasskeysNext]_passkeyVars PROVE LoginStep
<1>1. ASSUME NEW l \in Logins, PasskeySignIn(l) PROVE LoginStep
  BY <1>1, NoLoginShape DEF PasskeySignIn, LoginStep, LoginMove, Ends, SignsIn, Grant
<1>2. ASSUME NEW l \in Logins, RecoveryLookup(l) PROVE LoginStep
  <2>1. PICK u \in exists, k \in minted :
          login' = [login EXCEPT ![l] = [pc |-> "code", user |-> u, code |-> k]]
    BY <1>2 DEF RecoveryLookup
  <2> DEFINE q == [pc |-> "code", user |-> u, code |-> k]
  <2>2. u \in PasskeyUsers /\ k \in Codes
    BY DEF CodesInv
  <2>3. q \in CodeShape /\ q.pc = "code"
    BY <2>2 DEF CodeShape
  <2>4. login' = [login EXCEPT ![l] = q] /\ granted' = granted
    BY <1>2, <2>1 DEF RecoveryLookup
  <2> HIDE DEF q
  <2>. QED
    BY <2>3, <2>4 DEF LoginStep, LoginMove, Ends, LoginShape
<1>3. ASSUME NEW l \in Logins, VerifyAndUseRecoveryCode(l) PROVE LoginStep
  BY <1>3, NoLoginShape DEF VerifyAndUseRecoveryCode, LoginStep, LoginMove, Ends
<1>4. CASE UNCHANGED <<login, granted>>
  BY <1>4 DEF LoginStep
<1>. QED
  BY <1>1, <1>2, <1>3, <1>4, VerifyMoves, LookupMoves, AdvanceMoves
     DEF PasskeysNext, SignInStep, PasskeyLoginOptions,
         ChallengeExpires, RegisterPasskeyOptions, RegisterPasskeyVerify, CreatePasskey,
         DeletePasskeyCheck, DeletePasskey, GenerateRecoveryCodes, DisableCheck,
         DisablePasswordLogin, EnablePasswordLogin, ResetPasskeysAndEnablePassword,
         DeleteAccount, passkeyVars

(* Challenges keep their id, and a new one has a new id. *)
ChallengeStep ==
  /\ \A c \in challenges' : \/ c.id = issued + 1 /\ issued' = issued + 1
                            \/ \E d \in challenges : d.id = c.id
  /\ issued \in Nat /\ issued' \in Nat /\ issued <= issued'

(* Every step moves the challenges in a legal way.                         *)
LEMMA ChallengesMove ==
  ASSUME PasskeyTables, [PasskeysNext]_passkeyVars PROVE ChallengeStep
<1>0. issued \in Nat /\ Unexpired \subseteq challenges /\ challenges \subseteq ChallengeRows
  BY DEF PasskeyTables, ChallengeTable, Unexpired
<1>1. ASSUME NEW u, NEW action, ChallengeCreate(u, action) PROVE ChallengeStep
  <2> DEFINE row == [id |-> issued + 1, user |-> u, action |-> action, expired |-> FALSE]
  <2>1. issued' = issued + 1 /\ challenges' \subseteq Unexpired \cup {row} /\ row.id = issued + 1
    BY <1>1 DEF ChallengeCreate
  <2> HIDE DEF row
  <2>. QED
    BY <1>0, <2>1 DEF ChallengeStep
<1>2. CASE ChallengeExpires
  <2>1. PICK c \in Unexpired : challenges' = (challenges \ {c}) \cup {[c EXCEPT !.expired = TRUE]}
    BY <1>2 DEF ChallengeExpires
  <2>2. [c EXCEPT !.expired = TRUE].id = c.id
    BY <1>0 DEF ChallengeRows
  <2>3. \A x \in challenges' : \E d \in challenges : d.id = x.id
    BY <1>0, <2>1, <2>2
  <2>. QED
    BY <1>0, <1>2, <2>3 DEF ChallengeExpires, ChallengeStep
<1>3. CASE challenges' \subseteq challenges /\ issued' = issued
  BY <1>0, <1>3 DEF ChallengeStep
<1>4. CASE PasskeyLoginOptions \/ RegisterPasskeyOptions
  BY <1>1, <1>4 DEF PasskeyLoginOptions, RegisterPasskeyOptions
<1>5. ASSUME NEW id, ChallengeConsume(id) PROVE challenges' \subseteq challenges
  BY <1>5 DEF ChallengeConsume, Unexpired
<1>. QED
  BY <1>2, <1>3, <1>4, <1>5
     DEF PasskeysNext, SignInStep, PasskeyLoginVerify, PasskeyLookup, AdvancePasskeySignCount,
         PasskeySignIn, RecoveryLookup, VerifyAndUseRecoveryCode, RegisterPasskeyVerify,
         CreatePasskey, DeletePasskeyCheck, DeletePasskey, GenerateRecoveryCodes, DisableCheck,
         DisablePasswordLogin, EnablePasswordLogin, ResetPasskeysAndEnablePassword,
         DeleteAccount, passkeyVars

(* Logins and handlers keep their shapes.                                  *)
LEMMA RequestersKeep ==
  ASSUME PasskeyTables, CodesInv, [PasskeysNext]_passkeyVars PROVE Requesters'
<1>0. LoginStep /\ Requesters
  BY LoginsMove DEF PasskeyTables
<1>1. login' \in [Logins -> LoginShape]
  BY <1>0 DEF LoginStep, LoginMove, Requesters
<1>2. granted' \in Seq(GrantShape)
  <2>1. ASSUME NEW l \in Logins, login[l].pc = "create"
        PROVE  Grant(login[l]) \in GrantShape
    <3>1. login[l] \in CreateShape
      BY <1>0, <2>1, LoginByPlace DEF Requesters
    <3>. QED
      BY <3>1 DEF CreateShape, Grant, GrantShape
  <2>2. granted \in Seq(GrantShape)
    BY <1>0 DEF Requesters
  <2>3. CASE granted' = granted
    BY <2>2, <2>3
  <2>4. ASSUME NEW l \in Logins, login[l].pc = "create",
               granted' = Append(granted, Grant(login[l]))
        PROVE  granted' \in Seq(GrantShape)
    <3>1. Grant(login[l]) \in GrantShape
      BY <2>1, <2>4
    <3>. QED
      BY <2>2, <2>4, <3>1, AppendProperties
  <2>. QED
    BY <1>0, <2>3, <2>4 DEF LoginStep, LoginMove, Ends, Consumes, Finds, Counts, SignsIn
<1>3. account' \in HandlerShape
  <2>0. /\ account \in HandlerShape /\ NoHandler \in HandlerShape /\ exists \subseteq PasskeyUsers
        /\ \A p \in passkeys : p.serial \in 1..MaxRegistrations
    BY DEF PasskeyTables, Requesters, HandlerShape, KeyTable, PasskeyRows
  <2>1. CASE RegisterPasskeyVerify
    <3>1. ASSUME NEW u \in PasskeyUsers, NEW k \in Credentials, NEW n \in 0..MaxCount
          PROVE  [op |-> "register", user |-> u, cred |-> k, count |-> n] \in HandlerShape
      BY DEF HandlerShape, RegisterShape
    <3>. QED
      BY <2>0, <2>1, <3>1 DEF RegisterPasskeyVerify
  <2>2. CASE DeletePasskeyCheck
    <3>1. ASSUME NEW u \in PasskeyUsers, NEW i \in 1..MaxRegistrations
          PROVE  [op |-> "delete", user |-> u, serial |-> i] \in HandlerShape
      BY DEF HandlerShape, DeleteShape
    <3>. QED
      BY <2>0, <2>2, <3>1 DEF DeletePasskeyCheck
  <2>3. CASE DisableCheck
    <3>1. ASSUME NEW u \in PasskeyUsers
          PROVE  [op |-> "disable", user |-> u] \in HandlerShape
      BY DEF HandlerShape, DisableShape
    <3>. QED
      BY <2>0, <2>3, <3>1 DEF DisableCheck
  <2>. QED
    BY <2>0, <2>1, <2>2, <2>3
       DEF PasskeysNext, SignInStep, PasskeyLoginVerify, PasskeyLookup, AdvancePasskeySignCount,
           PasskeySignIn, RecoveryLookup, VerifyAndUseRecoveryCode, PasskeyLoginOptions,
           ChallengeExpires, RegisterPasskeyOptions, CreatePasskey, DeletePasskey,
           GenerateRecoveryCodes, DisablePasswordLogin, EnablePasswordLogin,
           ResetPasskeysAndEnablePassword, DeleteAccount, passkeyVars
<1>. QED
  BY <1>1, <1>2, <1>3 DEF Requesters

(* The tables are inductive, given the recovery codes.                     *)
LEMMA TablesKeep ==
  PasskeyTables /\ CodesInv /\ [PasskeysNext]_passkeyVars => PasskeyTables'
  BY ChallengeTableKeep, KeyTableKeep, RequestersKeep DEF PasskeyTables

-----------------------------------------------------------------------------
(* The deletion of a passkey of an account with at least two leaves one. *)
LEMMA OneIsLeft ==
  ASSUME NEW S, Cardinality(S) > 1, NEW x PROVE S \ {x} # {}
<1>1. S \ {x} = {} => S = {} \/ S = {x}
  OBVIOUS
<1>2. Cardinality({}) = 0 /\ Cardinality({x}) = 1
  BY FS_EmptySet, FS_Singleton
<1>. QED
  BY <1>1, <1>2

(* Passwords are enabled at the start.                                     *)
LEMMA NoLockoutStart == PasskeysInit => NoLockout
  BY DEF PasskeysInit, NoLockout

(* Whoever deletes a passkey or disables passwords leaves another way to   *)
(* log in: the check and the change are one transaction.                   *)
LEMMA NoLockoutKeep ==
  PasskeyTables /\ NoLockout /\ [PasskeysNext]_passkeyVars => NoLockout'
<1> SUFFICES ASSUME PasskeyTables, NoLockout, [PasskeysNext]_passkeyVars,
                    NEW v \in exists', disabled'[v]
             PROVE  \E p \in passkeys' : p.user = v
  BY DEF NoLockout, Of
<1>0. /\ exists \subseteq PasskeyUsers /\ disabled \in [PasskeyUsers -> BOOLEAN]
      /\ passkeys \subseteq PasskeyRows
      /\ \A p, q \in passkeys : p.serial = q.serial => p = q
  BY DEF PasskeyTables, KeyTable
<1>h. ASSUME v \in exists, disabled[v] PROVE \E p \in passkeys : p.user = v
  BY <1>h DEF NoLockout, Of
<1>1. CASE DeletePasskey
  <2>1. v \in exists /\ disabled[v]
    BY <1>1 DEF DeletePasskey
  <2>2. CASE v # account.user
    <3>1. PICK p \in passkeys : p.user = v
      BY <1>h, <2>1
    <3>. QED
      BY <1>1, <2>2, <3>1 DEF DeletePasskey
  <2>3. CASE v = account.user /\ ~(Cardinality(Of(v)) > 1)
    <3>1. PICK p \in passkeys : p.user = v
      BY <1>h, <2>1
    <3>. QED
      BY <1>1, <2>1, <2>3, <3>1 DEF DeletePasskey
  <2>4. CASE v = account.user /\ Cardinality(Of(v)) > 1
    <3>1. PICK x : x \in Of(v) /\ x.serial # account.serial
      <4>1. CASE \E y \in Of(v) : y.serial = account.serial
        <5>1. PICK y \in Of(v) : y.serial = account.serial
          BY <4>1
        <5>2. Of(v) \ {y} # {}
          BY <2>4, OneIsLeft
        <5>. QED
          BY <1>0, <5>1, <5>2 DEF Of
      <4>2. CASE ~ \E y \in Of(v) : y.serial = account.serial
        <5>1. Of(v) # {}
          BY <1>h, <2>1 DEF Of
        <5>. QED
          BY <4>2, <5>1
      <4>. QED
        BY <4>1, <4>2
    <3>. QED
      BY <1>1, <3>1 DEF DeletePasskey, Of
  <2>. QED
    BY <2>2, <2>3, <2>4
<1>2. CASE CreatePasskey
  <2>1. v \in exists /\ disabled[v] /\ passkeys \subseteq passkeys'
    BY <1>2 DEF CreatePasskey
  <2>. QED
    BY <1>h, <2>1
<1>3. ASSUME NEW l \in Logins, AdvancePasskeySignCount(l)
      PROVE  \E p \in passkeys' : p.user = v
  <2>1. v \in exists /\ disabled[v] /\ registrations' = registrations /\ account' = account
    BY <1>3 DEF AdvancePasskeySignCount
  <2>2. PICK p \in passkeys : p.user = v
    BY <1>h, <2>1
  <2>3. CASE p \in passkeys'
    BY <2>2, <2>3
  <2>4. CASE p \notin passkeys'
    <3> DEFINE row == {q \in passkeys : q.cred = login[l].cred /\ Advances(q.count, login[l].count)}
    <3>1. row # {}
      BY <1>3, <2>4 DEF AdvancePasskeySignCount
    <3> DEFINE q == CHOOSE q \in row : TRUE
    <3>2. passkeys' = (passkeys \ {q}) \cup {[q EXCEPT !.count = login[l].count]}
      BY <1>3, <3>1 DEF AdvancePasskeySignCount
    <3> HIDE DEF q
    <3>3. p = q
      BY <2>4, <3>2
    <3>4. [q EXCEPT !.count = login[l].count].user = v
      BY <1>0, <2>2, <3>3 DEF PasskeyRows
    <3>. QED
      BY <3>2, <3>4
  <2>. QED
    BY <2>3, <2>4
<1>4. CASE DisablePasswordLogin
  BY <1>0, <1>4, <1>h DEF DisablePasswordLogin, Of
<1>5. CASE EnablePasswordLogin
  BY <1>0, <1>5, <1>h DEF EnablePasswordLogin
<1>6. CASE ResetPasskeysAndEnablePassword
  BY <1>0, <1>6, <1>h DEF ResetPasskeysAndEnablePassword, Of
<1>7. CASE DeleteAccount
  BY <1>0, <1>7, <1>h DEF DeleteAccount, Of
<1>8. CASE UNCHANGED <<exists, disabled, passkeys>>
  BY <1>8, <1>h
<1>. QED
  BY <1>1, <1>2, <1>3, <1>4, <1>5, <1>6, <1>7, <1>8
     DEF PasskeysNext, SignInStep, PasskeyLoginVerify, PasskeyLookup, PasskeySignIn,
         RecoveryLookup, VerifyAndUseRecoveryCode, PasskeyLoginOptions, ChallengeExpires,
         RegisterPasskeyOptions, RegisterPasskeyVerify, DeletePasskeyCheck,
         GenerateRecoveryCodes, DisableCheck, passkeyVars

(* Whatever requests run, an account whose password login is disabled has *)
(* a passkey.                                                             *)
THEOREM NoLockoutHolds == PasskeysSpec => []NoLockout
<1> DEFINE Inv == CodesInv /\ PasskeyTables /\ NoLockout
<1>1. PasskeysInit => Inv
  BY CodesStart, TablesStart, NoLockoutStart
<1>2. Inv /\ [PasskeysNext]_passkeyVars => Inv'
  BY CodesKeep, TablesKeep, NoLockoutKeep
<1>. QED
  BY <1>1, <1>2, PTL DEF PasskeysSpec

-----------------------------------------------------------------------------
(* A consumed challenge is no longer in the table and is held by one       *)
(* request, or has granted one sign-in.                                    *)
SpentOnce ==
  /\ \A c \in challenges : c.id <= issued
  /\ \A l \in Logins : InFlight(login[l]) =>
       /\ Spent(login[l]) \in Nat /\ Spent(login[l]) <= issued
       /\ \A c \in challenges : c.id # Spent(login[l])
  /\ \A l, m \in Logins :
       InFlight(login[l]) /\ InFlight(login[m]) /\ Spent(login[l]) = Spent(login[m]) => l = m
GrantedOnce ==
  /\ \A i \in 1..Len(granted) :
       /\ granted[i].challenge \in Nat /\ granted[i].challenge <= issued
       /\ \A c \in challenges : c.id # granted[i].challenge
       /\ \A l \in Logins : InFlight(login[l]) => Spent(login[l]) # granted[i].challenge
  /\ ChallengeOnce

(* Nothing has been spent at the start.                                    *)
LEMMA SpentStart == PasskeysInit => SpentOnce /\ GrantedOnce
  BY NoLoginShape DEF PasskeysInit, SpentOnce, GrantedOnce, ChallengeOnce, InFlight

(* Challenges are numbered.                                                *)
LEMMA ChallengeIds ==
  ASSUME PasskeyTables PROVE \A c \in challenges : c.id \in Nat
  BY DEF PasskeyTables, ChallengeTable, ChallengeRows, Challenges

(* A consumed challenge is gone, so it is not consumed again.              *)
LEMMA SpentKeep ==
  ASSUME PasskeyTables, CodesInv, SpentOnce, [PasskeysNext]_passkeyVars PROVE SpentOnce'
<1>0. LoginStep /\ ChallengeStep /\ (\A c \in challenges : c.id \in Nat)
      /\ login \in [Logins -> LoginShape]
  BY LoginsMove, ChallengesMove, ChallengeIds DEF PasskeyTables, Requesters
<1>1. \A c \in challenges' : c.id <= issued'
  BY <1>0 DEF ChallengeStep, SpentOnce
<1>2. ASSUME NEW n \in Nat, n <= issued, \A c \in challenges : c.id # n
      PROVE  n <= issued' /\ \A c \in challenges' : c.id # n
  BY <1>0, <1>2 DEF ChallengeStep
<1>3. CASE login' = login
  BY <1>1, <1>2, <1>3 DEF SpentOnce
<1>4. ASSUME NEW l \in Logins, NEW q, login' = [login EXCEPT ![l] = q],
             InFlight(q) => InFlight(login[l]) /\ Spent(q) = Spent(login[l])
      PROVE  SpentOnce'
  <2>1. \A m \in Logins : InFlight(login'[m]) =>
          InFlight(login[m]) /\ Spent(login'[m]) = Spent(login[m])
    BY <1>0, <1>4
  <2>. QED
    BY <1>1, <1>2, <2>1 DEF SpentOnce
<1>5. ASSUME NEW l \in Logins, NEW q, login' = [login EXCEPT ![l] = q], Consumes(l, q)
      PROVE  SpentOnce'
  <2>1. PICK c \in challenges : c.id = Spent(q)
    BY <1>5 DEF Consumes
  <2>2. Spent(q) \in Nat /\ Spent(q) <= issued'
    BY <1>0, <2>1 DEF ChallengeStep, SpentOnce
  <2>3. \A m \in Logins : m # l => login'[m] = login[m]
    BY <1>0, <1>5
  <2>4. login'[l] = q /\ \A d \in challenges' : d.id # Spent(q)
    BY <1>0, <1>5 DEF Consumes
  <2>5. \A m \in Logins : InFlight(login[m]) => Spent(login[m]) # Spent(q)
    BY <2>1 DEF SpentOnce
  <2>. QED
    BY <1>1, <1>2, <2>2, <2>3, <2>4, <2>5 DEF SpentOnce
<1>6. ASSUME NEW l \in Logins, NEW q \in LoginShape, LoginMove(l, q) PROVE SpentOnce'
  <2>1. CASE Consumes(l, q)
    BY <1>5, <1>6, <2>1 DEF LoginMove
  <2>2. CASE ~Consumes(l, q)
    <3>1. InFlight(q) => InFlight(login[l]) /\ Spent(q) = Spent(login[l])
      BY <1>6, <2>2 DEF LoginMove, Ends, Finds, Counts, SignsIn, InFlight
    <3>. QED
      BY <1>4, <1>6, <3>1 DEF LoginMove
  <2>. QED
    BY <2>1, <2>2
<1>. QED
  BY <1>0, <1>3, <1>6 DEF LoginStep

(* A login is granted for a challenge that it alone consumed.              *)
LEMMA GrantedKeep ==
  ASSUME PasskeyTables, CodesInv, SpentOnce, GrantedOnce, [PasskeysNext]_passkeyVars
  PROVE  GrantedOnce'
<1>0. LoginStep /\ ChallengeStep /\ (\A c \in challenges : c.id \in Nat)
      /\ login \in [Logins -> LoginShape] /\ granted \in Seq(GrantShape)
  BY LoginsMove, ChallengesMove, ChallengeIds DEF PasskeyTables, Requesters
<1>1. ASSUME NEW n \in Nat, n <= issued, \A c \in challenges : c.id # n
      PROVE  n <= issued' /\ \A c \in challenges' : c.id # n
  BY <1>0, <1>1 DEF ChallengeStep
<1>2. ASSUME NEW n \in Nat, n <= issued, \A c \in challenges : c.id # n,
             \A l \in Logins : InFlight(login[l]) => Spent(login[l]) # n
      PROVE  \A l \in Logins : InFlight(login'[l]) => Spent(login'[l]) # n
  <2>1. CASE login' = login
    BY <1>2, <2>1
  <2>2. ASSUME NEW l \in Logins, NEW q \in LoginShape, LoginMove(l, q)
        PROVE  \A m \in Logins : InFlight(login'[m]) => Spent(login'[m]) # n
    <3>1. InFlight(q) => Spent(q) # n
      BY <1>2, <2>2 DEF LoginMove, Ends, Consumes, Finds, Counts, SignsIn, InFlight
    <3>. QED
      BY <1>0, <1>2, <2>2, <3>1 DEF LoginMove
  <2>. QED
    BY <1>0, <2>1, <2>2 DEF LoginStep
<1>3. CASE granted' = granted
  BY <1>1, <1>2, <1>3 DEF GrantedOnce, ChallengeOnce
<1>4. ASSUME NEW l \in Logins, NEW q \in LoginShape, login' = [login EXCEPT ![l] = q],
             SignsIn(l, q)
      PROVE  GrantedOnce'
  <2> DEFINE g == Grant(login[l])
  <2>1. g.challenge = Spent(login[l]) /\ InFlight(login[l]) /\ ~InFlight(q)
    BY <1>4 DEF SignsIn, Grant, Spent, InFlight
  <2>2. g.challenge \in Nat /\ g.challenge <= issued /\ \A c \in challenges : c.id # g.challenge
    BY <2>1 DEF SpentOnce
  <2>3. \A m \in Logins : InFlight(login'[m]) => Spent(login'[m]) # g.challenge
    BY <1>0, <1>4, <2>1 DEF SpentOnce
  <2>4. \A i \in 1..Len(granted) : granted[i].challenge # g.challenge
    BY <2>1 DEF GrantedOnce
  <2>5. /\ Len(granted') = Len(granted) + 1 /\ granted'[Len(granted) + 1] = g
        /\ \A i \in 1..Len(granted) : granted'[i] = granted[i]
        /\ Len(granted) \in Nat
    BY <1>0, <1>4 DEF SignsIn
  <2> HIDE DEF g
  <2>6. \A i \in 1..Len(granted') :
          \/ i \in 1..Len(granted) /\ granted'[i] = granted[i]
          \/ i = Len(granted) + 1 /\ granted'[i] = g
    BY <2>5
  <2>7. \A i \in 1..Len(granted') :
          /\ granted'[i].challenge \in Nat /\ granted'[i].challenge <= issued'
          /\ \A c \in challenges' : c.id # granted'[i].challenge
          /\ \A m \in Logins : InFlight(login'[m]) => Spent(login'[m]) # granted'[i].challenge
    BY <1>1, <1>2, <2>2, <2>3, <2>6 DEF GrantedOnce
  <2>8. \A i, j \in 1..Len(granted') : granted'[i].challenge = granted'[j].challenge => i = j
    BY <2>4, <2>6 DEF GrantedOnce, ChallengeOnce
  <2>. QED
    BY <2>7, <2>8 DEF GrantedOnce, ChallengeOnce
<1>. QED
  BY <1>0, <1>3, <1>4 DEF LoginStep, LoginMove, Ends, Consumes, Finds, Counts

-----------------------------------------------------------------------------
(* The stored counter of a registration is not below a counter that was    *)
(* accepted for it, and no positive one was accepted twice, counting the   *)
(* requests that still have to get their session.                          *)
Clash(x, y) == x.serial = y.serial /\ x.count = y.count /\ x.count # 0
Covered(x) ==
  /\ x.serial \in Nat /\ x.serial <= registrations /\ x.count \in Nat
  /\ \A p \in passkeys : p.serial = x.serial => x.count <= p.count
CountersInv ==
  /\ \A l \in Logins : login[l].pc = "create" => Covered(login[l])
  /\ \A l, m \in Logins :
       login[l].pc = "create" /\ login[m].pc = "create" /\ Clash(login[l], login[m]) => l = m
  /\ \A i \in 1..Len(granted) : Covered(granted[i])
  /\ \A i \in 1..Len(granted), l \in Logins :
       login[l].pc = "create" => ~Clash(granted[i], login[l])
  /\ CounterOnce

(* No counter was presented at the start.                                  *)
LEMMA CountersStart == PasskeysInit => CountersInv
  BY NoLoginShape DEF PasskeysInit, CountersInv, CounterOnce

(* What is covered stays so, whatever happens to the passkeys. *)
LEMMA StaysCovered ==
  ASSUME PasskeyTables, [PasskeysNext]_passkeyVars
  PROVE  \A x : Covered(x) =>
           /\ x.serial \in Nat /\ x.serial <= registrations' /\ x.count \in Nat
           /\ \A p \in passkeys' : p.serial = x.serial => x.count <= p.count
<1> SUFFICES ASSUME NEW x, Covered(x)
             PROVE  /\ x.serial \in Nat /\ x.serial <= registrations' /\ x.count \in Nat
                    /\ \A p \in passkeys' : p.serial = x.serial => x.count <= p.count
  OBVIOUS
<1>0. /\ KeyStep /\ passkeys \subseteq PasskeyRows /\ registrations \in Nat
      /\ \A p \in passkeys : p.count \in Nat
  BY KeysMove DEF PasskeyTables, KeyTable, PasskeyRows
<1>1. CASE passkeys' \subseteq passkeys /\ registrations' = registrations
  BY <1>1 DEF Covered
<1>2. ASSUME NEW l \in Logins, NEW p \in passkeys,
             login[l].pc = "advance", Advances(p.count, login[l].count),
             passkeys' = (passkeys \ {p}) \cup {Advanced(p, login[l].count)},
             registrations' = registrations
      PROVE  /\ x.serial \in Nat /\ x.serial <= registrations' /\ x.count \in Nat
             /\ \A q \in passkeys' : q.serial = x.serial => x.count <= q.count
  <2>1. login[l].count \in 0..MaxCount
    <3>1. login[l] \in AdvanceShape
      BY <1>2, LoginByPlace DEF PasskeyTables, Requesters
    <3>. QED
      BY <3>1 DEF AdvanceShape
  <2>2. Advanced(p, login[l].count).serial = p.serial
        /\ Advanced(p, login[l].count).count = login[l].count
    BY <1>0, <2>1, AdvancedRow
  <2>3. p.count <= login[l].count
    BY <1>0, <1>2, <2>1 DEF Advances
  <2>. QED
    BY <1>0, <1>2, <2>1, <2>2, <2>3 DEF Covered
<1>3. ASSUME registrations' = registrations + 1,
             passkeys' = passkeys \cup {[cred |-> account.cred, serial |-> registrations + 1,
                                         user |-> account.user, count |-> account.count]}
      PROVE  /\ x.serial \in Nat /\ x.serial <= registrations' /\ x.count \in Nat
             /\ \A p \in passkeys' : p.serial = x.serial => x.count <= p.count
  <2> DEFINE e == [cred |-> account.cred, serial |-> registrations + 1,
                   user |-> account.user, count |-> account.count]
  <2>1. passkeys' = passkeys \cup {e} /\ e.serial = registrations + 1
    BY <1>3
  <2> HIDE DEF e
  <2>. QED
    BY <1>0, <1>3, <2>1 DEF Covered
<1>. QED
  BY <1>0, <1>1, <1>2, <1>3 DEF KeyStep

(* Counters accepted for one passkey only grow.                            *)
LEMMA CountersKeep ==
  ASSUME PasskeyTables, CodesInv, CountersInv, [PasskeysNext]_passkeyVars PROVE CountersInv'
<1> DEFINE CoveredNext(x) ==
             /\ x.serial \in Nat /\ x.serial <= registrations' /\ x.count \in Nat
             /\ \A p \in passkeys' : p.serial = x.serial => x.count <= p.count
<1>0. /\ LoginStep /\ (\A x : Covered(x) => CoveredNext(x))
      /\ login \in [Logins -> LoginShape] /\ granted \in Seq(GrantShape)
  BY LoginsMove, StaysCovered DEF PasskeyTables, Requesters
<1>i. ASSUME \A l \in Logins : login'[l].pc = "create" => CoveredNext(login'[l]),
             \A i \in 1..Len(granted') : CoveredNext(granted'[i]),
             \A l, m \in Logins : login'[l].pc = "create" /\ login'[m].pc = "create"
                                  /\ Clash(login'[l], login'[m]) => l = m,
             \A i \in 1..Len(granted'), l \in Logins :
               login'[l].pc = "create" => ~Clash(granted'[i], login'[l]),
             \A i, j \in 1..Len(granted') : Clash(granted'[i], granted'[j]) => i = j
      PROVE  CountersInv'
  BY <1>i DEF CountersInv, Covered, Clash, CounterOnce
<1>c. \A i, j \in 1..Len(granted) : Clash(granted[i], granted[j]) => i = j
  BY DEF CountersInv, CounterOnce, Clash
<1>1. CASE login' = login /\ granted' = granted
  BY <1>0, <1>1, <1>c, <1>i DEF CountersInv
<1>2. ASSUME NEW l \in Logins, NEW q \in LoginShape, login' = [login EXCEPT ![l] = q],
             q.pc # "create", granted' = granted
      PROVE  CountersInv'
  <2>1. \A m \in Logins : login'[m].pc = "create" => login'[m] = login[m] /\ login[m].pc = "create"
    BY <1>0, <1>2
  <2>. QED
    BY <1>0, <1>2, <2>1, <1>c, <1>i DEF CountersInv
<1>3. ASSUME NEW l \in Logins, NEW q \in LoginShape, login' = [login EXCEPT ![l] = q],
             Counts(l, q)
      PROVE  CountersInv'
  <2>1. PICK p \in passkeys : /\ q.serial = p.serial /\ Advances(p.count, q.count)
                              /\ passkeys' = (passkeys \ {p}) \cup {Advanced(p, q.count)}
    BY <1>3 DEF Counts
  <2>2. q.serial \in Nat /\ q.count \in 0..MaxCount
    <3>1. q \in CreateShape
      BY <1>3, LoginByPlace DEF Counts
    <3>. QED
      BY <3>1 DEF CreateShape
  <2>3. /\ p \in PasskeyRows /\ p.count \in Nat
        /\ \A r \in passkeys : r.serial = p.serial => r = p
        /\ p.serial <= registrations /\ registrations' = registrations
    <3>1. registrations' = registrations
      BY <1>3 DEF Counts
    <3>. QED
      BY <3>1 DEF PasskeyTables, KeyTable, PasskeyRows
  <2>4. Advanced(p, q.count).serial = p.serial /\ Advanced(p, q.count).count = q.count
    BY <2>2, <2>3, AdvancedRow
  <2>5. CoveredNext(q)
    BY <2>1, <2>2, <2>3, <2>4
  <2>6. ASSUME NEW x, Covered(x) PROVE ~Clash(x, q) /\ ~Clash(q, x)
    BY <2>1, <2>2, <2>3, <2>6 DEF Covered, Clash, Advances
  <2>7. \A m \in Logins : m # l => login'[m] = login[m]
    BY <1>0, <1>3
  <2>8. login'[l] = q /\ granted' = granted
    BY <1>0, <1>3 DEF Counts
  <2> HIDE DEF CoveredNext
  <2>. QED
    BY <1>0, <1>c, <1>i, <2>5, <2>6, <2>7, <2>8 DEF CountersInv
<1>4. ASSUME NEW l \in Logins, NEW q \in LoginShape, login' = [login EXCEPT ![l] = q],
             SignsIn(l, q)
      PROVE  CountersInv'
  <2> DEFINE g == Grant(login[l])
  <2>1. login[l].pc = "create" /\ q.pc # "create"
    BY <1>4 DEF SignsIn
  <2>2. g.serial = login[l].serial /\ g.count = login[l].count
    BY DEF Grant
  <2>3. /\ Len(granted') = Len(granted) + 1 /\ granted'[Len(granted) + 1] = g
        /\ \A i \in 1..Len(granted) : granted'[i] = granted[i]
        /\ Len(granted) \in Nat
    BY <1>0, <1>4 DEF SignsIn
  <2> HIDE DEF g
  <2>4. \A i \in 1..Len(granted') :
          \/ i \in 1..Len(granted) /\ granted'[i] = granted[i]
          \/ i = Len(granted) + 1 /\ granted'[i] = g
    BY <2>3
  <2>5. \A m \in Logins : login'[m].pc = "create" =>
          login'[m] = login[m] /\ login[m].pc = "create" /\ m # l
    BY <1>0, <1>4, <2>1
  <2>6. Covered(g)
    BY <2>1, <2>2 DEF CountersInv, Covered
  <2>7. /\ \A i \in 1..Len(granted) : ~Clash(granted[i], g) /\ ~Clash(g, granted[i])
        /\ \A m \in Logins : m # l /\ login[m].pc = "create" => ~Clash(g, login[m])
    BY <2>1, <2>2 DEF CountersInv, Clash
  <2> HIDE DEF CoveredNext
  <2>8. \A i \in 1..Len(granted') : CoveredNext(granted'[i])
    BY <1>0, <2>4, <2>6 DEF CountersInv
  <2>9. \A i, j \in 1..Len(granted') : Clash(granted'[i], granted'[j]) => i = j
    BY <1>c, <2>4, <2>7
  <2>10. \A i \in 1..Len(granted'), m \in Logins :
           login'[m].pc = "create" => ~Clash(granted'[i], login'[m])
    BY <2>4, <2>5, <2>7 DEF CountersInv
  <2>11. /\ \A m \in Logins : login'[m].pc = "create" => CoveredNext(login'[m])
         /\ \A k, m \in Logins : login'[k].pc = "create" /\ login'[m].pc = "create"
                                 /\ Clash(login'[k], login'[m]) => k = m
    BY <1>0, <2>5 DEF CountersInv
  <2>. QED
    BY <1>i, <2>8, <2>9, <2>10, <2>11
<1>. QED
  BY <1>0, <1>1, <1>2, <1>3, <1>4
     DEF LoginStep, LoginMove, Ends, Consumes, Finds

(* Whatever requests present them, and whenever: a challenge grants one    *)
(* sign-in, a positive counter of a registration one, a recovery code one. *)
THEOREM OneTimeCredentialsHolds == PasskeysSpec => []OneTimeCredentials
<1> DEFINE Inv == CodesInv /\ PasskeyTables /\ SpentOnce /\ GrantedOnce /\ CountersInv
<1>1. PasskeysInit => Inv
  BY CodesStart, TablesStart, SpentStart, CountersStart
<1>2. Inv /\ [PasskeysNext]_passkeyVars => Inv'
  BY CodesKeep, TablesKeep, SpentKeep, GrantedKeep, CountersKeep
<1>3. Inv => OneTimeCredentials
  BY DEF CodesInv, GrantedOnce, CountersInv, OneTimeCredentials
<1>. QED
  BY <1>1, <1>2, <1>3, PTL DEF PasskeysSpec

-----------------------------------------------------------------------------
(* The login limiter bounds the attempts of one window. *)
(* AdmissionsBounded is not inductive alone: that an entry which admits an *)
(* attempt has admitted few so far follows from AdmittedAccounted.         *)
LimiterInv == LimiterTypeOK /\ AdmittedAccounted /\ AdmissionsBounded

(* What a step has to show of an entry. *)
Sound(e) ==
  /\ e \in Entry
  /\ e.admitted <= e.inFlight + e.failures /\ e.admitted <= 2 * MaxFailures - 1

(* The invariant, entry by entry. *)
LEMMA ByEntry ==
  LimiterInv <=> /\ Tracked \subseteq Keys
                 /\ items = [k \in Tracked |-> items[k]] /\ \A k \in Tracked : Sound(items[k])
                 /\ attempt \in [Attempts -> Keys \cup {NoKey}]
  BY DEF LimiterInv, LimiterTypeOK, AdmittedAccounted, AdmissionsBounded, Sound, Tracked

(* Pruning forgets entries and adds none. *)
LEMMA KeptIsTracked ==
  ASSUME NEW k PROVE Kept(k) \subseteq Tracked
  BY DEF Kept, Pruned

(* The record an Acquire writes. *)
LEMMA AdmitSound ==
  ASSUME NEW e \in Entry, Sound(e), e.failures < MaxFailures, e.inFlight < MaxFailures
  PROVE  Sound([e EXCEPT !.inFlight = @ + 1, !.admitted = @ + 1])
<1> DEFINE n == [e EXCEPT !.inFlight = @ + 1, !.admitted = @ + 1]
<1>1. /\ e.failures \in Nat /\ e.inFlight \in Nat /\ e.admitted \in Nat /\ MaxFailures \in Nat
      /\ e.admitted <= e.inFlight + e.failures
  BY LimiterAssumption DEF Entry, Sound
<1>2. n \in Entry
  <2>1. e.inFlight + 1 \in Nat /\ e.admitted + 1 \in Nat
    BY <1>1
  <2>. QED
    BY <2>1, Zenon DEF Entry
<1>3. n.failures = e.failures /\ n.inFlight = e.inFlight + 1 /\ n.admitted = e.admitted + 1
  BY DEF Entry
<1> HIDE DEF n
<1>4. n.admitted <= n.inFlight + n.failures /\ n.admitted <= 2 * MaxFailures - 1
  BY <1>1, <1>3
<1>5. Sound(n)
  BY <1>2, <1>4 DEF Sound
<1>. QED
  BY <1>5 DEF n

(* The record a failure writes. *)
LEMMA FailureSound ==
  ASSUME NEW e \in Entry, Sound(e)
  PROVE  Sound([e EXCEPT !.inFlight = Decrement(@), !.failures = @ + 1])
<1> DEFINE n == [e EXCEPT !.inFlight = Decrement(@), !.failures = @ + 1]
<1>1. /\ e.failures \in Nat /\ e.inFlight \in Nat /\ e.admitted \in Nat
      /\ e.admitted <= e.inFlight + e.failures /\ e.admitted <= 2 * MaxFailures - 1
  BY DEF Entry, Sound
<1>2. Decrement(e.inFlight) \in Nat /\ e.inFlight <= Decrement(e.inFlight) + 1
  BY <1>1 DEF Decrement
<1>3. n \in Entry
  <2>1. e.failures + 1 \in Nat
    BY <1>1
  <2>. QED
    BY <1>2, <2>1, Zenon DEF Entry
<1>4. /\ n.failures = e.failures + 1 /\ n.inFlight = Decrement(e.inFlight)
      /\ n.admitted = e.admitted
  BY DEF Entry
<1> HIDE DEF n
<1>5. n.admitted <= n.inFlight + n.failures /\ n.admitted <= 2 * MaxFailures - 1
  BY <1>1, <1>2, <1>4
<1>6. Sound(n)
  BY <1>3, <1>5 DEF Sound
<1>. QED
  BY <1>6 DEF n

(* The entry Acquire looks at is sound. *)
LEMMA CurrentSound ==
  ASSUME LimiterInv, NEW k \in Keys
  PROVE  Sound(Current(k))
<1>1. Sound(NewEntry)
  BY LimiterAssumption DEF Sound, NewEntry, Entry
<1>. QED
  BY <1>1, ByEntry DEF Current

(* Every step keeps the invariant. *)
LEMMA LimiterStep == LimiterInv /\ [LimiterNext]_limiterVars => LimiterInv'
<1> SUFFICES ASSUME LimiterInv, [LimiterNext]_limiterVars PROVE LimiterInv'
  OBVIOUS
<1>0. /\ Tracked \subseteq Keys /\ \A k \in Tracked : Sound(items[k])
      /\ attempt \in [Attempts -> Keys \cup {NoKey}]
  BY ByEntry
<1>1. ASSUME NEW a \in Attempts, Acquire(a) PROVE LimiterInv'
  <2>1. PICK k \in Keys :
          /\ Admits(k)
          /\ items' = [x \in Kept(k) \cup {k} |->
                        IF x # k THEN items[x]
                        ELSE [Current(k) EXCEPT !.inFlight = @ + 1, !.admitted = @ + 1]]
          /\ attempt' = [attempt EXCEPT ![a] = k]
    BY <1>1 DEF Acquire
  <2>2. Sound([Current(k) EXCEPT !.inFlight = @ + 1, !.admitted = @ + 1])
    BY <2>1, CurrentSound, AdmitSound DEF Admits, Sound
  <2>3. Tracked' = Kept(k) \cup {k} /\ Tracked' \subseteq Keys
    BY <1>0, <2>1, KeptIsTracked DEF Tracked
  <2>4. \A x \in Tracked' : Sound(items'[x])
    BY <1>0, <2>1, <2>2, <2>3, KeptIsTracked
  <2>5. attempt' \in [Attempts -> Keys \cup {NoKey}]
    BY <1>0, <2>1
  <2>. QED
    BY <2>1, <2>3, <2>4, <2>5 DEF LimiterInv, LimiterTypeOK, AdmittedAccounted,
       AdmissionsBounded, Sound, Tracked
<1>2. ASSUME NEW a \in Attempts, Refuse(a) PROVE LimiterInv'
  <2>1. PICK k \in Keys : items' = [x \in Kept(k) |-> items[x]] /\ attempt' = attempt
    BY <1>2 DEF Refuse
  <2>. QED
    BY <1>0, <2>1, KeptIsTracked DEF LimiterInv, LimiterTypeOK, AdmittedAccounted,
       AdmissionsBounded, Sound, Tracked
<1>3. ASSUME NEW a \in Attempts, ReleaseSuccess(a) PROVE LimiterInv'
  BY <1>0, <1>3 DEF ReleaseSuccess, LimiterInv, LimiterTypeOK, AdmittedAccounted,
     AdmissionsBounded, Sound, Tracked
<1>4. ASSUME NEW a \in Attempts, ReleaseFailure(a) PROVE LimiterInv'
  <2>1. Tracked' = Tracked
    BY <1>4 DEF ReleaseFailure, Tracked
  <2>2. \A x \in Tracked' : Sound(items'[x])
    BY <1>0, <1>4, <2>1, FailureSound DEF ReleaseFailure, Sound
  <2>3. attempt' \in [Attempts -> Keys \cup {NoKey}] /\ items' = [x \in Tracked' |-> items'[x]]
    BY <1>0, <1>4, <2>1 DEF ReleaseFailure
  <2>. QED
    BY <1>0, <2>1, <2>2, <2>3 DEF LimiterInv, LimiterTypeOK, AdmittedAccounted,
       AdmissionsBounded, Sound, Tracked
<1>5. CASE WindowPasses
  <2>1. PICK k \in Tracked : items' = [items EXCEPT ![k].passed = TRUE] /\ attempt' = attempt
    BY <1>5 DEF WindowPasses
  <2>2. \A e \in Entry : Sound(e) => Sound([e EXCEPT !.passed = TRUE])
    BY DEF Sound, Entry
  <2>3. Tracked' = Tracked /\ \A x \in Tracked : items'[x] = IF x = k
                                THEN [items[x] EXCEPT !.passed = TRUE] ELSE items[x]
    BY <2>1 DEF Tracked
  <2>4. \A x \in Tracked' : Sound(items'[x])
    BY <1>0, <2>2, <2>3 DEF Sound
  <2>5. items' = [x \in Tracked' |-> items'[x]]
    BY <2>1, <2>3, ByEntry
  <2>. QED
    BY <1>0, <2>1, <2>3, <2>4, <2>5 DEF LimiterInv, LimiterTypeOK, AdmittedAccounted,
       AdmissionsBounded, Sound, Tracked
<1>6. CASE UNCHANGED limiterVars
  BY <1>6 DEF limiterVars, LimiterInv, LimiterTypeOK, AdmittedAccounted, AdmissionsBounded,
     Tracked
<1>. QED
  BY <1>1, <1>2, <1>3, <1>4, <1>5, <1>6 DEF LimiterNext

(* One window admits fewer than twice the configured number of attempts.   *)
THEOREM AdmissionsBoundedHolds == LimiterSpec => []AdmissionsBounded
<1>1. LimiterInit => LimiterInv
  BY DEF LimiterInit, LimiterInv, LimiterTypeOK, AdmittedAccounted, AdmissionsBounded, Tracked
<1>2. LimiterInv => AdmissionsBounded
  BY DEF LimiterInv
<1>. QED
  BY <1>1, <1>2, LimiterStep, PTL DEF LimiterSpec
==============================================================================
