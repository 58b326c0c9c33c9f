---------------------------- MODULE AuthService ----------------------------
(***************************************************************************)
(* internal/service/auth.go with its handler, and the middleware in front  *)
(* of every other handler: POST /api/user/register and /login, one action  *)
(* per statement that reaches table users, and requests that present the   *)
(* cookie an earlier one was given.                                        *)
(*                                                                         *)
(* A token is signed and carries nothing but the id of its user: it is     *)
(* modelled by that id.  It outlives restarts and ends by its age alone.   *)
(***************************************************************************)
EXTENDS Integers

CONSTANTS
  Login,      \* user names
  Password,   \* a hash is modelled by the password it matches
  Request,    \* requests; also the ids (uuid.New) of the users they create
  NoUser      \* no row with this name, no user found, no token

User == [id : Request, password : Password]

ASSUME NoUserAssumption == NoUser \notin User /\ NoUser \notin Request

VARIABLES
  users,      \* table users: the row of a name
  pc,         \* the statement a request is at
  op,         \* which handler serves the request
  login,      \* the name it gives
  password,   \* the password it gives
  found,      \* newUser of Register, user of Login
  token,      \* the user a cookie names: the one set, the one presented
  err,        \* why the request ended
  reply       \* the status code sent, 0 before

request == <<op, login, password>>
vars    == <<users, pc, op, login, password, found, token, err, reply>>

Op  == {"register", "login", "protected"}
Err == {"none", "ErrUserConflict", "unique", "mismatch", "expired", "failed"}

(* A definition whose name ends in _Something is the one of that name with *)
(* a plausible bug; no specification uses it, it shows that a property     *)
(* would notice.                                                           *)

-----------------------------------------------------------------------------
(* The handlers                                                            *)

(* A body that does not bind (400) ends a request before the service, with *)
(* nothing changed.                                                        *)
Begin(r, o, l, p, first) ==
  /\ pc[r] = "idle"
  /\ pc'       = [pc EXCEPT ![r] = first]
  /\ op'       = [op EXCEPT ![r] = o]
  /\ login'    = [login EXCEPT ![r] = l]
  /\ password' = [password EXCEPT ![r] = p]
  /\ UNCHANGED <<users, found, token, err, reply>>

Register(r, l, p) == Begin(r, "register", l, p, "exists")

LogIn(r, l, p) == Begin(r, "login", l, p, "find")

(* Every error of Login is "invalid credentials" to the handler; of the    *)
(* errors of Register it knows ErrUserConflict.                            *)
StatusOf(o, e) ==
  CASE e = "none"            -> 200
    [] e = "ErrUserConflict" -> 409
    [] o = "register" /\ e \notin {"none", "ErrUserConflict"} -> 500
    [] o # "register" /\ e \notin {"none", "ErrUserConflict"} -> 401

Finish(r, e) ==
  /\ pc'    = [pc EXCEPT ![r] = "done"]
  /\ err'   = [err EXCEPT ![r] = e]
  /\ reply' = [reply EXCEPT ![r] = StatusOf(op[r], e)]

-----------------------------------------------------------------------------
(* The service, Register                                                   *)

UserExists(r) ==
  /\ pc[r] = "exists"
  /\ \/ /\ users[login[r]] # NoUser
        /\ Finish(r, "ErrUserConflict")
     \/ /\ users[login[r]] = NoUser
        /\ pc' = [pc EXCEPT ![r] = "create"]
        /\ UNCHANGED <<err, reply>>
  /\ UNCHANGED <<users, request, found, token>>

NewUser_NoPassword(r) == [id |-> r, password |-> NoUser]

NewUser(r) == [id |-> r, password |-> password[r]]

CreateUser_IgnoreConflict(r) ==
  /\ pc[r] = "create"
  /\ found' = [found EXCEPT ![r] = NewUser(r)]
  /\ users' = IF users[login[r]] = NoUser
              THEN [users EXCEPT ![login[r]] = NewUser(r)] ELSE users
  /\ pc' = [pc EXCEPT ![r] = "token"]
  /\ UNCHANGED <<err, reply>>
  /\ UNCHANGED <<request, token>>

(* The insert stores the row -- its answer may get lost, and the request   *)
(* ends with an error -- or finds the name taken since UserExists.         *)
CreateUser(r) ==
  /\ pc[r] = "create"
  /\ found' = [found EXCEPT ![r] = NewUser(r)]
  /\ \/ /\ users[login[r]] = NoUser
        /\ users' = [users EXCEPT ![login[r]] = NewUser(r)]
        /\ \/ pc' = [pc EXCEPT ![r] = "token"] /\ UNCHANGED <<err, reply>>
           \/ Finish(r, "failed")
     \/ /\ users[login[r]] # NoUser
        /\ Finish(r, "unique")
        /\ UNCHANGED users
  /\ UNCHANGED <<request, token>>

-----------------------------------------------------------------------------
(* The service, Login                                                      *)

(* The request gave the name and the password of a row that is stored.     *)
Matches(r) ==
  /\ users[login[r]] # NoUser
  /\ users[login[r]].password = password[r]

GetUserByUsername_NoCompare(r) ==
  /\ pc[r] = "find"
  /\ users[login[r]] # NoUser
  /\ found' = [found EXCEPT ![r] = users[login[r]]]
  /\ pc' = [pc EXCEPT ![r] = "token"]
  /\ UNCHANGED <<users, request, token, err, reply>>

(* The comparison with the hash needs nothing but the row that was read.   *)
GetUserByUsername(r) ==
  /\ pc[r] = "find"
  /\ found' = [found EXCEPT ![r] = users[login[r]]]
  /\ \/ /\ Matches(r)
        /\ pc' = [pc EXCEPT ![r] = "token"]
        /\ UNCHANGED <<err, reply>>
     \/ /\ ~Matches(r)
        /\ Finish(r, "mismatch")
  /\ UNCHANGED <<users, request, token>>

-----------------------------------------------------------------------------
GenerateToken_RequestId(r) ==
  /\ pc[r] = "token"
  /\ token' = [token EXCEPT ![r] = r]
  /\ Finish(r, "none")
  /\ UNCHANGED <<users, request, found>>

(* Both end with a token for the user, and the cookie.                     *)
GenerateToken(r) ==
  /\ pc[r] = "token"
  /\ token' = [token EXCEPT ![r] = found[r].id]
  /\ Finish(r, "none")
  /\ UNCHANGED <<users, request, found>>

(* A statement, the hash or the signature fails; nothing is stored.        *)
Fail(r) ==
  /\ pc[r] \in {"exists", "create", "find", "token"}
  /\ Finish(r, "failed")
  /\ UNCHANGED <<users, request, found, token>>

(* RequireAuth: the cookie that request s was given is presented and names *)
(* the user the handler works for, unless the token has expired.           *)
RequireAuth(r, s) ==
  /\ pc[r] = "idle"
  /\ op[s] # "protected"
  /\ reply[s] = 200
  /\ op' = [op EXCEPT ![r] = "protected"]
  /\ pc' = [pc EXCEPT ![r] = "done"]
  /\ \/ /\ token' = [token EXCEPT ![r] = token[s]]
        /\ reply' = [reply EXCEPT ![r] = 200]
        /\ UNCHANGED err
     \/ /\ err' = [err EXCEPT ![r] = "expired"]
        /\ reply' = [reply EXCEPT ![r] = 401]
        /\ UNCHANGED token
  /\ UNCHANGED <<users, login, password, found>>

(* The process stops and starts again: what runs is never answered.        *)
Running(r) == pc[r] \in {"exists", "create", "find", "token"}

Restart ==
  /\ \E r \in Request : Running(r)
  /\ pc' = [r \in Request |-> IF Running(r) THEN "lost" ELSE pc[r]]
  /\ UNCHANGED <<users, request, found, token, err, reply>>

Init ==
  /\ users    = [l \in Login |-> NoUser]
  /\ pc       = [r \in Request |-> "idle"]
  /\ op       = [r \in Request |-> "protected"]
  /\ login    \in {[r \in Request |-> l] : l \in Login}
  /\ password \in {[r \in Request |-> p] : p \in Password}
  /\ found    = [r \in Request |-> NoUser]
  /\ token    = [r \in Request |-> NoUser]
  /\ err      = [r \in Request |-> "none"]
  /\ reply    = [r \in Request |-> 0]

Step(r) ==
  \/ \E l \in Login, p \in Password : Register(r, l, p) \/ LogIn(r, l, p)
  \/ UserExists(r) \/ CreateUser(r) \/ GetUserByUsername(r) \/ GenerateToken(r)
  \/ Fail(r)
  \/ \E s \in Request : RequireAuth(r, s)

Next == Restart \/ \E r \in Request : Step(r)

Spec == Init /\ [][Next]_vars

-----------------------------------------------------------------------------
(* Types of the variables.                                                 *)
TypeOK ==
  /\ users    \in [Login -> User \cup {NoUser}]
  /\ pc       \in [Request -> {"idle", "exists", "create", "find", "token",
                                "done", "lost"}]
  /\ op       \in [Request -> Op]
  /\ login    \in [Request -> Login]
  /\ password \in [Request -> Password]
  /\ found    \in [Request -> User \cup {NoUser}]
  /\ token    \in [Request -> Request \cup {NoUser}]
  /\ err      \in [Request -> Err]
  /\ reply    \in [Request -> {0, 200, 401, 409, 500}]

Answered(r, c) == op[r] # "protected" /\ reply[r] = c

(* Every row is the one that the registration with its id inserted.        *)
RowsAreRegistered ==
  \A l \in Login : users[l] # NoUser =>
    \E r \in Request :
      /\ users[l] = NewUser(r)
      /\ op[r] = "register"
      /\ login[r] = l
      /\ pc[r] \in {"token", "done", "lost"}
      /\ reply[r] # 409

(* What an answer says of the table, and goes on saying.                   *)
AnswerHolds(r) ==
  /\ pc[r] \in {"idle", "exists", "create", "find", "token"} => reply[r] = 0
  /\ reply[r] = 0 => token[r] = NoUser
  /\ pc[r] \in {"exists", "create"} => op[r] = "register"
  /\ pc[r] = "find" => op[r] = "login"
  /\ pc[r] = "token" =>
       /\ op[r] # "protected"
       /\ Matches(r)
       /\ found[r] = users[login[r]]
       /\ op[r] = "register" => found[r].id = r
  /\ Answered(r, 200) =>
       /\ Matches(r)
       /\ token[r] = users[login[r]].id
       /\ op[r] = "register" => token[r] = r
  /\ op[r] # "protected" /\ token[r] # NoUser => reply[r] = 200
  /\ reply[r] = 409 =>
       /\ op[r] = "register"
       /\ users[login[r]] # NoUser
       /\ users[login[r]].id # r

AnswersHold == \A r \in Request : AnswerHolds(r)

(* Whoever is let in by RequireAuth works for a user that is stored, and   *)
(* whose password was given by the one who got the cookie, in whatever     *)
(* order registrations and logins of the name ran, failed and were lost    *)
(* (service/auth.go:50-138, middleware/auth.go:34-61).                     *)
SessionsAreEarned ==
  \A r \in Request : token[r] # NoUser =>
    \E s \in Request :
      /\ Answered(s, 200)
      /\ Matches(s)
      /\ users[login[s]].id = token[r]

IInv == TypeOK /\ RowsAreRegistered /\ AnswersHold /\ SessionsAreEarned

(* SPECIFICATION.md:74: every login is unique.  However registrations of   *)
(* one login overlap (service/auth.go:51-75), one of them at most is       *)
(* answered 200; whoever logs in with it gave that one's password and gets *)
(* that one's account; and two logins never share an account.              *)
LoginsAreUnique ==
  \A r, s \in Request : Answered(r, 200) /\ Answered(s, 200) =>
    /\ login[r] = login[s] <=> token[r] = token[s]
    /\ login[r] = login[s] => password[r] = password[s]
    /\ login[r] = login[s] /\ op[r] = "register" /\ op[s] = "register" => r = s
=============================================================================
