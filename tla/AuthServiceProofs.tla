------------------------- MODULE AuthServiceProofs -------------------------
(***************************************************************************)
(* Registrations, logins and the sessions they open, for any number of     *)
(* names, passwords and concurrent requests.                               *)
(***************************************************************************)
EXTENDS AuthService, TLAPS

LEMMA NewUserIsUser ==
  ASSUME TypeOK, NEW r \in Request
  PROVE  /\ NewUser(r) \in User
         /\ NewUser(r) # NoUser
         /\ NewUser(r).id = r
         /\ NewUser(r).password = password[r]
BY NoUserAssumption DEF TypeOK, NewUser, User

LEMMA StatusIsKnown ==
  ASSUME NEW o, NEW e \in Err
  PROVE  /\ StatusOf(o, e) \in {200, 401, 409, 500}
         /\ StatusOf(o, e) = 200 <=> e = "none"
         /\ StatusOf(o, e) = 409 <=> e = "ErrUserConflict"
BY DEF StatusOf, Err

(* How a request ends.                                                     *)
LEMMA FinishEffect ==
  ASSUME TypeOK, NEW r \in Request, NEW e \in Err, Finish(r, e)
  PROVE  /\ pc' = [pc EXCEPT ![r] = "done"]
         /\ err' \in [Request -> Err]
         /\ reply' = [reply EXCEPT ![r] = StatusOf(op[r], e)]
         /\ reply' \in [Request -> {0, 200, 401, 409, 500}]
         /\ reply'[r] \in {200, 401, 409, 500}
         /\ reply'[r] = 200 <=> e = "none"
         /\ reply'[r] = 409 <=> e = "ErrUserConflict"
<1>1. StatusOf(op[r], e) \in {200, 401, 409, 500}
  BY StatusIsKnown
<1>2. reply'[r] = StatusOf(op[r], e)
  BY DEF TypeOK, Finish
<1> QED BY <1>1, <1>2, StatusIsKnown DEF TypeOK, Finish

-----------------------------------------------------------------------------
(* A token is made for a row that was found.                               *)
LEMMA TypeStep == IInv /\ [Next]_vars => TypeOK'
<1> SUFFICES ASSUME IInv, [Next]_vars
             PROVE  TypeOK'
  OBVIOUS
<1> USE DEF IInv
<1>1. ASSUME NEW r \in Request, NEW l \in Login, NEW p \in Password,
             Register(r, l, p) \/ LogIn(r, l, p)
      PROVE  TypeOK'
  BY <1>1 DEF TypeOK, Register, LogIn, Begin, Op
<1>2. ASSUME NEW r \in Request, UserExists(r)
      PROVE  TypeOK'
  <2>1. CASE Finish(r, "ErrUserConflict")
    BY <1>2, <2>1, FinishEffect DEF TypeOK, UserExists, request, Err
  <2>2. CASE pc' = [pc EXCEPT ![r] = "create"] /\ UNCHANGED <<err, reply>>
    BY <1>2, <2>2 DEF TypeOK, UserExists, request
  <2> QED BY <1>2, <2>1, <2>2 DEF UserExists
<1>3. ASSUME NEW r \in Request, CreateUser(r)
      PROVE  TypeOK'
  <2>1. /\ users' \in [Login -> User \cup {NoUser}]
        /\ found' \in [Request -> User \cup {NoUser}]
        /\ UNCHANGED <<op, login, password, token>>
    BY <1>3, NewUserIsUser DEF TypeOK, CreateUser, request
  <2>2. CASE pc' = [pc EXCEPT ![r] = "token"] /\ UNCHANGED <<err, reply>>
    BY <2>1, <2>2 DEF TypeOK
  <2>3. ASSUME NEW e \in Err, Finish(r, e)
        PROVE  TypeOK'
    BY <2>1, <2>3, FinishEffect DEF TypeOK
  <2> QED BY <1>3, <2>2, <2>3 DEF CreateUser, Err
<1>4. ASSUME NEW r \in Request, GetUserByUsername(r)
      PROVE  TypeOK'
  <2>1. /\ found' \in [Request -> User \cup {NoUser}]
        /\ UNCHANGED <<users, op, login, password, token>>
    BY <1>4 DEF TypeOK, GetUserByUsername, request
  <2>2. CASE pc' = [pc EXCEPT ![r] = "token"] /\ UNCHANGED <<err, reply>>
    BY <2>1, <2>2 DEF TypeOK
  <2>3. CASE Finish(r, "mismatch")
    BY <2>1, <2>3, FinishEffect DEF TypeOK, Err
  <2> QED BY <1>4, <2>2, <2>3 DEF GetUserByUsername
<1>5. ASSUME NEW r \in Request, Fail(r)
      PROVE  TypeOK'
  BY <1>5, FinishEffect DEF TypeOK, Fail, request, Err
<1>6. ASSUME NEW r \in Request, NEW s \in Request, RequireAuth(r, s)
      PROVE  TypeOK'
  BY <1>6 DEF TypeOK, RequireAuth, Op, Err
<1>7. CASE Restart
  BY <1>7 DEF TypeOK, Restart, request
<1>8. CASE UNCHANGED vars
  BY <1>8 DEF TypeOK, vars
<1>9. ASSUME NEW r \in Request, GenerateToken(r)
      PROVE  TypeOK'
  <2>1. found[r] \in User
    BY <1>9 DEF TypeOK, GenerateToken, AnswersHold, AnswerHolds, Matches
  <2>2. token' \in [Request -> Request \cup {NoUser}]
    BY <1>9, <2>1 DEF TypeOK, GenerateToken, User
  <2> QED BY <1>9, <2>2, FinishEffect DEF TypeOK, GenerateToken, request, Err
<1> QED BY <1>1, <1>2, <1>3, <1>4, <1>5, <1>6, <1>7, <1>8, <1>9 DEF Next, Step

-----------------------------------------------------------------------------
(* A row once stored stays; a new one is a registration's own.             *)
LEMMA RowsStay ==
  ASSUME IInv, [Next]_vars, NEW l \in Login
  PROVE  /\ users[l] # NoUser => users'[l] = users[l]
         /\ users'[l] # users[l] =>
              \E r \in Request :
                /\ pc[r] = "create"
                /\ l = login[r]
                /\ users'[l] = NewUser(r)
                /\ pc'[r] \in {"token", "done"}
                /\ reply'[r] # 409
<1>1. ASSUME NEW r \in Request, CreateUser(r), users'[l] # users[l]
      PROVE  /\ users[l] = NoUser
             /\ pc[r] = "create"
             /\ l = login[r]
             /\ users'[l] = NewUser(r)
             /\ pc'[r] \in {"token", "done"}
             /\ reply'[r] # 409
  <2>1. \/ pc' = [pc EXCEPT ![r] = "token"] /\ UNCHANGED <<err, reply>>
        \/ Finish(r, "failed")
    BY <1>1 DEF CreateUser
  <2>2. pc[r] = "create" /\ reply[r] = 0
    BY <1>1 DEF CreateUser, IInv, AnswersHold, AnswerHolds
  <2>3. CASE pc' = [pc EXCEPT ![r] = "token"] /\ UNCHANGED <<err, reply>>
    BY <1>1, <2>2, <2>3 DEF CreateUser, IInv, TypeOK
  <2>4. CASE Finish(r, "failed")
    BY <1>1, <2>2, <2>4, FinishEffect DEF CreateUser, IInv, TypeOK, Err
  <2> QED BY <2>1, <2>3, <2>4
<1>2. UNCHANGED users \/ \E r \in Request : CreateUser(r)
  BY DEF Next, Step, vars, Register, LogIn, Begin, UserExists, GetUserByUsername,
         GenerateToken, Fail, RequireAuth, Restart
<1> QED BY <1>1, <1>2

(* A step is one request's own.                                            *)
LEMMA OthersRest ==
  ASSUME IInv, NEW r \in Request, Step(r), NEW q \in Request, q # r
  PROVE  /\ pc'[q] = pc[q]
         /\ op'[q] = op[q]
         /\ login'[q] = login[q]
         /\ password'[q] = password[q]
         /\ found'[q] = found[q]
         /\ token'[q] = token[q]
         /\ reply'[q] = reply[q]
BY DEF IInv, TypeOK, Step, Register, LogIn, Begin, UserExists, CreateUser,
       GetUserByUsername, GenerateToken, Fail, RequireAuth, Finish, request

(* What a request that began keeps.                                        *)
LEMMA RequestsKeep ==
  ASSUME IInv, [Next]_vars, NEW q \in Request, pc[q] # "idle"
  PROVE  /\ pc'[q] # "idle"
         /\ op'[q] = op[q]
         /\ login'[q] = login[q]
         /\ password'[q] = password[q]
         /\ pc[q] \in {"token", "done", "lost"} =>
              /\ pc'[q] \in {"token", "done", "lost"}
              /\ reply'[q] \in {reply[q], 200, 401, 500}
         /\ reply[q] # 0 => reply'[q] = reply[q] /\ token'[q] = token[q]
<1>1. ASSUME Step(q)
      PROVE  /\ pc[q] \in {"exists", "create", "find", "token"}
             /\ pc'[q] # "idle"
             /\ op'[q] = op[q] /\ login'[q] = login[q] /\ password'[q] = password[q]
             /\ pc[q] = "token" => pc'[q] = "done" /\ reply'[q] \in {200, 401, 500}
  <2>1. /\ pc[q] \in {"exists", "create", "find", "token"}
        /\ pc'[q] # "idle"
        /\ op'[q] = op[q] /\ login'[q] = login[q] /\ password'[q] = password[q]
    BY <1>1 DEF IInv, TypeOK, Step, Register, LogIn, Begin, UserExists, CreateUser,
       GetUserByUsername, GenerateToken, Fail, RequireAuth, Finish, request
  <2>2. ASSUME pc[q] = "token"
        PROVE  Finish(q, "none") \/ Finish(q, "failed")
    BY <1>1, <2>2 DEF Step, Register, LogIn, Begin, UserExists, CreateUser,
       GetUserByUsername, GenerateToken, Fail, RequireAuth
  <2>3. ASSUME pc[q] = "token"
        PROVE  pc'[q] = "done" /\ reply'[q] \in {200, 401, 500}
    BY <2>2, <2>3, FinishEffect DEF IInv, TypeOK, Err
  <2> QED BY <2>1, <2>3
<1>2. pc[q] \in {"exists", "create", "find", "token"} => reply[q] = 0
  BY DEF IInv, AnswersHold, AnswerHolds
<1>3. CASE Step(q)
  BY <1>1, <1>2, <1>3
<1>4. ASSUME NEW r \in Request, Step(r), r # q
      PROVE  /\ pc'[q] = pc[q]
             /\ op'[q] = op[q] /\ login'[q] = login[q] /\ password'[q] = password[q]
             /\ token'[q] = token[q] /\ reply'[q] = reply[q]
  BY <1>4, OthersRest
<1>5. CASE Restart
  BY <1>2, <1>5 DEF IInv, TypeOK, Restart, Running, request
<1>6. CASE UNCHANGED vars
  BY <1>6 DEF vars
<1> QED BY <1>3, <1>4, <1>5, <1>6 DEF Next

-----------------------------------------------------------------------------
LEMMA RowsStep == IInv /\ [Next]_vars => RowsAreRegistered'
<1> SUFFICES ASSUME IInv, [Next]_vars, NEW l \in Login, users'[l] # NoUser
             PROVE  \E r \in Request :
                      /\ users'[l] = [id |-> r, password |-> password'[r]]
                      /\ op'[r] = "register"
                      /\ login'[r] = l
                      /\ pc'[r] \in {"token", "done", "lost"}
                      /\ reply'[r] # 409
  BY DEF RowsAreRegistered, NewUser
<1>1. CASE users'[l] = users[l]
  <2>1. PICK r \in Request : /\ users[l] = NewUser(r)
                             /\ op[r] = "register"
                             /\ login[r] = l
                             /\ pc[r] \in {"token", "done", "lost"}
                             /\ reply[r] # 409
    BY <1>1 DEF IInv, RowsAreRegistered
  <2> QED BY <1>1, <2>1, RequestsKeep DEF NewUser
<1>2. CASE users'[l] # users[l]
  <2>1. PICK r \in Request : /\ pc[r] = "create"
                             /\ l = login[r]
                             /\ users'[l] = NewUser(r)
                             /\ pc'[r] \in {"token", "done"}
                             /\ reply'[r] # 409
    BY <1>2, RowsStay
  <2>2. op[r] = "register"
    BY <2>1 DEF IInv, AnswersHold, AnswerHolds
  <2> QED BY <2>1, <2>2, RequestsKeep DEF NewUser
<1> QED BY <1>1, <1>2

(* What was true of a request, of which nothing changes, stays true.       *)
LEMMA AnswerStays ==
  ASSUME IInv, [Next]_vars, NEW q \in Request,
         pc'[q] = pc[q] \/ pc'[q] = "lost", op'[q] = op[q], login'[q] = login[q],
         password'[q] = password[q], found'[q] = found[q],
         token'[q] = token[q], reply'[q] = reply[q]
  PROVE  AnswerHolds(q)'
<1>1. login[q] \in Login /\ AnswerHolds(q)
  BY DEF IInv, TypeOK, AnswersHold
<1>2. users[login[q]] # NoUser => users'[login[q]] = users[login[q]]
  BY <1>1, RowsStay
<1> QED BY <1>1, <1>2 DEF AnswerHolds, Answered, Matches

(* What becomes true of the request that takes a step.                     *)
LEMMA AnswerComes ==
  ASSUME IInv, [Next]_vars, NEW r \in Request, Step(r)
  PROVE  AnswerHolds(r)'
<1> USE DEF IInv
<1>0. AnswerHolds(r) /\ login[r] \in Login /\ TypeOK'
  BY TypeStep DEF TypeOK, AnswersHold
<1>1. ASSUME NEW l \in Login, NEW p \in Password, Register(r, l, p) \/ LogIn(r, l, p)
      PROVE  AnswerHolds(r)'
  BY <1>0, <1>1 DEF TypeOK, Register, LogIn, Begin, AnswerHolds, Answered
<1>2. CASE UserExists(r)
  <2>1. CASE users[login[r]] # NoUser /\ Finish(r, "ErrUserConflict")
    <3>1. users[login[r]].id # r
      <4>1. PICK q \in Request : /\ users[login[r]] = NewUser(q)
                                 /\ pc[q] \in {"token", "done", "lost"}
        BY <1>0, <2>1 DEF RowsAreRegistered
      <4>2. q # r
        BY <1>2, <4>1 DEF UserExists
      <4> QED BY <4>1, <4>2 DEF NewUser
    <3>2. reply'[r] = 409 /\ pc'[r] = "done"
      BY <2>1, FinishEffect DEF TypeOK, Err
    <3> QED BY <1>0, <1>2, <2>1, <3>1, <3>2
        DEF UserExists, request, AnswerHolds, Answered, Matches
  <2>2. CASE pc' = [pc EXCEPT ![r] = "create"] /\ UNCHANGED <<err, reply>>
    BY <1>0, <1>2, <2>2 DEF TypeOK, UserExists, request, AnswerHolds, Answered, Matches
  <2> QED BY <1>2, <2>1, <2>2 DEF UserExists
<1>3. CASE CreateUser(r)
  <2>1. /\ op[r] = "register" /\ token[r] = NoUser /\ reply[r] = 0
        /\ op' = op /\ login' = login /\ password' = password /\ token' = token
        /\ found'[r] = NewUser(r)
    BY <1>0, <1>3 DEF TypeOK, CreateUser, request, AnswerHolds
  <2>2. CASE /\ users' = [users EXCEPT ![login[r]] = NewUser(r)]
             /\ pc' = [pc EXCEPT ![r] = "token"]
             /\ UNCHANGED <<err, reply>>
    <3>1. users'[login[r]] = NewUser(r) /\ pc'[r] = "token"
      BY <1>0, <2>2 DEF TypeOK
    <3> QED BY <2>1, <2>2, <3>1, NewUserIsUser DEF AnswerHolds, Answered, Matches
  <2>3. ASSUME NEW e \in {"failed", "unique"}, Finish(r, e)
        PROVE  AnswerHolds(r)'
    <3>1. /\ pc'[r] = "done"
          /\ reply'[r] \notin {0, 200, 409}
      BY <2>3, FinishEffect DEF TypeOK, Err
    <3> QED BY <2>1, <3>1 DEF AnswerHolds, Answered
  <2> QED BY <1>3, <2>2, <2>3 DEF CreateUser
<1>4. CASE GetUserByUsername(r)
  <2>1. /\ op[r] = "login" /\ token[r] = NoUser /\ reply[r] = 0
        /\ op' = op /\ login' = login /\ password' = password /\ token' = token
        /\ users' = users
        /\ found'[r] = users[login[r]]
    BY <1>0, <1>4 DEF TypeOK, GetUserByUsername, request, AnswerHolds
  <2>2. CASE /\ Matches(r)
             /\ pc' = [pc EXCEPT ![r] = "token"]
             /\ UNCHANGED <<err, reply>>
    <3>1. pc'[r] = "token"
      BY <2>2 DEF TypeOK
    <3> QED BY <2>1, <2>2, <3>1 DEF AnswerHolds, Answered, Matches
  <2>3. CASE Finish(r, "mismatch")
    <3>1. /\ pc'[r] = "done"
          /\ reply'[r] \notin {0, 200, 409}
      BY <2>3, FinishEffect DEF TypeOK, Err
    <3> QED BY <2>1, <3>1 DEF AnswerHolds, Answered
  <2> QED BY <1>4, <2>2, <2>3 DEF GetUserByUsername
<1>5. CASE GenerateToken(r)
  <2>1. /\ pc'[r] = "done" /\ reply'[r] = 200
        /\ token'[r] = found[r].id
        /\ op' = op /\ login' = login /\ password' = password /\ users' = users
    BY <1>5, FinishEffect DEF TypeOK, GenerateToken, request, Err
  <2> QED BY <1>0, <1>5, <2>1 DEF GenerateToken, AnswerHolds, Answered, Matches
<1>6. CASE Fail(r)
  <2>1. /\ pc'[r] = "done"
        /\ reply'[r] \notin {0, 200, 409}
        /\ op' = op /\ token' = token
        /\ token[r] = NoUser
    BY <1>0, <1>6, FinishEffect DEF TypeOK, Fail, request, Err, AnswerHolds
  <2> QED BY <2>1 DEF AnswerHolds, Answered
<1>7. ASSUME NEW s \in Request, RequireAuth(r, s)
      PROVE  AnswerHolds(r)'
  BY <1>0, <1>7 DEF TypeOK, RequireAuth, AnswerHolds, Answered
<1> QED BY <1>1, <1>2, <1>3, <1>4, <1>5, <1>6, <1>7 DEF Step

LEMMA AnswersStep == IInv /\ [Next]_vars => AnswersHold'
<1> SUFFICES ASSUME IInv, [Next]_vars, NEW q \in Request
             PROVE  AnswerHolds(q)'
  BY DEF AnswersHold
<1>1. CASE Step(q)
  BY <1>1, AnswerComes
<1>2. ASSUME NEW r \in Request, Step(r), r # q
      PROVE  AnswerHolds(q)'
  BY <1>2, OthersRest, AnswerStays
<1>3. CASE Restart
  <2>1. pc'[q] = pc[q] \/ pc'[q] = "lost"
    BY <1>3 DEF Restart
  <2> QED BY <1>3, <2>1, AnswerStays DEF Restart, request
<1>4. CASE UNCHANGED vars
  BY <1>4, AnswerStays DEF vars
<1> QED BY <1>1, <1>2, <1>3, <1>4 DEF Next

(* A cookie that was given, or presented, names the row of a request that  *)
(* was answered 200, and this request and this row remain.                 *)
LEMMA SessionsStep == IInv /\ [Next]_vars => SessionsAreEarned'
<1> SUFFICES ASSUME IInv, [Next]_vars, NEW q \in Request, token'[q] # NoUser
             PROVE  \E s \in Request : /\ Answered(s, 200)'
                                       /\ Matches(s)'
                                       /\ users'[login'[s]].id = token'[q]
  BY DEF SessionsAreEarned
<1> USE DEF IInv
<1>1. AnswersHold'
  BY AnswersStep
<1>2. ASSUME NEW s \in Request, Answered(s, 200), Matches(s)
      PROVE  /\ Answered(s, 200)'
             /\ Matches(s)'
             /\ users'[login'[s]].id = users[login[s]].id
  <2>1. pc[s] # "idle" /\ login[s] \in Login
    BY <1>2 DEF TypeOK, AnswersHold, AnswerHolds, Answered
  <2>2. /\ op'[s] = op[s] /\ login'[s] = login[s] /\ password'[s] = password[s]
        /\ reply'[s] = reply[s]
    BY <1>2, <2>1, RequestsKeep DEF Answered
  <2>3. users'[login[s]] = users[login[s]]
    BY <1>2, <2>1, RowsStay DEF Matches
  <2> QED BY <1>2, <2>2, <2>3 DEF Answered, Matches
<1>3. CASE op'[q] # "protected"
  <2>1. reply'[q] = 200
    BY <1>1, <1>3 DEF AnswersHold, AnswerHolds
  <2>2. /\ Answered(q, 200)'
        /\ Matches(q)'
        /\ users'[login'[q]].id = token'[q]
    BY <1>1, <1>3, <2>1 DEF AnswersHold, AnswerHolds, Answered
  <2> QED BY <2>2
<1>4. CASE token'[q] = token[q]
  <2>1. PICK s \in Request : /\ Answered(s, 200)
                             /\ Matches(s)
                             /\ users[login[s]].id = token[q]
    BY <1>4 DEF SessionsAreEarned
  <2> QED BY <1>2, <1>4, <2>1
<1>5. ASSUME NEW p \in Request, RequireAuth(q, p), token'[q] = token[p]
      PROVE  \E s \in Request : /\ Answered(s, 200)'
                                /\ Matches(s)'
                                /\ users'[login'[s]].id = token'[q]
  <2>1. Answered(p, 200) /\ Matches(p) /\ token[p] = users[login[p]].id
    BY <1>5 DEF RequireAuth, AnswersHold, AnswerHolds, Answered
  <2> QED BY <1>2, <1>5, <2>1
<1>6. \/ token'[q] = token[q]
      \/ op'[q] # "protected"
      \/ \E p \in Request : RequireAuth(q, p) /\ token'[q] = token[p]
  <2>1. ASSUME NEW r \in Request, Step(r), r # q
        PROVE  token'[q] = token[q]
    BY <2>1, OthersRest
  <2>2. CASE GenerateToken(q)
    BY <2>2 DEF GenerateToken, request, AnswersHold, AnswerHolds
  <2>3. ASSUME NEW p \in Request, RequireAuth(q, p)
        PROVE  token'[q] = token[q] \/ token'[q] = token[p]
    BY <2>3 DEF TypeOK, RequireAuth
  <2>4. ASSUME NEW l \in Login, NEW w \in Password,
               Register(q, l, w) \/ LogIn(q, l, w)
        PROVE  token'[q] = token[q]
    BY <2>4 DEF Register, LogIn, Begin
  <2>5. CASE UserExists(q) \/ CreateUser(q) \/ GetUserByUsername(q) \/ Fail(q)
    BY <2>5 DEF UserExists, CreateUser, GetUserByUsername, Fail
  <2>6. CASE Restart \/ UNCHANGED vars
    BY <2>6 DEF Restart, vars
  <2> QED BY <2>1, <2>2, <2>3, <2>4, <2>5, <2>6 DEF Next, Step
<1> QED BY <1>3, <1>4, <1>5, <1>6

-----------------------------------------------------------------------------
LEMMA InitIsSound == Init => IInv
BY DEF Init, IInv, TypeOK, RowsAreRegistered, AnswersHold, AnswerHolds, Answered,
       SessionsAreEarned, Op, Err

(* Whatever requests overlap, fail, get lost and are cut off by a restart, *)
(* an answer is true of table users for ever, and a cookie names a user    *)
(* (service/auth.go:50-138).                                               *)
THEOREM AnswersStayTrue == Spec => []IInv
<1>1. IInv /\ [Next]_vars => IInv'
  BY TypeStep, RowsStep, AnswersStep, SessionsStep DEF IInv
<1> QED BY InitIsSound, <1>1, PTL DEF Spec

(* The variables keep their types.                                         *)
THEOREM TypeCorrect == Spec => []TypeOK
<1>1. IInv => TypeOK
  BY DEF IInv
<1> QED BY AnswersStayTrue, <1>1, PTL

(* Handlers behind RequireAuth work for stored users only, of which the    *)
(* password was given (middleware/auth.go:34-61).                          *)
THEOREM SessionsStayEarned == Spec => []SessionsAreEarned
<1>1. IInv => SessionsAreEarned
  BY DEF IInv
<1> QED BY AnswersStayTrue, <1>1, PTL

(* A login is one account's, and an account one login's                    *)
(* (service/auth.go:51-75, SPECIFICATION.md:74).                           *)
THEOREM LoginsStayUnique == Spec => []LoginsAreUnique
<1>1. IInv => LoginsAreUnique
  <2> SUFFICES ASSUME IInv, NEW r \in Request, NEW s \in Request,
                      Answered(r, 200), Answered(s, 200)
               PROVE  /\ login[r] = login[s] <=> token[r] = token[s]
                      /\ login[r] = login[s] => password[r] = password[s]
                      /\ login[r] = login[s] /\ op[r] = "register" /\ op[s] = "register"
                           => r = s
    BY DEF LoginsAreUnique
  <2>1. ASSUME NEW q \in Request, Answered(q, 200)
        PROVE  /\ Matches(q)
               /\ token[q] = users[login[q]].id
               /\ login[token[q]] = login[q]
               /\ op[q] = "register" => token[q] = q
    <3>1. /\ login[q] \in Login
          /\ Matches(q)
          /\ token[q] = users[login[q]].id
          /\ op[q] = "register" => token[q] = q
      BY <2>1 DEF IInv, TypeOK, AnswersHold, AnswerHolds
    <3>2. PICK o \in Request : users[login[q]] = NewUser(o) /\ login[o] = login[q]
      BY <3>1 DEF IInv, RowsAreRegistered, Matches
    <3> QED BY <3>1, <3>2 DEF NewUser
  <2> QED BY <2>1 DEF Matches
<1> QED BY AnswersStayTrue, <1>1, PTL
=============================================================================
