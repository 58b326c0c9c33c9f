------------------------ MODULE BalanceServiceProofs ------------------------
(***************************************************************************)
(* What GET balance and POST withdraw guarantee for any number of users    *)
(* and of concurrent requests, and what one request at a time guarantees.  *)
(***************************************************************************)
EXTENDS BalanceService, CommonLemmas

LEMMA CurrentIsNat ==
  ASSUME NEW b \in Nat, NEW w \in Nat
  PROVE  Current(b, w) \in Nat
BY DEF Current

PcType == [Request -> {"idle", "findUser", "readUser", "readTotal", "insert",
                       "query", "rows", "done"}]

LEMMA FinishIsTyped ==
  ASSUME TypeOK, NEW r \in Request, NEW e \in Err, Finish(r, e)
  PROVE  /\ pc' \in PcType
         /\ err' \in [Request -> Err]
         /\ reply' \in [Request -> {0, 200, 204, 500}]
BY DEF TypeOK, Finish, StatusOf, PcType

LEMMA BeginIsTyped ==
  ASSUME TypeOK, NEW r \in Request, NEW u \in User,
         NEW o \in {"balance", "withdraw", "list"}, NEW k \in Nat,
         NEW first \in {"findUser", "readUser", "query"}, Begin(r, u, o, k, first)
  PROVE  TypeOK'
<1>1. withdrawn[u] \in Nat
  BY DEF TypeOK
<1>2. /\ pc' \in PcType /\ op' \in [Request -> {"balance", "withdraw", "list"}]
      /\ user' \in [Request -> User] /\ sum' \in [Request -> Nat]
  BY DEF TypeOK, Begin, PcType
<1>3. /\ seenBalance' \in [Request -> Nat] /\ seenWithdrawn' \in [Request -> Nat]
      /\ before' \in [Request -> Nat]
  BY <1>1 DEF TypeOK, Begin
<1>4. err' \in [Request -> Err] /\ reply' \in [Request -> {0, 200, 204, 500}]
  BY DEF TypeOK, Begin, Err
<1> QED BY <1>2, <1>3, <1>4 DEF TypeOK, Begin, store, PcType

-----------------------------------------------------------------------------
LEMMA TypeStep == TypeOK /\ [Next]_vars => TypeOK'
<1> SUFFICES ASSUME TypeOK, [Next]_vars
             PROVE  TypeOK'
  OBVIOUS
<1>1. ASSUME NEW r \in Request, NEW u \in User,
             GetBalance(r, u) \/ GetWithdrawals(r, u)
      PROVE  TypeOK'
  BY <1>1, BeginIsTyped DEF GetBalance, GetWithdrawals
<1>2. ASSUME NEW r \in Request, NEW u \in User, NEW x \in Sum, Withdraw(r, u, x)
      PROVE  TypeOK'
  <2>1. ToKopecks(x) \in Nat
    BY <1>2, SumAssumption, ToKopecksRange DEF Withdraw
  <2> QED BY <1>2, <2>1, BeginIsTyped DEF Withdraw
<1>3. ASSUME NEW r \in Request, FindUser(r)
      PROVE  TypeOK'
  BY <1>3 DEF TypeOK, FindUser, store, input, seen
<1>4. ASSUME NEW r \in Request, ReadUser(r)
      PROVE  TypeOK'
  BY <1>4 DEF TypeOK, ReadUser, store, input
<1>5. ASSUME NEW r \in Request, ReadTotal(r)
      PROVE  TypeOK'
  <2>1. seenWithdrawn' \in [Request -> Nat]
    <3>1. seenWithdrawn' = [seenWithdrawn EXCEPT ![r] = withdrawn[user[r]]]
      BY <1>5 DEF ReadTotal
    <3>2. withdrawn[user[r]] \in Nat
      BY DEF TypeOK
    <3> QED BY <3>1, <3>2 DEF TypeOK
  <2>2. /\ pc' \in PcType
        /\ err' \in [Request -> Err]
        /\ reply' \in [Request -> {0, 200, 204, 500}]
    <3>1. CASE Finish(r, "none") \/ Finish(r, "insufficient funds")
      BY <3>1, FinishIsTyped DEF Err
    <3>2. CASE pc' = [pc EXCEPT ![r] = "insert"] /\ UNCHANGED <<err, reply>>
      BY <3>2 DEF TypeOK, PcType
    <3> QED BY <1>5, <3>1, <3>2 DEF ReadTotal
  <2> QED BY <1>5, <2>1, <2>2 DEF TypeOK, ReadTotal, PcType, store, input
<1>6. ASSUME NEW r \in Request, CreateWithdrawal(r)
      PROVE  TypeOK'
  <2>1. withdrawn' \in [User -> Nat]
    BY <1>6 DEF TypeOK, CreateWithdrawal
  <2>2. /\ pc' \in PcType
        /\ err' \in [Request -> Err]
        /\ reply' \in [Request -> {0, 200, 204, 500}]
    <3>1. PICK e \in {"none", "failed"} : Finish(r, e)
      BY <1>6 DEF CreateWithdrawal
    <3> QED BY <3>1, FinishIsTyped DEF Err
  <2> QED BY <1>6, <2>1, <2>2 DEF TypeOK, CreateWithdrawal, PcType, input, seen
<1>7. ASSUME NEW r \in Request, Fail(r)
      PROVE  TypeOK'
  BY <1>7 DEF TypeOK, Fail, Finish, StatusOf, store, input, seen, Err
<1>8. ASSUME NEW u \in User, NEW k \in Reward, Credit(u, k)
      PROVE  TypeOK'
  BY <1>8, RewardAssumption, LimitAssumption DEF TypeOK, Credit, input, seen
<1>9. CASE Restart
  BY <1>9 DEF TypeOK, Restart, store, Err
<1>10. ASSUME NEW r \in Request, GetUserWithdrawals(r)
       PROVE  TypeOK'
  BY <1>10 DEF TypeOK, GetUserWithdrawals, store, input
<1>11. ASSUME NEW r \in Request, SendRows(r)
       PROVE  TypeOK'
  <2>1. PICK code \in {200, 204} : reply' = [reply EXCEPT ![r] = code]
    BY <1>11 DEF SendRows
  <2> QED BY <1>11, <2>1 DEF TypeOK, SendRows, store, input, seen, Err
<1>12. CASE UNCHANGED vars
  BY <1>12 DEF TypeOK, vars
<1> QED
  BY <1>1, <1>2, <1>3, <1>4, <1>5, <1>6, <1>7, <1>8, <1>9, <1>10, <1>11, <1>12
  DEF Next, Step

LEMMA TypeInit == Init => TypeOK
BY LimitAssumption DEF Init, TypeOK, Err

(* The tables and the requests hold values of their types: balances stay   *)
(* within BIGINT, and no sum and no total is negative.                     *)
THEOREM TypeCorrect == Spec => []TypeOK
BY TypeInit, TypeStep, PTL DEF Spec

-----------------------------------------------------------------------------
(* Accounts and totals only grow: what a request read of them before is a  *)
(* lower bound of what they hold.                                          *)
LEMMA TotalsGrow ==
  ASSUME TypeOK, [Next]_vars, NEW u \in User
  PROVE  account[u] <= account'[u] /\ withdrawn[u] <= withdrawn'[u]
<1>1. ASSUME NEW r \in Request, CreateWithdrawal(r)
      PROVE  account[u] <= account'[u] /\ withdrawn[u] <= withdrawn'[u]
  BY <1>1 DEF TypeOK, CreateWithdrawal
<1>2. ASSUME NEW v \in User, NEW k \in Reward, Credit(v, k)
      PROVE  account[u] <= account'[u] /\ withdrawn[u] <= withdrawn'[u]
  BY <1>2, RewardAssumption DEF TypeOK, Credit
<1>3. ASSUME UNCHANGED store
      PROVE  account[u] <= account'[u] /\ withdrawn[u] <= withdrawn'[u]
  BY <1>3 DEF TypeOK, store
<1> QED
  BY <1>1, <1>2, <1>3
  DEF Next, Step, vars, store, GetBalance, GetWithdrawals, Withdraw, Begin,
      FindUser, ReadUser, ReadTotal, GetUserWithdrawals, SendRows, Fail, Restart

(* Only an insert adds to the withdrawals.                                 *)
LEMMA OthersKeepWithdrawn ==
  ASSUME TypeOK, [Next]_vars, \A r \in Request : ~CreateWithdrawal(r)
  PROVE  withdrawn' = withdrawn
BY DEF Next, Step, vars, store, GetBalance, GetWithdrawals, Withdraw, Begin,
       FindUser, ReadUser, ReadTotal, GetUserWithdrawals, SendRows, Fail,
       Restart, Credit

(* How the second read ends.                                               *)
LEMMA ReadTotalEffect ==
  ASSUME NEW r \in Request, ReadTotal(r)
  PROVE  /\ pc[r] = "readTotal"
         /\ seenWithdrawn' = [seenWithdrawn EXCEPT ![r] = withdrawn[user[r]]]
         /\ UNCHANGED <<store, input, seenBalance>>
         /\ \/ pc' = [pc EXCEPT ![r] = "done"] /\ \E e : Finish(r, e)
            \/ /\ pc' = [pc EXCEPT ![r] = "insert"] /\ UNCHANGED reply
               /\ op[r] = "withdraw"
               /\ Current(seenBalance[r], withdrawn[user[r]]) >= sum[r]
<1>1. \/ Finish(r, "none") \/ Finish(r, "insufficient funds")
      \/ /\ pc' = [pc EXCEPT ![r] = "insert"] /\ UNCHANGED reply
         /\ op[r] = "withdraw"
         /\ Current(seenBalance[r], withdrawn[user[r]]) >= sum[r]
  BY DEF ReadTotal
<1>2. \A e : Finish(r, e) => pc' = [pc EXCEPT ![r] = "done"]
  BY DEF Finish
<1> QED BY <1>1, <1>2 DEF ReadTotal

(* A request's locals are its own.                                         *)
Same(r) == UNCHANGED <<pc[r], op[r], user[r], sum[r], seenBalance[r],
                       seenWithdrawn[r], before[r], reply[r]>>

LEMMA OtherRequestsRest ==
  ASSUME TypeOK, NEW r \in Request, NEW s \in Request, s # r, Step(s)
  PROVE  Same(r)
<1> USE DEF Same
<1>1. ASSUME NEW u \in User, \/ GetBalance(s, u) \/ GetWithdrawals(s, u)
                             \/ \E x \in Sum : Withdraw(s, u, x)
      PROVE  Same(r)
  <2>1. PICK o, k, first : Begin(s, u, o, k, first)
    BY <1>1 DEF GetBalance, GetWithdrawals, Withdraw
  <2>2. UNCHANGED <<pc[r], op[r], user[r], sum[r]>>
    BY <2>1 DEF Begin, TypeOK
  <2>3. UNCHANGED <<seenBalance[r], seenWithdrawn[r], before[r], reply[r]>>
    BY <2>1 DEF Begin, TypeOK
  <2> QED BY <2>2, <2>3
<1>2. CASE FindUser(s) \/ ReadUser(s)
  BY <1>2 DEF FindUser, ReadUser, input, seen, TypeOK
<1>3. CASE ReadTotal(s)
  BY <1>3, ReadTotalEffect DEF Finish, input, TypeOK
<1>4. CASE CreateWithdrawal(s) \/ Fail(s)
  <2>1. PICK e : Finish(s, e)
    BY <1>4 DEF CreateWithdrawal, Fail
  <2> QED BY <1>4, <2>1 DEF CreateWithdrawal, Fail, Finish, input, seen, TypeOK
<1>5. CASE GetUserWithdrawals(s)
  BY <1>5 DEF GetUserWithdrawals, input, TypeOK
<1>6. CASE SendRows(s)
  <2>1. PICK code : reply' = [reply EXCEPT ![s] = code]
    BY <1>6 DEF SendRows
  <2> QED BY <1>6, <2>1 DEF SendRows, input, seen, TypeOK
<1> QED BY <1>1, <1>2, <1>3, <1>4, <1>5, <1>6 DEF Step

(* What the insert of a request does to the totals.                        *)
LEMMA InsertAdds ==
  ASSUME TypeOK, NEW r \in Request, CreateWithdrawal(r)
  PROVE  /\ pc[r] = "insert" /\ pc'[r] = "done"
         /\ account' = account
         /\ \A u \in User : withdrawn'[u] =
              IF u = user[r] THEN withdrawn[u] + sum[r] ELSE withdrawn[u]
BY DEF TypeOK, CreateWithdrawal, Finish

(* A request that moves on knows what it reads at this step, and the       *)
(* others' knowledge stays a lower bound.                                  *)
LEMMA InformedStep == IInv /\ TypeOK' /\ [Next]_vars => Informed'
<1> SUFFICES ASSUME IInv, TypeOK', [Next]_vars, NEW r \in Request
             PROVE  /\ pc'[r] \in {"readTotal", "insert"} =>
                         seenBalance'[r] <= account'[user'[r]]
                    /\ pc'[r] = "insert" =>
                         /\ seenWithdrawn'[r] <= withdrawn'[user'[r]]
                         /\ sum'[r] <= Current(seenBalance'[r], seenWithdrawn'[r])
  BY DEF Informed
<1> USE DEF IInv
<1>1. /\ account[user[r]] \in Nat /\ account'[user[r]] \in Nat
      /\ withdrawn[user[r]] \in Nat /\ withdrawn'[user[r]] \in Nat
      /\ seenBalance[r] \in Nat /\ seenWithdrawn[r] \in Nat
      /\ account[user[r]] <= account'[user[r]]
      /\ withdrawn[user[r]] <= withdrawn'[user[r]]
  BY TotalsGrow DEF TypeOK
<1>2. CASE Same(r)
  BY <1>1, <1>2 DEF Informed, Same
<1>3. CASE pc'[r] \notin {"readTotal", "insert"}
  BY <1>3
<1>4. CASE ReadUser(r)
  BY <1>1, <1>4 DEF ReadUser, TypeOK, store, input
<1>5. CASE ReadTotal(r) /\ pc'[r] = "insert"
  <2>1. /\ seenWithdrawn'[r] = withdrawn[user[r]]
        /\ UNCHANGED <<store, input, seenBalance>>
        /\ pc[r] = "readTotal"
    BY <1>5, ReadTotalEffect DEF TypeOK
  <2>2. sum[r] <= Current(seenBalance[r], withdrawn[user[r]])
    <3>1. sum[r] \in Nat
      BY DEF TypeOK
    <3>2. pc' # [pc EXCEPT ![r] = "done"]
      BY <1>5 DEF TypeOK
    <3>3. Current(seenBalance[r], withdrawn[user[r]]) \in Nat
      BY <1>1, CurrentIsNat
    <3> QED BY <1>5, <3>1, <3>2, <3>3, ReadTotalEffect
  <2>3. seenBalance[r] <= account[user[r]]
    BY <2>1 DEF Informed
  <2> QED BY <1>1, <2>1, <2>2, <2>3 DEF store, input
<1>6. ASSUME NEW s \in Request, Step(s)
      PROVE  Same(r) \/ pc'[r] \notin {"readTotal", "insert"} \/ ReadUser(r)
               \/ (ReadTotal(r) /\ pc'[r] = "insert")
  <2>1. CASE s # r
    <3>1. Same(r)
      BY <1>6, <2>1, OtherRequestsRest DEF IInv
    <3> QED BY <3>1
  <2>2. ASSUME s = r, NEW u \in User, \/ GetBalance(r, u) \/ GetWithdrawals(r, u)
                                      \/ \E x \in Sum : Withdraw(r, u, x)
        PROVE  pc'[r] \in {"readUser", "findUser", "query"}
    BY <2>2 DEF GetBalance, GetWithdrawals, Withdraw, Begin, TypeOK
  <2>3. ASSUME s = r, FindUser(r)
        PROVE  pc'[r] = "readUser"
    BY <2>3 DEF FindUser, TypeOK
  <2>4. ASSUME s = r, CreateWithdrawal(r) \/ Fail(r)
        PROVE  pc'[r] = "done"
    BY <2>4 DEF CreateWithdrawal, Fail, Finish, TypeOK
  <2>5. ASSUME s = r, ReadTotal(r)
        PROVE  pc'[r] \in {"done", "insert"}
    BY <2>5, ReadTotalEffect DEF TypeOK
  <2>6. ASSUME s = r, GetUserWithdrawals(r) \/ SendRows(r)
        PROVE  pc'[r] \in {"rows", "done"}
    BY <2>6 DEF GetUserWithdrawals, SendRows, TypeOK
  <2> QED BY <1>6, <2>1, <2>2, <2>3, <2>4, <2>5, <2>6 DEF Step
<1>7. ASSUME NEW u \in User, NEW k \in Reward, Credit(u, k)
      PROVE  Same(r)
  BY <1>7 DEF Credit, input, seen, Same
<1>8. CASE Restart
  BY <1>3, <1>8 DEF Restart
<1>9. CASE UNCHANGED vars
  BY <1>2, <1>9 DEF vars, Same
<1> QED BY <1>2, <1>3, <1>4, <1>5, <1>6, <1>7, <1>8, <1>9 DEF Next

(* What a request was shown is all it had to be shown, from the moment it  *)
(* looked; what it has to be shown is fixed when it begins.                *)
LEMMA FreshStep == IInv /\ TypeOK' /\ [Next]_vars => RowsAreFresh' /\ AnswersAreFresh'
<1> SUFFICES ASSUME IInv, TypeOK', [Next]_vars, NEW r \in Request
             PROVE  /\ pc'[r] # "idle" => before'[r] <= withdrawn'[user'[r]]
                    /\ pc'[r] = "insert" => op'[r] = "withdraw"
                    /\ ~Open(r)' => reply'[r] = 0
                    /\ pc'[r] = "rows" =>
                         /\ before'[r] <= seenWithdrawn'[r]
                         /\ seenWithdrawn'[r] <= withdrawn'[user'[r]]
                    /\ op'[r] \in {"balance", "list"} /\ reply'[r] \in {200, 204} =>
                         /\ before'[r] <= seenWithdrawn'[r]
                         /\ seenWithdrawn'[r] <= withdrawn'[user'[r]]
  BY DEF RowsAreFresh, AnswersAreFresh
<1> USE DEF IInv
<1> DEFINE Goal == /\ pc'[r] # "idle" => before'[r] <= withdrawn'[user'[r]]
                   /\ pc'[r] = "insert" => op'[r] = "withdraw"
                   /\ ~Open(r)' => reply'[r] = 0
                   /\ pc'[r] = "rows" =>
                        /\ before'[r] <= seenWithdrawn'[r]
                        /\ seenWithdrawn'[r] <= withdrawn'[user'[r]]
                   /\ op'[r] \in {"balance", "list"} /\ reply'[r] \in {200, 204} =>
                        /\ before'[r] <= seenWithdrawn'[r]
                        /\ seenWithdrawn'[r] <= withdrawn'[user'[r]]
<1>1. /\ withdrawn[user[r]] \in Nat /\ withdrawn'[user[r]] \in Nat
      /\ seenWithdrawn[r] \in Nat /\ before[r] \in Nat
      /\ withdrawn[user[r]] <= withdrawn'[user[r]]
  BY TotalsGrow DEF TypeOK
<1>2. CASE Same(r)
  BY <1>1, <1>2 DEF RowsAreFresh, AnswersAreFresh, Same, Open
<1>3. ASSUME NEW u \in User, \/ GetBalance(r, u) \/ GetWithdrawals(r, u)
                             \/ \E x \in Sum : Withdraw(r, u, x)
      PROVE  Goal
  <2>1. /\ before'[r] = withdrawn[u] /\ user'[r] = u /\ withdrawn' = withdrawn
        /\ reply'[r] = 0 /\ pc'[r] \in {"readUser", "findUser", "query"}
    BY <1>3 DEF GetBalance, GetWithdrawals, Withdraw, Begin, TypeOK, store
  <2>2. withdrawn[u] \in Nat
    BY DEF TypeOK
  <2> QED BY <2>1, <2>2
<1>4. CASE FindUser(r) \/ ReadUser(r)
  <2>1. /\ pc'[r] \in {"readUser", "readTotal"} /\ ~Open(r)
        /\ UNCHANGED <<withdrawn, before, user, reply>>
    BY <1>4 DEF FindUser, ReadUser, TypeOK, store, input, Open
  <2>2. before[r] <= withdrawn[user[r]] /\ reply[r] = 0
    BY <2>1 DEF RowsAreFresh, Open
  <2> QED BY <2>1, <2>2
<1>5. CASE ReadTotal(r)
  <2>1. /\ before'[r] = before[r] /\ user'[r] = user[r]
        /\ seenWithdrawn'[r] = withdrawn[user[r]] /\ withdrawn' = withdrawn
        /\ op'[r] = op[r] /\ pc[r] = "readTotal" /\ pc'[r] \in {"insert", "done"}
        /\ pc'[r] = "insert" => op[r] = "withdraw" /\ reply'[r] = reply[r]
    BY <1>5, ReadTotalEffect DEF TypeOK, input, store
  <2>2. before[r] <= withdrawn[user[r]] /\ reply[r] = 0
    BY <2>1 DEF RowsAreFresh, Open
  <2> QED BY <1>1, <2>1, <2>2 DEF Open
<1>6. CASE CreateWithdrawal(r)
  <2>1. op'[r] = op[r] /\ before'[r] = before[r] /\ user'[r] = user[r]
        /\ pc[r] = "insert" /\ pc'[r] = "done"
    BY <1>6, InsertAdds DEF CreateWithdrawal, input
  <2>2. op[r] = "withdraw"
    BY <2>1 DEF RowsAreFresh
  <2> QED BY <1>1, <2>1, <2>2 DEF RowsAreFresh, Open
<1>7. CASE GetUserWithdrawals(r)
  <2>1. /\ pc[r] = "query" /\ pc'[r] = "rows" /\ seenWithdrawn'[r] = withdrawn[user[r]]
        /\ UNCHANGED <<withdrawn, before, user, reply>>
    BY <1>7 DEF GetUserWithdrawals, TypeOK, store, input
  <2> QED BY <1>1, <2>1 DEF RowsAreFresh, Open
<1>8. CASE SendRows(r)
  <2>1. /\ pc[r] = "rows" /\ pc'[r] = "done"
        /\ UNCHANGED <<withdrawn, before, user, seenWithdrawn>>
    BY <1>8 DEF SendRows, TypeOK, store, input, seen
  <2> QED BY <1>1, <2>1 DEF RowsAreFresh, Open
<1>9. CASE Fail(r)
  <2>1. /\ reply'[r] = 500 /\ pc'[r] = "done" /\ ~Open(r)
        /\ UNCHANGED <<before, user, withdrawn>>
    BY <1>9 DEF Fail, Finish, StatusOf, TypeOK, store, input
  <2> QED BY <1>1, <2>1 DEF RowsAreFresh, Open
<1>10. ASSUME NEW s \in Request, s # r, Step(s)
       PROVE  Goal
  <2>1. Same(r)
    BY <1>10, OtherRequestsRest
  <2> QED BY <1>2, <2>1
<1>11. ASSUME NEW u \in User, NEW k \in Reward, Credit(u, k)
       PROVE  Goal
  <2>1. Same(r)
    BY <1>11 DEF Credit, input, seen, Same
  <2> QED BY <1>2, <2>1
<1>12. CASE Restart
  <2>1. pc'[r] = "idle" /\ reply'[r] = 0
    BY <1>12 DEF Restart
  <2> QED BY <2>1
<1>13. CASE UNCHANGED vars
  <2>1. Same(r)
    BY <1>13 DEF vars, Same
  <2> QED BY <1>2, <2>1
<1>14. ASSUME Step(r)
       PROVE  Goal
  BY <1>3, <1>4, <1>5, <1>6, <1>7, <1>8, <1>9, <1>14 DEF Step
<1> QED BY <1>10, <1>11, <1>12, <1>13, <1>14 DEF Next

-----------------------------------------------------------------------------
(* How far an account can be overdrawn                                     *)

Cover(u) == [r \in Request |-> account[u]]

LEMMA PendingIsNat ==
  ASSUME TypeOK, NEW u \in User, NEW r \in Request
  PROVE  Pending(u)[r] \in Nat
BY DEF TypeOK, Pending

LEMMA CoverIsCapacity ==
  ASSUME TypeOK, NEW u \in User
  PROVE  SumFunctionOnSet(Cover(u), Request) = Cardinality(Request) * account[u]
<1>1. account[u] \in Int /\ \A r \in Request : Cover(u)[r] = account[u]
  BY DEF TypeOK, Cover
<1> DEFINE f == Cover(u)
           c == account[u]
<1>2. c \in Int /\ \A r \in Request : f[r] = c
  BY <1>1
<1> HIDE DEF f, c
<1>3. SumFunctionOnSet(f, Request) = Cardinality(Request) * c
  BY <1>2, RequestAssumption, SumOfSame
<1> QED BY <1>3 DEF f, c

(* A withdrawal that is pending was covered when it looked, and is by the  *)
(* account as it is now.                                                   *)
LEMMA PendingIsCovered ==
  ASSUME TypeOK, Informed, NEW u \in User, NEW r \in Request
  PROVE  Pending(u)[r] <= account[u]
<1>1. CASE pc[r] = "insert" /\ user[r] = u
  <2>1. /\ seenBalance[r] \in Nat /\ seenWithdrawn[r] \in Nat /\ sum[r] \in Nat
        /\ account[u] \in Nat /\ seenBalance[r] <= account[u]
        /\ sum[r] <= Current(seenBalance[r], seenWithdrawn[r])
    BY <1>1 DEF TypeOK, Informed
  <2> QED BY <1>1, <2>1 DEF Pending, Current
<1>2. CASE ~(pc[r] = "insert" /\ user[r] = u)
  BY <1>2 DEF Pending, TypeOK
<1> QED BY <1>1, <1>2

(* What a step does to what is pending for a user: nothing is added but by *)
(* a check that passes.                                                    *)
LEMMA PendingStep ==
  ASSUME TypeOK, TypeOK', [Next]_vars, NEW u \in User, NEW r \in Request, ~ReadTotal(r)
  PROVE  Pending(u)'[r] <= Pending(u)[r]
<1>1. Pending(u)[r] \in Nat
  BY PendingIsNat
<1>2. CASE Same(r)
  BY <1>1, <1>2 DEF Same, Pending
<1>3. CASE pc'[r] # "insert"
  BY <1>1, <1>3 DEF Pending
<1>4. ASSUME NEW s \in Request, s # r, Step(s)
      PROVE  Same(r)
  BY <1>4, OtherRequestsRest
<1>5. ASSUME Step(r)
      PROVE  pc'[r] # "insert"
  BY <1>5
  DEF Step, GetBalance, GetWithdrawals, Withdraw, Begin, FindUser, ReadUser,
      CreateWithdrawal, GetUserWithdrawals, SendRows, Fail, Finish, TypeOK
<1>6. ASSUME NEW v \in User, NEW k \in Reward, Credit(v, k)
      PROVE  Same(r)
  BY <1>6 DEF Credit, input, seen, Same
<1>7. CASE Restart
  BY <1>3, <1>7 DEF Restart
<1>8. CASE UNCHANGED vars
  BY <1>2, <1>8 DEF vars, Same
<1> QED BY <1>2, <1>3, <1>4, <1>5, <1>6, <1>7, <1>8 DEF Next

LEMMA TimesGrows ==
  ASSUME NEW n \in Nat, NEW a \in Nat, NEW b \in Nat, a <= b
  PROVE  n * a <= n * b
<1>1. n * (b - a) >= 0 /\ n * b = n * a + n * (b - a)
  OBVIOUS
<1> QED BY <1>1

(* The insert takes from what is pending what it adds to the withdrawals.  *)
LEMMA InsertBounded ==
  ASSUME IInv, TypeOK', [Next]_vars, NEW u \in User, NEW s \in Request,
         CreateWithdrawal(s)
  PROVE  withdrawn'[u] + SumFunctionOnSet(Pending(u)', Request)
           <= withdrawn[u] + SumFunctionOnSet(Pending(u), Request)
<1> DEFINE p == Pending(u)
           q == Pending(u)'
<1>1. TypeOK
  BY DEF IInv
<1>2. /\ pc[s] = "insert" /\ pc'[s] = "done"
      /\ withdrawn'[u] = IF u = user[s] THEN withdrawn[u] + sum[s] ELSE withdrawn[u]
  BY <1>1, InsertAdds
<1>3. q[s] = 0 /\ withdrawn'[u] = withdrawn[u] + p[s]
  BY <1>1, <1>2 DEF Pending, TypeOK
<1>4. \A r \in Request \ {s} : p[r] = q[r]
  <2>1. ASSUME NEW r \in Request, r # s
        PROVE  Same(r)
    <3>1. Step(s)
      BY DEF Step
    <3> QED BY <1>1, <2>1, <3>1, OtherRequestsRest
  <2> QED BY <2>1 DEF Same, Pending
<1>5. \A r \in Request : p[r] \in Nat
  BY <1>1, PendingIsNat
<1> HIDE DEF p, q
<1>6. \A r \in Request : p[r] \in Int /\ q[r] \in Int
  BY <1>3, <1>4, <1>5
<1>7. SumFunctionOnSet(q, Request) = SumFunctionOnSet(p, Request) + (q[s] - p[s])
  BY <1>4, <1>6, RequestAssumption, SumChanges
<1>8. SumFunctionOnSet(p, Request) \in Int
  BY <1>6, RequestAssumption, SumIsInt
<1>9. withdrawn[u] \in Int
  BY <1>1 DEF TypeOK
<1>10. withdrawn'[u] + SumFunctionOnSet(q, Request)
         <= withdrawn[u] + SumFunctionOnSet(p, Request)
  BY <1>3, <1>6, <1>7, <1>8, <1>9
<1> QED BY <1>10 DEF p, q

(* A check that passes leaves room in the account for the sum it is about, *)
(* and each of the others pending takes one account at most.               *)
LEMMA CheckBounded ==
  ASSUME IInv, TypeOK', [Next]_vars, NEW u \in User, NEW s \in Request,
         ReadTotal(s), Pending(u)'[s] # 0
  PROVE  withdrawn'[u] + SumFunctionOnSet(Pending(u)', Request)
           <= Cardinality(Request) * account[u]
<1> DEFINE c == Cover(u)
           q == Pending(u)'
           R == Request \ {s}
<1>1. TypeOK /\ Informed
  BY DEF IInv
<1>2. /\ pc[s] = "readTotal" /\ withdrawn' = withdrawn
      /\ UNCHANGED <<user[s], sum[s], seenBalance[s]>>
  BY ReadTotalEffect DEF store, input
<1>3. pc'[s] = "insert" /\ user[s] = u /\ q[s] = sum[s] /\ sum[s] # 0
  BY <1>1, <1>2 DEF Pending
<1>4. sum[s] <= Current(seenBalance[s], withdrawn[u])
  <2>1. pc' # [pc EXCEPT ![s] = "done"]
    BY <1>1, <1>3 DEF TypeOK
  <2>2. Current(seenBalance[s], withdrawn[user[s]]) >= sum[s]
    BY <2>1, ReadTotalEffect
  <2>3. seenBalance[s] \in Nat /\ withdrawn[u] \in Nat /\ sum[s] \in Nat
    BY <1>1 DEF TypeOK
  <2>4. Current(seenBalance[s], withdrawn[u]) \in Nat
    BY <2>3, CurrentIsNat
  <2> QED BY <1>3, <2>2, <2>3, <2>4
<1>5. withdrawn[u] + q[s] <= account[u]
  <2>1. /\ seenBalance[s] \in Nat /\ withdrawn[u] \in Nat /\ sum[s] \in Nat
        /\ account[u] \in Nat /\ seenBalance[s] <= account[u]
    BY <1>1, <1>2, <1>3 DEF TypeOK, Informed
  <2> QED BY <1>3, <1>4, <2>1 DEF Current
<1>6. \A r \in R : q[r] \in Nat /\ q[r] <= account[u]
  <2>1. ASSUME NEW r \in R
        PROVE  Pending(u)'[r] = Pending(u)[r]
    <3>1. Step(s)
      BY DEF Step
    <3>2. Same(r)
      BY <1>1, <3>1, OtherRequestsRest
    <3> QED BY <3>2 DEF Same, Pending
  <2> QED BY <1>1, <2>1, PendingIsNat, PendingIsCovered
<1>7. /\ account[u] \in Nat /\ withdrawn[u] \in Nat /\ sum[s] \in Nat
      /\ \A r \in Request : c[r] = account[u]
  BY <1>1 DEF TypeOK, Cover
<1>8. SumFunctionOnSet(c, Request) = Cardinality(Request) * account[u]
  BY <1>1, CoverIsCapacity
<1> HIDE DEF c, q
<1>9. \A r \in Request : q[r] \in Int /\ c[r] \in Int
  BY <1>3, <1>6, <1>7
<1>10. IsFiniteSet(R)
  BY RequestAssumption, FS_Subset
<1>11. /\ SumFunctionOnSet(q, Request) = q[s] + SumFunctionOnSet(q, R)
       /\ SumFunctionOnSet(c, Request) = c[s] + SumFunctionOnSet(c, R)
  BY <1>9, RequestAssumption, SumTakesAny
<1>12. \A r \in R : q[r] \in Int /\ c[r] \in Int /\ q[r] <= c[r]
  BY <1>6, <1>7, <1>9
<1> HIDE DEF R
<1>13. /\ SumFunctionOnSet(q, R) <= SumFunctionOnSet(c, R)
       /\ SumFunctionOnSet(q, R) \in Int /\ SumFunctionOnSet(c, R) \in Int
  BY <1>10, <1>12, SumIsMonotone, SumIsInt
<1>14. withdrawn[u] + SumFunctionOnSet(q, Request) <= SumFunctionOnSet(c, Request)
  BY <1>3, <1>5, <1>7, <1>11, <1>13
<1> QED BY <1>2, <1>8, <1>14 DEF q

LEMMA BoundStep == IInv /\ TypeOK' /\ [Next]_vars => OverdraftIsBounded'
<1> SUFFICES ASSUME IInv, TypeOK', [Next]_vars, NEW u \in User
             PROVE  withdrawn'[u] + SumFunctionOnSet(Pending(u)', Request)
                      <= Cardinality(Request) * account'[u]
  BY DEF OverdraftIsBounded, SumFunctionOnSet, FoldFunctionOnSet, MapThenFoldSet
<1> DEFINE p == Pending(u)
           q == Pending(u)'
           n == Cardinality(Request)
<1>1. TypeOK
  BY DEF IInv
<1>2. /\ account[u] \in Nat /\ account'[u] \in Nat /\ account[u] <= account'[u]
      /\ withdrawn[u] \in Nat /\ withdrawn'[u] \in Nat /\ n \in Nat
  <2>1. n \in Nat
    BY RequestAssumption, FS_CardinalityType
  <2>2. account[u] <= account'[u]
    BY <1>1, TotalsGrow
  <2> QED BY <1>1, <2>1, <2>2 DEF TypeOK
<1>3. withdrawn[u] + SumFunctionOnSet(p, Request) <= n * account[u]
  BY DEF IInv, OverdraftIsBounded
<1>4. n * account[u] <= n * account'[u] /\ n * account[u] \in Int /\ n * account'[u] \in Int
  BY <1>2, TimesGrows
<1>5. \A r \in Request : p[r] \in Nat /\ q[r] \in Nat
  <2>1. \A r \in Request : q[r] \in Nat
    BY DEF TypeOK, Pending
  <2> QED BY <1>1, <2>1, PendingIsNat
<1>6. SumFunctionOnSet(p, Request) \in Int /\ SumFunctionOnSet(q, Request) \in Int
  <2> HIDE DEF p, q
  <2>1. \A r \in Request : p[r] \in Int /\ q[r] \in Int
    BY <1>5
  <2> QED BY <2>1, RequestAssumption, SumIsInt
<1>7. ASSUME NEW s \in Request, CreateWithdrawal(s)
      PROVE  withdrawn'[u] + SumFunctionOnSet(q, Request) <= n * account'[u]
  <2>1. withdrawn'[u] + SumFunctionOnSet(q, Request)
          <= withdrawn[u] + SumFunctionOnSet(p, Request)
    BY <1>7, InsertBounded
  <2> HIDE DEF p, q, n
  <2> QED BY <1>2, <1>3, <1>4, <1>6, <2>1
<1>8. ASSUME NEW s \in Request, ReadTotal(s), q[s] # 0
      PROVE  withdrawn'[u] + SumFunctionOnSet(q, Request) <= n * account'[u]
  <2>1. withdrawn'[u] + SumFunctionOnSet(q, Request) <= n * account[u]
    BY <1>8, CheckBounded
  <2> HIDE DEF p, q, n
  <2> QED BY <1>2, <1>4, <1>6, <2>1
<1>9. ASSUME \A s \in Request : ~CreateWithdrawal(s) /\ (ReadTotal(s) => q[s] = 0)
      PROVE  withdrawn'[u] + SumFunctionOnSet(q, Request) <= n * account'[u]
  <2>1. withdrawn' = withdrawn
    BY <1>1, <1>9, OthersKeepWithdrawn
  <2>2. \A r \in Request : q[r] <= p[r]
    <3>1. ASSUME NEW r \in Request, ReadTotal(r)
          PROVE  q[r] <= p[r]
      <4>1. q[r] = 0 /\ p[r] \in Nat
        BY <1>5, <1>9, <3>1
      <4> QED BY <4>1
    <3>2. ASSUME NEW r \in Request, ~ReadTotal(r)
          PROVE  q[r] <= p[r]
      BY <1>1, <3>2, PendingStep
    <3> QED BY <3>1, <3>2
  <2> HIDE DEF p, q, n
  <2>3. \A r \in Request : q[r] \in Int /\ p[r] \in Int /\ q[r] <= p[r]
    BY <1>5, <2>2
  <2>4. SumFunctionOnSet(q, Request) <= SumFunctionOnSet(p, Request)
    BY <2>3, RequestAssumption, SumIsMonotone
  <2> QED BY <1>2, <1>3, <1>4, <1>6, <2>1, <2>4
<1> QED BY <1>7, <1>8, <1>9

(* Between its check and its insert a withdrawal holds a balance the user  *)
(* has had, and a sum that was covered when it looked.                     *)
THEOREM RequestsAreInformed == Spec => []IInv
<1>1. Init => IInv
  <2> SUFFICES ASSUME Init
               PROVE  IInv
    OBVIOUS
  <2>1. \A r \in Request : pc[r] = "idle" /\ reply[r] = 0
    BY DEF Init
  <2>2. ASSUME NEW u \in User
        PROVE  withdrawn[u] + SumFunctionOnSet(Pending(u), Request)
                 <= Cardinality(Request) * account[u]
    <3>1. SumFunctionOnSet(Pending(u), Request) = 0
      <4>1. \A r \in Request : Pending(u)[r] = 0
        BY <2>1 DEF Pending
      <4> QED BY <4>1, RequestAssumption, SumOfZeros
    <3>2. Cardinality(Request) * 0 = 0
      BY RequestAssumption, FS_CardinalityType
    <3> QED BY <3>1, <3>2 DEF Init
  <2>3. OverdraftIsBounded
    BY <2>2 DEF OverdraftIsBounded
  <2> QED BY <2>1, <2>3, TypeInit DEF IInv, Informed, RowsAreFresh, AnswersAreFresh, Open
<1>2. IInv /\ TypeOK' /\ [Next]_vars => IInv'
  BY InformedStep, FreshStep, BoundStep DEF IInv
<1> QED BY <1>1, <1>2, TypeCorrect, PTL DEF Spec

(* What the race of check and insert can cost: with n goroutines a user's  *)
(* withdrawals never exceed n times what was credited, whatever is tried,  *)
(* fails or starts again (service/balance.go:84-139).                      *)
THEOREM OverdraftsAreBounded ==
  Spec => [](/\ OverdraftIsBounded
            /\ \A u \in User : withdrawn[u] <= Cardinality(Request) * account[u])
<1>1. ASSUME IInv, NEW u \in User
      PROVE  withdrawn[u] <= Cardinality(Request) * account[u]
  <2> DEFINE p == Pending(u)
             most == Cardinality(Request) * account[u]
  <2>1. withdrawn[u] + SumFunctionOnSet(p, Request) <= most
    BY <1>1 DEF IInv, OverdraftIsBounded
  <2>2. \A r \in Request : p[r] \in Nat
    BY <1>1, PendingIsNat DEF IInv
  <2>3. withdrawn[u] \in Nat /\ account[u] \in Nat
    BY <1>1 DEF IInv, TypeOK
  <2>4. most \in Int
    BY <2>3, RequestAssumption, FS_CardinalityType
  <2> HIDE DEF p, most
  <2>5. SumFunctionOnSet(p, Request) \in Int /\ SumFunctionOnSet(p, Request) >= 0
    <3> DEFINE z == [r \in Request |-> 0]
    <3>1. \A r \in Request : z[r] \in Int /\ p[r] \in Int /\ z[r] <= p[r] /\ z[r] = 0
      BY <2>2
    <3> HIDE DEF z
    <3>2. SumFunctionOnSet(z, Request) <= SumFunctionOnSet(p, Request)
      BY <3>1, RequestAssumption, SumIsMonotone
    <3>3. SumFunctionOnSet(z, Request) = 0
      BY <3>1, RequestAssumption, SumOfZeros
    <3>4. SumFunctionOnSet(p, Request) \in Int
      BY <3>1, RequestAssumption, SumIsInt
    <3> QED BY <3>2, <3>3, <3>4
  <2>6. withdrawn[u] <= most
    BY <2>1, <2>3, <2>4, <2>5
  <2> QED BY <2>6 DEF most
<1>2. IInv => /\ OverdraftIsBounded
              /\ \A u \in User : withdrawn[u] <= Cardinality(Request) * account[u]
  BY <1>1 DEF IInv
<1> QED BY <1>2, RequestsAreInformed, PTL

(* Whatever requests of a user run at once, each answer shows all that was *)
(* withdrawn before it was asked for (repository/withdrawal.go:63-105).    *)
THEOREM AnswersStayFresh == Spec => []AnswersAreFresh
BY RequestsAreInformed, PTL DEF IInv

-----------------------------------------------------------------------------
(* A sum that the account covered after the withdrawals the request saw is *)
(* covered still, when those are all.                                      *)
LEMMA CoveredSum ==
  ASSUME NEW a \in Nat, NEW b \in Nat, NEW w \in Nat, NEW k \in Nat,
         b <= a, w <= a, k <= Current(b, w)
  PROVE  w + k <= a
BY DEF Current

(* However many withdrawals run at once: an overdraft takes a check that   *)
(* missed a withdrawal stored before the insert it allowed                 *)
(* (service/balance.go:99-122).                                            *)
THEOREM OverdraftsAreStaleChecks == Spec => OverdraftNeedsStaleCheck
<1>1. ASSUME IInv, [Next]_vars, NEW u \in User, ~Overdrawn(u), Overdrawn(u)'
      PROVE  InsertsOnStaleCheck(u)
  <2>1. account[u] \in Nat /\ withdrawn[u] \in Nat /\ withdrawn[u] <= account[u]
    BY <1>1 DEF IInv, TypeOK, Overdrawn
  <2>2. PICK r \in Request : CreateWithdrawal(r)
    <3>1. CASE \A r \in Request : ~CreateWithdrawal(r)
      <4>1. withdrawn' = withdrawn /\ account[u] <= account'[u]
        BY <1>1, <3>1, OthersKeepWithdrawn, TotalsGrow DEF IInv
      <4>2. account'[u] \in Nat
        BY <1>1, TypeStep DEF IInv, TypeOK
      <4> QED BY <1>1, <2>1, <4>1, <4>2 DEF Overdrawn
    <3> QED BY <3>1
  <2>3. /\ pc[r] = "insert" /\ pc'[r] = "done"
        /\ account' = account
        /\ withdrawn'[u] = IF u = user[r] THEN withdrawn[u] + sum[r] ELSE withdrawn[u]
    BY <1>1, <2>2, InsertAdds DEF IInv
  <2>4. user[r] = u
    BY <1>1, <2>3 DEF Overdrawn
  <2>5. /\ seenBalance[r] \in Nat /\ seenWithdrawn[r] \in Nat /\ sum[r] \in Nat
        /\ seenBalance[r] <= account[u]
        /\ seenWithdrawn[r] <= withdrawn[u]
        /\ sum[r] <= Current(seenBalance[r], seenWithdrawn[r])
    BY <1>1, <2>3, <2>4 DEF IInv, TypeOK, Informed
  <2>6. seenWithdrawn[r] # withdrawn[u]
    BY <1>1, <2>1, <2>3, <2>4, <2>5, CoveredSum DEF Overdrawn
  <2> QED BY <2>1, <2>3, <2>4, <2>5, <2>6 DEF InsertsOnStaleCheck
<1>2. IInv /\ [Next]_vars =>
        [\A u \in User : ~Overdrawn(u) /\ Overdrawn(u)' => InsertsOnStaleCheck(u)]_vars
  BY <1>1
<1> QED BY <1>2, RequestsAreInformed, PTL DEF Spec, OverdraftNeedsStaleCheck

-----------------------------------------------------------------------------
(* Only its own statement takes a request from its second read onwards.    *)
LEMMA SecondReadIsOwn ==
  ASSUME TypeOK, [Next]_vars, NEW r \in Request,
         pc[r] = "readTotal", pc'[r] \in {"done", "insert"}, err'[r] # "failed"
  PROVE  ReadTotal(r)
<1>1. ASSUME NEW s \in Request, Step(s)
      PROVE  ReadTotal(r)
  <2>1. s = r
    <3>1. s # r => pc'[r] = pc[r]
      BY <1>1, OtherRequestsRest DEF Same
    <3> QED BY <3>1
  <2>2. ~Fail(r)
    BY DEF Fail, Finish, TypeOK
  <2> QED
    BY <1>1, <2>1, <2>2
    DEF Step, GetBalance, GetWithdrawals, Withdraw, Begin, Open, FindUser,
        ReadUser, CreateWithdrawal, GetUserWithdrawals, SendRows
<1>2. ASSUME NEW u \in User, NEW k \in Reward, Credit(u, k)
      PROVE  FALSE
  BY <1>2 DEF Credit
<1>3. ~Restart
  BY DEF Restart
<1>4. ~UNCHANGED vars
  BY DEF vars
<1> QED BY <1>1, <1>2, <1>3, <1>4 DEF Next

(* However many requests and credits run at once: the balance computed     *)
(* from the two reads is there at the second (service/balance.go:47-73).   *)
THEOREM ShownBalancesAreAvailable == Spec => ShownIsAvailable
<1> DEFINE Moves(r) == pc[r] = "readTotal" /\ pc'[r] \in {"done", "insert"}
                         /\ err'[r] # "failed"
<1>1. ASSUME IInv, [Next]_vars, NEW r \in Request, Moves(r)
      PROVE  Current(seenBalance'[r], seenWithdrawn'[r]) <= Available(user[r])
  <2>1. ReadTotal(r)
    BY <1>1, SecondReadIsOwn DEF IInv
  <2>2. seenBalance'[r] = seenBalance[r] /\ seenWithdrawn'[r] = withdrawn[user[r]]
    BY <1>1, <2>1, ReadTotalEffect DEF IInv, TypeOK
  <2>3. /\ seenBalance[r] \in Nat /\ withdrawn[user[r]] \in Nat
        /\ account[user[r]] \in Nat /\ seenBalance[r] <= account[user[r]]
    BY <1>1 DEF IInv, TypeOK, Informed
  <2> QED BY <2>2, <2>3 DEF Available, Current
<1>2. IInv /\ [Next]_vars =>
        [\A r \in Request : Moves(r) =>
           Current(seenBalance'[r], seenWithdrawn'[r]) <= Available(user[r])]_vars
  BY <1>1
<1> QED BY <1>2, RequestsAreInformed, PTL DEF Spec, ShownIsAvailable, Moves

-----------------------------------------------------------------------------
(* One request at a time: the check and the insert see the same total.     *)
SerialInv ==
  /\ NoOverdraft
  /\ \A r \in Request : pc[r] = "insert" => seenWithdrawn[r] = withdrawn[user[r]]

LEMMA SerialStep ==
  ASSUME \A r, s \in Request : r = s, IInv, SerialInv, TypeOK', [Next]_vars
  PROVE  SerialInv'
<1> USE DEF IInv
<1>1. NoOverdraft'
  <2>1. ASSUME NEW u \in User
        PROVE  withdrawn'[u] <= account'[u]
    <3>1. /\ account[u] \in Nat /\ withdrawn[u] \in Nat
          /\ account'[u] \in Nat /\ withdrawn[u] <= account[u]
          /\ account[u] <= account'[u]
      BY TotalsGrow DEF TypeOK, SerialInv, NoOverdraft, Overdrawn
    <3>2. ASSUME NEW r \in Request, CreateWithdrawal(r), u = user[r]
          PROVE  withdrawn'[u] <= account'[u]
      <4>1. /\ pc[r] = "insert" /\ account' = account
            /\ withdrawn'[u] = withdrawn[u] + sum[r]
        BY <3>2, InsertAdds
      <4>2. /\ seenBalance[r] \in Nat /\ sum[r] \in Nat
            /\ seenBalance[r] <= account[u]
            /\ sum[r] <= Current(seenBalance[r], withdrawn[u])
        BY <3>2, <4>1 DEF TypeOK, Informed, SerialInv
      <4> QED BY <3>1, <4>1, <4>2, CoveredSum
    <3>3. ASSUME NEW r \in Request, CreateWithdrawal(r), u # user[r]
          PROVE  withdrawn'[u] = withdrawn[u]
      BY <3>3, InsertAdds
    <3>4. CASE \A r \in Request : ~CreateWithdrawal(r)
      BY <3>1, <3>4, OthersKeepWithdrawn
    <3> QED BY <3>1, <3>2, <3>3, <3>4
  <2>2. \A u \in User : withdrawn'[u] \in Nat /\ account'[u] \in Nat
    BY DEF TypeOK
  <2> QED BY <2>1, <2>2 DEF NoOverdraft, Overdrawn
<1>2. ASSUME NEW r \in Request, pc'[r] = "insert"
      PROVE  seenWithdrawn'[r] = withdrawn'[user'[r]]
  <2>1. ~CreateWithdrawal(r) /\ \A s \in Request : ~CreateWithdrawal(s)
    <3>1. ~CreateWithdrawal(r)
      BY <1>2, InsertAdds
    <3> QED BY <3>1
  <2>2. withdrawn' = withdrawn
    BY <2>1, OthersKeepWithdrawn
  <2>3. CASE pc[r] = "insert" /\ UNCHANGED <<user[r], seenWithdrawn[r]>>
    BY <2>2, <2>3 DEF SerialInv
  <2>4. CASE ReadTotal(r)
    BY <2>2, <2>4, ReadTotalEffect DEF TypeOK, input
  <2>5. ASSUME NEW s \in Request, Step(s)
        PROVE  ReadTotal(r)
    BY <1>2, <2>1, <2>5
    DEF Step, GetBalance, GetWithdrawals, Withdraw, Begin, FindUser, ReadUser,
        GetUserWithdrawals, SendRows, Fail, Finish, TypeOK
  <2>6. ~Restart
    BY <1>2 DEF Restart
  <2>7. ASSUME NEW u \in User, NEW k \in Reward, Credit(u, k)
        PROVE  pc[r] = "insert" /\ UNCHANGED <<user[r], seenWithdrawn[r]>>
    BY <1>2, <2>7 DEF Credit, input, seen
  <2>8. CASE UNCHANGED vars
    BY <1>2, <2>3, <2>8 DEF vars
  <2> QED BY <2>3, <2>4, <2>5, <2>6, <2>7, <2>8 DEF Next
<1> QED BY <1>1, <1>2 DEF SerialInv

(* Were requests served one at a time, no account would ever be overdrawn, *)
(* whatever fails and whatever the worker credits in between: the overlap  *)
(* of two withdrawals is all that is wrong (service/balance.go:84-139).    *)
THEOREM SerialWithdrawalsAreCovered ==
  ASSUME \A r, s \in Request : r = s
  PROVE  Spec => []NoOverdraft
<1>1. Init => SerialInv
  BY DEF Init, SerialInv, NoOverdraft, Overdrawn
<1>2. IInv /\ TypeOK' /\ SerialInv /\ [Next]_vars => SerialInv'
  BY SerialStep
<1>3. SerialInv => NoOverdraft
  BY DEF SerialInv
<1> QED BY <1>1, <1>2, <1>3, RequestsAreInformed, TypeCorrect, PTL DEF Spec
=============================================================================
