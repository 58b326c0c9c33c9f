--------------------------- MODULE BalanceService ---------------------------
(***************************************************************************)
(* internal/handler/balance.go and internal/service/balance.go: GET        *)
(* /api/user/balance, POST /api/user/balance/withdraw and GET              *)
(* /api/user/withdrawals, one action per statement that reaches the        *)
(* database.  Every request runs in a goroutine of its own and no          *)
(* transaction spans two statements.                                       *)
(*                                                                         *)
(* Table withdrawals is kept as its SUM by user: a withdrawal stored and   *)
(* not listed, or the other way round, shows in the sum.                   *)
(***************************************************************************)
EXTENDS Money, FiniteSets, Functions

CONSTANTS
  User,        \* the users registered
  Request,     \* request goroutines; each serves one request after another
  Sum,         \* "sum" of a withdrawal, in thousandths
  Reward,      \* amounts the order worker credits, in kopecks
  MaxBigint    \* largest BIGINT, in kopecks

ASSUME SumAssumption    == Sum \subseteq Int
ASSUME RewardAssumption == Reward \subseteq Nat
ASSUME LimitAssumption  == MaxBigint \in Nat

(* A process has memory for finitely many goroutines.                      *)
ASSUME RequestAssumption == IsFiniteSet(Request)

VARIABLES
  account,        \* users.balance
  withdrawn,      \* SELECT COALESCE(SUM(sum), 0) FROM withdrawals, by user
  pc,             \* the statement a request is at
  op,             \* which handler serves the request
  user,           \* the user the request is authenticated as
  sum,            \* what is to be withdrawn, in kopecks
  seenBalance,    \* user.Balance as GetUserBalance read it
  seenWithdrawn,  \* withdrawn as GetUserBalance read it, or what a list adds up to
  before,         \* what the user had withdrawn when the request began
  err,            \* what the service returned
  reply           \* the status code sent, 0 before

store == <<account, withdrawn>>
input == <<op, user, sum, before>>
seen  == <<seenBalance, seenWithdrawn>>
vars  == <<account, withdrawn, pc, op, user, sum, seenBalance, seenWithdrawn,
           before, err, reply>>

Err == {"none", "insufficient funds", "failed"}

(* A definition whose name ends in _Something is the one of that name with *)
(* a plausible bug; no specification uses it, it shows that a property     *)
(* would notice.                                                           *)

-----------------------------------------------------------------------------
(* The handlers                                                            *)

Open(r) == pc[r] \in {"idle", "done"}

(* A goroutine takes up a request.                                         *)
Begin(r, u, o, k, first) ==
  /\ Open(r)
  /\ pc'    = [pc EXCEPT ![r] = first]
  /\ op'    = [op EXCEPT ![r] = o]
  /\ user'  = [user EXCEPT ![r] = u]
  /\ sum'   = [sum EXCEPT ![r] = k]
  /\ seenBalance'   = [seenBalance EXCEPT ![r] = 0]
  /\ seenWithdrawn' = [seenWithdrawn EXCEPT ![r] = 0]
  /\ before' = [before EXCEPT ![r] = withdrawn[u]]
  /\ err'   = [err EXCEPT ![r] = "none"]
  /\ reply' = [reply EXCEPT ![r] = 0]
  /\ UNCHANGED store

GetBalance(r, u) == Begin(r, u, "balance", 0, "readUser")

GetWithdrawals(r, u) == Begin(r, u, "list", 0, "query")

Withdraw_AnySign(r, u, x) == Begin(r, u, "withdraw", ToKopecks(x), "findUser")

(* A request without a valid cookie (401), with a body that does not bind, *)
(* "sum" not above zero included (400), or whose order fails the Luhn      *)
(* check (422) never gets to the service, and leaves its goroutine free.   *)
Withdraw(r, u, x) == x > 0 /\ Begin(r, u, "withdraw", ToKopecks(x), "findUser")

(* errors.Is compares the error the service returned with errors made on   *)
(* the spot: it holds for none of them, and the code stays 500.            *)
StatusOf(e) == IF e = "none" THEN 200 ELSE 500

Finish(r, e) ==
  /\ pc'    = [pc EXCEPT ![r] = "done"]
  /\ err'   = [err EXCEPT ![r] = e]
  /\ reply' = [reply EXCEPT ![r] = StatusOf(e)]

-----------------------------------------------------------------------------
(* The service                                                             *)

(* Withdraw's own GetUserByID, of which nothing but the error is used: no  *)
(* code deletes users.                                                     *)
FindUser(r) ==
  /\ pc[r] = "findUser"
  /\ pc' = [pc EXCEPT ![r] = "readUser"]
  /\ UNCHANGED <<store, input, seen, err, reply>>

(* GetUserBalance, the first read.                                         *)
ReadUser(r) ==
  /\ pc[r] = "readUser"
  /\ pc' = [pc EXCEPT ![r] = "readTotal"]
  /\ seenBalance' = [seenBalance EXCEPT ![r] = account[user[r]]]
  /\ UNCHANGED <<store, input, seenWithdrawn, err, reply>>

Current_Unguarded(b, w) == (b - w) % (2 * MaxBigint + 2)

(* GetUserBalance, what is computed: unsigned, so never below zero.        *)
Current(b, w) == IF b > w THEN b - w ELSE 0

Available(u) == Current(account[u], withdrawn[u])

ReadTotal_NoCheck(r) ==
  /\ pc[r] = "readTotal"
  /\ seenWithdrawn' = [seenWithdrawn EXCEPT ![r] = withdrawn[user[r]]]
  /\ IF op[r] = "balance"
     THEN Finish(r, "none")
     ELSE pc' = [pc EXCEPT ![r] = "insert"] /\ UNCHANGED <<err, reply>>
  /\ UNCHANGED <<store, input, seenBalance>>

(* The second read ends a GET, and a withdrawal of more than there is.     *)
ReadTotal(r) ==
  /\ pc[r] = "readTotal"
  /\ seenWithdrawn' = [seenWithdrawn EXCEPT ![r] = withdrawn[user[r]]]
  /\ \/ op[r] = "balance" /\ Finish(r, "none")
     \/ /\ op[r] = "withdraw"
        /\ Current(seenBalance[r], withdrawn[user[r]]) < sum[r]
        /\ Finish(r, "insufficient funds")
     \/ /\ op[r] = "withdraw"
        /\ Current(seenBalance[r], withdrawn[user[r]]) >= sum[r]
        /\ pc' = [pc EXCEPT ![r] = "insert"]
        /\ UNCHANGED <<err, reply>>
  /\ UNCHANGED <<store, input, seenBalance>>

(* CreateWithdrawal stores the row; its answer may get lost, and the       *)
(* request ends with an error although the points are gone.                *)
CreateWithdrawal(r) ==
  /\ pc[r] = "insert"
  /\ withdrawn' = [withdrawn EXCEPT ![user[r]] = @ + sum[r]]
  /\ \E e \in {"none", "failed"} : Finish(r, e)
  /\ UNCHANGED <<account, input, seen>>

(* GetUserWithdrawals: the query fixes the rows, which are then read from  *)
(* the connection one by one.                                              *)
GetUserWithdrawals(r) ==
  /\ pc[r] = "query"
  /\ pc' = [pc EXCEPT ![r] = "rows"]
  /\ seenWithdrawn' = [seenWithdrawn EXCEPT ![r] = withdrawn[user[r]]]
  /\ UNCHANGED <<store, input, seenBalance, err, reply>>

SendRows_NoErr(r) ==
  /\ pc[r] = "rows"
  /\ \E read \in 0..seenWithdrawn[r] :
       seenWithdrawn' = [seenWithdrawn EXCEPT ![r] = read]
  /\ Finish(r, "none")
  /\ UNCHANGED <<store, input, seenBalance>>

(* All rows were read: when the connection breaks before the last one,     *)
(* rows.Err is set and the request fails.  A list without rows is answered *)
(* 204; rows of a sum of 0 are rows.                                       *)
SendRows(r) ==
  /\ pc[r] = "rows"
  /\ pc'  = [pc EXCEPT ![r] = "done"]
  /\ err' = [err EXCEPT ![r] = "none"]
  /\ \E code \in IF seenWithdrawn[r] = 0 THEN {200, 204} ELSE {200} :
       reply' = [reply EXCEPT ![r] = code]
  /\ UNCHANGED <<store, input, seen>>

(* A statement fails, or the client goes away and its context is           *)
(* cancelled; nothing is stored.                                           *)
Fail(r) ==
  /\ ~Open(r)
  /\ Finish(r, "failed")
  /\ UNCHANGED <<store, input, seen>>

-----------------------------------------------------------------------------
(* CommitTx of the order worker (OrderWorker.tla), the only other writer.  *)
Credit(u, k) ==
  /\ account[u] + k <= MaxBigint
  /\ account' = [account EXCEPT ![u] = @ + k]
  /\ UNCHANGED <<withdrawn, pc, input, seen, err, reply>>

(* The process stops and starts again: every request is gone, unanswered.  *)
Restart ==
  /\ \E r \in Request : ~Open(r)
  /\ pc'            = [r \in Request |-> "idle"]
  /\ op'            = [r \in Request |-> "balance"]
  /\ sum'           = [r \in Request |-> 0]
  /\ seenBalance'   = [r \in Request |-> 0]
  /\ seenWithdrawn' = [r \in Request |-> 0]
  /\ before'        = [r \in Request |-> 0]
  /\ err'           = [r \in Request |-> "none"]
  /\ reply'         = [r \in Request |-> 0]
  /\ UNCHANGED <<store, user>>

Init ==
  /\ account       = [u \in User |-> 0]
  /\ withdrawn     = [u \in User |-> 0]
  /\ pc            = [r \in Request |-> "idle"]
  /\ op            = [r \in Request |-> "balance"]
  /\ user          \in [Request -> User]
  /\ sum           = [r \in Request |-> 0]
  /\ seenBalance   = [r \in Request |-> 0]
  /\ seenWithdrawn = [r \in Request |-> 0]
  /\ before        = [r \in Request |-> 0]
  /\ err           = [r \in Request |-> "none"]
  /\ reply         = [r \in Request |-> 0]

Step(r) ==
  \/ \E u \in User : \/ GetBalance(r, u) \/ GetWithdrawals(r, u)
                    \/ \E x \in Sum : Withdraw(r, u, x)
  \/ FindUser(r) \/ ReadUser(r) \/ ReadTotal(r) \/ CreateWithdrawal(r)
  \/ GetUserWithdrawals(r) \/ SendRows(r)
  \/ Fail(r)

Next ==
  \/ \E r \in Request : Step(r)
  \/ \E u \in User, k \in Reward : Credit(u, k)
  \/ Restart

Spec == Init /\ [][Next]_vars

-----------------------------------------------------------------------------
(* Types of the variables.                                                 *)
TypeOK ==
  /\ account   \in [User -> 0..MaxBigint]
  /\ withdrawn \in [User -> Nat]
  /\ pc    \in [Request -> {"idle", "findUser", "readUser", "readTotal",
                            "insert", "query", "rows", "done"}]
  /\ op    \in [Request -> {"balance", "withdraw", "list"}]
  /\ user  \in [Request -> User]
  /\ sum   \in [Request -> Nat]
  /\ seenBalance   \in [Request -> Nat]
  /\ seenWithdrawn \in [Request -> Nat]
  /\ before \in [Request -> Nat]
  /\ err   \in [Request -> Err]
  /\ reply \in [Request -> {0, 200, 204, 500}]

(* What a request read of its user, and what it concluded from that.       *)
Informed ==
  \A r \in Request :
    /\ pc[r] \in {"readTotal", "insert"} =>
         seenBalance[r] <= account[user[r]]
    /\ pc[r] = "insert" =>
         /\ seenWithdrawn[r] <= withdrawn[user[r]]
         /\ sum[r] <= Current(seenBalance[r], seenWithdrawn[r])

(* Whoever is answered 200 or 204 is shown all that had been withdrawn     *)
(* when the request came, whichever requests of the user run at the same   *)
(* time, and nothing that is not stored: a list cut short by a connection  *)
(* that breaks is not answered like a complete one                         *)
(* (repository/withdrawal.go:63-105, service/balance.go:61-82).            *)
AnswersAreFresh ==
  \A r \in Request :
    op[r] \in {"balance", "list"} /\ reply[r] \in {200, 204} =>
      before[r] <= seenWithdrawn[r] /\ seenWithdrawn[r] <= withdrawn[user[r]]

(* What makes it so: what was withdrawn before a request came is withdrawn *)
(* when it looks.                                                          *)
RowsAreFresh ==
  \A r \in Request :
    /\ pc[r] # "idle" => before[r] <= withdrawn[user[r]]
    /\ pc[r] = "insert" => op[r] = "withdraw"
    /\ ~Open(r) => reply[r] = 0
    /\ pc[r] = "rows" =>
         before[r] <= seenWithdrawn[r] /\ seenWithdrawn[r] <= withdrawn[user[r]]

(* What the withdrawals of a user that have passed their check will take.  *)
Pending(u) ==
  [r \in Request |-> IF pc[r] = "insert" /\ user[r] = u THEN sum[r] ELSE 0]

(* How far an account can be overdrawn: by as many accounts as withdrawals *)
(* overlap, and no further however often it is tried                       *)
(* (service/balance.go:84-139).                                            *)
OverdraftIsBounded ==
  \A u \in User :
    withdrawn[u] + SumFunctionOnSet(Pending(u), Request)
      <= Cardinality(Request) * account[u]

IInv == TypeOK /\ Informed /\ RowsAreFresh /\ AnswersAreFresh /\ OverdraftIsBounded

Overdrawn(u) == withdrawn[u] > account[u]

InsertsOnStaleCheck(u) ==
  \E r \in Request : /\ pc[r] = "insert"
                     /\ pc'[r] = "done"
                     /\ user[r] = u
                     /\ seenWithdrawn[r] < withdrawn[u]

(* A user gets into overdraft in one way only: a withdrawal is stored      *)
(* after a check that did not see another withdrawal of the user, stored   *)
(* since (service/balance.go:99-122).  No credit, no crash, no lost answer *)
(* and no order of the two reads of GetUserBalance does it.                *)
OverdraftNeedsStaleCheck ==
  [][\A u \in User : ~Overdrawn(u) /\ Overdrawn(u)' => InsertsOnStaleCheck(u)]_vars

(* The balance that GetUserBalance computes is never more than what the    *)
(* user has at the moment of its second read, although a credit and        *)
(* withdrawals may come between its reads (service/balance.go:47-73: the   *)
(* account, which only grows, is read before the withdrawals): a client    *)
(* that is shown a balance can withdraw it, if nobody else does.           *)
ShownIsAvailable ==
  [][\A r \in Request :
       pc[r] = "readTotal" /\ pc'[r] \in {"done", "insert"} /\ err'[r] # "failed" =>
         Current(seenBalance'[r], seenWithdrawn'[r]) <= Available(user[r])]_vars

(* Points are withdrawn from what was credited: SPECIFICATION.md:265, 402  *)
(* when the account does not hold enough.                                  *)
NoOverdraft == \A u \in User : ~Overdrawn(u)
=============================================================================
