----------------------------- MODULE Gophermart -----------------------------
(***************************************************************************)
(* The service as one process: uploads and lists of orders (OrderService), *)
(* balances and withdrawals (BalanceService) and the order worker          *)
(* (OrderWorker) over the same tables orders, users and withdrawals.       *)
(*                                                                         *)
(* Each of the three modules stands alone with a guess of what the others  *)
(* do to its tables -- Settle, Upload, Credit, Restart.  Here the guesses  *)
(* are replaced by the code they stand for.                                *)
(***************************************************************************)
EXTENDS Integers, FiniteSets

CONSTANTS
  User,        \* the users registered
  Number,      \* order numbers
  Sender,      \* requests that upload an order number
  Reader,      \* requests for a list of orders
  Goroutine,   \* serve requests about balances, one after another
  Accrual,     \* amounts the accrual system announces, in thousandths
  Sum,         \* "sum" of a withdrawal, in thousandths
  MaxBigint,   \* largest BIGINT, in kopecks
  NoOrder,
  NoAccrual

VARIABLES
  orders, balance, withdrawn,    \* the tables
  remote,                        \* the accrual system
  wpc, batch, order, reward, seen,                  \* the worker
  upc, uploader, number, uerr, answer, list,        \* orders' requests
  bpc, op, holder, sum, seenBalance, seenWithdrawn, before, berr, reply
                                                    \* balances' requests

tables   == <<orders, balance, withdrawn>>
worker   == <<wpc, batch, order, reward, seen>>
uploads  == <<upc, uploader, number, uerr, answer, list>>
balances == <<bpc, op, holder, sum, seenBalance, seenWithdrawn, before, berr, reply>>

vars == <<orders, balance, withdrawn, remote, wpc, batch, order, reward, seen,
          upc, uploader, number, uerr, answer, list, bpc, op, holder, sum,
          seenBalance, seenWithdrawn, before, berr, reply>>

(* Each component comes with its theorems (module ...Proofs extends it),   *)
(* which hold of it here as well.                                          *)
W == INSTANCE OrderWorkerProofs WITH pc <- wpc

(* What an order can be worth, in kopecks.                                 *)
Worth == {W!Rewarded(0, x) : x \in Accrual \cup {NoAccrual}}

U == INSTANCE OrderServiceProofs WITH
       Request <- Sender, Reward <- Worth,
       pc <- upc, user <- uploader, err <- uerr, reply <- answer

B == INSTANCE BalanceServiceProofs WITH
       Request <- Goroutine, Reward <- Worth, account <- balance,
       pc <- bpc, user <- holder, err <- berr

(* The assumptions of the components.                                      *)
ASSUME AccrualAssumption == Accrual \subseteq Int /\ NoAccrual \notin Int
ASSUME SumAssumption     == Sum \subseteq Int
ASSUME LimitAssumption   == MaxBigint \in Nat
ASSUME NoOrderAssumption == NoOrder \notin W!Order
ASSUME NumberAssumption  == IsFiniteSet(Number)
ASSUME RequestAssumption == IsFiniteSet(Goroutine)

-----------------------------------------------------------------------------
Up == wpc # "down"

(* Requests come in while the server listens, and end at any time.         *)
UploadStep ==
  /\ \/ Up /\ \E r \in Sender : U!LoadOrder(r)
     \/ \E r \in Sender : U!GetOrderByNumber(r) \/ U!CreateOrder(r) \/ U!Fail(r)
  /\ UNCHANGED <<balance, withdrawn, remote, worker, balances>>

ReadStep ==
  /\ \/ Up /\ \E q \in Reader, u \in User : U!GetOrders(q, u)
     \/ \E q \in Reader : U!GetUserOrders(q) \/ U!SendRows(q) \/ U!FailList(q)
  /\ UNCHANGED <<balance, withdrawn, remote, worker, balances>>

BalanceStep ==
  /\ \/ Up /\ \E r \in Goroutine, u \in User :
          B!GetBalance(r, u) \/ B!GetWithdrawals(r, u) \/ \E x \in Sum : B!Withdraw(r, u, x)
     \/ \E r \in Goroutine :
          \/ B!FindUser(r) \/ B!ReadUser(r) \/ B!ReadTotal(r) \/ B!CreateWithdrawal(r)
          \/ B!GetUserWithdrawals(r) \/ B!SendRows(r) \/ B!Fail(r)
  /\ UNCHANGED <<orders, remote, worker, uploads>>

WorkerStep == W!WorkerStep /\ UNCHANGED <<withdrawn, uploads, balances>>

RemoteStep ==
  /\ \E n \in Number : W!RemoteStep(n)
  /\ UNCHANGED <<withdrawn, uploads, balances>>

-----------------------------------------------------------------------------
(* OnStop of the worker, which comes after the server has stopped to       *)
(* listen; what the server waited for in vain still runs.                  *)
Stop == W!Stop /\ UNCHANGED <<withdrawn, uploads, balances>>

OrdersRun   == (\E r \in Sender : U!Running(r)) \/ \E q \in Reader : U!Listing(q)
BalancesRun == \E r \in Goroutine : ~B!Open(r)

(* The process ends, by a crash or after OnStop: worker and requests go,   *)
(* the tables stay.                                                        *)
Exit ==
  /\ OrdersRun \/ BalancesRun
  /\ W!Stop \/ (~Up /\ UNCHANGED <<orders, balance, remote, worker>>)
  /\ U!Restart \/ (~OrdersRun /\ UNCHANGED uploads)
  /\ B!Restart \/ (~BalancesRun /\ UNCHANGED <<withdrawn, balances>>)

Start ==
  /\ ~OrdersRun /\ ~BalancesRun
  /\ W!Start
  /\ UNCHANGED <<withdrawn, uploads, balances>>

Init == W!Init /\ U!Init /\ B!Init

Next ==
  \/ UploadStep \/ ReadStep \/ BalanceStep \/ WorkerStep \/ RemoteStep
  \/ Stop \/ Exit \/ Start

Spec == Init /\ [][Next]_vars

-----------------------------------------------------------------------------
(* What OrderService and BalanceService assume of the worker, and the      *)
(* worker of them, is what the code does: every step of the service is a   *)
(* step of each of the three modules, or none of its business.  So the     *)
(* worker settles rows that are NEW and changes no owner (worker/order.go: *)
(* 112-132), it credits and never takes away (:142-151), and uploads only  *)
(* ever add rows that are NEW (service/order.go:65-73).                    *)
WorkerFits   == W!Spec
UploadsFit   == U!Spec
BalancesFit  == B!Spec

P == INSTANCE Points WITH
       Reward <- Worth, NoUser <- NoOrder,
       owner <- W!Owners, phase <- W!Phases, reward <- W!Paid,
       account <- balance, spent <- withdrawn

(* The service keeps what it promises: a number is one user's, is paid     *)
(* once, and what is spent was paid before -- for clients that ask for one *)
(* withdrawal at a time.                                                   *)
ImplementsPoints == P!Spec

(* A client that sees an order PROCESSED can count on its points: what a   *)
(* list shows as accrued has been credited to the user by then             *)
(* (worker/order.go:118-151, repository/order.go:96-134).                  *)
ShownIsCredited ==
  \A q \in Reader : \A o \in list[q].rows : o.accrual <= balance[list[q].user]
=============================================================================
