---------------------------- MODULE OrderWorker ----------------------------
(***************************************************************************)
(* internal/worker/order.go: the one goroutine that asks the accrual       *)
(* system about NEW orders and books the rewards, statement by statement,  *)
(* over the tables orders and users.                                       *)
(*                                                                         *)
(* A transaction runs at READ COMMITTED: the rows it writes are visible to *)
(* others from its commit on.  Those rows are the worker's own values --   *)
(* order, and seen plus the reward -- until CommitTx stores them.          *)
(* A statement whose effect was stored and whose answer was lost leaves    *)
(* the tables, and the worker, as one that succeeded.                      *)
(***************************************************************************)
EXTENDS Money, FiniteSets, Functions

CONSTANTS
  User,        \* the users registered, rows of table users
  Number,      \* order numbers
  Accrual,     \* amounts the accrual system announces, in thousandths
  MaxBigint,   \* largest BIGINT, in kopecks
  NoOrder,     \* the value of a missing row, of a local not in use
  NoAccrual    \* "accrual" left out of an answer

Status == {"NEW", "PROCESSING", "INVALID", "PROCESSED"}
Final  == {"INVALID", "PROCESSED"}

Order == [number : Number, user : User, status : Status, accrual : Nat]

ASSUME AccrualAssumption == Accrual \subseteq Int /\ NoAccrual \notin Int
ASSUME BigintAssumption  == MaxBigint \in Nat
ASSUME NoOrderAssumption == NoOrder \notin Order

(* VARCHAR(255) has finitely many values.                                  *)
ASSUME NumberAssumption  == IsFiniteSet(Number)

VARIABLES
  orders,    \* table orders, by its unique number
  balance,   \* users.balance, all that was ever credited
  remote,    \* the accrual system's own state, by number
  pc,        \* the statement the worker is at
  batch,     \* copies of the rows still to be processed in this round
  order,     \* the copy being processed
  reward,    \* accrualResp.Accrual
  seen       \* user.Balance as TxGetUser read it

store  == <<orders, balance>>
locals == <<batch, order, reward, seen>>
vars   == <<orders, balance, remote, pc, batch, order, reward, seen>>

(* A definition whose name ends in _Something is the one of that name with *)
(* a plausible bug; no specification uses it, it shows that a property     *)
(* would notice.                                                           *)

-----------------------------------------------------------------------------
(* The accrual system, external: it moves forward through its statuses on  *)
(* its own, and a final answer never changes (SPECIFICATION.md:342-353).   *)

RemoteStatus == {"NONE", "REGISTERED"} \cup (Status \ {"NEW"})

Answer == [status : RemoteStatus, accrual : Accrual \cup {NoAccrual}]

Rank == [NONE |-> 0, REGISTERED |-> 1, PROCESSING |-> 2,
         INVALID |-> 3, PROCESSED |-> 3]

RemoteStep(n) ==
  \E a \in Answer :
    /\ Rank[a.status] > Rank[remote[n].status]
    /\ a.status # "PROCESSED" => a.accrual = NoAccrual
    /\ remote' = [remote EXCEPT ![n] = a]
    /\ UNCHANGED <<store, pc, locals>>

-----------------------------------------------------------------------------
(* The service inserts the row (service/order.go, CreateOrder).            *)
Upload(n, u) ==
  /\ orders[n] = NoOrder
  /\ orders' = [orders EXCEPT ![n] =
       [number |-> n, user |-> u, status |-> "NEW", accrual |-> 0]]
  /\ UNCHANGED <<balance, remote, pc, locals>>

-----------------------------------------------------------------------------
(* processNewOrders *)

HasStatus(n, s) == orders[n] # NoOrder /\ orders[n].status = s

(* The rows come ordered by created_at; the loop treats them alike, and    *)
(* the model takes them in any order.                                      *)
GetOrdersByStatus(s) == {orders[n] : n \in {m \in Number : HasStatus(m, s)}}

(* The timer ticks: a round begins.                                        *)
Tick ==
  /\ pc = "waiting"
  /\ pc' = "fetching"
  /\ UNCHANGED <<store, remote, locals>>

FetchNewOrders_LimitOne ==
  /\ pc = "fetching"
  /\ pc' = "looping"
  /\ batch' = LET new == GetOrdersByStatus("NEW")
              IN  IF new = {} THEN {} ELSE {CHOOSE o \in new : TRUE}
  /\ UNCHANGED <<store, remote, order, reward, seen>>

FetchNewOrders_Pending ==
  /\ pc = "fetching"
  /\ pc' = "looping"
  /\ batch' = GetOrdersByStatus("NEW") \cup GetOrdersByStatus("PROCESSING")
  /\ UNCHANGED <<store, remote, order, reward, seen>>

FetchNewOrders ==
  /\ pc = "fetching"
  /\ pc' = "looping"
  /\ batch' = GetOrdersByStatus("NEW")
  /\ UNCHANGED <<store, remote, order, reward, seen>>

(* The query fails, which ends the round before it has begun.              *)
FetchFails ==
  /\ pc = "fetching"
  /\ pc' = "waiting"
  /\ UNCHANGED <<store, remote, locals>>

EndBatch ==
  /\ pc = "looping"
  /\ batch = {}
  /\ pc' = "waiting"
  /\ UNCHANGED <<store, remote, locals>>

(* processOrder returns, with or without an error, the locals go away and  *)
(* the loop continues; a transaction not committed is rolled back.         *)
Return ==
  /\ pc' = "looping"
  /\ order' = NoOrder
  /\ reward' = NoAccrual
  /\ seen' = 0

-----------------------------------------------------------------------------
(* processOrder, the call of GetOrderAccrual *)

(* An error, a timeout, 429, 204, or a status that says "not yet".         *)
PollNothing(o) ==
  /\ pc = "looping"
  /\ o \in batch
  /\ batch' = batch \ {o}
  /\ UNCHANGED <<store, remote, pc, order, reward, seen>>

PollStatus_UnknownIsInvalid(o) ==
  /\ pc = "looping"
  /\ o \in batch
  /\ remote[o.number].status \in {"INVALID", "PROCESSING", "REGISTERED"}
  /\ batch' = batch \ {o}
  /\ order' = [o EXCEPT !.status =
       IF remote[o.number].status = "PROCESSING" THEN "PROCESSING" ELSE "INVALID"]
  /\ pc' = "updating"
  /\ UNCHANGED <<store, remote, reward, seen>>

PollStatus(o) ==
  /\ pc = "looping"
  /\ o \in batch
  /\ remote[o.number].status \in {"INVALID", "PROCESSING"}
  /\ batch' = batch \ {o}
  /\ order' = [o EXCEPT !.status = remote[o.number].status]
  /\ pc' = "updating"
  /\ UNCHANGED <<store, remote, reward, seen>>

PollProcessed(o) ==
  /\ pc = "looping"
  /\ o \in batch
  /\ remote[o.number].status = "PROCESSED"
  /\ batch' = batch \ {o}
  /\ order' = o
  /\ reward' = remote[o.number].accrual
  /\ pc' = "beginning"
  /\ UNCHANGED <<store, remote, seen>>

-----------------------------------------------------------------------------
(* processOrder, the statements *)

(* INVALID, PROCESSING: the row is overwritten with the copy, no           *)
(* transaction.                                                            *)
UpdateOrder ==
  /\ pc = "updating"
  /\ orders' = [orders EXCEPT ![order.number] = order]
  /\ Return
  /\ UNCHANGED <<balance, remote, batch>>

Rewarded_Unsigned(old, x) == IF x # NoAccrual THEN ToKopecks(x) ELSE old

(* PROCESSED: what is stored as accrual, and whether the user is credited. *)
Rewarded(old, x) == IF x # NoAccrual /\ x >= 0 THEN ToKopecks(x) ELSE old

Pays(x) == x # NoAccrual /\ x > 0

BeginTx_StatusOnly ==
  /\ pc = "beginning"
  /\ pc' = "txOrder"
  /\ order' = [order EXCEPT !.status = "PROCESSED"]
  /\ UNCHANGED <<store, remote, batch, reward, seen>>

BeginTx ==
  /\ pc = "beginning"
  /\ pc' = "txOrder"
  /\ order' = [order EXCEPT !.status = "PROCESSED",
                            !.accrual = Rewarded(order.accrual, reward)]
  /\ UNCHANGED <<store, remote, batch, reward, seen>>

TxUpdateOrder_OutsideTx ==
  /\ pc = "txOrder"
  /\ order.accrual <= MaxBigint
  /\ orders' = [orders EXCEPT ![order.number] = order]
  /\ pc' = IF Pays(reward) THEN "txUser" ELSE "committing"
  /\ UNCHANGED <<balance, remote, locals>>

TxUpdateOrder ==
  /\ pc = "txOrder"
  /\ order.accrual <= MaxBigint
  /\ pc' = IF Pays(reward) THEN "txUser" ELSE "committing"
  /\ UNCHANGED <<store, remote, locals>>

(* GetUserByID takes a connection of the pool, not the transaction.        *)
TxGetUser ==
  /\ pc = "txUser"
  /\ pc' = "txBalance"
  /\ seen' = balance[order.user]
  /\ UNCHANGED <<store, remote, batch, order, reward>>

NewBalance_Points == seen + reward

NewBalance == seen + ToKopecks(reward)

TxUpdateBalance_OutsideTx ==
  /\ pc = "txBalance"
  /\ NewBalance <= MaxBigint
  /\ balance' = [balance EXCEPT ![order.user] = NewBalance]
  /\ pc' = "committing"
  /\ UNCHANGED <<orders, remote, locals>>

TxUpdateBalance ==
  /\ pc = "txBalance"
  /\ NewBalance <= MaxBigint
  /\ pc' = "committing"
  /\ UNCHANGED <<store, remote, locals>>

CommitTx_AnyAccrual ==
  /\ pc = "committing"
  /\ orders' = [orders EXCEPT ![order.number] = order]
  /\ balance' = [balance EXCEPT ![order.user] = seen + order.accrual]
  /\ Return
  /\ UNCHANGED <<remote, batch>>

CommitTx ==
  /\ pc = "committing"
  /\ orders' = [orders EXCEPT ![order.number] = order]
  /\ balance' = IF Pays(reward)
                THEN [balance EXCEPT ![order.user] = NewBalance] ELSE balance
  /\ Return
  /\ UNCHANGED <<remote, batch>>

(* Any of these calls may fail.                                            *)
InCall == {"updating", "beginning", "txOrder", "txUser", "txBalance", "committing"}

Fail_EndsRound ==
  /\ pc \in InCall
  /\ pc' = "waiting"
  /\ batch' = {}
  /\ order' = NoOrder
  /\ reward' = NoAccrual
  /\ seen' = 0
  /\ UNCHANGED <<store, remote>>

Fail ==
  /\ pc \in InCall
  /\ Return
  /\ UNCHANGED <<store, remote, batch>>

-----------------------------------------------------------------------------
(* The process stops, by a crash or by OnStop, which cancels the context   *)
(* and does not wait: at any statement.  The tables survive.               *)
Stop ==
  /\ pc # "down"
  /\ pc' = "down"
  /\ batch' = {}
  /\ order' = NoOrder
  /\ reward' = NoAccrual
  /\ seen' = 0
  /\ UNCHANGED <<store, remote>>

Start ==
  /\ pc = "down"
  /\ pc' = "waiting"
  /\ UNCHANGED <<store, remote, locals>>

-----------------------------------------------------------------------------
Init ==
  /\ orders  = [n \in Number |-> NoOrder]
  /\ balance = [u \in User |-> 0]
  /\ remote  = [n \in Number |-> [status |-> "NONE", accrual |-> NoAccrual]]
  /\ pc      = "down"
  /\ batch   = {}
  /\ order   = NoOrder
  /\ reward  = NoAccrual
  /\ seen    = 0

Poll(o) == PollNothing(o) \/ PollStatus(o) \/ PollProcessed(o)

Statement ==
  \/ UpdateOrder \/ BeginTx \/ TxUpdateOrder \/ TxGetUser
  \/ TxUpdateBalance \/ CommitTx

WorkerStep ==
  \/ Tick \/ FetchNewOrders \/ FetchFails \/ EndBatch
  \/ \E o \in batch : Poll(o)
  \/ Statement
  \/ Fail

EnvStep ==
  \/ \E n \in Number : RemoteStep(n) \/ \E u \in User : Upload(n, u)
  \/ Stop \/ Start

Next == WorkerStep \/ EnvStep

Spec == Init /\ [][Next]_vars

-----------------------------------------------------------------------------
(* Types of the variables.                                                 *)
TypeOK ==
  /\ orders  \in [Number -> Order \cup {NoOrder}]
  /\ balance \in [User -> Nat]
  /\ remote  \in [Number -> Answer]
  /\ pc      \in {"down", "waiting", "fetching", "looping"} \cup InCall
  /\ batch   \in SUBSET Order
  /\ order   \in IF pc \in InCall THEN Order ELSE {NoOrder}
  /\ reward  \in Accrual \cup {NoAccrual}
  /\ seen    \in Nat

HoldsBalance == pc = "txBalance" \/ (pc = "committing" /\ Pays(reward))

(* UpdateOrder writes every column of a copy that was read at the start of *)
(* the round, any number of HTTP calls earlier (worker/order.go:83, :114,  *)
(* :132), and the new balance is computed from a read outside the          *)
(* transaction (:137).  No write can undo another's because each copy and  *)
(* the balance read are still what the tables hold.                        *)
CopiesAreCurrent ==
  /\ \A o \in batch : HasStatus(o.number, "NEW") /\ orders[o.number] = o
  /\ pc \in InCall =>
       /\ HasStatus(order.number, "NEW")
       /\ order.user = orders[order.number].user
       /\ \A o \in batch : o.number # order.number
  /\ HoldsBalance => seen = balance[order.user]

(* SPECIFICATION.md:342-353, 365: an order becomes INVALID or PROCESSED    *)
(* only after the accrual system said so, and keeps the amount it said,    *)
(* whatever failed, was repeated or was restarted in between.              *)
AgreesWithAccrualSystem ==
  \A n \in Number :
    /\ HasStatus(n, "INVALID") => remote[n].status = "INVALID"
    /\ HasStatus(n, "PROCESSED") =>
         /\ remote[n].status = "PROCESSED"
         /\ orders[n].accrual = Rewarded(0, remote[n].accrual)

(* What a user's PROCESSED orders brought, by order.                       *)
Earned(u) ==
  [n \in Number |-> IF HasStatus(n, "PROCESSED") /\ orders[n].user = u
                    THEN orders[n].accrual ELSE 0]

(* The books balance: what users.balance holds is the sum of the accruals  *)
(* of the user's PROCESSED orders at every moment, so that no reward is    *)
(* lost, doubled or given to another user (worker/order.go:132-151).       *)
Reconciled == \A u \in User : balance[u] = SumFunctionOnSet(Earned(u), Number)

(* Rows: keyed by their number, and without a reward until PROCESSED.      *)
RowsAreSound ==
  \A n \in Number : orders[n] # NoOrder =>
    /\ orders[n].number = n
    /\ orders[n].status # "PROCESSED" => orders[n].accrual = 0

(* What the statement at hand is about to store is what was answered.      *)
WritesAreAnswered ==
  /\ pc \in {"down", "waiting", "fetching"} => batch = {}
  /\ pc = "updating" =>
       /\ order.status \in {"INVALID", "PROCESSING"}
       /\ order.status = "INVALID" => remote[order.number].status = "INVALID"
       /\ order.accrual = 0
  /\ pc \in InCall \ {"updating"} =>
       /\ remote[order.number].status = "PROCESSED"
       /\ remote[order.number].accrual = reward
  /\ pc = "beginning" => order = orders[order.number]
  /\ pc \in InCall \ {"updating", "beginning"} =>
       /\ order.status = "PROCESSED"
       /\ order.accrual = Rewarded(0, reward)
  /\ pc \in {"txUser", "txBalance"} => Pays(reward)

(* The inductive invariant behind the two properties above: what the       *)
(* worker holds between two statements of processOrder determines, with    *)
(* the tables, what its next statement stores (worker/order.go:101-160).   *)
IInv ==
  /\ TypeOK
  /\ RowsAreSound
  /\ CopiesAreCurrent
  /\ WritesAreAnswered
  /\ AgreesWithAccrualSystem

-----------------------------------------------------------------------------
(* The worker implements the ledger.                                       *)

PhaseOf == [NEW |-> "open", PROCESSING |-> "open",
            INVALID |-> "refused", PROCESSED |-> "paid"]

Owners == [n \in Number |-> IF orders[n] = NoOrder THEN NoOrder
                                                  ELSE orders[n].user]
Phases == [n \in Number |-> IF orders[n] = NoOrder THEN "absent"
                                                  ELSE PhaseOf[orders[n].status]]
Paid   == [n \in Number |-> IF orders[n] = NoOrder THEN 0
                                                  ELSE orders[n].accrual]

L == INSTANCE Ledger WITH
       NoUser  <- NoOrder,
       Reward  <- {Rewarded(0, x) : x \in Accrual \cup {NoAccrual}},
       owner   <- Owners,
       phase   <- Phases,
       reward  <- Paid,
       account <- balance

(* Every claim is refused or paid at most once, and a payment and the      *)
(* change of its order's status are one step, through failures of any      *)
(* statement and crashes at any statement (worker/order.go:118-151).       *)
ImplementsLedger == L!Spec

-----------------------------------------------------------------------------
(* Liveness.  The goroutine is scheduled, the timer ticks and every call   *)
(* returns (the HTTP client times out after 5 s, client.go:38; a broken    *)
(* connection errs), so the worker never rests at a statement.  It is not  *)
(* assumed that a call succeeds: each may fail for ever.                   *)
Progress == WF_vars(WorkerStep)

(* The accrual system and the database do not refuse for ever: a call that *)
(* is tried again and again is answered at some time.  The code does not   *)
(* make it so; it is assumed by the properties that name it only.          *)
Answered ==
  /\ SF_vars(FetchNewOrders)
  /\ \A n \in Number :
       SF_vars(\E o \in batch : o.number = n /\ (PollStatus(o) \/ PollProcessed(o)))
  /\ SF_vars(UpdateOrder)
  /\ SF_vars(BeginTx)
  /\ SF_vars(TxUpdateOrder)
  /\ SF_vars(TxGetUser)
  /\ SF_vars(TxUpdateBalance)
  /\ SF_vars(CommitTx)

FairSpec    == Spec /\ Progress
HealthySpec == Spec /\ Progress /\ Answered

StaysUp == <>[](pc # "down")

PollOf(n) == \E o \in batch : o.number = n /\ Poll(o)

(* One order's error, or the whole system failing for a while, never makes *)
(* the worker stop or forget an order (worker/order.go:74-78, 88-96: log   *)
(* and continue): a round is tried again and again, and if the rounds' own *)
(* query is not refused for ever, an order that stays NEW is asked about   *)
(* again and again, whatever becomes of every other call.                  *)
KeepsPolling ==
  StaysUp =>
    /\ []<>(pc = "fetching")
    /\ []<><<FetchNewOrders>>_vars => \A n \in Number :
         []<>(~HasStatus(n, "NEW")) \/ []<><<PollOf(n)>>_vars

HasVerdict(n)   == remote[n].status \in Final
StoresStatus(n) == pc = "updating" /\ order.number = n
Settled(n)      == \E s \in Final : HasStatus(n, s)

(* The reward and the account it goes to are within BIGINT.                *)
Fits(n) ==
  orders[n] # NoOrder /\ Pays(remote[n].accrual) =>
    balance[orders[n].user] + ToKopecks(remote[n].accrual) <= MaxBigint

(* The verdict on an order that is still NEW is booked in the end, however *)
(* often its statements failed before (worker/order.go:88-96, 118-151) --  *)
(* unless an answer PROCESSING from before the verdict is being stored, or *)
(* the reward is more than the account can take, which is refused in every *)
(* round: that order alone stays behind, the others go on.                 *)
NewIsSettled ==
  Answered /\ StaysUp => \A n \in Number :
    HasStatus(n, "NEW") /\ HasVerdict(n) /\ ~StoresStatus(n)
      ~> Settled(n) \/ ~Fits(n)

(* SPECIFICATION.md:16: the reward due is credited "for every suitable     *)
(* order number", so also for one that was stored as PROCESSING before the *)
(* accrual system came to its verdict.                                     *)
EveryOrderIsSettled ==
  StaysUp => \A n \in Number :
    orders[n] # NoOrder /\ HasVerdict(n) ~> Settled(n)
=============================================================================
