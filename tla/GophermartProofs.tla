-------------------------- MODULE GophermartProofs --------------------------
(***************************************************************************)
(* The components fit: what each module assumes of the code outside it is  *)
(* what that code does, for any number of users, numbers and requests.  So *)
(* the theorems about each component hold of the service, and from them    *)
(* follows what the service promises as a whole.                           *)
(***************************************************************************)
EXTENDS Gophermart, TLAPS

LEMMA NumbersAreFinite == W!IsFiniteSet(Number)
BY NumberAssumption DEF IsFiniteSet, W!IsFiniteSet

LEMMA GoroutinesAreFinite == B!IsFiniteSet(Goroutine)
BY RequestAssumption DEF IsFiniteSet, B!IsFiniteSet

(* Uploads carry what they came with.                                      *)
InputsOK == uploader \in [Sender -> User] /\ number \in [Sender -> Number]

LEMMA InputsStay == Spec => []InputsOK
<1>1. Init => InputsOK
  BY DEF Init, U!Init, InputsOK
<1>2. InputsOK /\ [Next]_vars => InputsOK'
  <2> SUFFICES ASSUME [Next]_vars
               PROVE  UNCHANGED <<uploader, number>>
    BY DEF InputsOK
  <2>1. CASE UploadStep
    BY <2>1 DEF UploadStep, U!LoadOrder, U!GetOrderByNumber, U!CreateOrder, U!Fail
  <2>2. CASE ReadStep
    BY <2>2 DEF ReadStep, U!GetOrders, U!GetUserOrders, U!SendRows, U!FailList, U!upload
  <2>3. CASE BalanceStep \/ WorkerStep \/ RemoteStep \/ Stop \/ Start
    BY <2>3 DEF BalanceStep, WorkerStep, RemoteStep, Stop, Start, uploads
  <2>4. CASE Exit
    BY <2>4 DEF Exit, U!Restart, uploads
  <2> QED BY <2>1, <2>2, <2>3, <2>4 DEF Next, vars
<1> QED BY <1>1, <1>2, PTL DEF Spec

-----------------------------------------------------------------------------
(* The worker among the requests                                           *)

LEMMA InsertIsUpload ==
  ASSUME InputsOK, NEW r \in Sender, U!CreateOrder(r),
         UNCHANGED <<balance, withdrawn, remote, worker, balances>>
  PROVE  [W!Next]_W!vars
<1>1. CASE UNCHANGED orders
  BY <1>1 DEF W!vars, worker
<1>2. CASE /\ orders[number[r]] = NoOrder
           /\ orders' = [orders EXCEPT ![number[r]] = U!NewRow(number[r], uploader[r])]
  <2>1. W!Upload(number[r], uploader[r])
    BY <1>2 DEF W!Upload, U!NewRow, worker, W!locals
  <2>2. number[r] \in Number /\ uploader[r] \in User
    BY DEF InputsOK
  <2> QED BY <2>1, <2>2 DEF W!Next, W!EnvStep
<1> QED BY <1>1, <1>2 DEF U!CreateOrder

LEMMA StepsFitWorker == InputsOK /\ [Next]_vars => [W!Next]_W!vars
<1> SUFFICES ASSUME InputsOK, [Next]_vars
             PROVE  [W!Next]_W!vars
  OBVIOUS
<1>1. CASE UploadStep
  <2>1. CASE UNCHANGED orders
    BY <1>1, <2>1 DEF UploadStep, W!vars, worker
  <2>2. CASE \E r \in Sender : U!CreateOrder(r)
    BY <1>1, <2>2, InsertIsUpload DEF UploadStep
  <2> QED BY <1>1, <2>1, <2>2 DEF UploadStep, U!LoadOrder, U!GetOrderByNumber, U!Fail
<1>2. CASE ReadStep
  BY <1>2 DEF ReadStep, U!GetOrders, U!GetUserOrders, U!SendRows, U!FailList,
              W!vars, worker
<1>3. CASE BalanceStep
  <2>1. UNCHANGED balance
    BY <1>3
    DEF BalanceStep, B!GetBalance, B!GetWithdrawals, B!Withdraw, B!Begin, B!FindUser,
        B!ReadUser, B!ReadTotal, B!CreateWithdrawal, B!GetUserWithdrawals, B!SendRows,
        B!Fail, B!store
  <2> QED BY <1>3, <2>1 DEF BalanceStep, W!vars, worker
<1>4. CASE WorkerStep
  BY <1>4 DEF WorkerStep, W!Next
<1>5. CASE RemoteStep
  BY <1>5 DEF RemoteStep, W!Next, W!EnvStep
<1>6. CASE Stop \/ Start
  BY <1>6 DEF Stop, Start, W!Next, W!EnvStep
<1>7. CASE Exit
  BY <1>7 DEF Exit, W!Next, W!EnvStep, W!vars, worker
<1>8. CASE UNCHANGED vars
  BY <1>8 DEF vars, W!vars
<1> QED BY <1>1, <1>2, <1>3, <1>4, <1>5, <1>6, <1>7, <1>8 DEF Next

(* All that the order worker was found to do alone it does in the service: *)
(* uploads add rows that are NEW and change no other                       *)
(* (service/order.go:65-73), requests about balances change neither table  *)
(* orders nor users.                                                       *)
THEOREM WorkerFitsIn == Spec => WorkerFits
<1>1. Init => W!Init
  BY DEF Init
<1>2. InputsOK /\ [Next]_vars => [W!Next]_W!vars
  BY StepsFitWorker
<1> QED BY <1>1, <1>2, InputsStay, PTL DEF Spec, WorkerFits, W!Spec

LEMMA WorkerCoupled == Spec => []W!IInv
<1>1. W!Spec => []W!IInv
  BY W!WorkerIsCoupled, AccrualAssumption, LimitAssumption, NoOrderAssumption,
     NumbersAreFinite
<1> QED BY <1>1, WorkerFitsIn, PTL DEF WorkerFits

-----------------------------------------------------------------------------
(* The requests beside the worker                                          *)

LEMMA WorthIsNat == Worth \subseteq Nat
<1>1. ASSUME NEW x \in Accrual \cup {NoAccrual}
      PROVE  W!Rewarded(0, x) \in Nat
  BY <1>1, W!RewardedIsNat, AccrualAssumption, LimitAssumption, NoOrderAssumption,
     NumbersAreFinite
<1> QED BY <1>1 DEF Worth

(* What the worker writes into table orders is a row that was NEW, with    *)
(* its number and user, and with nothing accrued unless PROCESSED.         *)
LEMMA WorkerWrites ==
  ASSUME W!IInv, W!WorkerStep
  PROVE  \/ UNCHANGED orders
         \/ /\ order \in W!Order /\ orders[order.number] \in W!Order
            /\ orders[order.number] # NoOrder
            /\ orders[order.number].status = "NEW"
            /\ orders[order.number].number = order.number
            /\ orders[order.number].user = order.user
            /\ order.status \in W!Status \ {"NEW"}
            /\ order.status # "PROCESSED" => order.accrual = 0
            /\ order.accrual \in Worth \cup {0}
            /\ orders' = [orders EXCEPT ![order.number] = order]
<1>1. UNCHANGED orders \/ W!UpdateOrder \/ W!CommitTx
  BY DEF W!WorkerStep, W!Tick, W!FetchNewOrders, W!FetchFails, W!EndBatch, W!Poll,
         W!PollNothing, W!PollStatus, W!PollProcessed, W!Statement, W!BeginTx, W!TxUpdateOrder, W!TxGetUser,
         W!TxUpdateBalance, W!Fail, W!store
<1>2. ASSUME W!UpdateOrder \/ W!CommitTx
      PROVE  /\ order \in W!Order /\ orders[order.number] \in W!Order
             /\ orders[order.number] # NoOrder
             /\ orders[order.number].status = "NEW"
             /\ orders[order.number].number = order.number
             /\ orders[order.number].user = order.user
             /\ orders' = [orders EXCEPT ![order.number] = order]
  <2>1. wpc \in W!InCall /\ orders' = [orders EXCEPT ![order.number] = order]
    BY <1>2 DEF W!UpdateOrder, W!CommitTx, W!InCall
  <2>2. order \in W!Order /\ order.number \in Number
    BY <2>1 DEF W!IInv, W!TypeOK, W!Order
  <2>3. /\ orders[order.number] # NoOrder /\ orders[order.number].status = "NEW"
        /\ orders[order.number].user = order.user
    BY <2>1 DEF W!IInv, W!CopiesAreCurrent, W!HasStatus
  <2>4. orders[order.number] \in W!Order /\ orders[order.number].number = order.number
    BY <2>2, <2>3 DEF W!IInv, W!TypeOK, W!RowsAreSound
  <2> QED BY <2>1, <2>2, <2>3, <2>4
<1>3. ASSUME W!UpdateOrder
      PROVE  order.status \in W!Status \ {"NEW"} /\ order.accrual = 0
  BY <1>3 DEF W!UpdateOrder, W!IInv, W!WritesAreAnswered, W!Status
<1>4. ASSUME W!CommitTx
      PROVE  order.status = "PROCESSED" /\ order.accrual \in Worth
  <2>1. wpc = "committing" /\ wpc \in W!InCall \ {"updating", "beginning"}
    BY <1>4 DEF W!CommitTx, W!InCall
  <2>2. order.status = "PROCESSED" /\ order.accrual = W!Rewarded(0, reward)
    BY <2>1 DEF W!IInv, W!WritesAreAnswered
  <2>3. reward \in Accrual \cup {NoAccrual}
    BY DEF W!IInv, W!TypeOK
  <2> QED BY <2>2, <2>3 DEF Worth
<1> QED BY <1>1, <1>2, <1>3, <1>4 DEF W!Status

LEMMA WriteIsSettle ==
  ASSUME W!IInv, WorkerStep
  PROVE  [U!Next]_U!vars
<1>1. CASE UNCHANGED orders
  BY <1>1 DEF WorkerStep, uploads, U!vars
<1>2. CASE /\ order \in W!Order /\ orders[order.number] \in W!Order
           /\ orders[order.number] # NoOrder
           /\ orders[order.number].status = "NEW"
           /\ orders[order.number].number = order.number
           /\ orders[order.number].user = order.user
           /\ order.status \in W!Status \ {"NEW"}
           /\ order.status # "PROCESSED" => order.accrual = 0
           /\ order.accrual \in Worth \cup {0}
           /\ orders' = [orders EXCEPT ![order.number] = order]
  <2>1. [orders[order.number] EXCEPT !.status = order.status, !.accrual = order.accrual]
          = order
    <3> DEFINE row == [orders[order.number] EXCEPT !.status = order.status,
                                                   !.accrual = order.accrual]
    <3>1. row \in W!Order
      BY <1>2 DEF W!Order
    <3>2. /\ row.number = order.number /\ row.user = order.user
          /\ row.status = order.status /\ row.accrual = order.accrual
      BY <1>2 DEF W!Order
    <3> HIDE DEF row
    <3>3. row = order
      BY <1>2, <3>1, <3>2 DEF W!Order
    <3> QED BY <3>3 DEF row
  <2>2. U!Settle(order.number, order.status, order.accrual)
    BY <1>2, <2>1 DEF U!Settle, WorkerStep, uploads, U!upload
  <2>3. order.number \in Number /\ order.status \in U!Status \ {"NEW"}
    BY <1>2 DEF W!Order, W!Status, U!Status
  <2> QED BY <1>2, <2>2, <2>3 DEF U!Next
<1> QED BY <1>1, <1>2, WorkerWrites DEF WorkerStep

LEMMA StepsFitUploads == W!IInv /\ [Next]_vars => [U!Next]_U!vars
<1> SUFFICES ASSUME W!IInv, [Next]_vars
             PROVE  [U!Next]_U!vars
  OBVIOUS
<1>1. CASE UploadStep
  BY <1>1 DEF UploadStep, U!Next, U!Step
<1>2. CASE ReadStep
  BY <1>2 DEF ReadStep, U!Next, U!ReaderStep
<1>3. CASE BalanceStep
  BY <1>3 DEF BalanceStep, uploads, U!vars
<1>4. CASE WorkerStep
  BY <1>4, WriteIsSettle
<1>5. CASE RemoteStep \/ Stop \/ Start
  BY <1>5 DEF RemoteStep, Stop, Start, W!RemoteStep, W!Stop, W!Start, W!store,
              uploads, U!vars
<1>6. CASE Exit
  <2>1. UNCHANGED orders
    BY <1>6 DEF Exit, W!Stop, W!store
  <2> QED BY <1>6, <2>1 DEF Exit, U!Next, uploads, U!vars
<1>7. CASE UNCHANGED vars
  BY <1>7 DEF vars, U!vars
<1> QED BY <1>1, <1>2, <1>3, <1>4, <1>5, <1>6, <1>7 DEF Next

(* All that uploads and lists were found to do alone they do in the        *)
(* service: the worker writes rows that are NEW only, and changes no       *)
(* number, no owner and no verdict (worker/order.go:112-132).              *)
THEOREM UploadsFitIn == Spec => UploadsFit
<1>1. Init => U!Init
  BY DEF Init
<1>2. W!IInv /\ [Next]_vars => [U!Next]_U!vars
  BY StepsFitUploads
<1> QED BY <1>1, <1>2, WorkerCoupled, PTL DEF Spec, UploadsFit, U!Spec

-----------------------------------------------------------------------------
(* The limit of BIGINT is checked by the statement before the commit.      *)
WithinLimit == wpc = "committing" /\ W!Pays(reward) => W!NewBalance <= MaxBigint

LEMMA LimitStep == WithinLimit /\ [W!Next]_W!vars => WithinLimit'
<1> SUFFICES ASSUME WithinLimit, [W!Next]_W!vars, wpc' = "committing",
                    W!Pays(reward)'
             PROVE  W!NewBalance' <= MaxBigint
  BY DEF WithinLimit
<1>1. CASE W!TxUpdateBalance
  BY <1>1 DEF W!TxUpdateBalance, W!NewBalance, W!locals
<1>2. CASE W!TxUpdateOrder
  BY <1>2 DEF W!TxUpdateOrder, W!locals, W!Pays
<1>3. CASE UNCHANGED <<wpc, reward, seen>>
  BY <1>3 DEF WithinLimit, W!NewBalance, W!Pays
<1>4. CASE W!Stop \/ W!Start \/ W!Fail
  BY <1>4 DEF W!Stop, W!Start, W!Fail, W!Return
<1>5. CASE \E n \in Number : W!RemoteStep(n) \/ \E u \in User : W!Upload(n, u)
  BY <1>3, <1>5 DEF W!RemoteStep, W!Upload, W!locals
<1>6. CASE \/ W!Tick \/ W!FetchNewOrders \/ W!FetchFails \/ W!EndBatch
           \/ \E o \in batch : W!Poll(o)
  <2>1. ASSUME NEW o \in batch, W!PollNothing(o)
        PROVE  W!NewBalance' <= MaxBigint
    BY <1>3, <2>1 DEF W!PollNothing
  <2>2. ASSUME NEW o \in batch, W!PollStatus(o) \/ W!PollProcessed(o)
        PROVE  FALSE
    BY <2>2 DEF W!PollStatus, W!PollProcessed
  <2> QED BY <1>6, <2>1, <2>2
    DEF W!locals, W!Tick, W!FetchNewOrders, W!FetchFails, W!EndBatch, W!Poll
<1>7. CASE W!UpdateOrder \/ W!BeginTx \/ W!TxGetUser \/ W!CommitTx
  BY <1>7 DEF W!UpdateOrder, W!BeginTx, W!TxGetUser, W!CommitTx, W!Return
<1>8. CASE UNCHANGED W!vars
  BY <1>3, <1>8 DEF W!vars
<1> QED
  BY <1>1, <1>2, <1>4, <1>5, <1>6, <1>7, <1>8
  DEF W!Next, W!WorkerStep, W!Statement, W!EnvStep

LEMMA LimitStays == Spec => []WithinLimit
<1>1. Init => WithinLimit
  BY DEF Init, W!Init, WithinLimit
<1>2. InputsOK /\ WithinLimit /\ [Next]_vars => WithinLimit'
  BY StepsFitWorker, LimitStep
<1> QED BY <1>1, <1>2, InputsStay, PTL DEF Spec

(* What the worker does to table users is a credit.                        *)
LEMMA CommitIsCredit ==
  ASSUME W!IInv, WithinLimit, WorkerStep
  PROVE  [B!Next]_B!vars
<1>1. CASE UNCHANGED balance
  BY <1>1 DEF WorkerStep, balances, B!vars
<1>2. CASE W!CommitTx /\ W!Pays(reward)
  <2> DEFINE k == W!ToKopecks(reward)
  <2>1. wpc = "committing" /\ reward \in Accrual \cup {NoAccrual}
    BY <1>2 DEF W!CommitTx, W!IInv, W!TypeOK
  <2>2. k \in Worth
    <3>1. W!Rewarded(0, reward) = k
      BY <1>2, <2>1, W!RewardedIsNat, AccrualAssumption, LimitAssumption, NoOrderAssumption,
     NumbersAreFinite
    <3> QED BY <2>1, <3>1 DEF Worth
  <2>3. order.user \in User /\ seen = balance[order.user]
    BY <1>2, <2>1
    DEF W!IInv, W!TypeOK, W!Order, W!InCall, W!CopiesAreCurrent, W!HoldsBalance
  <2>4. balance' = [balance EXCEPT ![order.user] = balance[order.user] + k]
    BY <1>2, <2>3 DEF W!CommitTx, W!NewBalance
  <2>5. balance[order.user] + k <= MaxBigint
    BY <1>2, <2>1, <2>3 DEF WithinLimit, W!NewBalance
  <2>6. B!Credit(order.user, k)
    BY <2>4, <2>5, <1>2 DEF B!Credit, WorkerStep, balances, B!input, B!seen
  <2> QED BY <2>2, <2>3, <2>6 DEF B!Next
<1>3. \/ UNCHANGED balance
      \/ W!CommitTx /\ W!Pays(reward)
  BY DEF WorkerStep, W!WorkerStep, W!Tick, W!FetchNewOrders, W!FetchFails, W!EndBatch,
         W!Poll, W!PollNothing, W!PollStatus, W!PollProcessed, W!Statement, W!UpdateOrder, W!BeginTx,
         W!TxUpdateOrder, W!TxGetUser, W!TxUpdateBalance, W!CommitTx, W!Fail, W!store
<1> QED BY <1>1, <1>2, <1>3

LEMMA StepsFitBalances == W!IInv /\ WithinLimit /\ [Next]_vars => [B!Next]_B!vars
<1> SUFFICES ASSUME W!IInv, WithinLimit, [Next]_vars
             PROVE  [B!Next]_B!vars
  OBVIOUS
<1>1. CASE UploadStep \/ ReadStep
  BY <1>1 DEF UploadStep, ReadStep, balances, B!vars
<1>2. CASE BalanceStep
  BY <1>2 DEF BalanceStep, B!Next, B!Step
<1>3. CASE WorkerStep
  BY <1>3, CommitIsCredit
<1>4. CASE RemoteStep \/ Stop \/ Start
  BY <1>4 DEF RemoteStep, Stop, Start, W!RemoteStep, W!Stop, W!Start, W!store,
              balances, B!vars
<1>5. CASE Exit
  <2>1. UNCHANGED balance
    BY <1>5 DEF Exit, W!Stop, W!store
  <2> QED BY <1>5, <2>1 DEF Exit, B!Next, balances, B!vars
<1>6. CASE UNCHANGED vars
  BY <1>6 DEF vars, B!vars
<1> QED BY <1>1, <1>2, <1>3, <1>4, <1>5, <1>6 DEF Next

(* All that requests about balances were found to do alone they do in the  *)
(* service: the worker only ever adds to an account, by what an order is   *)
(* worth and within BIGINT (worker/order.go:136-151).                      *)
THEOREM BalancesFitIn == Spec => BalancesFit
<1>1. Init => B!Init
  BY DEF Init
<1>2. W!IInv /\ WithinLimit /\ [Next]_vars => [B!Next]_B!vars
  BY StepsFitBalances
<1> QED
  BY <1>1, <1>2, WorkerCoupled, LimitStays, PTL DEF Spec, BalancesFit, B!Spec

-----------------------------------------------------------------------------
(* What a list shows.                                                      *)

(* An order that pays nothing is worth nothing.                            *)
LEMMA ZeroIsWorthless ==
  ASSUME NEW x \in Accrual \cup {NoAccrual}, ~W!Pays(x)
  PROVE  W!Rewarded(0, x) = 0
<1>1. CASE x = NoAccrual \/ ~(x >= 0)
  BY <1>1 DEF W!Rewarded
<1>2. CASE x # NoAccrual /\ x >= 0
  <2>1. x = 0
    BY <1>2, AccrualAssumption DEF W!Pays
  <2>2. ~W!DropsKopeck(W!DoubleBits, 0)
    BY DEF W!DropsKopeck
  <2>3. W!ToKopecks(0) = 0
    BY <2>2 DEF W!ToKopecks, W!ConvertAt
  <2> QED BY <1>2, <2>1, <2>3 DEF W!Rewarded
<1> QED BY <1>1, <1>2

LEMMA OrderIsRow == U!Row = W!Order
BY DEF U!Row, U!Status, W!Order, W!Status

(* The accrual of a row is in its user's account.                          *)
Backed ==
  \A n \in Number :
    orders[n] # NoOrder => orders[n].accrual <= balance[orders[n].user]

(* A listed order without a verdict shows no accrual.                      *)
OpenIsBare ==
  \A q \in Reader : \A o \in list[q].rows : o.status = "NEW" => o.accrual = 0

LEMMA AccountsGrow ==
  ASSUME B!TypeOK, W!IInv, WithinLimit, [Next]_vars, NEW u \in User
  PROVE  balance[u] \in Nat /\ balance'[u] \in Nat /\ balance[u] <= balance'[u]
<1>1. balance[u] <= balance'[u]
  BY StepsFitBalances, B!TotalsGrow, SumAssumption, WorthIsNat, LimitAssumption,
     GoroutinesAreFinite
<1>2. [B!Next]_B!vars
  BY StepsFitBalances
<1>3. B!TypeOK'
  BY <1>2, B!TypeStep, SumAssumption, WorthIsNat, LimitAssumption,
     GoroutinesAreFinite
<1> QED BY <1>1, <1>3 DEF B!TypeOK

LEMMA BackedStep ==
  ASSUME B!TypeOK, W!IInv, WithinLimit, InputsOK, Backed, [Next]_vars
  PROVE  Backed'
<1> SUFFICES ASSUME NEW n \in Number, orders'[n] # NoOrder
             PROVE  orders'[n].accrual <= balance'[orders'[n].user]
  BY DEF Backed
<1>1. W!TypeOK /\ W!RowsAreSound /\ \A o \in W!Order : o.user \in User /\ o.accrual \in Nat
  BY DEF W!IInv, W!Order
<1>2. CASE orders'[n] = orders[n]
  <2>1. orders[n] \in W!Order /\ orders[n].accrual <= balance[orders[n].user]
    BY <1>1, <1>2 DEF Backed, W!TypeOK
  <2> QED BY <1>1, <1>2, <2>1, AccountsGrow
<1>3. CASE orders'[n].accrual = 0 /\ orders'[n].user \in User
  BY <1>3, AccountsGrow
<1>4. ASSUME W!CommitTx, orders'[n] # orders[n]
      PROVE  orders'[n].accrual <= balance'[orders'[n].user]
  <2>1. wpc = "committing" /\ reward \in Accrual \cup {NoAccrual} /\ order \in W!Order
    BY <1>1, <1>4 DEF W!CommitTx, W!TypeOK, W!InCall
  <2>2. orders'[n] = order
    BY <1>1, <1>4 DEF W!CommitTx, W!TypeOK
  <2>3. order.accrual = W!Rewarded(0, reward) /\ order.user \in User
    BY <1>1, <2>1 DEF W!IInv, W!WritesAreAnswered, W!InCall
  <2>4. CASE W!Pays(reward)
    <3>1. order.accrual = W!ToKopecks(reward) /\ W!ToKopecks(reward) \in Nat
      BY <2>1, <2>3, <2>4, W!RewardedIsNat, AccrualAssumption, LimitAssumption, NoOrderAssumption,
     NumbersAreFinite
    <3>2. balance'[order.user] = seen + W!ToKopecks(reward) /\ seen \in Nat
      BY <1>1, <1>4, <2>3, <2>4 DEF W!CommitTx, W!NewBalance, W!TypeOK
    <3> QED BY <2>2, <3>1, <3>2
  <2>5. CASE ~W!Pays(reward)
    <3>1. order.accrual = 0
      BY <2>1, <2>3, <2>5, ZeroIsWorthless, AccrualAssumption DEF W!Rewarded, W!Pays
    <3> QED BY <2>2, <2>3, <3>1, AccountsGrow
  <2> QED BY <2>4, <2>5
<1>5. CASE WorkerStep
  <2>1. CASE W!UpdateOrder
    <3>1. orders'[n] = orders[n] \/ orders'[n] = order
      BY <1>1, <2>1 DEF W!UpdateOrder, W!TypeOK
    <3>2. order \in W!Order /\ order.accrual = 0
      BY <1>1, <2>1 DEF W!UpdateOrder, W!IInv, W!WritesAreAnswered, W!TypeOK, W!InCall
    <3> QED BY <1>1, <1>2, <1>3, <3>1, <3>2
  <2>2. CASE W!CommitTx
    BY <1>2, <1>4, <2>2
  <2>3. CASE UNCHANGED orders
    BY <1>2, <2>3
  <2> QED
    BY <1>5, <2>1, <2>2, <2>3
    DEF WorkerStep, W!WorkerStep, W!Tick, W!FetchNewOrders, W!FetchFails, W!EndBatch,
        W!Poll, W!PollNothing, W!PollStatus, W!PollProcessed, W!Statement, W!BeginTx, W!TxUpdateOrder, W!TxGetUser,
        W!TxUpdateBalance, W!Fail, W!store
<1>6. CASE UploadStep
  <2>1. \/ UNCHANGED orders
        \/ \E r \in Sender :
             orders' = [orders EXCEPT ![number[r]] = U!NewRow(number[r], uploader[r])]
    BY <1>6 DEF UploadStep, U!LoadOrder, U!GetOrderByNumber, U!CreateOrder, U!Fail
  <2>2. ASSUME NEW r \in Sender, orders'[n] # orders[n],
               orders' = [orders EXCEPT ![number[r]] = U!NewRow(number[r], uploader[r])]
        PROVE  orders'[n].accrual = 0 /\ orders'[n].user \in User
    BY <1>1, <2>2 DEF InputsOK, U!NewRow, W!TypeOK
  <2> QED BY <1>2, <1>3, <2>1, <2>2
<1>7. CASE ReadStep \/ BalanceStep \/ RemoteStep \/ Stop \/ Exit \/ Start \/ UNCHANGED vars
  <2>1. UNCHANGED orders
    BY <1>7 DEF ReadStep, BalanceStep, RemoteStep, Stop, Exit, Start, vars,
      U!GetOrders, U!GetUserOrders, U!SendRows, U!FailList, W!RemoteStep, W!Stop, W!Start,
      W!store, U!Restart
  <2> QED BY <1>2, <2>1
<1> QED BY <1>5, <1>6, <1>7 DEF Next

LEMMA BareStep ==
  ASSUME W!IInv, OpenIsBare, [U!Next]_U!vars, U!TypeOK
  PROVE  OpenIsBare'
<1> SUFFICES ASSUME NEW q \in Reader, NEW o \in list'[q].rows, o.status = "NEW"
             PROVE  o.accrual = 0
  BY DEF OpenIsBare
<1>1. o \in list[q].rows \/ o \in U!RowsOf(list[q].user)
  <2>1. CASE UNCHANGED list
    BY <2>1
  <2>2. ASSUME NEW p \in Reader, U!ReaderStep(p)
        PROVE  o \in list[q].rows \/ o \in U!RowsOf(list[q].user)
    <3>1. /\ \A r \in Reader : r # p => list'[r] = list[r]
          /\ \/ list'[p].rows = {}
             \/ list'[p].rows = U!RowsOf(list[p].user)
             \/ list'[p].rows \subseteq list[p].rows
      BY <2>2, U!ReaderEffect, WorthIsNat, NoOrderAssumption, OrderIsRow
    <3> QED BY <3>1
  <2>3. CASE U!Restart
    <3>1. list'[q].rows = {} \/ list'[q] = list[q]
      BY <2>3, U!RestartEffect, WorthIsNat, NoOrderAssumption, OrderIsRow
    <3> QED BY <3>1
  <2>4. CASE UNCHANGED list \/ (\E p \in Reader : U!ReaderStep(p)) \/ U!Restart
    BY <2>1, <2>2, <2>3, <2>4
  <2>5. UNCHANGED list \/ (\E p \in Reader : U!ReaderStep(p)) \/ U!Restart
    BY DEF U!Next, U!vars, U!Step, U!LoadOrder, U!GetOrderByNumber,
      U!CreateOrder, U!Fail, U!Finish, U!Settle
  <2> QED BY <2>4, <2>5
<1>2. CASE o \in list[q].rows
  BY <1>2 DEF OpenIsBare
<1>3. CASE o \in U!RowsOf(list[q].user)
  BY <1>3 DEF U!RowsOf, W!IInv, W!RowsAreSound
<1> QED BY <1>1, <1>2, <1>3

(* A client that sees an order PROCESSED can count on its points, for any  *)
(* number of orders, requests and users: the row and the credit are one    *)
(* transaction, what was shown stays true, and accounts only grow.         *)
THEOREM ShownIsPaid == Spec => []ShownIsCredited
<1>1. Spec => []B!TypeOK
  <2>1. B!Spec => []B!TypeOK
    BY B!TypeCorrect, SumAssumption, WorthIsNat, LimitAssumption,
     GoroutinesAreFinite
  <2> QED BY <2>1, BalancesFitIn, PTL DEF BalancesFit
<1>2. Spec => []U!IInv
  <2>1. U!Spec => []U!IInv
    BY U!AnswersStayTrue, WorthIsNat, NoOrderAssumption, OrderIsRow
  <2> QED BY <2>1, UploadsFitIn, PTL DEF UploadsFit
<1>3. Init => Backed /\ OpenIsBare
  BY DEF Init, W!Init, U!Init, Backed, OpenIsBare
<1>4. B!TypeOK /\ W!IInv /\ WithinLimit /\ InputsOK /\ U!IInv /\ Backed /\ OpenIsBare
        /\ [Next]_vars => Backed' /\ OpenIsBare'
  BY BackedStep, BareStep, StepsFitUploads DEF U!IInv
<1>5. U!IInv /\ Backed /\ OpenIsBare /\ B!TypeOK => ShownIsCredited
  <2> SUFFICES ASSUME U!IInv, Backed, OpenIsBare, B!TypeOK,
                      NEW q \in Reader, NEW o \in list[q].rows
               PROVE  o.accrual <= balance[list[q].user]
    BY DEF ShownIsCredited
  <2>1. /\ U!Owned(o.number, list[q].user)
        /\ o.status # "NEW" => orders[o.number] = o
        /\ o.number \in Number /\ list[q].user \in User
    BY DEF U!IInv, U!ListStaysTrue, U!TypeOK, U!Row
  <2>2. CASE o.status # "NEW"
    BY <2>1, <2>2 DEF U!Owned, Backed
  <2>3. CASE o.status = "NEW"
    BY <2>1, <2>3 DEF OpenIsBare, B!TypeOK
  <2> QED BY <2>2, <2>3
<1> QED
  BY <1>1, <1>2, <1>3, <1>4, <1>5, InputsStay, WorkerCoupled, LimitStays, PTL DEF Spec

-----------------------------------------------------------------------------
(* What the service promises.                                              *)

LEMMA BookStep ==
  ASSUME W!IInv, InputsOK, [Next]_vars
  PROVE  [P!L!Next]_(P!L!vars)
<1>1. [W!L!Next]_(W!L!vars)
  BY StepsFitWorker, W!LedgerStep, AccrualAssumption, LimitAssumption, NoOrderAssumption,
     NumbersAreFinite
<1> QED
  BY <1>1 DEF W!L!Next, W!L!vars, W!L!Claim, W!L!Refuse, W!L!Pay,
              P!L!Next, P!L!vars, P!L!Claim, P!L!Refuse, P!L!Pay, Worth

(* Only a withdrawal that is stored spends points.                         *)
LEMMA WithdrawalIsSpending ==
  ASSUME B!TypeOK, B!TypeOK', B!NoOverdraft', BalanceStep
  PROVE  UNCHANGED withdrawn \/ \E u \in User : P!Spend(u)
<1>1. UNCHANGED <<orders, balance>>
  BY
  DEF BalanceStep, B!GetBalance, B!GetWithdrawals, B!Withdraw, B!Begin, B!FindUser,
      B!ReadUser, B!ReadTotal, B!CreateWithdrawal, B!GetUserWithdrawals, B!SendRows,
      B!Fail, B!store
<1>2. ASSUME NEW r \in Goroutine, B!CreateWithdrawal(r)
      PROVE  P!Spend(holder[r])
  <2> DEFINE u == holder[r]
  <2>1. u \in User /\ sum[r] \in Nat
    BY DEF B!TypeOK
  <2>2. /\ withdrawn' = [withdrawn EXCEPT ![u] = @ + sum[r]]
        /\ withdrawn'[u] = withdrawn[u] + sum[r]
        /\ withdrawn[u] \in Nat /\ balance[u] \in Nat
    BY <1>2, <2>1 DEF B!CreateWithdrawal, B!TypeOK
  <2>3. withdrawn'[u] <= balance[u]
    BY <1>1, <2>1, <2>2 DEF B!NoOverdraft, B!Overdrawn, B!TypeOK
  <2>4. sum[r] \in 0..(balance[u] - withdrawn[u])
    BY <2>1, <2>2, <2>3
  <2>5. UNCHANGED P!L!vars
    BY <1>1 DEF P!L!vars, W!Owners, W!Phases, W!Paid
  <2> QED BY <2>2, <2>4, <2>5 DEF P!Spend
<1>3. UNCHANGED withdrawn \/ \E r \in Goroutine : B!CreateWithdrawal(r)
  BY
  DEF BalanceStep, B!GetBalance, B!GetWithdrawals, B!Withdraw, B!Begin, B!FindUser,
      B!ReadUser, B!ReadTotal, B!GetUserWithdrawals, B!SendRows, B!Fail, B!store
<1>4. ASSUME NEW r \in Goroutine
      PROVE  holder[r] \in User
  BY DEF B!TypeOK
<1> QED BY <1>2, <1>3, <1>4

LEMMA PointsStep ==
  ASSUME W!IInv, InputsOK, B!TypeOK, B!TypeOK', B!NoOverdraft', [Next]_vars
  PROVE  [P!Next]_P!vars
<1>1. CASE UNCHANGED withdrawn
  BY <1>1, BookStep DEF P!Next, P!Book, P!vars, P!L!vars
<1>2. CASE BalanceStep
  BY <1>1, <1>2, WithdrawalIsSpending DEF P!Next
<1>3. CASE UploadStep \/ ReadStep \/ WorkerStep \/ RemoteStep \/ Stop \/ Start
            \/ Exit \/ UNCHANGED vars
  BY <1>1, <1>3 DEF UploadStep, ReadStep, WorkerStep, RemoteStep, Stop, Start, Exit,
                    B!Restart, B!store, vars
<1> QED BY <1>2, <1>3 DEF Next

(* The service keeps what it promises, for any number of users, orders and *)
(* uploads and whatever fails, crashes or interleaves with them: a number  *)
(* is one user's, it is paid once, and points are spent out of what was    *)
(* paid -- as long as balances and withdrawals are asked for one at a      *)
(* time (worker/order.go:118-151, service/balance.go:84-139).              *)
THEOREM ServiceImplementsPoints ==
  ASSUME \A r, s \in Goroutine : r = s
  PROVE  Spec => ImplementsPoints
<1>1. Spec => []B!TypeOK
  <2>1. B!Spec => []B!TypeOK
    BY B!TypeCorrect, SumAssumption, WorthIsNat, LimitAssumption,
     GoroutinesAreFinite
  <2> QED BY <2>1, BalancesFitIn, PTL DEF BalancesFit
<1>2. Spec => []B!NoOverdraft
  <2>1. B!Spec => []B!NoOverdraft
    BY B!SerialWithdrawalsAreCovered, SumAssumption, WorthIsNat, LimitAssumption,
     GoroutinesAreFinite
  <2> QED BY <2>1, BalancesFitIn, PTL DEF BalancesFit
<1>3. Init => P!Init
  BY DEF Init, W!Init, B!Init, P!Init, P!L!Init, W!Owners, W!Phases, W!Paid
<1>4. W!IInv /\ InputsOK /\ B!TypeOK /\ B!TypeOK' /\ B!NoOverdraft' /\ [Next]_vars
        => [P!Next]_P!vars
  BY PointsStep
<1> QED
  BY <1>1, <1>2, <1>3, <1>4, InputsStay, WorkerCoupled, PTL
  DEF Spec, ImplementsPoints, P!Spec

-----------------------------------------------------------------------------
(* The components' promises, kept by the whole.                            *)

(* The books balance in the service as it runs, requests and worker at     *)
(* once: the points a user can spend are those of the user's PROCESSED     *)
(* orders, whose verdicts and amounts are the accrual system's             *)
(* (worker/order.go:101-160).                                              *)
THEOREM ServiceBooksBalance ==
  Spec => [](W!CopiesAreCurrent /\ W!AgreesWithAccrualSystem /\ W!Reconciled)
<1>1. W!Spec => []W!Reconciled
  BY W!BooksBalance, AccrualAssumption, LimitAssumption, NoOrderAssumption,
     NumbersAreFinite
<1>2. W!IInv => W!CopiesAreCurrent /\ W!AgreesWithAccrualSystem
  BY DEF W!IInv
<1> QED BY <1>1, <1>2, WorkerFitsIn, WorkerCoupled, PTL DEF WorkerFits

(* Answers to uploads and lists of orders stay true beside the worker that *)
(* settles the orders and the requests that spend the points               *)
(* (service/order.go:45-90, repository/order.go:96-134).                   *)
THEOREM ServiceAnswersStayTrue == Spec => [](U!AnswersAgree /\ U!ListStaysTrue)
<1>1. U!Spec => [](U!AnswersAgree /\ U!ListStaysTrue)
  <2>1. U!Spec => []U!AnswersAgree
    BY U!NumbersAreAcceptedOnce, WorthIsNat, NoOrderAssumption, OrderIsRow
  <2>2. U!Spec => []U!ListStaysTrue
    BY U!ListsStayTrue, WorthIsNat, NoOrderAssumption, OrderIsRow
  <2> QED BY <2>1, <2>2, PTL
<1> QED BY <1>1, UploadsFitIn, PTL DEF UploadsFit

(* Balances shown are available and as fresh as their request beside the   *)
(* worker's credits, and it takes a withdrawal whose check missed another  *)
(* one to overdraw an account (service/balance.go:46-139).                 *)
THEOREM ServiceBalancesAreSound ==
  Spec => []B!AnswersAreFresh /\ B!ShownIsAvailable /\ B!OverdraftNeedsStaleCheck
<1>1. B!Spec => []B!AnswersAreFresh
  BY B!AnswersStayFresh, SumAssumption, WorthIsNat, LimitAssumption,
     GoroutinesAreFinite
<1>2. B!Spec => B!ShownIsAvailable
  BY B!ShownBalancesAreAvailable, SumAssumption, WorthIsNat, LimitAssumption,
     GoroutinesAreFinite
<1>3. B!Spec => B!OverdraftNeedsStaleCheck
  BY B!OverdraftsAreStaleChecks, SumAssumption, WorthIsNat, LimitAssumption,
     GoroutinesAreFinite
<1> QED BY <1>1, <1>2, <1>3, BalancesFitIn, PTL DEF BalancesFit

LEMMA SameCapacity == B!Cardinality(Goroutine) = Cardinality(Goroutine)
BY DEF Cardinality, B!Cardinality, IsFiniteSet, B!IsFiniteSet

(* What a user has spent was earned by orders that the accrual system      *)
(* processed, multiplied at most by the number of withdrawals that can     *)
(* overlap: with one, by nothing (worker/order.go:118-151,                 *)
(* service/balance.go:84-139).                                             *)
THEOREM ServiceSpendsWhatItEarned ==
  Spec => [](\A u \in User :
               withdrawn[u] <= Cardinality(Goroutine)
                                 * W!SumFunctionOnSet(W!Earned(u), Number))
<1>1. B!Spec => [](\A u \in User : withdrawn[u] <= B!Cardinality(Goroutine) * balance[u])
  BY B!OverdraftsAreBounded, SumAssumption, WorthIsNat, LimitAssumption,
     GoroutinesAreFinite, PTL
<1>2. /\ W!Reconciled
      /\ \A u \in User : withdrawn[u] <= B!Cardinality(Goroutine) * balance[u]
      => \A u \in User :
           withdrawn[u] <= Cardinality(Goroutine)
                             * W!SumFunctionOnSet(W!Earned(u), Number)
  BY SameCapacity DEF W!Reconciled
<1> QED BY <1>1, <1>2, ServiceBooksBalance, BalancesFitIn, PTL DEF BalancesFit
=============================================================================
