------------------------- MODULE OrderWorkerProofs -------------------------
(***************************************************************************)
(* The worker of internal/worker/order.go, for any number of users and     *)
(* orders, any announced amounts and any width of BIGINT: type             *)
(* correctness, the inductive invariant IInv, and the refinement of Ledger.*)
(***************************************************************************)
EXTENDS OrderWorker, CommonLemmas

(* What becomes of an announced amount is a number of kopecks.             *)
LEMMA RewardedIsNat ==
  ASSUME NEW old \in Nat, NEW x \in Accrual \cup {NoAccrual}
  PROVE  /\ Rewarded(old, x) \in Nat
         /\ Pays(x) => /\ ToKopecks(x) \in Nat
                       /\ Rewarded(old, x) = ToKopecks(x)
BY ToKopecksRange, AccrualAssumption DEF Rewarded, Pays

(* A row is not the missing row.                                           *)
LEMMA RowExists ==
  ASSUME NEW o \in Order
  PROVE  o # NoOrder
BY NoOrderAssumption

-----------------------------------------------------------------------------
(* The tables and the worker's locals always hold values of their types;   *)
(* in particular the worker has an order in hand at every statement of     *)
(* processOrder and at no other (worker/order.go:88-160).                  *)
THEOREM TypeCorrect == Spec => []TypeOK
<1>1. Init => TypeOK
  BY AccrualAssumption DEF Init, TypeOK, InCall, Answer, RemoteStatus
<1>2. TypeOK /\ [Next]_vars => TypeOK'
  <2> SUFFICES ASSUME TypeOK, [Next]_vars
               PROVE  TypeOK'
    OBVIOUS
  <2>1. CASE FetchNewOrders
    BY <2>1 DEF TypeOK, FetchNewOrders, GetOrdersByStatus, HasStatus, InCall, store
  <2>2. CASE Tick \/ FetchFails \/ EndBatch
    BY <2>2 DEF TypeOK, Tick, FetchFails, EndBatch, InCall, store, locals
  <2>3. ASSUME NEW o \in batch, Poll(o)
        PROVE  TypeOK'
    <3>1. o \in Order /\ remote[o.number] \in Answer
      BY DEF TypeOK, Order
    <3>2. CASE PollNothing(o)
      BY <3>2 DEF TypeOK, PollNothing, InCall, store
    <3>3. CASE PollStatus(o)
      BY <3>1, <3>3 DEF TypeOK, PollStatus, InCall, store, Order, Status
    <3>4. CASE PollProcessed(o)
      BY <3>1, <3>4 DEF TypeOK, PollProcessed, InCall, store, Answer
    <3> QED BY <2>3, <3>2, <3>3, <3>4 DEF Poll
  <2>4. CASE UpdateOrder
    BY <2>4 DEF TypeOK, UpdateOrder, Return, InCall, Order
  <2>5. CASE BeginTx
    <3>1. order \in Order /\ Rewarded(order.accrual, reward) \in Nat
      BY <2>5, RewardedIsNat DEF TypeOK, BeginTx, InCall, Order
    <3> QED BY <2>5, <3>1 DEF TypeOK, BeginTx, InCall, store, Order, Status
  <2>6. CASE TxUpdateOrder
    BY <2>6 DEF TypeOK, TxUpdateOrder, InCall, store, locals
  <2>7. CASE TxGetUser
    BY <2>7 DEF TypeOK, TxGetUser, InCall, store, Order
  <2>8. CASE TxUpdateBalance
    BY <2>8 DEF TypeOK, TxUpdateBalance, InCall, store, locals
  <2>9. CASE CommitTx
    <3>1. order \in Order
      BY <2>9 DEF TypeOK, CommitTx, InCall
    <3>2. Pays(reward) => NewBalance \in Nat
      BY RewardedIsNat DEF TypeOK, NewBalance
    <3>3. balance' \in [User -> Nat]
      BY <2>9, <3>1, <3>2 DEF TypeOK, CommitTx, Order
    <3> QED BY <2>9, <3>1, <3>3 DEF TypeOK, CommitTx, Return, InCall, Order
  <2>10. CASE Fail
    BY <2>10 DEF TypeOK, Fail, Return, InCall, store
  <2>11. ASSUME NEW n \in Number, RemoteStep(n)
         PROVE  TypeOK'
    BY <2>11 DEF TypeOK, RemoteStep, store, locals
  <2>12. ASSUME NEW n \in Number, NEW u \in User, Upload(n, u)
         PROVE  TypeOK'
    BY <2>12 DEF TypeOK, Upload, locals, Order, Status
  <2>13. CASE Stop
    BY <2>13 DEF TypeOK, Stop, InCall, store
  <2>14. CASE Start
    BY <2>14 DEF TypeOK, Start, InCall, store, locals
  <2>15. CASE UNCHANGED vars
    BY <2>15 DEF TypeOK, vars
  <2> QED
    BY <2>1, <2>2, <2>3, <2>4, <2>5, <2>6, <2>7, <2>8, <2>9, <2>10, <2>11,
       <2>12, <2>13, <2>14, <2>15
    DEF Next, WorkerStep, EnvStep, Statement
<1> QED BY <1>1, <1>2, PTL DEF Spec

-----------------------------------------------------------------------------
(* The rest of IInv; TypeOK is at hand on both sides of the step.          *)
Coupling == RowsAreSound /\ CopiesAreCurrent /\ WritesAreAnswered
              /\ AgreesWithAccrualSystem

(* A statement that changes neither a table nor the accrual system keeps   *)
(* what is said of them.                                                   *)
LEMMA TablesUnchanged ==
  ASSUME RowsAreSound, AgreesWithAccrualSystem, UNCHANGED <<orders, remote>>
  PROVE  RowsAreSound' /\ AgreesWithAccrualSystem'
BY DEF RowsAreSound, AgreesWithAccrualSystem, HasStatus

LEMMA CouplingStep == IInv /\ TypeOK' /\ [Next]_vars => Coupling'
<1> SUFFICES ASSUME IInv, TypeOK', [Next]_vars
             PROVE  Coupling'
  OBVIOUS
<1> USE DEF IInv
<1>1. CASE FetchNewOrders
  <2>1. \A o \in batch' : /\ HasStatus(o.number, "NEW")
                         /\ orders[o.number] = o
    BY <1>1 DEF FetchNewOrders, GetOrdersByStatus, HasStatus, RowsAreSound
  <2>2. CopiesAreCurrent'
    BY <1>1, <2>1 DEF FetchNewOrders, CopiesAreCurrent, HoldsBalance, HasStatus,
                      InCall, store
  <2>3. WritesAreAnswered'
    BY <1>1 DEF FetchNewOrders, WritesAreAnswered, InCall
  <2> QED BY <1>1, <2>2, <2>3, TablesUnchanged DEF FetchNewOrders, store, Coupling
<1>2. CASE Tick \/ FetchFails \/ EndBatch
  BY <1>2, TablesUnchanged
  DEF Tick, FetchFails, EndBatch, Coupling, CopiesAreCurrent, HoldsBalance, HasStatus, InCall,
      WritesAreAnswered, store, locals
<1>3. ASSUME NEW o \in batch, PollNothing(o)
      PROVE  Coupling'
  BY <1>3, TablesUnchanged
  DEF PollNothing, Coupling, CopiesAreCurrent, HoldsBalance, HasStatus, InCall,
      WritesAreAnswered, store
<1>4. ASSUME NEW o \in batch, PollStatus(o)
      PROVE  Coupling'
  <2>1. /\ o \in Order
        /\ orders[o.number] = o
        /\ HasStatus(o.number, "NEW")
        /\ o.accrual = 0
    BY RowExists DEF TypeOK, CopiesAreCurrent, RowsAreSound, HasStatus, Order
  <2>2. /\ order'.number = o.number /\ order'.user = o.user
        /\ order'.accrual = 0
        /\ order'.status = remote[o.number].status
    BY <1>4, <2>1 DEF PollStatus, Order
  <2>3. CopiesAreCurrent'
    BY <1>4, <2>1, <2>2
    DEF PollStatus, CopiesAreCurrent, HoldsBalance, HasStatus, InCall, store
  <2>4. WritesAreAnswered'
    BY <1>4, <2>2 DEF PollStatus, WritesAreAnswered, InCall, store
  <2> QED BY <1>4, <2>3, <2>4, TablesUnchanged DEF PollStatus, store, Coupling
<1>5. ASSUME NEW o \in batch, PollProcessed(o)
      PROVE  Coupling'
  <2>1. orders[o.number] = o /\ HasStatus(o.number, "NEW")
    BY DEF CopiesAreCurrent
  <2>2. CopiesAreCurrent'
    BY <1>5, <2>1
    DEF PollProcessed, CopiesAreCurrent, HoldsBalance, HasStatus, InCall, store
  <2>3. WritesAreAnswered'
    BY <1>5, <2>1 DEF PollProcessed, WritesAreAnswered, InCall, store
  <2> QED BY <1>5, <2>2, <2>3, TablesUnchanged DEF PollProcessed, store, Coupling
<1>6. CASE UpdateOrder
  <2>1. /\ order \in Order /\ order # NoOrder
        /\ HasStatus(order.number, "NEW")
        /\ \A o \in batch : o.number # order.number
        /\ order.status \in {"INVALID", "PROCESSING"}
        /\ order.status = "INVALID" => remote[order.number].status = "INVALID"
        /\ order.accrual = 0
    BY <1>6, RowExists
    DEF UpdateOrder, TypeOK, CopiesAreCurrent, WritesAreAnswered, InCall
  <2>2. \A n \in Number : orders'[n] = IF n = order.number THEN order ELSE orders[n]
    BY <1>6 DEF UpdateOrder, TypeOK
  <2>3. RowsAreSound' /\ AgreesWithAccrualSystem'
    BY <1>6, <2>1, <2>2
    DEF UpdateOrder, RowsAreSound, AgreesWithAccrualSystem, HasStatus
  <2>4. CopiesAreCurrent'
    BY <1>6, <2>1, <2>2
    DEF UpdateOrder, Return, CopiesAreCurrent, HoldsBalance, HasStatus, InCall,
        TypeOK, Order
  <2>5. WritesAreAnswered'
    BY <1>6 DEF UpdateOrder, Return, WritesAreAnswered, InCall
  <2> QED BY <2>3, <2>4, <2>5 DEF Coupling
<1>7. CASE BeginTx
  <2>1. /\ order \in Order /\ order = orders[order.number]
        /\ HasStatus(order.number, "NEW") /\ order.accrual = 0
    BY <1>7 DEF BeginTx, TypeOK, InCall, WritesAreAnswered, CopiesAreCurrent,
                RowsAreSound, HasStatus, Order
  <2>2. /\ order'.number = order.number /\ order'.user = order.user
        /\ order'.status = "PROCESSED" /\ order'.accrual = Rewarded(0, reward)
    BY <1>7, <2>1 DEF BeginTx, Order
  <2>3. CopiesAreCurrent'
    BY <1>7, <2>1, <2>2
    DEF BeginTx, CopiesAreCurrent, HoldsBalance, HasStatus, InCall, store
  <2>4. WritesAreAnswered'
    BY <1>7, <2>2 DEF BeginTx, WritesAreAnswered, InCall, store
  <2> QED BY <1>7, <2>3, <2>4, TablesUnchanged DEF BeginTx, store, Coupling
<1>8. CASE TxUpdateOrder
  <2>1. CopiesAreCurrent'
    BY <1>8 DEF TxUpdateOrder, CopiesAreCurrent, HoldsBalance, HasStatus, InCall,
                store, locals
  <2>2. WritesAreAnswered'
    BY <1>8 DEF TxUpdateOrder, WritesAreAnswered, InCall, store, locals
  <2> QED BY <1>8, <2>1, <2>2, TablesUnchanged
          DEF TxUpdateOrder, store, locals, Coupling
<1>9. CASE TxGetUser
  <2>1. CopiesAreCurrent'
    BY <1>9 DEF TxGetUser, CopiesAreCurrent, HasStatus, InCall, store
  <2>2. WritesAreAnswered'
    BY <1>9 DEF TxGetUser, WritesAreAnswered, InCall, store
  <2> QED BY <1>9, <2>1, <2>2, TablesUnchanged DEF TxGetUser, store, Coupling
<1>10. CASE TxUpdateBalance
  <2>1. CopiesAreCurrent'
    BY <1>10 DEF TxUpdateBalance, CopiesAreCurrent, HoldsBalance, HasStatus,
                 InCall, store, locals
  <2>2. WritesAreAnswered'
    BY <1>10 DEF TxUpdateBalance, WritesAreAnswered, InCall, store, locals
  <2> QED BY <1>10, <2>1, <2>2, TablesUnchanged
          DEF TxUpdateBalance, store, locals, Coupling
<1>11. CASE CommitTx
  <2>1. /\ order \in Order /\ order # NoOrder
        /\ \A o \in batch : o.number # order.number
        /\ order.status = "PROCESSED"
        /\ order.accrual = Rewarded(0, reward)
        /\ remote[order.number].status = "PROCESSED"
        /\ remote[order.number].accrual = reward
    BY <1>11, RowExists
    DEF CommitTx, TypeOK, CopiesAreCurrent, WritesAreAnswered, InCall
  <2>2. \A n \in Number : orders'[n] = IF n = order.number THEN order ELSE orders[n]
    BY <1>11 DEF CommitTx, TypeOK
  <2>3. RowsAreSound' /\ AgreesWithAccrualSystem'
    BY <1>11, <2>1, <2>2
    DEF CommitTx, RowsAreSound, AgreesWithAccrualSystem, HasStatus
  <2>4. CopiesAreCurrent'
    BY <1>11, <2>1, <2>2
    DEF CommitTx, Return, CopiesAreCurrent, HoldsBalance, HasStatus, InCall,
        TypeOK, Order
  <2>5. WritesAreAnswered'
    BY <1>11 DEF CommitTx, Return, WritesAreAnswered, InCall
  <2> QED BY <2>3, <2>4, <2>5 DEF Coupling
<1>12. CASE Fail
  BY <1>12, TablesUnchanged
  DEF Fail, Return, Coupling, CopiesAreCurrent, HoldsBalance, HasStatus, InCall,
      WritesAreAnswered, store
<1>13. ASSUME NEW n \in Number, RemoteStep(n)
       PROVE  Coupling'
  <2>1. UNCHANGED <<orders, balance, pc, batch, order, reward, seen>>
    BY <1>13 DEF RemoteStep, store, locals
  <2>2. \A m \in Number : remote[m].status \in Final => remote'[m] = remote[m]
    <3>1. PICK a \in Answer : /\ Rank[a.status] > Rank[remote[n].status]
                             /\ remote' = [remote EXCEPT ![n] = a]
      BY <1>13 DEF RemoteStep
    <3>2. \A t \in RemoteStatus : Rank[t] \in 0..3
      BY DEF RemoteStatus, Status, Final, Rank
    <3>3. remote[n].status \notin Final
      BY <3>1, <3>2 DEF Answer, Rank, Final
    <3> QED BY <3>1, <3>3 DEF TypeOK
  <2>3. RowsAreSound' /\ AgreesWithAccrualSystem'
    BY <2>1, <2>2 DEF RowsAreSound, AgreesWithAccrualSystem, HasStatus, Final
  <2>4. CopiesAreCurrent'
    BY <2>1 DEF CopiesAreCurrent, HoldsBalance, HasStatus
  <2>5. pc \in InCall => order.number \in Number
    BY DEF TypeOK, Order
  <2>6. WritesAreAnswered'
    BY <2>1, <2>2, <2>5 DEF WritesAreAnswered, InCall, Final
  <2> QED BY <2>3, <2>4, <2>6 DEF Coupling
<1>14. ASSUME NEW n \in Number, NEW u \in User, Upload(n, u)
       PROVE  Coupling'
  <2> DEFINE row == [number |-> n, user |-> u, status |-> "NEW", accrual |-> 0]
  <2>1. UNCHANGED <<balance, remote, pc, batch, order, reward, seen>>
    BY <1>14 DEF Upload, locals
  <2>2. /\ orders[n] = NoOrder
        /\ \A m \in Number : orders'[m] = IF m = n THEN row ELSE orders[m]
        /\ row \in Order
    BY <1>14 DEF Upload, TypeOK, Order, Status
  <2>3. RowsAreSound' /\ AgreesWithAccrualSystem'
    BY <2>1, <2>2 DEF RowsAreSound, AgreesWithAccrualSystem, HasStatus
  <2>4. /\ \A o \in batch : o.number \in Number /\ o.number # n
        /\ pc \in InCall => order.number \in Number /\ order.number # n
    BY <2>2 DEF TypeOK, Order, CopiesAreCurrent, HasStatus
  <2>5. CopiesAreCurrent'
    BY <2>1, <2>2, <2>4 DEF CopiesAreCurrent, HoldsBalance, HasStatus
  <2>6. WritesAreAnswered'
    BY <2>1, <2>2, <2>4 DEF WritesAreAnswered, InCall
  <2> QED BY <2>3, <2>5, <2>6 DEF Coupling
<1>15. CASE Stop
  BY <1>15, TablesUnchanged
  DEF Stop, Coupling, CopiesAreCurrent, HoldsBalance, HasStatus, InCall,
      WritesAreAnswered, store
<1>16. CASE Start
  BY <1>16, TablesUnchanged
  DEF Start, Coupling, CopiesAreCurrent, HoldsBalance, HasStatus, InCall,
      WritesAreAnswered, store, locals
<1>17. CASE UNCHANGED vars
  BY <1>17, TablesUnchanged
  DEF vars, Coupling, CopiesAreCurrent, HoldsBalance, HasStatus, InCall,
      WritesAreAnswered
<1> QED
  BY <1>1, <1>2, <1>3, <1>4, <1>5, <1>6, <1>7, <1>8, <1>9, <1>10, <1>11,
     <1>12, <1>13, <1>14, <1>15, <1>16, <1>17
  DEF Next, WorkerStep, EnvStep, Statement, Poll

(* IInv is an invariant: what the worker is about to store is determined   *)
(* by the tables and by what the accrual system answered.                  *)
THEOREM WorkerIsCoupled == Spec => []IInv
<1>1. Init => IInv
  <2>1. Init => TypeOK
    BY AccrualAssumption DEF Init, TypeOK, InCall, Answer, RemoteStatus
  <2> QED
    BY <2>1 DEF Init, IInv, RowsAreSound, CopiesAreCurrent, HoldsBalance,
                WritesAreAnswered, AgreesWithAccrualSystem, HasStatus, InCall
<1>2. IInv /\ TypeOK' /\ [Next]_vars => IInv'
  BY CouplingStep DEF IInv, Coupling
<1> QED BY <1>1, <1>2, TypeCorrect, PTL DEF Spec

(* Every whole-row write of UpdateOrder and every balance computed from    *)
(* GetUserByID replaces exactly the value it was derived from              *)
(* (worker/order.go:132-145).                                              *)
THEOREM NoWriteIsStale == Spec => []CopiesAreCurrent
BY WorkerIsCoupled, PTL DEF IInv

(* An order is INVALID or PROCESSED only as the accrual system says, with  *)
(* the amount it says (worker/order.go:111-132).                           *)
THEOREM VerdictsAreTheRemotes == Spec => []AgreesWithAccrualSystem
BY WorkerIsCoupled, PTL DEF IInv

(* The reason why an order can stay unpaid for ever: rounds take up rows   *)
(* that are NEW (worker/order.go:83), and no statement of the worker, no   *)
(* failure and no restart touches a row once it is stored as PROCESSING.   *)
THEOREM ProcessingIsForever ==
  Spec => [][\A n \in Number : HasStatus(n, "PROCESSING") => orders'[n] = orders[n]]_vars
<1>1. ASSUME IInv, [Next]_vars, NEW n \in Number, HasStatus(n, "PROCESSING")
      PROVE  orders'[n] = orders[n]
  <2>1. CASE UpdateOrder \/ CommitTx
    <3>1. HasStatus(order.number, "NEW") /\ orders' = [orders EXCEPT ![order.number] = order]
      BY <2>1, <1>1 DEF UpdateOrder, CommitTx, IInv, CopiesAreCurrent, InCall
    <3> QED BY <1>1, <3>1 DEF HasStatus
  <2>2. ASSUME NEW m \in Number, NEW u \in User, Upload(m, u)
        PROVE  orders'[n] = orders[n]
    BY <1>1, <2>2 DEF Upload, HasStatus
  <2>3. CASE UNCHANGED orders
    BY <2>3
  <2> QED
    BY <1>1, <2>1, <2>2, <2>3
    DEF Next, WorkerStep, EnvStep, Statement, Poll, vars, store, Tick, FetchNewOrders,
        FetchFails, EndBatch, PollNothing, PollStatus, PollProcessed, BeginTx, TxUpdateOrder,
        TxGetUser, TxUpdateBalance, Fail, RemoteStep, Stop, Start
<1>2. IInv /\ [Next]_vars
        => [\A n \in Number : HasStatus(n, "PROCESSING") => orders'[n] = orders[n]]_vars
  BY <1>1
<1> QED BY <1>2, WorkerIsCoupled, PTL DEF Spec

-----------------------------------------------------------------------------
(* Refinement *)

(* A step that leaves the tables alone is a stutter of the ledger.         *)
LEMMA LedgerStutters ==
  ASSUME UNCHANGED store
  PROVE  UNCHANGED L!vars
BY DEF store, L!vars, Owners, Phases, Paid

(* Storing a row changes what the ledger sees of that number only.         *)
LEMMA RowStored ==
  ASSUME TypeOK, NEW n \in Number, NEW row \in Order,
         orders' = [orders EXCEPT ![n] = row]
  PROVE  /\ Owners' = [Owners EXCEPT ![n] = row.user]
         /\ Phases' = [Phases EXCEPT ![n] = PhaseOf[row.status]]
         /\ Paid'   = [Paid EXCEPT ![n] = row.accrual]
<1>1. \A m \in Number : orders'[m] = IF m = n THEN row ELSE orders[m]
  BY DEF TypeOK
<1>2. row # NoOrder
  BY RowExists
<1>3. Owners' = [Owners EXCEPT ![n] = row.user]
  <2>1. \A m \in Number : Owners'[m] = IF m = n THEN row.user ELSE Owners[m]
    BY <1>1, <1>2 DEF Owners
  <2> QED BY <2>1 DEF Owners
<1>4. Phases' = [Phases EXCEPT ![n] = PhaseOf[row.status]]
  <2>1. \A m \in Number : Phases'[m] = IF m = n THEN PhaseOf[row.status] ELSE Phases[m]
    BY <1>1, <1>2 DEF Phases
  <2> QED BY <2>1 DEF Phases
<1>5. Paid' = [Paid EXCEPT ![n] = row.accrual]
  <2>1. \A m \in Number : Paid'[m] = IF m = n THEN row.accrual ELSE Paid[m]
    BY <1>1, <1>2 DEF Paid
  <2> QED BY <2>1 DEF Paid
<1> QED BY <1>3, <1>4, <1>5

(* What the ledger sees of a number that has a row.                        *)
LEMMA RowSeen ==
  ASSUME NEW n \in Number, orders[n] # NoOrder
  PROVE  /\ Owners = [Owners EXCEPT ![n] = orders[n].user]
         /\ Paid = [Paid EXCEPT ![n] = orders[n].accrual]
         /\ Owners[n] = orders[n].user
         /\ Phases = [Phases EXCEPT ![n] = PhaseOf[orders[n].status]]
         /\ Phases[n] = PhaseOf[orders[n].status]
BY DEF Owners, Phases, Paid

(* A commit credits the order's user with what it stores as its accrual.   *)
LEMMA CreditIsReward ==
  ASSUME IInv, CommitTx
  PROVE  balance' = [balance EXCEPT ![order.user] = @ + order.accrual]
<1>1. /\ order.accrual = Rewarded(0, reward) /\ reward \in Accrual \cup {NoAccrual}
      /\ order \in Order /\ order.user \in User
      /\ Pays(reward) => seen = balance[order.user]
  BY DEF CommitTx, IInv, TypeOK, CopiesAreCurrent, WritesAreAnswered, HoldsBalance,
         InCall, Order
<1>2. CASE Pays(reward)
  <2>1. order.accrual = ToKopecks(reward)
    BY <1>1, <1>2, RewardedIsNat
  <2> QED BY <1>1, <1>2, <2>1 DEF CommitTx, NewBalance
<1>3. CASE ~Pays(reward)
  <2>1. reward # NoAccrual /\ reward >= 0 => reward = 0
    <3>1. reward # NoAccrual => reward \in Int
      BY <1>1, AccrualAssumption
    <3>2. reward # NoAccrual => ~(reward > 0)
      BY <1>3 DEF Pays
    <3> QED BY <3>1, <3>2
  <2>2. ToKopecks(0) = 0
    BY ToKopecksRange
  <2>3. order.accrual = 0
    BY <1>1, <2>1, <2>2 DEF Rewarded
  <2> QED BY <1>1, <1>3, <2>3 DEF CommitTx, IInv, TypeOK
<1> QED BY <1>2, <1>3

LEMMA LedgerStep == IInv /\ [Next]_vars => [L!Next]_(L!vars)
<1> SUFFICES ASSUME IInv, [Next]_vars
             PROVE  [L!Next]_(L!vars)
  OBVIOUS
<1> USE DEF IInv
<1>1. CASE UpdateOrder
  <2>1. /\ order \in Order /\ order # NoOrder
        /\ orders[order.number] \in Order /\ orders[order.number] # NoOrder
        /\ orders[order.number].status = "NEW"
        /\ orders[order.number].user = order.user
        /\ orders[order.number].accrual = 0 /\ order.accrual = 0
        /\ order.status \in {"INVALID", "PROCESSING"}
        /\ order.number \in Number
    BY <1>1, RowExists
    DEF UpdateOrder, TypeOK, CopiesAreCurrent, WritesAreAnswered, RowsAreSound,
        HasStatus, InCall, Order
  <2>2. /\ Owners' = [Owners EXCEPT ![order.number] = order.user]
        /\ Phases' = [Phases EXCEPT ![order.number] = PhaseOf[order.status]]
        /\ Paid'   = [Paid EXCEPT ![order.number] = order.accrual]
    BY <1>1, <2>1, RowStored DEF UpdateOrder
  <2>3. Owners' = Owners /\ Paid' = Paid /\ balance' = balance
    BY <1>1, <2>1, <2>2, RowSeen DEF UpdateOrder
  <2>4. CASE order.status = "PROCESSING"
    <3>1. Phases' = Phases
      BY <2>1, <2>2, <2>4, RowSeen DEF PhaseOf
    <3> QED BY <2>3, <3>1 DEF L!vars
  <2>5. CASE order.status = "INVALID"
    <3>1. L!Refuse(order.number)
      BY <2>1, <2>2, <2>3, <2>5, RowSeen DEF L!Refuse, PhaseOf
    <3> QED BY <2>1, <3>1 DEF L!Next
  <2> QED BY <2>1, <2>4, <2>5
<1>2. CASE CommitTx
  <2>1. /\ order \in Order /\ order # NoOrder
        /\ orders[order.number] \in Order /\ orders[order.number] # NoOrder
        /\ orders[order.number].status = "NEW"
        /\ orders[order.number].user = order.user
        /\ order.status = "PROCESSED"
        /\ order.accrual = Rewarded(0, reward)
        /\ order.number \in Number /\ order.user \in User
        /\ Pays(reward) => seen = balance[order.user]
    BY <1>2, RowExists
    DEF CommitTx, TypeOK, CopiesAreCurrent, WritesAreAnswered, HoldsBalance,
        HasStatus, InCall, Order
  <2>2. /\ Owners' = [Owners EXCEPT ![order.number] = order.user]
        /\ Phases' = [Phases EXCEPT ![order.number] = PhaseOf[order.status]]
        /\ Paid'   = [Paid EXCEPT ![order.number] = order.accrual]
    BY <1>2, <2>1, RowStored DEF CommitTx
  <2>3. balance' = [balance EXCEPT ![order.user] = @ + order.accrual]
    BY <1>2, CreditIsReward
  <2>4. L!Pay(order.number, order.accrual)
    <3>1. Owners[order.number] = order.user /\ Owners' = Owners
      BY <2>1, <2>2, RowSeen
    <3>2. Phases[order.number] = "open" /\ PhaseOf[order.status] = "paid"
      BY <2>1, RowSeen DEF PhaseOf
    <3> QED BY <2>2, <2>3, <3>1, <3>2 DEF L!Pay
  <2>5. order.accrual \in {Rewarded(0, x) : x \in Accrual \cup {NoAccrual}}
    BY <2>1 DEF TypeOK
  <2>6. L!Next
    BY <2>1, <2>4, <2>5, Zenon DEF L!Next
  <2> QED BY <2>6
<1>3. ASSUME NEW n \in Number, NEW u \in User, Upload(n, u)
      PROVE  [L!Next]_(L!vars)
  <2> DEFINE row == [number |-> n, user |-> u, status |-> "NEW", accrual |-> 0]
  <2>1. /\ row \in Order /\ row # NoOrder
    BY RowExists DEF Order, Status
  <2>2. /\ Owners' = [Owners EXCEPT ![n] = u]
        /\ Phases' = [Phases EXCEPT ![n] = PhaseOf["NEW"]]
        /\ Paid'   = [Paid EXCEPT ![n] = 0]
    BY <1>3, <2>1, RowStored DEF Upload
  <2>3. Phases[n] = "absent" /\ Paid = [Paid EXCEPT ![n] = 0]
    BY <1>3 DEF Upload, Phases, Paid
  <2>4. L!Claim(n, u)
    BY <1>3, <2>2, <2>3 DEF L!Claim, PhaseOf, Upload
  <2> QED BY <2>4 DEF L!Next
<1>4. CASE UNCHANGED store
  BY <1>4, LedgerStutters
<1> QED
  BY <1>1, <1>2, <1>3, <1>4
  DEF Next, WorkerStep, EnvStep, Statement, Poll, vars, store, Tick, FetchNewOrders,
      FetchFails, EndBatch, PollNothing, PollStatus, PollProcessed, BeginTx, TxUpdateOrder,
      TxGetUser, TxUpdateBalance, Fail, RemoteStep, Stop, Start

(* The worker over the tables implements the ledger: a claim is refused or *)
(* paid at most once, a payment and its order's status are one step        *)
(* whatever fails in between (worker/order.go:118-151).                    *)
THEOREM WorkerImplementsLedger == Spec => ImplementsLedger
<1>1. Init => L!Init
  BY DEF Init, L!Init, Owners, Phases, Paid
<1> QED BY <1>1, LedgerStep, WorkerIsCoupled, PTL DEF Spec, ImplementsLedger, L!Spec

-----------------------------------------------------------------------------
(* The books *)

LEMMA EarnedIsInt ==
  ASSUME TypeOK, NEW u, NEW n \in Number
  PROVE  Earned(u)[n] \in Int
BY DEF TypeOK, Earned, HasStatus, Order

(* Storing a row that was not PROCESSED adds what it pays to what its user *)
(* earned, and to nobody else's.                                           *)
LEMMA EarnedStep ==
  ASSUME TypeOK, TypeOK', NEW n \in Number, NEW row \in Order, ~HasStatus(n, "PROCESSED"),
         orders' = [orders EXCEPT ![n] = row], NEW u \in User
  PROVE  SumFunctionOnSet(Earned(u), Number)' =
           SumFunctionOnSet(Earned(u), Number)
             + (IF row.status = "PROCESSED" /\ row.user = u THEN row.accrual ELSE 0)
<1> DEFINE f == Earned(u)
           g == Earned(u)'
           gain == IF row.status = "PROCESSED" /\ row.user = u THEN row.accrual ELSE 0
<1>1. \A m \in Number : orders'[m] = IF m = n THEN row ELSE orders[m]
  BY DEF TypeOK
<1>2. \A m \in Number : f[m] \in Int
  BY EarnedIsInt
<1>3. g[n] = gain /\ f[n] = 0
  BY <1>1, RowExists DEF Earned, HasStatus
<1>4. \A m \in Number \ {n} : f[m] = g[m]
  BY <1>1 DEF Earned, HasStatus
<1>5. gain \in Nat
  BY DEF Order
<1>6. \A m \in Number : f[m] \in Int /\ g[m] \in Int
  BY <1>2, <1>3, <1>4, <1>5
<1>7. SumFunctionOnSet(f, Number) \in Int
  BY <1>2, NumberAssumption, SumIsInt
<1>8. SumFunctionOnSet(Earned(u), Number)' = SumFunctionOnSet(g, Number)
  BY DEF SumFunctionOnSet, FoldFunctionOnSet, MapThenFoldSet
<1> HIDE DEF f, g, gain
<1>9. SumFunctionOnSet(g, Number) = SumFunctionOnSet(f, Number) + (g[n] - f[n])
  BY <1>4, <1>6, NumberAssumption, SumChanges
<1>10. SumFunctionOnSet(g, Number) = SumFunctionOnSet(f, Number) + gain
  BY <1>3, <1>5, <1>7, <1>9
<1> QED BY <1>8, <1>10 DEF f, g, gain

LEMMA BooksStep == IInv /\ Reconciled /\ TypeOK' /\ [Next]_vars => Reconciled'
<1> SUFFICES ASSUME IInv, Reconciled, TypeOK', [Next]_vars, NEW u \in User
             PROVE  balance'[u] = SumFunctionOnSet(Earned(u), Number)'
  BY DEF Reconciled
<1>1. TypeOK /\ balance[u] = SumFunctionOnSet(Earned(u), Number) /\ balance[u] \in Nat
  BY DEF IInv, Reconciled, TypeOK
<1>2. CASE UpdateOrder
  <2>1. /\ order \in Order /\ order.number \in Number
        /\ ~HasStatus(order.number, "PROCESSED") /\ order.status # "PROCESSED"
    BY <1>2 DEF UpdateOrder, IInv, TypeOK, CopiesAreCurrent, WritesAreAnswered,
                HasStatus, InCall, Order
  <2>2. orders' = [orders EXCEPT ![order.number] = order] /\ balance' = balance
    BY <1>2 DEF UpdateOrder
  <2>3. SumFunctionOnSet(Earned(u), Number)' = SumFunctionOnSet(Earned(u), Number) + 0
    BY <1>1, <2>1, <2>2, EarnedStep
  <2> QED BY <1>1, <2>2, <2>3
<1>3. CASE CommitTx
  <2>1. /\ order \in Order /\ order.number \in Number /\ order.user \in User
        /\ ~HasStatus(order.number, "PROCESSED") /\ order.status = "PROCESSED"
        /\ order.accrual = Rewarded(0, reward) /\ reward \in Accrual \cup {NoAccrual}
        /\ Pays(reward) => seen = balance[order.user]
    BY <1>3 DEF CommitTx, IInv, TypeOK, CopiesAreCurrent, WritesAreAnswered,
                HoldsBalance, HasStatus, InCall, Order
  <2>2. balance' = [balance EXCEPT ![order.user] = @ + order.accrual]
    BY <1>3, <2>1, CreditIsReward DEF IInv
  <2>3. balance'[u] = balance[u] + (IF order.user = u THEN order.accrual ELSE 0)
    BY <1>1, <2>1, <2>2 DEF TypeOK, Order
  <2>4. orders' = [orders EXCEPT ![order.number] = order]
    BY <1>3 DEF CommitTx
  <2> QED BY <1>1, <2>1, <2>3, <2>4, EarnedStep
<1>4. ASSUME NEW n \in Number, NEW v \in User, Upload(n, v)
      PROVE  balance'[u] = SumFunctionOnSet(Earned(u), Number)'
  <2> DEFINE row == [number |-> n, user |-> v, status |-> "NEW", accrual |-> 0]
  <2>1. row \in Order /\ row.status # "PROCESSED"
    BY DEF Order, Status
  <2>2. /\ orders' = [orders EXCEPT ![n] = row] /\ balance' = balance
        /\ ~HasStatus(n, "PROCESSED")
    BY <1>4 DEF Upload, HasStatus
  <2> HIDE DEF row
  <2>3. SumFunctionOnSet(Earned(u), Number)' = SumFunctionOnSet(Earned(u), Number) + 0
    BY <1>1, <2>1, <2>2, EarnedStep
  <2> QED BY <1>1, <2>2, <2>3
<1>5. CASE UNCHANGED store
  <2>1. orders' = orders /\ balance' = balance
    BY <1>5 DEF store
  <2>2. SumFunctionOnSet(Earned(u), Number)' = SumFunctionOnSet(Earned(u), Number)
    BY <2>1 DEF SumFunctionOnSet, FoldFunctionOnSet, MapThenFoldSet, Earned, HasStatus
  <2> QED BY <1>1, <2>1, <2>2
<1> QED
  BY <1>2, <1>3, <1>4, <1>5
  DEF Next, WorkerStep, EnvStep, Statement, Poll, vars, store, Tick, FetchNewOrders,
      FetchFails, EndBatch, PollNothing, PollStatus, PollProcessed, BeginTx, TxUpdateOrder,
      TxGetUser, TxUpdateBalance, Fail, RemoteStep, Stop, Start

(* For any number of users, orders and amounts: a user's balance is the    *)
(* sum of what the user's PROCESSED orders brought, in every state and     *)
(* after any failure, crash and repetition (worker/order.go:118-151).      *)
THEOREM BooksBalance == Spec => []Reconciled
<1>1. Init => Reconciled
  <2> SUFFICES ASSUME Init, NEW u \in User
               PROVE  balance[u] = SumFunctionOnSet(Earned(u), Number)
    BY DEF Reconciled
  <2>1. \A n \in Number : Earned(u)[n] = 0
    BY DEF Init, Earned, HasStatus
  <2>2. SumFunctionOnSet(Earned(u), Number) = 0
    BY <2>1, NumberAssumption, SumOfZeros
  <2> QED BY <2>2 DEF Init
<1> QED BY <1>1, BooksStep, WorkerIsCoupled, TypeCorrect, PTL DEF Spec
=============================================================================
