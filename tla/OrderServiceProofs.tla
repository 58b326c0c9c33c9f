------------------------- MODULE OrderServiceProofs -------------------------
(***************************************************************************)
(* The answers to uploads of order numbers and the lists of orders, for    *)
(* any number of users, numbers, concurrent requests and readers.          *)
(***************************************************************************)
EXTENDS OrderService, TLAPS

LEMMA NewRowIsRow ==
  ASSUME NEW n \in Number, NEW u \in User
  PROVE  /\ NewRow(n, u) \in Row /\ NewRow(n, u) # NoOrder
         /\ NewRow(n, u).number = n /\ NewRow(n, u).user = u
BY NoOrderAssumption DEF NewRow, Row, Status

(* How a lookup can end.                                                   *)
LEMMA LookupEffect ==
  ASSUME NEW r \in Request, GetOrderByNumber(r)
  PROVE  /\ UNCHANGED <<orders, user, number, list>>
         /\ \/ /\ Owned(number[r], user[r])
               /\ Finish(r, "ErrDuplicateOrder")
            \/ /\ orders[number[r]] # NoOrder /\ ~Owned(number[r], user[r])
               /\ Finish(r, "ErrOrderConflict")
            \/ /\ pc' = [pc EXCEPT ![r] = "insert"]
               /\ UNCHANGED <<err, reply>>
BY DEF GetOrderByNumber, Owned

LEMMA FinishIsTyped ==
  ASSUME TypeOK, NEW r \in Request, NEW e \in Err, Finish(r, e)
  PROVE  /\ pc' \in [Request -> {"idle", "lookup", "insert", "done", "lost"}]
         /\ err' \in [Request -> Err]
         /\ reply' \in [Request -> {0, 200, 202, 409, 500}]
         /\ reply' = [reply EXCEPT ![r] = StatusOf[e]]
BY DEF TypeOK, Finish, StatusOf, Err

(* Records with some fields replaced.                                      *)
LEMMA RowUpdate ==
  ASSUME NEW o \in Row, NEW s \in Status, NEW k \in Nat
  PROVE  /\ [o EXCEPT !.status = s, !.accrual = k] \in Row
         /\ [o EXCEPT !.status = s, !.accrual = k].number = o.number
         /\ [o EXCEPT !.status = s, !.accrual = k].user = o.user
<1>1. [o EXCEPT !.status = s, !.accrual = k] \in Row
  BY DEF Row
<1>2. [o EXCEPT !.status = s, !.accrual = k].number = o.number
  BY DEF Row
<1>3. [o EXCEPT !.status = s, !.accrual = k].user = o.user
  BY DEF Row
<1> QED BY <1>1, <1>2, <1>3

(* The rows that a settled order can have.                                 *)
LEMMA SettledIsRow ==
  ASSUME TypeOK, NEW n \in Number, NEW s \in Status \ {"NEW"},
         NEW k \in Reward \cup {0}, Settle(n, s, k)
  PROVE  /\ orders' \in [Number -> Row \cup {NoOrder}]
         /\ \A m \in Number : m # n => orders'[m] = orders[m]
         /\ orders[n] # NoOrder /\ orders[n].status = "NEW"
         /\ orders'[n] # NoOrder
         /\ orders'[n].number = orders[n].number /\ orders'[n].user = orders[n].user
<1>1. orders[n] \in Row /\ k \in Nat /\ s \in Status
  BY RewardAssumption DEF TypeOK, Settle
<1> DEFINE row == [orders[n] EXCEPT !.status = s, !.accrual = k]
<1>2. orders' = [orders EXCEPT ![n] = row]
  BY DEF Settle
<1>3. row \in Row /\ row.number = orders[n].number /\ row.user = orders[n].user
  BY <1>1, RowUpdate
<1>4. orders \in [Number -> Row \cup {NoOrder}]
  BY DEF TypeOK
<1>5. orders[n] # NoOrder /\ orders[n].status = "NEW"
  BY DEF Settle
<1> HIDE DEF row
<1>6. row # NoOrder
  BY <1>3, NoOrderAssumption
<1> QED BY <1>2, <1>3, <1>4, <1>5, <1>6

-----------------------------------------------------------------------------
(* The readers                                                             *)

At      == {"idle", "query", "rows", "done", "lost"}
Code    == {0, 200, 500}
Reading == [at   : At, user : User, told : SUBSET Number, rows : SUBSET Row,
            code : Code]

LEMMA ReadersAreTyped == TypeOK => list \in [Reader -> Reading]
BY DEF TypeOK, Reading, At, Code

(* A list record that moves on, and one that is answered.                  *)
Moved(l, at, rows)    == [l EXCEPT !.at = at, !.rows = rows]
Closed(l, rows, code) == [l EXCEPT !.at = "done", !.rows = rows, !.code = code]

LEMMA ListUpdate ==
  ASSUME NEW l \in Reading, NEW rows \in SUBSET Row, NEW at \in At
  PROVE  Moved(l, at, rows) \in Reading /\ Moved(l, at, rows).rows = rows /\ Moved(l, at, rows).user = l.user
<1>1. Moved(l, at, rows) \in Reading
  BY DEF Reading, Moved
<1>2. Moved(l, at, rows).rows = rows
  BY DEF Reading, Moved
<1>3. Moved(l, at, rows).user = l.user
  BY DEF Reading, Moved
<1> QED BY <1>1, <1>2, <1>3

LEMMA ListAnswer ==
  ASSUME NEW l \in Reading, NEW rows \in SUBSET Row, NEW code \in Code
  PROVE  Closed(l, rows, code) \in Reading /\ Closed(l, rows, code).rows = rows /\ Closed(l, rows, code).user = l.user
<1>1. Closed(l, rows, code) \in Reading
  BY DEF Reading, Closed, At
<1>2. Closed(l, rows, code).rows = rows
  BY DEF Reading, Closed, At
<1>3. Closed(l, rows, code).user = l.user
  BY DEF Reading, Closed, At
<1> QED BY <1>1, <1>2, <1>3

LEMMA RowsOfAreRows ==
  ASSUME TypeOK, NEW u \in User
  PROVE  RowsOf(u) \subseteq Row
BY DEF TypeOK, RowsOf

(* What a step of a reader does to its list.                               *)
LEMMA ReaderEffect ==
  ASSUME TypeOK, NEW q \in Reader, ReaderStep(q)
  PROVE  /\ UNCHANGED <<orders, upload>>
         /\ list' \in [Reader -> Reading]
         /\ \A p \in Reader : p # q => list'[p] = list[p]
         /\ \/ list'[q].rows = {}
            \/ list'[q].user = list[q].user /\ list'[q].rows = RowsOf(list[q].user)
            \/ list'[q].user = list[q].user /\ list'[q].rows \subseteq list[q].rows
<1> DEFINE Goal == /\ UNCHANGED <<orders, upload>>
                   /\ list' \in [Reader -> Reading]
                   /\ \A p \in Reader : p # q => list'[p] = list[p]
                   /\ \/ list'[q].rows = {}
                      \/ list'[q].user = list[q].user /\ list'[q].rows = RowsOf(list[q].user)
                      \/ list'[q].user = list[q].user /\ list'[q].rows \subseteq list[q].rows
<1>1. list \in [Reader -> Reading] /\ list[q] \in Reading
  BY ReadersAreTyped
<1>2. ASSUME NEW u \in User, GetOrders(q, u)
      PROVE  Goal
  <2>1. Told(u) \subseteq Number
    BY DEF TypeOK, Told
  <2>2. [at |-> "query", user |-> u, told |-> Told(u), rows |-> {}, code |-> 0] \in Reading
    BY <2>1 DEF Reading, At, Code
  <2> QED BY <1>1, <1>2, <2>2 DEF GetOrders
<1>3. CASE GetUserOrders(q)
  <2> DEFINE l == Moved(list[q], "rows", RowsOf(list[q].user))
  <2>1. list' = [list EXCEPT ![q] = l] /\ UNCHANGED <<orders, upload>>
    BY <1>1, <1>3 DEF GetUserOrders, Moved
  <2>2. l \in Reading /\ l.rows = RowsOf(list[q].user) /\ l.user = list[q].user
    <3>1. RowsOf(list[q].user) \in SUBSET Row /\ "rows" \in At
      BY <1>1, RowsOfAreRows DEF Reading, At
    <3> QED BY <1>1, <3>1, ListUpdate
  <2> QED BY <1>1, <2>1, <2>2
<1>4. CASE SendRows(q)
  <2>1. PICK read \in SUBSET list[q].rows :
          list' = [list EXCEPT ![q] = Closed(list[q], read, 200)]
    BY <1>1, <1>4 DEF SendRows, Closed
  <2> DEFINE l == Closed(list[q], read, 200)
  <2>2. l \in Reading /\ l.rows = read /\ l.user = list[q].user
    <3>1. read \in SUBSET Row /\ 200 \in Code
      BY <1>1 DEF Reading, Code
    <3> QED BY <1>1, <3>1, ListAnswer
  <2> HIDE DEF l
  <2> QED BY <1>1, <1>4, <2>1, <2>2 DEF SendRows, l
<1>5. CASE FailList(q)
  <2> DEFINE l == Closed(list[q], {}, 500)
  <2>1. list' = [list EXCEPT ![q] = l] /\ UNCHANGED <<orders, upload>>
    BY <1>1, <1>5 DEF FailList, Closed
  <2>2. l \in Reading /\ l.rows = {}
    <3>1. {} \in SUBSET Row /\ 500 \in Code
      BY DEF Code
    <3> QED BY <1>1, <3>1, ListAnswer
  <2> QED BY <1>1, <2>1, <2>2
<1> QED BY <1>2, <1>3, <1>4, <1>5 DEF ReaderStep

LEMMA RestartEffect ==
  ASSUME TypeOK, Restart
  PROVE  /\ UNCHANGED <<orders, user, number, err, reply>>
         /\ pc' \in [Request -> {"idle", "lookup", "insert", "done", "lost"}]
         /\ list' \in [Reader -> Reading]
         /\ \A q \in Reader : list'[q].rows = {} \/ list'[q] = list[q]
<1>1. list \in [Reader -> Reading]
  BY ReadersAreTyped
<1>2. ASSUME NEW q \in Reader
      PROVE  /\ list'[q] \in Reading
             /\ list'[q].rows = {} \/ list'[q] = list[q]
  <2>1. list'[q] = IF Listing(q) THEN Moved(list[q], "lost", {}) ELSE list[q]
    BY DEF Restart, Moved
  <2>2. Moved(list[q], "lost", {}) \in Reading /\ Moved(list[q], "lost", {}).rows = {}
    <3>1. list[q] \in Reading /\ "lost" \in At /\ {} \in SUBSET Row
      BY <1>1 DEF At
    <3> QED BY <3>1, ListUpdate
  <2> QED BY <1>1, <2>1, <2>2
<1>3. list' \in [Reader -> Reading]
  BY <1>2 DEF Restart
<1>4. pc' \in [Request -> {"idle", "lookup", "insert", "done", "lost"}]
  BY DEF TypeOK, Restart
<1> QED BY <1>2, <1>3, <1>4 DEF Restart

-----------------------------------------------------------------------------
LEMMA TypeStep == TypeOK /\ [Next]_vars => TypeOK'
<1> SUFFICES ASSUME TypeOK, [Next]_vars
             PROVE  TypeOK'
  OBVIOUS
<1>1. ASSUME NEW r \in Request, LoadOrder(r)
      PROVE  TypeOK'
  BY <1>1 DEF TypeOK, LoadOrder
<1>2. ASSUME NEW r \in Request, GetOrderByNumber(r)
      PROVE  TypeOK'
  <2>1. CASE Finish(r, "ErrDuplicateOrder") \/ Finish(r, "ErrOrderConflict")
    <3>1. PICK e \in Err : Finish(r, e)
      BY <2>1 DEF Err
    <3> QED BY <1>2, <3>1, FinishIsTyped, LookupEffect DEF TypeOK
  <2>2. CASE pc' = [pc EXCEPT ![r] = "insert"] /\ UNCHANGED <<err, reply>>
    BY <1>2, <2>2, LookupEffect DEF TypeOK
  <2> QED BY <1>2, <2>1, <2>2, LookupEffect
<1>3. ASSUME NEW r \in Request, CreateOrder(r)
      PROVE  TypeOK'
  <2>1. orders' \in [Number -> Row \cup {NoOrder}]
    <3>1. NewRow(number[r], user[r]) \in Row
      BY NewRowIsRow DEF TypeOK
    <3> QED BY <1>3, <3>1 DEF TypeOK, CreateOrder
  <2>2. PICK e \in Err : Finish(r, e)
    BY <1>3 DEF CreateOrder, Err
  <2> QED BY <1>3, <2>1, <2>2, FinishIsTyped DEF TypeOK, CreateOrder
<1>4. ASSUME NEW r \in Request, Fail(r)
      PROVE  TypeOK'
  <2>1. PICK e \in Err : Finish(r, e)
    BY <1>4 DEF Fail, Err
  <2> QED BY <1>4, <2>1, FinishIsTyped DEF TypeOK, Fail
<1>5. ASSUME NEW q \in Reader, ReaderStep(q)
      PROVE  TypeOK'
  BY <1>5, ReaderEffect DEF TypeOK, upload, Reading, At, Code
<1>6. ASSUME NEW n \in Number, NEW s \in Status \ {"NEW"},
             NEW k \in Reward \cup {0}, Settle(n, s, k)
      PROVE  TypeOK'
  <2>1. orders' \in [Number -> Row \cup {NoOrder}]
    BY <1>6, SettledIsRow
  <2> QED BY <1>6, <2>1 DEF TypeOK, Settle, upload
<1>7. CASE Restart
  BY <1>7, RestartEffect DEF TypeOK, Reading, At, Code
<1>8. CASE UNCHANGED vars
  BY <1>8 DEF TypeOK, vars
<1> QED BY <1>1, <1>2, <1>3, <1>4, <1>5, <1>6, <1>7, <1>8 DEF Next, Step

LEMMA InitIsTyped == Init => TypeOK
<1> SUFFICES ASSUME Init
             PROVE  TypeOK
  OBVIOUS
<1>1. PICK u \in User :
        list = [q \in Reader |-> [at |-> "idle", user |-> u, told |-> {},
                                  rows |-> {}, code |-> 0]]
  BY DEF Init
<1>2. list \in [Reader -> Reading]
  BY <1>1 DEF Reading, At, Code
<1> QED BY <1>2 DEF Init, TypeOK, Err, Reading, At, Code

-----------------------------------------------------------------------------
(* A row stays: under its number, with its user, and as it is once it is   *)
(* settled.  Requests carry what they came with.                           *)
Stays(n) ==
  orders[n] # NoOrder =>
    /\ orders'[n] # NoOrder
    /\ orders'[n].number = orders[n].number /\ orders'[n].user = orders[n].user
    /\ orders[n].status # "NEW" => orders'[n] = orders[n]

(* How an insert can end.                                                  *)
LEMMA InsertEffect ==
  ASSUME TypeOK, NEW r \in Request, CreateOrder(r)
  PROVE  /\ UNCHANGED <<user, number, list>>
         /\ \/ /\ orders[number[r]] = NoOrder
               /\ orders' = [orders EXCEPT ![number[r]] = NewRow(number[r], user[r])]
               /\ Finish(r, "none") \/ Finish(r, "failed")
            \/ UNCHANGED orders /\ Finish(r, "unique")
BY DEF CreateOrder

LEMMA RowsStay ==
  ASSUME TypeOK, [Next]_vars
  PROVE  /\ UNCHANGED <<user, number>>
         /\ \A n \in Number : Stays(n)
<1>1. ASSUME UNCHANGED orders
      PROVE  \A n \in Number : Stays(n)
  BY <1>1 DEF Stays
<1>2. ASSUME NEW r \in Request, CreateOrder(r)
      PROVE  \A n \in Number : Stays(n)
  <2>1. CASE /\ orders[number[r]] = NoOrder
             /\ orders' = [orders EXCEPT ![number[r]] = NewRow(number[r], user[r])]
    BY <2>1 DEF TypeOK, Stays
  <2> QED BY <1>1, <1>2, <2>1, InsertEffect
<1>3. ASSUME NEW n \in Number, NEW s \in Status \ {"NEW"},
             NEW k \in Reward \cup {0}, Settle(n, s, k)
      PROVE  \A m \in Number : Stays(m)
  BY <1>3, SettledIsRow DEF Stays
<1>4. \/ UNCHANGED orders
      \/ \E r \in Request : CreateOrder(r)
      \/ \E n \in Number, s \in Status \ {"NEW"}, k \in Reward \cup {0} : Settle(n, s, k)
  BY LookupEffect, ReaderEffect, RestartEffect DEF Next, Step, vars, LoadOrder, Fail
<1>5. UNCHANGED <<user, number>>
  BY LookupEffect, InsertEffect, ReaderEffect, RestartEffect
  DEF Next, Step, vars, LoadOrder, Fail, Settle, upload
<1> QED BY <1>1, <1>2, <1>3, <1>4, <1>5

LEMMA KeysStep == TypeOK /\ RowsAreKeyed /\ [Next]_vars => RowsAreKeyed'
<1> SUFFICES ASSUME TypeOK, RowsAreKeyed, [Next]_vars, NEW n \in Number,
                    orders'[n] # NoOrder
             PROVE  orders'[n].number = n
  BY DEF RowsAreKeyed
<1>1. CASE orders[n] # NoOrder
  BY <1>1, RowsStay DEF Stays, RowsAreKeyed
<1>2. CASE orders[n] = NoOrder
  <2>1. PICK r \in Request : CreateOrder(r)
    <3>1. ASSUME UNCHANGED orders
          PROVE  FALSE
      BY <1>2, <3>1
    <3>2. ASSUME NEW m \in Number, NEW s \in Status \ {"NEW"},
                 NEW k \in Reward \cup {0}, Settle(m, s, k)
          PROVE  FALSE
      BY <1>2, <3>2, SettledIsRow
    <3> QED
      BY <3>1, <3>2, LookupEffect, ReaderEffect, RestartEffect
      DEF Next, Step, vars, LoadOrder, Fail
  <2>2. /\ number[r] \in Number /\ user[r] \in User
        /\ orders' = [orders EXCEPT ![number[r]] = NewRow(number[r], user[r])]
    BY <1>2, <2>1, InsertEffect DEF TypeOK
  <2>3. n = number[r] /\ orders'[n] = NewRow(number[r], user[r])
    BY <1>2, <2>2 DEF TypeOK
  <2> QED BY <2>2, <2>3, NewRowIsRow
<1> QED BY <1>1, <1>2

-----------------------------------------------------------------------------
(* A new answer is true of the table at the step that gives it, and no     *)
(* other request is answered at that step.                                 *)
LEMMA NewAnswerHolds ==
  ASSUME TypeOK, [Next]_vars, NEW r \in Request, reply'[r] # reply[r]
  PROVE  /\ reply'[r] = 202 => /\ orders[number[r]] = NoOrder
                               /\ orders'[number[r]] = NewRow(number[r], user[r])
         /\ reply'[r] = 200 => Owned(number[r], user[r])
         /\ reply'[r] = 409 => orders[number[r]] # NoOrder /\ ~Owned(number[r], user[r])
         /\ \A s \in Request : s # r => reply'[s] = reply[s]
<1> DEFINE Goal == /\ reply'[r] = 202 => /\ orders[number[r]] = NoOrder
                                         /\ orders'[number[r]] = NewRow(number[r], user[r])
                   /\ reply'[r] = 200 => Owned(number[r], user[r])
                   /\ reply'[r] = 409 => /\ orders[number[r]] # NoOrder
                                         /\ ~Owned(number[r], user[r])
                   /\ \A s \in Request : s # r => reply'[s] = reply[s]
<1>1. ASSUME NEW s \in Request, NEW e \in Err, Finish(s, e)
      PROVE  /\ s = r /\ reply'[r] = StatusOf[e]
             /\ \A p \in Request : p # r => reply'[p] = reply[p]
  BY <1>1, FinishIsTyped DEF TypeOK
<1>2. ASSUME NEW s \in Request, GetOrderByNumber(s)
      PROVE  Goal
  <2>1. CASE Owned(number[s], user[s]) /\ Finish(s, "ErrDuplicateOrder")
    <3>1. /\ s = r /\ reply'[r] = 200
          /\ \A p \in Request : p # r => reply'[p] = reply[p]
      BY <1>1, <2>1 DEF Err, StatusOf
    <3> QED BY <2>1, <3>1
  <2>2. CASE /\ orders[number[s]] # NoOrder /\ ~Owned(number[s], user[s])
             /\ Finish(s, "ErrOrderConflict")
    <3>1. /\ s = r /\ reply'[r] = 409
          /\ \A p \in Request : p # r => reply'[p] = reply[p]
      BY <1>1, <2>2 DEF Err, StatusOf
    <3> QED BY <2>2, <3>1
  <2> QED BY <1>2, <2>1, <2>2, LookupEffect
<1>3. ASSUME NEW s \in Request, CreateOrder(s)
      PROVE  Goal
  <2>1. CASE Finish(s, "unique")
    <3>1. /\ reply'[r] = 500
          /\ \A p \in Request : p # r => reply'[p] = reply[p]
      BY <1>1, <2>1 DEF Err, StatusOf
    <3> QED BY <3>1
  <2>2. CASE /\ orders[number[s]] = NoOrder
             /\ orders' = [orders EXCEPT ![number[s]] = NewRow(number[s], user[s])]
             /\ Finish(s, "none") \/ Finish(s, "failed")
    <3>1. /\ s = r /\ reply'[r] \in {202, 500}
          /\ \A p \in Request : p # r => reply'[p] = reply[p]
      BY <1>1, <2>2 DEF Err, StatusOf
    <3> QED BY <2>2, <3>1 DEF TypeOK
  <2> QED BY <1>3, <2>1, <2>2, InsertEffect
<1>4. ASSUME NEW s \in Request, Fail(s)
      PROVE  Goal
  <2>1. /\ reply'[r] = 500
        /\ \A p \in Request : p # r => reply'[p] = reply[p]
    BY <1>1, <1>4 DEF Fail, Err, StatusOf
  <2> QED BY <2>1
<1>5. ASSUME UNCHANGED reply
      PROVE  FALSE
  BY <1>5
<1> QED
  BY <1>2, <1>3, <1>4, <1>5, ReaderEffect, RestartEffect
  DEF Next, Step, vars, LoadOrder, Settle, upload

LEMMA AnswersStep == IInv /\ [Next]_vars => AnswersHold'
<1> SUFFICES ASSUME IInv, [Next]_vars, NEW r \in Request
             PROVE  /\ reply'[r] \in {200, 202} => Owned(number[r], user[r])'
                    /\ reply'[r] = 409 => /\ orders'[number'[r]] # NoOrder
                                          /\ ~Owned(number[r], user[r])'
  BY DEF AnswersHold
<1>1. /\ UNCHANGED <<user, number>> /\ number[r] \in Number /\ user[r] \in User
      /\ Stays(number[r])
  BY RowsStay DEF IInv, TypeOK
<1>2. CASE reply'[r] = reply[r]
  BY <1>1, <1>2 DEF IInv, AnswersHold, Owned, Stays
<1>3. CASE reply'[r] # reply[r]
  BY <1>1, <1>3, NewAnswerHolds, NewRowIsRow DEF IInv, Owned, Stays
<1> QED BY <1>2, <1>3

LEMMA OnceStep == IInv /\ [Next]_vars => AcceptedOnce'
<1> SUFFICES ASSUME IInv, [Next]_vars, NEW r \in Request, NEW s \in Request,
                    number'[r] = number'[s], reply'[r] = 202, reply'[s] = 202,
                    r # s
             PROVE  FALSE
  BY DEF AcceptedOnce
<1>1. number[r] = number[s]
  BY RowsStay DEF IInv
<1>2. ASSUME NEW p \in Request, NEW q \in Request, p # q, number[p] = number[q],
             reply'[p] = 202, reply'[q] = 202, reply'[p] # reply[p]
      PROVE  FALSE
  <2>1. orders[number[p]] = NoOrder /\ reply'[q] = reply[q]
    BY <1>2, NewAnswerHolds DEF IInv
  <2>2. Owned(number[q], user[q])
    BY <1>2, <2>1 DEF IInv, AnswersHold
  <2> QED BY <1>2, <2>1, <2>2 DEF Owned
<1>3. reply'[r] = reply[r] /\ reply'[s] = reply[s]
  BY <1>1, <1>2
<1> QED BY <1>1, <1>3 DEF IInv, AcceptedOnce

-----------------------------------------------------------------------------
(* What a list shows                                                       *)
Shows(o, u) == Owned(o.number, u) /\ (o.status # "NEW" => orders[o.number] = o)

LEMMA ShownStays ==
  ASSUME IInv, [Next]_vars, NEW o \in Row, NEW u \in User, Shows(o, u)
  PROVE  Shows(o, u)'
<1>1. o.number \in Number
  BY DEF Row
<1>2. Stays(o.number)
  BY <1>1, RowsStay DEF IInv
<1> QED BY <1>2 DEF Shows, Owned, Stays

LEMMA ListStep == IInv /\ [Next]_vars => ListStaysTrue'
<1> SUFFICES ASSUME IInv, [Next]_vars, NEW q \in Reader, NEW o \in list'[q].rows
             PROVE  Shows(o, list[q].user)'
  BY DEF ListStaysTrue, Shows
<1>1. list \in [Reader -> Reading] /\ list[q] \in Reading /\ list[q].user \in User
  BY ReadersAreTyped DEF IInv, Reading
<1>2. CASE list'[q] = list[q]
  <2>1. o \in Row /\ Shows(o, list[q].user)
    BY <1>1, <1>2 DEF IInv, ListStaysTrue, Shows, Reading
  <2> QED BY <1>1, <1>2, <2>1, ShownStays
<1>3. ASSUME ReaderStep(q), list'[q].user = list[q].user,
             list'[q].rows = RowsOf(list[q].user)
      PROVE  Shows(o, list[q].user)'
  <2>1. PICK n \in Number : /\ orders[n] # NoOrder /\ orders[n].user = list[q].user
                            /\ o = orders[n]
    BY <1>3 DEF RowsOf
  <2>2. o.number = n /\ o \in Row
    BY <2>1 DEF IInv, RowsAreKeyed, TypeOK
  <2>3. Shows(o, list[q].user)
    BY <2>1, <2>2 DEF Shows, Owned
  <2> QED BY <1>1, <1>3, <2>2, <2>3, ShownStays
<1>4. ASSUME list'[q].user = list[q].user, list'[q].rows \subseteq list[q].rows
      PROVE  Shows(o, list[q].user)'
  <2>1. o \in Row /\ Shows(o, list[q].user)
    BY <1>1, <1>4 DEF IInv, ListStaysTrue, Shows, Reading
  <2> QED BY <1>1, <1>4, <2>1, ShownStays
<1>5. ASSUME NEW p \in Reader, ReaderStep(p)
      PROVE  Shows(o, list[q].user)'
  <2>1. CASE p # q
    <3>1. list'[q] = list[q]
      BY <1>5, <2>1, ReaderEffect DEF IInv
    <3> QED BY <1>2, <3>1
  <2>2. CASE p = q
    BY <1>3, <1>4, <1>5, <2>2, ReaderEffect DEF IInv
  <2> QED BY <2>1, <2>2
<1>6. CASE Restart
  BY <1>2, <1>6, RestartEffect DEF IInv
<1>7. CASE UNCHANGED list
  BY <1>2, <1>7
<1> QED
  BY <1>5, <1>6, <1>7, LookupEffect
  DEF Next, Step, vars, LoadOrder, CreateOrder, Fail, Settle

-----------------------------------------------------------------------------
LEMMA Invariance == Spec => []IInv
<1>1. Init => IInv
  <2> SUFFICES ASSUME Init
               PROVE  IInv
    OBVIOUS
  <2>1. ListStaysTrue
    BY DEF Init, ListStaysTrue
  <2>2. \A n \in Number : orders[n] = NoOrder
    BY DEF Init
  <2>3. \A r \in Request : reply[r] = 0
    BY DEF Init
  <2> QED
    BY <2>1, <2>2, <2>3, InitIsTyped DEF IInv, RowsAreKeyed, AnswersHold, AcceptedOnce
<1>2. IInv /\ [Next]_vars => IInv'
  BY TypeStep, KeysStep, AnswersStep, OnceStep, ListStep DEF IInv
<1> QED BY <1>1, <1>2, PTL DEF Spec

(* What uploads and lists were answered stays true of the table            *)
(* (service/order.go:45-79, repository/order.go:96-134).                   *)
THEOREM AnswersStayTrue == Spec => []IInv
BY Invariance

(* The table, the requests and the lists hold values of their types.       *)
THEOREM TypeCorrect == Spec => []TypeOK
BY Invariance, PTL DEF IInv

(* A number is accepted once and from one user, however many uploads of it *)
(* run at once, fail or are repeated (SPECIFICATION.md:66).                *)
THEOREM NumbersAreAcceptedOnce == Spec => []AnswersAgree
<1>1. IInv => AnswersAgree
  BY DEF IInv, AnswersAgree, AnswersHold, AcceptedOnce, Owned
<1> QED BY <1>1, Invariance, PTL

(* A list shows its user's own orders, and what it shows stays true,       *)
(* however the worker, uploads and restarts interleave with it             *)
(* (repository/order.go:96-134, worker/order.go:132).                      *)
THEOREM ListsStayTrue == Spec => []ListStaysTrue
BY Invariance, PTL DEF IInv
=============================================================================
