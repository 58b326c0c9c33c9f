---------------------------- MODULE OrderService ----------------------------
(***************************************************************************)
(* internal/handler/order.go and internal/service/order.go: POST and GET   *)
(* /api/user/orders, one action per statement that reaches the database,   *)
(* over table orders with its UNIQUE number.                               *)
(*                                                                         *)
(* A request is one upload of one number by one user, a reader one list;   *)
(* what they were answered stays known, so that the answers to different   *)
(* requests can be compared.                                               *)
(***************************************************************************)
EXTENDS Integers

CONSTANTS
  User,      \* the users registered
  Number,    \* order numbers
  Request,   \* uploads
  Reader,    \* requests for a list
  Reward,    \* accruals that the order worker books, in kopecks
  NoOrder    \* no row with this number

Status == {"NEW", "PROCESSING", "INVALID", "PROCESSED"}

Row == [number : Number, user : User, status : Status, accrual : Nat]

ASSUME NoOrderAssumption == NoOrder \notin Row
ASSUME RewardAssumption  == Reward \subseteq Nat

VARIABLES
  orders,   \* table orders: the row of a number
  pc,       \* the statement an upload is at
  user,     \* the user the request is authenticated as
  number,   \* the number it uploads
  err,      \* what CreateOrder returned
  reply,    \* the status code sent, 0 before
  list      \* the readers: where they are, whose orders they list, which
            \* numbers the user had been told are his when they began, the
            \* rows they got, the code sent

upload == <<pc, user, number, err, reply>>
vars   == <<orders, pc, user, number, err, reply, list>>

Err == {"none", "ErrDuplicateOrder", "ErrOrderConflict", "unique", "failed"}

(* A definition whose name ends in _Something is the one of that name with *)
(* a plausible bug; no specification uses it, it shows that a property     *)
(* would notice.                                                           *)

-----------------------------------------------------------------------------
(* LoadOrder, the handler                                                  *)

(* An upload without a valid cookie (401) or with a number that is not a   *)
(* Luhn number (422) ends before the service, with nothing changed.        *)
LoadOrder(r) ==
  /\ pc[r] = "idle"
  /\ pc' = [pc EXCEPT ![r] = "lookup"]
  /\ UNCHANGED <<orders, user, number, err, reply, list>>

(* The codes of LoadOrder.  A violation of UNIQUE comes back from the      *)
(* service as "failed to create order", like every other failure.          *)
StatusOf == [none |-> 202, ErrOrderConflict |-> 409, ErrDuplicateOrder |-> 200,
             unique |-> 500, failed |-> 500]

Finish(r, e) ==
  /\ pc'    = [pc EXCEPT ![r] = "done"]
  /\ err'   = [err EXCEPT ![r] = e]
  /\ reply' = [reply EXCEPT ![r] = StatusOf[e]]

-----------------------------------------------------------------------------
(* CreateOrder, the service                                                *)

GetOrderByNumber_AnyUser(r) ==
  /\ pc[r] = "lookup"
  /\ LET row == orders[number[r]]
     IN  IF row # NoOrder
         THEN Finish(r, "ErrDuplicateOrder")
         ELSE pc' = [pc EXCEPT ![r] = "insert"] /\ UNCHANGED <<err, reply>>
  /\ UNCHANGED <<orders, user, number, list>>

GetOrderByNumber(r) ==
  /\ pc[r] = "lookup"
  /\ LET row == orders[number[r]]
     IN  \/ /\ row # NoOrder
            /\ row.user = user[r]
            /\ Finish(r, "ErrDuplicateOrder")
         \/ /\ row # NoOrder
            /\ row.user # user[r]
            /\ Finish(r, "ErrOrderConflict")
         \/ /\ row = NoOrder
            /\ pc' = [pc EXCEPT ![r] = "insert"]
            /\ UNCHANGED <<err, reply>>
  /\ UNCHANGED <<orders, user, number, list>>

NewRow_NoUser(n, u) ==
  [number |-> n, user |-> NoOrder, status |-> "NEW", accrual |-> 0]

NewRow(n, u) == [number |-> n, user |-> u, status |-> "NEW", accrual |-> 0]

CreateOrder_Upsert(r) ==
  /\ pc[r] = "insert"
  /\ orders' = [orders EXCEPT ![number[r]] = NewRow(number[r], user[r])]
  /\ \E e \in {"none", "failed"} : Finish(r, e)
  /\ UNCHANGED <<user, number, list>>

(* The insert stores the row -- its answer may get lost -- or finds the    *)
(* number taken since the lookup.                                          *)
CreateOrder(r) ==
  /\ pc[r] = "insert"
  /\ \/ /\ orders[number[r]] = NoOrder
        /\ orders' = [orders EXCEPT ![number[r]] = NewRow(number[r], user[r])]
        /\ \E e \in {"none", "failed"} : Finish(r, e)
     \/ /\ orders[number[r]] # NoOrder
        /\ Finish(r, "unique")
        /\ UNCHANGED orders
  /\ UNCHANGED <<user, number, list>>

(* A statement fails, or the client goes away: nothing is stored.          *)
Fail(r) ==
  /\ pc[r] \in {"lookup", "insert"}
  /\ Finish(r, "failed")
  /\ UNCHANGED <<orders, user, number, list>>

-----------------------------------------------------------------------------
(* GetOrders                                                               *)

(* The numbers whose upload by u was answered 200 or 202.                  *)
Told(u) == {number[r] : r \in {s \in Request : user[s] = u /\ reply[s] \in {200, 202}}}

GetOrders(q, u) ==
  /\ list[q].at = "idle"
  /\ list' = [list EXCEPT ![q] = [at |-> "query", user |-> u, told |-> Told(u),
                                  rows |-> {}, code |-> 0]]
  /\ UNCHANGED <<orders, upload>>

RowsOf_Everybody(u) == {orders[n] : n \in {m \in Number : orders[m] # NoOrder}}

RowsOf(u) ==
  {orders[n] : n \in {m \in Number : orders[m] # NoOrder /\ orders[m].user = u}}

(* The query fixes the rows; they are read one by one from the connection. *)
GetUserOrders(q) ==
  /\ list[q].at = "query"
  /\ list' = [list EXCEPT ![q].at = "rows", ![q].rows = RowsOf(list[q].user)]
  /\ UNCHANGED <<orders, upload>>

(* When the connection breaks, rows.Next is false and rows.Err, which      *)
(* GetUserOrders does not look at, is set: the rows read so far are        *)
(* answered like a complete list.  They come by created_at, which the      *)
(* model does not keep: any subset may be what was read.                   *)
SendRows(q) ==
  /\ list[q].at = "rows"
  /\ \E read \in SUBSET list[q].rows :
       list' = [list EXCEPT ![q].at = "done", ![q].rows = read, ![q].code = 200]
  /\ UNCHANGED <<orders, upload>>

(* The query, or the conversion of a row, fails.                           *)
FailList(q) ==
  /\ list[q].at \in {"query", "rows"}
  /\ list' = [list EXCEPT ![q].at = "done", ![q].rows = {}, ![q].code = 500]
  /\ UNCHANGED <<orders, upload>>

-----------------------------------------------------------------------------
(* The order worker (OrderWorker.tla), the only other writer: it settles   *)
(* rows that are NEW.                                                      *)
Settle(n, s, k) ==
  /\ orders[n] # NoOrder
  /\ orders[n].status = "NEW"
  /\ s # "PROCESSED" => k = 0
  /\ orders' = [orders EXCEPT ![n].status = s, ![n].accrual = k]
  /\ UNCHANGED <<upload, list>>

(* The process stops and starts again: what runs is never answered.        *)
Running(r)  == pc[r] \in {"lookup", "insert"}
Listing(q)  == list[q].at \in {"query", "rows"}

Restart ==
  /\ (\E r \in Request : Running(r)) \/ \E q \in Reader : Listing(q)
  /\ pc' = [r \in Request |-> IF Running(r) THEN "lost" ELSE pc[r]]
  /\ list' = [q \in Reader |->
       IF Listing(q) THEN [list[q] EXCEPT !.at = "lost", !.rows = {}] ELSE list[q]]
  /\ UNCHANGED <<orders, user, number, err, reply>>

Init ==
  /\ orders = [n \in Number |-> NoOrder]
  /\ pc     = [r \in Request |-> "idle"]
  /\ user   \in [Request -> User]
  /\ number \in [Request -> Number]
  /\ err    = [r \in Request |-> "none"]
  /\ reply  = [r \in Request |-> 0]
  /\ \E u \in User :
       list = [q \in Reader |-> [at |-> "idle", user |-> u, told |-> {},
                                 rows |-> {}, code |-> 0]]

Step(r) ==
  \/ LoadOrder(r) \/ GetOrderByNumber(r) \/ CreateOrder(r) \/ Fail(r)

ReaderStep(q) ==
  \/ \E u \in User : GetOrders(q, u)
  \/ GetUserOrders(q) \/ SendRows(q) \/ FailList(q)

Next ==
  \/ \E r \in Request : Step(r)
  \/ \E q \in Reader : ReaderStep(q)
  \/ \E n \in Number, s \in Status \ {"NEW"}, k \in Reward \cup {0} : Settle(n, s, k)
  \/ Restart

Spec == Init /\ [][Next]_vars

-----------------------------------------------------------------------------
(* Types of the variables.                                                 *)
TypeOK ==
  /\ orders \in [Number -> Row \cup {NoOrder}]
  /\ pc     \in [Request -> {"idle", "lookup", "insert", "done", "lost"}]
  /\ user   \in [Request -> User]
  /\ number \in [Request -> Number]
  /\ err    \in [Request -> Err]
  /\ reply  \in [Request -> {0, 200, 202, 409, 500}]
  /\ list   \in [Reader -> [at   : {"idle", "query", "rows", "done", "lost"},
                            user : User, told : SUBSET Number,
                            rows : SUBSET Row, code : {0, 200, 500}]]

Owned(n, u) == orders[n] # NoOrder /\ orders[n].user = u

RowsAreKeyed == \A n \in Number : orders[n] # NoOrder => orders[n].number = n

(* What an answer says of the table, and goes on saying.                   *)
AnswersHold ==
  \A r \in Request :
    /\ reply[r] \in {200, 202} => Owned(number[r], user[r])
    /\ reply[r] = 409 => orders[number[r]] # NoOrder /\ ~Owned(number[r], user[r])

AcceptedOnce ==
  \A r, s \in Request :
    number[r] = number[s] /\ reply[r] = 202 /\ reply[s] = 202 => r = s

(* A list shows orders of the user who asked and of nobody else, and what  *)
(* it shows stays true: an order listed is his for ever, and one listed as *)
(* settled keeps the status and the accrual that were shown, whatever the  *)
(* worker, uploads and restarts do between the query and the answer or     *)
(* later (repository/order.go:96-134, worker/order.go:132).                *)
ListStaysTrue ==
  \A q \in Reader : \A o \in list[q].rows :
    /\ Owned(o.number, list[q].user)
    /\ o.status # "NEW" => orders[o.number] = o

(* The inductive invariant: no step makes an answer false that was given.  *)
IInv == TypeOK /\ RowsAreKeyed /\ AnswersHold /\ AcceptedOnce /\ ListStaysTrue

(* SPECIFICATION.md:66, 143-147: a number is accepted once, from one user. *)
(* Whatever uploads of a number run at once, fail, get lost or are tried   *)
(* again after a failure or a restart: one of them at most is answered     *)
(* 202, all that are answered 200 or 202 are one user's, and nobody is     *)
(* told that his own number is another's (service/order.go:45-79).         *)
AnswersAgree ==
  \A r, s \in Request : number[r] = number[s] =>
    /\ reply[r] = 202 /\ reply[s] = 202 => r = s
    /\ reply[r] \in {200, 202} /\ reply[s] \in {200, 202} => user[r] = user[s]
    /\ reply[r] \in {200, 202} /\ reply[s] = 409 => user[r] # user[s]

(* SPECIFICATION.md:52: GET /api/user/orders gives "the list of the order  *)
(* numbers that the user uploaded".  A list answered 200 holds all numbers *)
(* whose upload had been confirmed before it was asked for                 *)
(* (repository/order.go:113-133).                                          *)
ListIsComplete ==
  \A q \in Reader :
    list[q].code = 200 => list[q].told \subseteq {o.number : o \in list[q].rows}
=============================================================================
