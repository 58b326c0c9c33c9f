------------------------------ MODULE ConnPool ------------------------------
(***************************************************************************)
(* The pool of database connections (internal/database/psql.go, pgxpool)   *)
(* as its users see it: the handlers, each with one statement at a time,   *)
(* and the order worker, which asks for a second connection inside its     *)
(* transaction (worker/order.go:118-151: GetUserByID goes to the pool).    *)
(* What the statements do to the tables is the other modules' matter.      *)
(***************************************************************************)
EXTENDS Naturals

CONSTANTS
  Conn,        \* the connections the pool may open, MaxConns of them
  Request,     \* places for requests being served
  MaxQueries,  \* bound: statements one handler issues
  Worker,      \* the goroutine of the order worker
  NoHolder     \* the holder of a connection nobody holds

VARIABLES
  pool,        \* "open", "closing" in Close, "closed"
  holder,      \* who holds each connection
  stage,       \* where each request is
  left,        \* statements its handler still has to issue
  worker,      \* where the worker is
  cancelled    \* its context

requests == <<stage, left>>
vars     == <<pool, holder, stage, left, worker, cancelled>>

User == Request \cup {Worker}

Idle     == {c \in Conn : holder[c] = NoHolder}
HeldBy(u) == {c \in Conn : holder[c] = u}

(* Acquire gives out a connection while the pool is open; with none idle   *)
(* the caller waits in the queue.                                          *)
Acquire(u) ==
  /\ pool = "open"
  /\ \E c \in Idle : holder' = [holder EXCEPT ![c] = u]

Release(u) == holder' = [c \in Conn |-> IF holder[c] = u THEN NoHolder ELSE holder[c]]

(* All but one go back: a statement inside a transaction that went to the  *)
(* pool returns its connection.                                            *)
ReleaseOne(u) == \E c \in HeldBy(u) : holder' = [holder EXCEPT ![c] = NoHolder]

-----------------------------------------------------------------------------
(* Requests.  Every repository method a handler calls acquires a           *)
(* connection, runs its statement and releases it -- for a list when its   *)
(* rows are closed -- and so does Ping of the health handler.              *)

Arrive(r) ==
  /\ stage[r] = "none"
  /\ stage' = [stage EXCEPT ![r] = "handler"]
  /\ \E n \in 0..MaxQueries : left' = [left EXCEPT ![r] = n]
  /\ UNCHANGED <<pool, holder, worker, cancelled>>

Ask(r) ==
  /\ stage[r] = "handler" /\ left[r] > 0
  /\ stage' = [stage EXCEPT ![r] = "waiting"]
  /\ left' = [left EXCEPT ![r] = @ - 1]
  /\ UNCHANGED <<pool, holder, worker, cancelled>>

Get(r) ==
  /\ stage[r] = "waiting"
  /\ Acquire(r)
  /\ stage' = [stage EXCEPT ![r] = "query"]
  /\ UNCHANGED <<pool, left, worker, cancelled>>

(* A handler that keeps its connection for its next statement, as a        *)
(* transaction around the check and the insert of Withdraw would.          *)
Query_KeepConn(r) ==
  /\ stage[r] = "query"
  /\ IF left[r] > 0 THEN UNCHANGED holder ELSE Release(r)
  /\ stage' = [stage EXCEPT ![r] = "handler"]
  /\ UNCHANGED <<pool, left, worker, cancelled>>

Query(r) ==
  /\ stage[r] = "query"
  /\ Release(r)
  /\ stage' = [stage EXCEPT ![r] = "handler"]
  /\ UNCHANGED <<pool, left, worker, cancelled>>

(* The client goes, the pool is closed or the database fails: the handler  *)
(* answers with an error.                                                  *)
FailRequest(r) ==
  /\ stage[r] \in {"waiting", "query"}
  /\ Release(r)
  /\ stage' = [stage EXCEPT ![r] = "handler"]
  /\ left' = [left EXCEPT ![r] = 0]
  /\ UNCHANGED <<pool, worker, cancelled>>

Reply(r) ==
  /\ stage[r] = "handler" /\ left[r] = 0
  /\ stage' = [stage EXCEPT ![r] = "none"]
  /\ UNCHANGED <<pool, holder, left, worker, cancelled>>

-----------------------------------------------------------------------------
(* The order worker, by the connections it holds: none between the         *)
(* statements outside a transaction ("ask" is the call of the accrual      *)
(* system), one in a transaction, two in GetUserByID within it.            *)

Awaits == {"fetch?", "update?", "begin?", "user?"}

Moves(from, to) == worker = from /\ worker' = to

Tick ==
  /\ ~cancelled
  /\ Moves("pause", "fetch?")
  /\ UNCHANGED <<pool, holder, requests, cancelled>>

(* processNewOrders and processOrder go on to the next order or to the end *)
(* of the round, and from an answer to the statements it calls for.        *)
Decide ==
  /\ \/ \E s \in {"ask", "update?", "begin?", "pause"} : Moves("ask", s)
     \/ Moves("tx", "user?")
  /\ UNCHANGED <<pool, holder, requests, cancelled>>

WorkerGet ==
  /\ ~cancelled
  /\ \/ Moves("fetch?", "fetch") \/ Moves("update?", "update")
     \/ Moves("begin?", "tx")    \/ Moves("user?", "user")
  /\ Acquire(Worker)
  /\ UNCHANGED <<pool, requests, cancelled>>

(* Rows.Close, the end of an Exec, and of GetUserByID inside the           *)
(* transaction.                                                            *)
WorkerQuery ==
  /\ \/ Moves("fetch", "ask") /\ Release(Worker)
     \/ Moves("update", "ask") /\ Release(Worker)
     \/ Moves("user", "tx2") /\ ReleaseOne(Worker)
  /\ UNCHANGED <<pool, requests, cancelled>>

Commit ==
  /\ Moves("tx", "ask") \/ Moves("tx2", "ask")
  /\ Release(Worker)
  /\ UNCHANGED <<pool, requests, cancelled>>

FailWorker_NoRollback ==
  /\ worker \in Awaits \cup {"fetch", "update", "tx", "user", "tx2"}
  /\ worker' = IF worker \in {"fetch?", "fetch"} THEN "pause" ELSE "ask"
  /\ IF worker \in {"tx", "user?", "tx2"} THEN UNCHANGED holder ELSE Release(Worker)
  /\ UNCHANGED <<pool, requests, cancelled>>

(* A statement fails, the context is cancelled or the pool closed: the     *)
(* deferred Rollback gives the transaction's connection back, and the      *)
(* worker goes on with the next order, or the next round.                  *)
FailWorker ==
  /\ worker \in Awaits \cup {"fetch", "update", "tx", "user", "tx2"}
  /\ worker' = IF worker \in {"fetch?", "fetch"} THEN "pause" ELSE "ask"
  /\ Release(Worker)
  /\ UNCHANGED <<pool, requests, cancelled>>

(* Start returns when it finds the context cancelled.                      *)
Leave ==
  /\ cancelled
  /\ Moves("pause", "off")
  /\ UNCHANGED <<pool, holder, requests, cancelled>>

-----------------------------------------------------------------------------
(* pool.Close refuses whoever asks from then on, and waits until every     *)
(* connection is back.                                                     *)
Close ==
  /\ pool = "open"
  /\ pool' = "closing"
  /\ UNCHANGED <<holder, requests, worker, cancelled>>

Closed ==
  /\ pool = "closing" /\ Idle = Conn
  /\ pool' = "closed"
  /\ UNCHANGED <<holder, requests, worker, cancelled>>

Init ==
  /\ pool = "closed"
  /\ holder = [c \in Conn |-> NoHolder]
  /\ stage = [r \in Request |-> "none"]
  /\ left = [r \in Request |-> 0]
  /\ worker = "off" /\ cancelled = FALSE

(* The process is gone, and the connections with it.                       *)
Gone ==
  /\ pool' = "closed"
  /\ holder' = [c \in Conn |-> NoHolder]
  /\ stage' = [r \in Request |-> "none"]
  /\ left' = [r \in Request |-> 0]
  /\ worker' = "off" /\ cancelled' = FALSE

(* Statements end, handlers and the worker go on, and the pool serves      *)
(* those who wait in turn (a FIFO queue), so that nobody who waits is      *)
(* passed over for ever.  A caller that waits is sent away when the pool   *)
(* is closed, the worker when its context is cancelled.                    *)
RequestStep(r) == Ask(r) \/ Get(r) \/ Query(r) \/ FailRequest(r) \/ Reply(r)
WorkerStep ==
  Tick \/ Decide \/ WorkerGet \/ WorkerQuery \/ Commit \/ FailWorker \/ Leave

RequestGoesOn(r) ==
  \/ Ask(r) \/ Query(r) \/ Reply(r)
  \/ pool # "open" /\ FailRequest(r)

WorkerGoesOn ==
  \/ Tick \/ Decide \/ WorkerQuery \/ Commit \/ Leave
  \/ (pool # "open" \/ cancelled) /\ FailWorker

-----------------------------------------------------------------------------
TypeOK ==
  /\ pool \in {"open", "closing", "closed"}
  /\ holder \in [Conn -> User \cup {NoHolder}]
  /\ stage \in [Request -> {"none", "handler", "waiting", "query"}]
  /\ left \in [Request -> 0..MaxQueries]
  /\ worker \in Awaits \cup
       {"off", "pause", "fetch", "ask", "update", "tx", "user", "tx2"}
  /\ cancelled \in BOOLEAN

Waits(u) == IF u = Worker THEN worker \in Awaits ELSE stage[u] = "waiting"

(* With every connection taken, somebody who has one does not wait for     *)
(* another (worker/order.go:137): the pool cannot lock up, however many    *)
(* requests are served and whatever fails.                                 *)
NoCircularWait == Idle = {} => \E c \in Conn : ~Waits(holder[c])

(* Each user has the connections its statement needs and no others: none   *)
(* leaks on a path that fails (worker/order.go:123, the deferred Rollback).*)
ConnsAreCounted ==
  /\ \A r \in Request :
       IF stage[r] = "query" THEN \E c \in Conn : HeldBy(r) = {c} ELSE HeldBy(r) = {}
  /\ CASE worker \in {"fetch", "update", "tx", "user?", "tx2"} ->
             \E c \in Conn : HeldBy(Worker) = {c}
       [] worker = "user" ->
             \E c, d \in Conn : c # d /\ HeldBy(Worker) = {c, d}
       [] OTHER -> HeldBy(Worker) = {}
=============================================================================
