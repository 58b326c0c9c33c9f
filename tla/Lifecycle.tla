----------------------------- MODULE Lifecycle ------------------------------
(***************************************************************************)
(* The process of the service from start to end: the hooks that fx runs    *)
(* (cmd/gophermart/main.go), the migrations of its start (Migrations) and  *)
(* the users of its connections (ConnPool), next to cmd/migrator.          *)
(*                                                                         *)
(* fx is external: it runs the hooks one after another in the order in     *)
(* which they were appended, and stops those that were started in the      *)
(* reverse order -- on a signal, or when a later one fails to start.       *)
(* A start or a stop that takes longer than 15 s ends the process, like a  *)
(* crash, at whatever point it is.                                         *)
(***************************************************************************)
EXTENDS Naturals, Sequences

CONSTANTS
  Conn, Request, MaxQueries, Worker,
  Service,    \* the process of the service
  Tool,       \* processes of cmd/migrator
  NoOne

VARIABLES
  phase,      \* of the service's process
  started,    \* how many hooks have started and not yet stopped
  port,       \* whether the server accepts connections
  pool, holder, stage, left, worker, cancelled,
  schema, version, dirty, lock, at, dir, current

app   == <<phase, started, port>>
conns == <<pool, holder, stage, left, worker, cancelled>>
migrs == <<schema, version, dirty, lock, at, dir, current>>
vars  == <<phase, started, port, pool, holder, stage, left, worker, cancelled,
           schema, version, dirty, lock, at, dir, current>>

C == INSTANCE ConnPool WITH NoHolder <- NoOne
M == INSTANCE Migrations WITH Migrator <- Tool \cup {Service}

ASSUME ProcessAssumption == Service \notin Tool /\ NoOne \notin Tool \cup {Service}
ASSUME HolderAssumption  == Worker \notin Request /\ NoOne \notin Request \cup {Worker}
ASSUME QueriesAssumption == MaxQueries \in Nat

(* DATABASE_MAX_CONN is 25 unless set otherwise (config/db.go:20).  With   *)
(* one connection the worker would wait in its transaction for itself.     *)
ASSUME ConnAssumption == \E c, d \in Conn : c # d

-----------------------------------------------------------------------------
(* The hooks in the order in which main.go:28-71 lets them be appended:    *)
(* NewPostgresDriver comes first because VerifyConnections needs the pool. *)
Hooks == <<"ping", "verify", "migrate", "worker", "routes", "server">>

Top(h)    == started > 0 /\ Hooks[started] = h
NextIs(h) == phase = "starting" /\ started < Len(Hooks) /\ Hooks[started + 1] = h

-----------------------------------------------------------------------------
(* Start.                                                                  *)

(* NewPostgresDriver: the pool, before any hook runs.                      *)
Boot ==
  /\ phase = "down"
  /\ phase' = "starting" /\ started' = 0
  /\ pool' = "open"
  /\ UNCHANGED <<port, holder, stage, left, worker, cancelled, migrs>>

StartHook ==
  /\ phase' = phase /\ started' = started + 1

(* Ping and SELECT 1 succeed; the routes are registered.                   *)
StartPlain ==
  /\ \E h \in {"ping", "verify", "routes"} : NextIs(h)
  /\ StartHook
  /\ UNCHANGED <<port, conns, migrs>>

StartServer ==
  /\ NextIs("server")
  /\ StartHook
  /\ port' = TRUE
  /\ UNCHANGED <<conns, migrs>>

CallUp ==
  /\ NextIs("migrate") /\ at[Service] = "idle"
  /\ M!Call(Service, "up")
  /\ UNCHANGED <<app, conns>>

Migrated_AnyError ==
  /\ NextIs("migrate") /\ at[Service] \in M!Result
  /\ StartHook
  /\ M!Close(Service)
  /\ UNCHANGED <<port, conns>>

(* autoMigrate returns nil, also when there was nothing to do.             *)
Migrated ==
  /\ NextIs("migrate") /\ at[Service] \in {"ok", "noChange"}
  /\ StartHook
  /\ M!Close(Service)
  /\ UNCHANGED <<port, conns>>

StartWorker ==
  /\ NextIs("worker")
  /\ StartHook
  /\ worker' = "pause"
  /\ UNCHANGED <<port, pool, holder, stage, left, cancelled, migrs>>

Started ==
  /\ phase = "starting" /\ started = Len(Hooks)
  /\ phase' = "running"
  /\ UNCHANGED <<started, port, conns, migrs>>

(* A hook fails: the database does not answer, the migration failed, the   *)
(* port is taken.  What has started is stopped again.                      *)
StartFails ==
  /\ \/ \E h \in {"ping", "verify", "server"} : NextIs(h)
     \/ NextIs("migrate") /\ at[Service] = "error"
  /\ phase' = "stopping"
  /\ UNCHANGED <<started, port, conns, migrs>>

-----------------------------------------------------------------------------
(* Stop.                                                                   *)

(* Serve returns an error: it is logged, and the process stays.            *)
ServeFails ==
  /\ phase = "running"
  /\ port /\ port' = FALSE
  /\ UNCHANGED <<phase, started, conns, migrs>>

Signal ==
  /\ phase = "running"
  /\ phase' = "stopping"
  /\ UNCHANGED <<started, port, conns, migrs>>

StopHook ==
  /\ phase = "stopping"
  /\ phase' = phase /\ started' = started - 1 /\ port' = port

(* Shutdown closes the port, then waits until no request is being served.  *)
ClosePort ==
  /\ phase = "stopping" /\ Top("server")
  /\ port /\ port' = FALSE
  /\ UNCHANGED <<phase, started, conns, migrs>>

StopServer_AtOnce ==
  /\ Top("server") /\ ~port
  /\ StopHook
  /\ UNCHANGED <<conns, migrs>>

StopServer ==
  /\ Top("server") /\ ~port
  /\ \A r \in Request : stage[r] = "none"
  /\ StopHook
  /\ UNCHANGED <<conns, migrs>>

(* cancel() does not wait for the worker.                                  *)
StopWorker ==
  /\ Top("worker")
  /\ StopHook
  /\ cancelled' = TRUE
  /\ UNCHANGED <<pool, holder, stage, left, worker, migrs>>

StopPlain ==
  /\ Top("verify") \/ Top("migrate") \/ Top("routes")
  /\ StopHook
  /\ UNCHANGED <<conns, migrs>>

ClosePool ==
  /\ phase = "stopping" /\ Top("ping")
  /\ C!Close
  /\ UNCHANGED <<app, migrs>>

StopPool ==
  /\ Top("ping")
  /\ StopHook
  /\ C!Closed
  /\ UNCHANGED migrs

Exit ==
  /\ phase' = "down" /\ started' = 0 /\ port' = FALSE
  /\ C!Gone
  /\ M!Crash(Service)

(* Run returns, and the process ends with whatever still runs in it.       *)
Stopped == phase = "stopping" /\ started = 0 /\ Exit

(* kill -9, a panic, or the time for a start or a stop is over.            *)
Crash == phase # "down" /\ Exit

-----------------------------------------------------------------------------
(* Requests come while the port is open; the worker goes on until it       *)
(* notices that it is cancelled.                                           *)
RequestStep(r) ==
  /\ (port /\ C!Arrive(r)) \/ C!RequestStep(r)
  /\ UNCHANGED <<app, migrs>>

WorkerStep == C!WorkerStep /\ UNCHANGED <<app, migrs>>

ServiceMigrates ==
  /\ M!Step(Service) \/ M!Fail(Service)
  /\ UNCHANGED <<app, conns>>

(* cmd/migrator: nothing in the code stops -dir down from taking the       *)
(* tables away under a running service.                                    *)
ToolCalls(p) ==
  /\ M!Call(p, "up") \/ M!Call(p, "down")
  /\ UNCHANGED <<app, conns>>

ToolStep(p) ==
  /\ M!Step(p) \/ M!Fail(p) \/ M!Close(p) \/ M!Crash(p)
  /\ UNCHANGED <<app, conns>>

Init ==
  /\ phase = "down" /\ started = 0 /\ port = FALSE
  /\ C!Init /\ M!Init

Start ==
  \/ Boot \/ StartPlain \/ CallUp \/ Migrated \/ StartWorker \/ StartServer
  \/ Started \/ StartFails
Stop ==
  \/ ClosePort \/ StopServer \/ StopWorker \/ StopPlain \/ ClosePool \/ StopPool
  \/ Stopped

Next ==
  \/ Start \/ ServeFails \/ Signal \/ Stop \/ Crash
  \/ (\E r \in Request : RequestStep(r)) \/ WorkerStep \/ ServiceMigrates
  \/ \E p \in Tool : ToolCalls(p) \/ ToolStep(p)

Spec == Init /\ [][Next]_vars

(* The hooks run and every statement ends; nobody has to be signalled, to  *)
(* start the service or to call the tool.                                  *)
Fairness ==
  /\ WF_vars(Stop)
  /\ \A r \in Request :
       /\ WF_vars(C!RequestGoesOn(r) /\ UNCHANGED <<app, migrs>>)
       /\ SF_vars(C!Get(r) /\ UNCHANGED <<app, migrs>>)
  /\ WF_vars(C!WorkerGoesOn /\ UNCHANGED <<app, migrs>>)
  /\ SF_vars(C!WorkerGet /\ UNCHANGED <<app, migrs>>)

FairSpec == Spec /\ Fairness

-----------------------------------------------------------------------------
TypeOK ==
  /\ phase \in {"down", "starting", "running", "stopping"}
  /\ started \in 0..Len(Hooks)
  /\ port \in BOOLEAN
  /\ C!TypeOK
  /\ M!TypeOK

(* What the statements in repository/ name.                                *)
Needed == {"users", "orders", "withdrawals", "order_number"}

Ready  == Needed \subseteq schema /\ ~dirty

Served == \E r \in Request : stage[r] # "none"

(* The service counts on the tables from the moment its own call of Up has *)
(* returned without an error, until nobody in it uses them any more.       *)
InUse ==
  \/ at[Service] \in {"ok", "noChange"} \/ started >= 3   \* "migrate"
  \/ port \/ worker # "off" \/ Served

GoesDown == \E p \in Tool : dir[p] = "down" /\ M!Mark(p)

(* The service never begins to use a database that is not ready, whatever  *)
(* happened to earlier starts and to their migrations and the tool's, and  *)
(* while it is in use nothing makes it unready, up to the last request and *)
(* the last statement of the worker (main.go:108-117, psql.go:122-141) --  *)
(* except a script down of the tool: neither psql.go nor                   *)
(* migrator/main.go:72 looks for a service that runs.                      *)
ServedIsReady ==
  [][InUse' /\ ~Ready' => InUse /\ (~Ready \/ GoesDown)]_vars

(* The server stops before the pool (psql.go:81, main.go:124): no request  *)
(* that was accepted is refused its connection, and a closed pool has none *)
(* left with the worker, for which nobody waits (worker/order.go:58).      *)
ClosedPoolIsIdle ==
  /\ pool # "open" => \A r \in Request : stage[r] = "none"
  /\ pool = "closed" => C!Idle = Conn

NoCircularWait       == phase # "down" => C!NoCircularWait
ConnsAreCounted      == C!ConnsAreCounted
SchemaMatchesVersion == M!SchemaMatchesVersion
ScriptsApply         == M!ScriptsApply

(* A request is answered unless the process dies: no wait for a connection *)
(* lasts for ever (repository/*.go, psql.go:62).                           *)
EveryoneIsServed == \A r \in Request : stage[r] # "none" ~> stage[r] = "none"

(* A stop comes to its end without the help of the 15 s: Shutdown, then    *)
(* Close, wait only for those who do not wait for them (main.go:124-137,   *)
(* psql.go:81-85).                                                         *)
StopEnds == phase = "stopping" ~> phase = "down"
=============================================================================
