----------------------------- MODULE Migrations -----------------------------
(***************************************************************************)
(* The schema of the database and those who change it: the start of the    *)
(* service (internal/database/psql.go, autoMigrate) and cmd/migrator.      *)
(*                                                                         *)
(* Both call golang-migrate, which is external: it takes an advisory lock  *)
(* of the database, reads the schema's version, and for each script marks  *)
(* the version it leads to as dirty, runs the script -- one batch, that is *)
(* one transaction -- and marks the version clean.  A version found dirty  *)
(* is an error, and nothing in the repository makes it clean again.        *)
(***************************************************************************)
EXTENDS Naturals, Sequences

CONSTANTS
  Migrator,   \* the processes that migrate
  NoOne       \* the value of a lock nobody holds

VARIABLES
  schema,     \* what the database holds: tables, functions, columns, indexes
  version,    \* table schema_migrations
  dirty,
  lock,       \* the advisory lock
  at,         \* where each process is in its call of Up or Down
  dir,        \* Up or Down
  current     \* the version it has reached; 0 when not in a call

database == <<schema, version, dirty>>
calls    == <<at, dir, current>>
vars     == <<schema, version, dirty, lock, at, dir, current>>

-----------------------------------------------------------------------------
(* migrations/: what a script needs, what it must not find, what it adds   *)
(* and what it drops.  An index goes with its table; idx_orders_status has *)
(* scripts of its own.                                                     *)

Script(needs, without, adds, drops) ==
  [needs |-> needs, without |-> without, adds |-> adds, drops |-> drops]

UpScripts ==
  << Script({}, {"users"}, {"users", "function"}, {}),
     Script({"users"}, {"orders"}, {"orders", "function"}, {}),
     Script({"orders"}, {"idx_orders_status"}, {"idx_orders_status"}, {}),
     Script({"users"}, {"withdrawals"}, {"withdrawals", "order"}, {}),
     Script({"order"}, {"order_number"}, {"order_number"}, {"order"}) >>

(* users is referenced by the other tables, function by the triggers.      *)
DownScripts ==
  << Script({}, {"orders", "withdrawals"}, {}, {"users", "function"}),
     Script({}, {}, {}, {"orders", "idx_orders_status"}),
     Script({}, {}, {}, {"idx_orders_status"}),
     Script({}, {}, {}, {"withdrawals", "order", "order_number"}),
     Script({"order_number"}, {"order"}, {"order"}, {"order_number"}) >>

Last == Len(UpScripts)

Object == UNION {UpScripts[v].adds : v \in 1..Last}

Applies(s) == s.needs \subseteq schema /\ s.without \cap schema = {}
After(s)   == (schema \ s.drops) \cup s.adds

-----------------------------------------------------------------------------
(* A call of Up or Down.                                                   *)

Result == {"ok", "noChange", "error"}

HasNext_ToNil(p) == IF dir[p] = "up" THEN current[p] < Last ELSE TRUE
HasNext(p) == IF dir[p] = "up" THEN current[p] < Last ELSE current[p] > 0
Target(p)   == IF dir[p] = "up" THEN current[p] + 1 ELSE current[p] - 1
ScriptOf(p) ==
  IF dir[p] = "up" THEN UpScripts[Target(p)] ELSE DownScripts[current[p]]

Call(p, d) ==
  /\ at[p] = "idle"
  /\ at' = [at EXCEPT ![p] = "lock"]
  /\ dir' = [dir EXCEPT ![p] = d]
  /\ UNCHANGED <<database, lock, current>>

Lock_None(p) ==
  /\ at[p] = "lock"
  /\ lock' = p
  /\ at' = [at EXCEPT ![p] = "version"]
  /\ UNCHANGED <<database, dir, current>>

Lock(p) ==
  /\ at[p] = "lock" /\ lock = NoOne
  /\ lock' = p
  /\ at' = [at EXCEPT ![p] = "version"]
  /\ UNCHANGED <<database, dir, current>>

(* Up and Down return r: the lock is given back on every path.             *)
Return(p, r) ==
  /\ at' = [at EXCEPT ![p] = r]
  /\ lock' = IF lock = p THEN NoOne ELSE lock
  /\ dir' = [dir EXCEPT ![p] = "up"]
  /\ current' = [current EXCEPT ![p] = 0]

ReadVersion(p) ==
  /\ at[p] = "version" /\ ~dirty
  /\ current' = [current EXCEPT ![p] = version]
  /\ at' = [at EXCEPT ![p] = "next"]
  /\ UNCHANGED <<database, lock, dir>>

(* ErrDirty *)
RefuseDirty(p) ==
  /\ at[p] = "version" /\ dirty
  /\ Return(p, "error")
  /\ UNCHANGED database

Mark_Version(p) ==
  /\ at[p] \in {"next", "more"} /\ HasNext(p)
  /\ version' = Target(p) /\ dirty' = FALSE
  /\ at' = [at EXCEPT ![p] = "run"]
  /\ UNCHANGED <<schema, lock, dir, current>>

(* There is a script to run, or none from the start on, or none any more.  *)
Mark(p) ==
  /\ at[p] \in {"next", "more"} /\ HasNext(p)
  /\ version' = Target(p) /\ dirty' = TRUE
  /\ at' = [at EXCEPT ![p] = "run"]
  /\ UNCHANGED <<schema, lock, dir, current>>

Run(p) ==
  /\ at[p] = "run" /\ Applies(ScriptOf(p))
  /\ schema' = After(ScriptOf(p))
  /\ at' = [at EXCEPT ![p] = "clean"]
  /\ UNCHANGED <<version, dirty, lock, dir, current>>

Clean(p) ==
  /\ at[p] = "clean"
  /\ version' = Target(p) /\ dirty' = FALSE
  /\ current' = [current EXCEPT ![p] = Target(p)]
  /\ at' = [at EXCEPT ![p] = "more"]
  /\ UNCHANGED <<schema, lock, dir>>

Done(p) ==
  /\ at[p] \in {"next", "more"} /\ ~HasNext(p)
  /\ Return(p, IF at[p] = "next" THEN "noChange" ELSE "ok")
  /\ UNCHANGED database

(* The lock not got in time, or a statement that fails; one whose effect   *)
(* was stored and whose answer was lost is the statement, then a failure.  *)
Fail(p) ==
  /\ at[p] \notin {"idle"} \cup Result
  /\ Return(p, "error")
  /\ UNCHANGED database

(* The caller takes the result and is done with golang-migrate.            *)
Close(p) ==
  /\ at[p] \in Result
  /\ at' = [at EXCEPT ![p] = "idle"]
  /\ UNCHANGED <<database, lock, dir, current>>

(* The process dies: its session, and with it the lock, goes.              *)
Crash(p) == Return(p, "idle") /\ UNCHANGED database

Step(p) ==
  \/ Lock(p) \/ ReadVersion(p) \/ RefuseDirty(p)
  \/ Mark(p) \/ Run(p) \/ Clean(p) \/ Done(p)

Init ==
  /\ schema = {} /\ version = 0 /\ dirty = FALSE
  /\ lock = NoOne
  /\ at = [p \in Migrator |-> "idle"]
  /\ dir = [p \in Migrator |-> "up"]
  /\ current = [p \in Migrator |-> 0]

-----------------------------------------------------------------------------
TypeOK ==
  /\ schema \subseteq Object
  /\ version \in 0..Last /\ dirty \in BOOLEAN
  /\ lock \in Migrator \cup {NoOne}
  /\ at \in [Migrator -> Result \cup
       {"idle", "lock", "version", "next", "run", "clean", "more"}]
  /\ dir \in [Migrator -> {"up", "down"}]
  /\ current \in [Migrator -> 0..Last]

(* What each version of the schema is.                                     *)
SchemaAt(v) ==
  (IF v >= 1 THEN {"users", "function"} ELSE {})
    \cup (IF v >= 2 THEN {"orders"} ELSE {})
    \cup (IF v >= 3 THEN {"idx_orders_status"} ELSE {})
    \cup (IF v = 4 THEN {"withdrawals", "order"} ELSE {})
    \cup (IF v >= 5 THEN {"withdrawals", "order_number"} ELSE {})

(* The version in table schema_migrations never lies (psql.go:130): clean, *)
(* the schema is exactly that version's -- also after scripts that go down *)
(* and up again; dirty, it is that one or a neighbour, however many        *)
(* processes migrate and wherever they fail or die.                        *)
SchemaMatchesVersion ==
  \/ schema = SchemaAt(version)
  \/ dirty /\ \E v \in 0..Last :
       v \in {version - 1, version + 1} /\ schema = SchemaAt(v)

(* A script that is about to run fits the schema it finds: only faults of  *)
(* the database, never the scripts or another process that migrates,       *)
(* leave the version dirty (migrations/, psql.go:130, migrator/main.go:36).*)
ScriptsApply == \A p \in Migrator : at[p] = "run" => Applies(ScriptOf(p))
=============================================================================
