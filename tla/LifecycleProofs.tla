-------------------------- MODULE LifecycleProofs ---------------------------
(***************************************************************************)
(* Proofs about Lifecycle, for any number of connections, requests and     *)
(* runs of cmd/migrator.                                                   *)
(*                                                                         *)
(* The invariant has three parts: who holds the connections (ConnInv),     *)
(* how far the migrations are for whoever holds their lock (MigrInv), and  *)
(* which hooks have started for what runs in the process (HooksInv).       *)
(***************************************************************************)
EXTENDS Lifecycle, TLAPS

Migrators == Tool \cup {Service}

ConnInv == C!TypeOK /\ C!ConnsAreCounted

(* In a call of Up or Down between the lock and its release.               *)
Inside(p) == at[p] \in {"version", "next", "run", "clean", "more"}

(* What the holder of the lock knows of the database at its statement.     *)
Progress(p) ==
  /\ at[p] = "version" => M!SchemaMatchesVersion
  /\ at[p] \in {"next", "more"} =>
       ~dirty /\ version = current[p] /\ schema = M!SchemaAt(version)
  /\ at[p] \in {"run", "clean"} =>
       M!HasNext(p) /\ dirty /\ version = M!Target(p)
  /\ at[p] = "run" => schema = M!SchemaAt(current[p])
  /\ at[p] = "clean" => schema = M!SchemaAt(version)

MigrInv ==
  /\ M!TypeOK
  /\ \A p \in Migrators : Inside(p) <=> lock = p
  /\ \A p \in Migrators : Inside(p) => Progress(p)
  /\ lock = NoOne => M!SchemaMatchesVersion
  /\ dir[Service] = "up"

(* The last version, clean.                                                *)
Full == version = M!Last /\ ~dirty

HooksInv ==
  /\ phase \in {"down", "starting", "running", "stopping"}
  /\ started \in 0..6 /\ port \in BOOLEAN
  /\ phase = "down" => started = 0 /\ worker = "off" /\ at[Service] = "idle"
  /\ phase = "starting" /\ started <= 3 => worker = "off"
  /\ port \/ Served => started = 6
  /\ pool # "open" => phase = "down" \/ (phase = "stopping" /\ started <= 1)
  /\ pool = "closed" => C!Idle = Conn

IInv == ConnInv /\ MigrInv /\ HooksInv

-----------------------------------------------------------------------------
(* Connections.                                                            *)

(* What a user holds, after an action of its own and of another user.      *)
LEMMA Handover ==
  ASSUME holder \in [Conn -> C!User \cup {NoOne}],
         NEW u \in C!User, NEW v \in C!User, u # v
  PROVE  /\ C!Release(u) =>
              /\ holder' \in [Conn -> C!User \cup {NoOne}]
              /\ C!HeldBy(u)' = {} /\ C!HeldBy(v)' = C!HeldBy(v)
         /\ C!Acquire(u) =>
              /\ holder' \in [Conn -> C!User \cup {NoOne}]
              /\ \E c \in C!Idle : C!HeldBy(u)' = C!HeldBy(u) \cup {c}
              /\ C!HeldBy(v)' = C!HeldBy(v)
         /\ C!ReleaseOne(u) =>
              /\ holder' \in [Conn -> C!User \cup {NoOne}]
              /\ \E c \in C!HeldBy(u) : C!HeldBy(u)' = C!HeldBy(u) \ {c}
              /\ C!HeldBy(v)' = C!HeldBy(v)
<1> NoOne \notin C!User
  BY HolderAssumption DEF C!User
<1>1. ASSUME C!Release(u)
      PROVE  /\ holder' \in [Conn -> C!User \cup {NoOne}]
             /\ C!HeldBy(u)' = {} /\ C!HeldBy(v)' = C!HeldBy(v)
  BY <1>1 DEF C!Release, C!HeldBy
<1>2. ASSUME C!Acquire(u)
      PROVE  /\ holder' \in [Conn -> C!User \cup {NoOne}]
             /\ \E c \in C!Idle : C!HeldBy(u)' = C!HeldBy(u) \cup {c}
             /\ C!HeldBy(v)' = C!HeldBy(v)
  BY <1>2 DEF C!Acquire, C!Idle, C!HeldBy
<1>3. ASSUME C!ReleaseOne(u)
      PROVE  /\ holder' \in [Conn -> C!User \cup {NoOne}]
             /\ \E c \in C!HeldBy(u) : C!HeldBy(u)' = C!HeldBy(u) \ {c}
             /\ C!HeldBy(v)' = C!HeldBy(v)
  BY <1>3 DEF C!ReleaseOne, C!HeldBy
<1> QED BY <1>1, <1>2, <1>3

(* An action of one request leaves the connections of everybody else.      *)
LEMMA RequestConns ==
  ASSUME ConnInv, NEW r \in Request, C!Arrive(r) \/ C!RequestStep(r)
  PROVE  ConnInv'
<1> USE HolderAssumption, QueriesAssumption
<1> DEFINE Mine == IF stage[r] = "query" THEN \E c \in Conn : C!HeldBy(r) = {c}
                   ELSE C!HeldBy(r) = {}
<1>1. /\ r \in C!User /\ \A u \in C!User : u # r => r # u
      /\ holder \in [Conn -> C!User \cup {NoOne}]
      /\ Mine
  BY DEF ConnInv, C!TypeOK, C!ConnsAreCounted, C!User
<1>2. /\ C!TypeOK' /\ Mine'
      /\ \A u \in C!User \ {r} : C!HeldBy(u)' = C!HeldBy(u)
      /\ \A q \in Request \ {r} : stage'[q] = stage[q]
      /\ worker' = worker
  <2>1. CASE C!Arrive(r) \/ C!Ask(r) \/ C!Reply(r)
    BY <1>1, <2>1 DEF ConnInv, C!TypeOK, C!Arrive, C!Ask, C!Reply, C!HeldBy, C!requests
  <2>2. CASE C!Get(r)
    <3>1. C!HeldBy(r) = {}
      BY <1>1, <2>2 DEF C!Get
    <3>2. /\ holder' \in [Conn -> C!User \cup {NoOne}]
          /\ \E c \in C!Idle : C!HeldBy(r)' = C!HeldBy(r) \cup {c}
          /\ \A u \in C!User \ {r} : C!HeldBy(u)' = C!HeldBy(u)
      <4> SUFFICES ASSUME NEW u \in C!User \ {r}
                   PROVE  /\ holder' \in [Conn -> C!User \cup {NoOne}]
                          /\ \E c \in C!Idle : C!HeldBy(r)' = C!HeldBy(r) \cup {c}
                          /\ C!HeldBy(u)' = C!HeldBy(u)
        BY Worker \in C!User \ {r} DEF C!User
      <4> QED BY <1>1, <2>2, Handover DEF C!Get
    <3>3. Mine'
      BY <3>1, <3>2, <2>2 DEF C!Get, C!Idle, ConnInv, C!TypeOK
    <3> QED BY <2>2, <3>2, <3>3 DEF ConnInv, C!TypeOK, C!Get
  <2>3. CASE C!Query(r) \/ C!FailRequest(r)
    <3>1. /\ holder' \in [Conn -> C!User \cup {NoOne}]
          /\ C!HeldBy(r)' = {}
          /\ \A u \in C!User \ {r} : C!HeldBy(u)' = C!HeldBy(u)
      <4> SUFFICES ASSUME NEW u \in C!User \ {r}
                   PROVE  /\ holder' \in [Conn -> C!User \cup {NoOne}]
                          /\ C!HeldBy(r)' = {}
                          /\ C!HeldBy(u)' = C!HeldBy(u)
        BY Worker \in C!User \ {r} DEF C!User
      <4> QED BY <1>1, <2>3, Handover DEF C!Query, C!FailRequest
    <3> QED BY <2>3, <3>1 DEF ConnInv, C!TypeOK, C!Query, C!FailRequest
  <2> QED BY <2>1, <2>2, <2>3 DEF C!RequestStep
<1>3. \A q \in Request : IF stage'[q] = "query" THEN \E c \in Conn : C!HeldBy(q)' = {c}
                         ELSE C!HeldBy(q)' = {}
  BY <1>2 DEF ConnInv, C!ConnsAreCounted, C!User
<1>4. C!HeldBy(Worker)' = C!HeldBy(Worker)
  BY <1>2 DEF C!User
<1> QED BY <1>2, <1>3, <1>4 DEF ConnInv, C!ConnsAreCounted

LEMMA WorkerConns ==
  ASSUME ConnInv, C!WorkerStep
  PROVE  ConnInv'
<1> USE HolderAssumption
<1> DEFINE One == \E c \in Conn : C!HeldBy(Worker) = {c}
           Two == \E c, d \in Conn : c # d /\ C!HeldBy(Worker) = {c, d}
           InOne == {"fetch", "update", "tx", "user?", "tx2"}
           Mine == /\ worker \in InOne => One
                   /\ worker = "user" => Two
                   /\ worker \notin InOne \cup {"user"} => C!HeldBy(Worker) = {}
<1>1. /\ Worker \in C!User /\ \A q \in Request : q \in C!User /\ q # Worker
      /\ holder \in [Conn -> C!User \cup {NoOne}]
      /\ Mine
  BY DEF ConnInv, C!TypeOK, C!ConnsAreCounted, C!User
<1>2. /\ C!TypeOK' /\ Mine'
      /\ \A q \in Request : C!HeldBy(q)' = C!HeldBy(q)
      /\ stage' = stage
  <2>1. CASE C!Tick \/ C!Decide \/ C!Leave
    BY <1>1, <2>1 DEF ConnInv, C!TypeOK, C!Tick, C!Decide, C!Leave, C!Moves,
      C!Awaits, C!HeldBy, C!requests
  <2>2. CASE C!WorkerGet
    <3>1. /\ holder' \in [Conn -> C!User \cup {NoOne}]
          /\ \E c \in C!Idle : C!HeldBy(Worker)' = C!HeldBy(Worker) \cup {c}
      <4>1. PICK c \in C!Idle : holder' = [holder EXCEPT ![c] = Worker]
        BY <2>2 DEF C!WorkerGet, C!Acquire
      <4> QED BY <1>1, <4>1 DEF C!Idle, C!HeldBy, C!User
    <3>2. \A q \in Request : C!HeldBy(q)' = C!HeldBy(q)
      BY <1>1, <2>2, Handover DEF C!WorkerGet
    <3>3. \A c \in C!Idle : c \in Conn /\ c \notin C!HeldBy(Worker)
      BY DEF C!Idle, C!HeldBy
    <3>4. Mine'
      BY <1>1, <2>2, <3>1, <3>3 DEF C!WorkerGet, C!Moves
    <3>5. C!TypeOK'
      BY <2>2, <3>1 DEF ConnInv, C!TypeOK, C!WorkerGet, C!Moves, C!requests
    <3> QED BY <2>2, <3>2, <3>4, <3>5 DEF C!WorkerGet, C!requests
  <2>3. CASE C!Release(Worker) /\ (C!WorkerQuery \/ C!Commit \/ C!FailWorker)
    <3>1. /\ holder' \in [Conn -> C!User \cup {NoOne}]
          /\ C!HeldBy(Worker)' = {}
      BY <1>1, <2>3 DEF C!Release, C!HeldBy, C!User
    <3>2. \A q \in Request : C!HeldBy(q)' = C!HeldBy(q)
      BY <1>1, <2>3, Handover
    <3>3. worker' \in {"ask", "pause"} \/ (worker = "user" /\ worker' = "tx2" /\ C!ReleaseOne(Worker))
      BY <2>3 DEF C!WorkerQuery, C!Commit, C!FailWorker, C!Moves
    <3>4. worker' \in {"ask", "pause"}
      <4> SUFFICES ASSUME worker = "user", C!ReleaseOne(Worker)
                   PROVE  FALSE
        BY <3>3
      <4>1. PICK c, d \in Conn : c # d /\ C!HeldBy(Worker) = {c, d}
        BY <1>1
      <4>2. PICK e \in C!HeldBy(Worker) : holder' = [holder EXCEPT ![e] = NoOne]
        BY DEF C!ReleaseOne
      <4>3. \A f \in {c, d} : holder'[f] = NoOne
        BY <2>3, <4>1 DEF C!Release, C!HeldBy
      <4> QED BY <1>1, <4>1, <4>2, <4>3 DEF C!HeldBy, C!User
    <3>5. C!TypeOK'
      BY <2>3, <3>1, <3>4 DEF ConnInv, C!TypeOK, C!WorkerQuery, C!Commit, C!FailWorker,
        C!requests
    <3> QED BY <2>3, <3>1, <3>2, <3>4, <3>5 DEF C!WorkerQuery, C!Commit, C!FailWorker, C!requests
  <2>4. CASE C!WorkerQuery /\ C!Moves("user", "tx2") /\ C!ReleaseOne(Worker)
    <3>1. PICK c, d \in Conn : c # d /\ C!HeldBy(Worker) = {c, d}
      BY <1>1, <2>4 DEF C!Moves
    <3>2. PICK e \in {c, d} : holder' = [holder EXCEPT ![e] = NoOne]
      BY <2>4, <3>1 DEF C!ReleaseOne
    <3>3. C!HeldBy(Worker)' = {c, d} \ {e}
      BY <1>1, <3>1, <3>2 DEF C!HeldBy, C!User
    <3>4. Mine'
      BY <2>4, <3>1, <3>3 DEF C!Moves
    <3>5. \A q \in Request : C!HeldBy(q)' = C!HeldBy(q)
      BY <1>1, <2>4, Handover
    <3>6. C!TypeOK'
      BY <1>1, <2>4, <3>2 DEF ConnInv, C!TypeOK, C!WorkerQuery, C!Moves, C!requests
    <3> QED BY <2>4, <3>4, <3>5, <3>6 DEF C!WorkerQuery, C!requests
  <2> QED BY <2>1, <2>2, <2>3, <2>4 DEF C!WorkerStep, C!WorkerQuery, C!Commit, C!FailWorker
<1> QED
  BY <1>2 DEF ConnInv, C!ConnsAreCounted

-----------------------------------------------------------------------------
(* Migrations.                                                             *)

LEMMA FiveScripts == M!Last = 5
BY DEF M!Last, M!UpScripts

LEMMA ObjectsAre ==
  M!Object = {"users", "function", "orders", "idx_orders_status", "withdrawals",
              "order", "order_number"}
<1>1. M!Object = UNION {M!UpScripts[v].adds : v \in {1, 2, 3, 4, 5}}
  <2>1. 1..M!Last = {1, 2, 3, 4, 5}
    BY FiveScripts
  <2> QED BY <2>1 DEF M!Object
<1>2. M!Object = UNION {M!UpScripts[1].adds, M!UpScripts[2].adds, M!UpScripts[3].adds,
                        M!UpScripts[4].adds, M!UpScripts[5].adds}
  BY <1>1
<1> QED BY <1>2 DEF M!UpScripts, M!Script

(* The scripts lead from each version to the next one, up and down.        *)
LEMMA ScriptsLead ==
  ASSUME NEW p \in Migrators, M!TypeOK, M!HasNext(p), schema = M!SchemaAt(current[p])
  PROVE  /\ M!Target(p) \in 0..5
         /\ M!Applies(M!ScriptOf(p))
         /\ M!After(M!ScriptOf(p)) = M!SchemaAt(M!Target(p))
<1> DEFINE v == current[p]
<1>1. v \in 0..5 /\ dir[p] \in {"up", "down"}
  BY FiveScripts DEF M!TypeOK, Migrators
<1>2. CASE dir[p] = "up"
  <2>1. /\ v \in {0, 1, 2, 3, 4} /\ M!Target(p) = v + 1
        /\ M!ScriptOf(p) = M!UpScripts[v + 1]
    BY <1>1, <1>2, FiveScripts DEF M!HasNext, M!Target, M!ScriptOf
  <2>2. CASE v = 0
    BY <2>1, <2>2 DEF M!UpScripts, M!Script, M!SchemaAt, M!Applies, M!After
  <2>3. CASE v = 1
    BY <2>1, <2>3 DEF M!UpScripts, M!Script, M!SchemaAt, M!Applies, M!After
  <2>4. CASE v = 2
    BY <2>1, <2>4 DEF M!UpScripts, M!Script, M!SchemaAt, M!Applies, M!After
  <2>5. CASE v = 3
    BY <2>1, <2>5 DEF M!UpScripts, M!Script, M!SchemaAt, M!Applies, M!After
  <2>6. CASE v = 4
    BY <2>1, <2>6 DEF M!UpScripts, M!Script, M!SchemaAt, M!Applies, M!After
  <2> QED BY <2>1, <2>2, <2>3, <2>4, <2>5, <2>6
<1>3. CASE dir[p] = "down"
  <2>1. /\ v \in {1, 2, 3, 4, 5} /\ M!Target(p) = v - 1
        /\ M!ScriptOf(p) = M!DownScripts[v]
    BY <1>1, <1>3, FiveScripts DEF M!HasNext, M!Target, M!ScriptOf
  <2>2. CASE v = 1
    BY <2>1, <2>2 DEF M!DownScripts, M!Script, M!SchemaAt, M!Applies, M!After
  <2>3. CASE v = 2
    BY <2>1, <2>3 DEF M!DownScripts, M!Script, M!SchemaAt, M!Applies, M!After
  <2>4. CASE v = 3
    BY <2>1, <2>4 DEF M!DownScripts, M!Script, M!SchemaAt, M!Applies, M!After
  <2>5. CASE v = 4
    BY <2>1, <2>5 DEF M!DownScripts, M!Script, M!SchemaAt, M!Applies, M!After
  <2>6. CASE v = 5
    BY <2>1, <2>6 DEF M!DownScripts, M!Script, M!SchemaAt, M!Applies, M!After
  <2> QED BY <2>1, <2>2, <2>3, <2>4, <2>5, <2>6
<1> QED BY <1>1, <1>2, <1>3

(* Whatever its holder is doing, the version never lies.                   *)
LEMMA VersionNeverLies ==
  ASSUME MigrInv PROVE M!SchemaMatchesVersion /\ M!ScriptsApply
<1> USE FiveScripts
<1>1. M!SchemaMatchesVersion
  <2>1. CASE lock = NoOne
    BY <2>1 DEF MigrInv
  <2>2. CASE lock \in Migrators
    <3> DEFINE p == lock
    <3>1. p \in Migrators /\ Inside(p) /\ Progress(p) /\ M!TypeOK
      BY <2>2 DEF MigrInv
    <3>2. current[p] \in 0..5 /\ version \in 0..5 /\ dir[p] \in {"up", "down"}
      BY <3>1 DEF M!TypeOK, Migrators
    <3>3. CASE at[p] \in {"version", "next", "more", "clean"}
      BY <3>1, <3>3 DEF Progress, M!SchemaMatchesVersion
    <3>4. CASE at[p] = "run"
      <4>1. dirty /\ version = M!Target(p) /\ schema = M!SchemaAt(current[p])
        BY <3>1, <3>4 DEF Progress
      <4>2. current[p] \in {version - 1, version + 1}
        BY <3>2, <4>1 DEF M!Target
      <4> QED BY <3>2, <4>1, <4>2 DEF M!SchemaMatchesVersion
    <3> QED BY <3>1, <3>3, <3>4 DEF Inside
  <2> QED BY <2>1, <2>2 DEF MigrInv, M!TypeOK, Migrators
<1>2. ASSUME NEW p \in Migrators, at[p] = "run"
      PROVE  M!Applies(M!ScriptOf(p))
  <2>1. Progress(p) /\ M!TypeOK
    BY <1>2 DEF MigrInv, Inside
  <2> QED BY <1>2, <2>1, ScriptsLead DEF Progress
<1> QED BY <1>1, <1>2 DEF M!ScriptsApply, Migrators

(* A call begins or ends, or a process dies, away from the lock.           *)
LEMMA OutsideSteps ==
  ASSUME MigrInv, NEW p \in Migrators, ~Inside(p),
         NEW a \in M!Result \cup {"idle", "lock"},
         NEW d \in {"up", "down"}, NEW n \in 0..M!Last,
         at' = [at EXCEPT ![p] = a], dir' = [dir EXCEPT ![p] = d],
         current' = [current EXCEPT ![p] = n],
         p = Service => d = "up",
         UNCHANGED <<schema, version, dirty, lock>>
  PROVE  MigrInv'
<1> USE DEF MigrInv
<1>1. M!TypeOK'
  BY DEF M!TypeOK, M!Result, Migrators
<1>2. \A q \in Migrators : q # p =>
        at'[q] = at[q] /\ dir'[q] = dir[q] /\ current'[q] = current[q]
  BY DEF M!TypeOK, Migrators
<1>3. \A q \in Migrators : Inside(q)' <=> Inside(q)
  BY <1>2 DEF Inside, M!Result, M!TypeOK, Migrators
<1>4. ASSUME NEW q \in Migrators, Inside(q) PROVE Progress(q)'
  <2>1. q # p /\ Progress(q)
    BY <1>4
  <2> QED BY <1>2, <2>1 DEF Progress, M!HasNext, M!Target, M!SchemaMatchesVersion, M!SchemaAt
<1>5. lock' = NoOne => M!SchemaMatchesVersion'
  BY DEF M!SchemaMatchesVersion, M!SchemaAt
<1>6. dir'[Service] = "up"
  BY <1>2 DEF M!TypeOK, Migrators
<1> QED BY <1>1, <1>3, <1>4, <1>5, <1>6

(* The holder of the lock goes on to its next statement or returns.        *)
LEMMA InsideSteps ==
  ASSUME MigrInv, NEW p \in Migrators, lock \in {p, NoOne},
         NEW a, at' = [at EXCEPT ![p] = a],
         dir' \in [Migrators -> {"up", "down"}],
         \A q \in Migrators : q # p => dir'[q] = dir[q] /\ current'[q] = current[q],
         dir'[p] \in {dir[p], "up"},
         M!TypeOK',
         \/ Inside(p)' /\ lock' = p /\ Progress(p)'
         \/ ~Inside(p)' /\ lock' = NoOne /\ M!SchemaMatchesVersion'
  PROVE  MigrInv'
<1> USE DEF MigrInv
<1>1. NoOne \notin Migrators
  BY ProcessAssumption DEF Migrators
<1>2. \A q \in Migrators : q # p => ~Inside(q) /\ ~Inside(q)'
  BY <1>1 DEF Inside, M!TypeOK, Migrators
<1>3. dir'[Service] = "up"
  BY DEF M!TypeOK, Migrators
<1> QED BY <1>1, <1>2, <1>3

Migrates(p) ==
  \/ M!Call(p, "up") \/ (p # Service /\ M!Call(p, "down"))
  \/ M!Step(p) \/ M!Fail(p) \/ M!Close(p) \/ M!Crash(p)

LEMMA MigrationsKeep ==
  ASSUME MigrInv, NEW p \in Migrators, Migrates(p)
  PROVE  MigrInv'
<1> USE FiveScripts
<1>1. /\ M!TypeOK /\ NoOne \notin Migrators
      /\ at[p] \in M!Result \cup
           {"idle", "lock", "version", "next", "run", "clean", "more"}
      /\ current[p] \in 0..5 /\ dir[p] \in {"up", "down"}
      /\ Inside(p) <=> lock = p
      /\ Inside(p) => Progress(p)
      /\ M!SchemaMatchesVersion
      /\ p = Service => dir[p] = "up"
  BY VersionNeverLies, ProcessAssumption DEF MigrInv, M!TypeOK, Migrators
<1>2. CASE M!Call(p, "up")
  <2>1. ~Inside(p) /\ current' = [current EXCEPT ![p] = current[p]]
    BY <1>1, <1>2 DEF M!Call, Inside, M!TypeOK, Migrators
  <2> QED BY <1>1, <1>2, <2>1, OutsideSteps DEF M!Call, M!database
<1>3. CASE p # Service /\ M!Call(p, "down")
  <2>1. ~Inside(p) /\ current' = [current EXCEPT ![p] = current[p]]
    BY <1>1, <1>3 DEF M!Call, Inside, M!TypeOK, Migrators
  <2> QED BY <1>1, <1>3, <2>1, OutsideSteps DEF M!Call, M!database
<1>4. CASE M!Close(p)
  <2>1. /\ ~Inside(p) /\ current' = [current EXCEPT ![p] = current[p]]
        /\ dir' = [dir EXCEPT ![p] = dir[p]]
    BY <1>1, <1>4 DEF M!Close, M!Result, Inside, M!TypeOK, Migrators
  <2> QED BY <1>1, <1>4, <2>1, OutsideSteps DEF M!Close, M!database
<1>5. ASSUME NEW r \in M!Result \cup {"idle"}, M!Return(p, r), UNCHANGED M!database
      PROVE  MigrInv'
  <2>1. CASE ~Inside(p)
    <3>1. UNCHANGED <<schema, version, dirty, lock>>
      BY <1>1, <1>5, <2>1 DEF M!Return, M!database
    <3>2. /\ at' = [at EXCEPT ![p] = r] /\ dir' = [dir EXCEPT ![p] = "up"]
          /\ current' = [current EXCEPT ![p] = 0] /\ 0 \in 0..M!Last
      BY <1>5 DEF M!Return
    <3> QED BY <2>1, <3>1, <3>2, OutsideSteps
  <2>2. CASE Inside(p)
    <3>1. M!TypeOK'
      <4>1. schema' \subseteq M!Object /\ version' \in 0..M!Last /\ dirty' \in BOOLEAN
        BY <1>1, <1>5 DEF M!TypeOK, M!database
      <4>2. at' \in [Migrators -> M!Result \cup
                      {"idle", "lock", "version", "next", "run", "clean", "more"}]
        BY <1>1, <1>5 DEF M!TypeOK, M!Return, M!Result, Migrators
      <4>3. lock' \in Migrators \cup {NoOne} /\ dir' \in [Migrators -> {"up", "down"}]
        BY <1>1, <1>5 DEF M!TypeOK, M!Return, Migrators
      <4>4. current' \in [Migrators -> 0..M!Last]
        BY <1>1, <1>5 DEF M!TypeOK, M!Return, Migrators
      <4> QED BY <4>1, <4>2, <4>3, <4>4 DEF M!TypeOK, Migrators
    <3>2. ~Inside(p)' /\ lock' = NoOne
      BY <1>1, <1>5, <2>2 DEF M!Return, M!Result, Inside, M!TypeOK, Migrators
    <3>3. M!SchemaMatchesVersion'
      BY <1>1, <1>5 DEF M!SchemaMatchesVersion, M!SchemaAt, M!database
    <3>4. /\ dir' \in [Migrators -> {"up", "down"}]
          /\ \A q \in Migrators : q # p => dir'[q] = dir[q] /\ current'[q] = current[q]
          /\ dir'[p] \in {dir[p], "up"}
      BY <1>1, <1>5 DEF M!Return, M!TypeOK, Migrators
    <3> QED BY <1>1, <1>5, <2>2, <3>1, <3>2, <3>3, <3>4, InsideSteps DEF M!Return
  <2> QED BY <2>1, <2>2
<1>6. CASE M!Fail(p) \/ M!Crash(p) \/ M!RefuseDirty(p) \/ M!Done(p)
  <2>1. \E r \in M!Result \cup {"idle"} : M!Return(p, r) /\ UNCHANGED M!database
    BY <1>6 DEF M!Fail, M!Crash, M!RefuseDirty, M!Done, M!Result
  <2> QED BY <1>5, <2>1
<1>7. ASSUME NEW a \in {"version", "next", "run", "clean", "more"},
             at' = [at EXCEPT ![p] = a],
             M!TypeOK', dir' = dir, lock \in {p, NoOne}, lock' = p,
             \A q \in Migrators : q # p => current'[q] = current[q],
             Progress(p)'
      PROVE  MigrInv'
  <2>1. Inside(p)' /\ dir' \in [Migrators -> {"up", "down"}]
    BY <1>1, <1>7 DEF Inside, M!TypeOK, Migrators
  <2> QED BY <1>7, <2>1, InsideSteps
<1>8. CASE M!Lock(p)
  <2>1. M!TypeOK' /\ at'[p] = "version"
    BY <1>1, <1>8 DEF M!TypeOK, M!Lock, M!database, Migrators
  <2>2. Progress(p)'
    BY <1>1, <1>8, <2>1 DEF M!Lock, M!database, Progress, M!SchemaMatchesVersion, M!SchemaAt
  <2> QED BY <1>7, <1>8, <2>1, <2>2 DEF M!Lock
<1>9. CASE M!ReadVersion(p)
  <2>1. M!TypeOK' /\ at'[p] = "next" /\ current'[p] = version
    BY <1>1, <1>9 DEF M!TypeOK, M!ReadVersion, M!database, Migrators
  <2>2. Progress(p)'
    BY <1>1, <1>9, <2>1 DEF M!ReadVersion, M!database, Progress,
      M!SchemaMatchesVersion, M!SchemaAt
  <2>3. \A q \in Migrators : q # p => current'[q] = current[q]
    BY <1>1, <1>9 DEF M!ReadVersion, M!TypeOK, Migrators
  <2>4. lock = p
    BY <1>1, <1>9 DEF M!ReadVersion, Inside
  <2> QED BY <1>7, <1>9, <2>1, <2>2, <2>3, <2>4 DEF M!ReadVersion
<1>10. CASE M!Mark(p)
  <2>1. lock = p /\ schema = M!SchemaAt(current[p])
    BY <1>1, <1>10 DEF M!Mark, Inside, Progress
  <2>2. M!Target(p) \in 0..5
    BY <1>1, <1>10, <2>1, ScriptsLead DEF M!Mark
  <2>3. M!TypeOK' /\ at'[p] = "run"
    BY <1>1, <1>10, <2>2 DEF M!TypeOK, M!Mark, Migrators
  <2>4. Progress(p)'
    BY <1>10, <2>1, <2>3 DEF M!Mark, Progress, M!HasNext, M!Target, M!SchemaAt
  <2> QED BY <1>7, <1>10, <2>1, <2>3, <2>4 DEF M!Mark
<1>11. CASE M!Run(p)
  <2>1. lock = p /\ Progress(p)
    BY <1>1, <1>11 DEF M!Run, Inside
  <2>2. M!After(M!ScriptOf(p)) = M!SchemaAt(version)
    BY <1>1, <1>11, <2>1, ScriptsLead DEF M!Run, Progress
  <2>3. M!SchemaAt(version) \subseteq M!Object
    BY ObjectsAre DEF M!SchemaAt
  <2>4. M!TypeOK' /\ at'[p] = "clean"
    BY <1>1, <1>11, <2>2, <2>3 DEF M!TypeOK, M!Run, Migrators
  <2>5. Progress(p)'
    BY <1>11, <2>1, <2>2, <2>4 DEF M!Run, Progress, M!HasNext, M!Target, M!SchemaAt
  <2> QED BY <1>7, <1>11, <2>1, <2>4, <2>5 DEF M!Run
<1>12. CASE M!Clean(p)
  <2>1. lock = p /\ Progress(p)
    BY <1>1, <1>12 DEF M!Clean, Inside
  <2>2. version' = version /\ M!Target(p) \in 0..5
    BY <1>1, <1>12, <2>1 DEF M!Clean, Progress, M!TypeOK
  <2>3. M!TypeOK' /\ at'[p] = "more" /\ current'[p] = version
    BY <1>1, <1>12, <2>1, <2>2 DEF M!TypeOK, M!Clean, Migrators, Progress
  <2>4. Progress(p)'
    BY <1>12, <2>1, <2>2, <2>3 DEF M!Clean, Progress, M!SchemaAt
  <2>5. \A q \in Migrators : q # p => current'[q] = current[q]
    BY <1>1, <1>12 DEF M!Clean, M!TypeOK, Migrators
  <2> QED BY <1>7, <1>12, <2>1, <2>3, <2>4, <2>5 DEF M!Clean
<1> QED
  BY <1>2, <1>3, <1>4, <1>6, <1>8, <1>9, <1>10, <1>11, <1>12 DEF Migrates, M!Step

(* Who migrates does not move the others.                                  *)
LEMMA OthersStay ==
  ASSUME MigrInv, NEW p \in Migrators, Migrates(p), p # Service
  PROVE  at'[Service] = at[Service]
<1> QED
  BY DEF MigrInv, M!TypeOK, Migrators, Migrates, M!Step, M!Call, M!Lock, M!ReadVersion,
    M!RefuseDirty, M!Return, M!Mark, M!Run, M!Clean, M!Done, M!Fail, M!Close, M!Crash

(* At the last version there is no script to run any more but one down.    *)
LEMMA FullStays ==
  ASSUME MigrInv, Full, NEW p \in Migrators, Migrates(p), ~(dir[p] = "down" /\ M!Mark(p))
  PROVE  Full'
<1> USE FiveScripts
<1>1. (Inside(p) => Progress(p)) /\ dir[p] \in {"up", "down"}
  BY DEF MigrInv, M!TypeOK, Migrators
<1>2. ~M!Mark(p)
  BY <1>1 DEF M!Mark, Inside, Progress, M!HasNext, Full
<1>3. ~M!Clean(p)
  BY <1>1 DEF M!Clean, Inside, Progress, Full
<1>4. version' = version /\ dirty' = dirty
  BY <1>2, <1>3 DEF Migrates, M!Step, M!Call, M!Lock, M!ReadVersion, M!RefuseDirty, M!Run,
    M!Done, M!Fail, M!Close, M!Crash, M!database
<1> QED BY <1>4 DEF Full

(* A call of Up that returns without an error has led there.               *)
LEMMA UpLeadsToFull ==
  ASSUME MigrInv, NEW p \in Migrators, dir[p] = "up", Migrates(p),
         at[p] \notin {"ok", "noChange"}, at'[p] \in {"ok", "noChange"}
  PROVE  Full'
<1> USE FiveScripts
<1>1. M!Done(p)
  BY DEF Migrates, MigrInv, M!TypeOK, Migrators, M!Step, M!Call, M!Lock, M!ReadVersion,
    M!RefuseDirty, M!Return, M!Mark, M!Run, M!Clean, M!Fail, M!Close, M!Crash
<1>2. Progress(p) /\ current[p] \in 0..5
  BY <1>1 DEF MigrInv, M!Done, Inside, M!TypeOK, Migrators
<1>3. ~dirty /\ version = 5
  BY <1>1, <1>2 DEF M!Done, M!HasNext, Progress
<1>4. dirty' = dirty /\ version' = version
  BY <1>1 DEF M!Done, M!database
<1> QED BY <1>3, <1>4 DEF Full

-----------------------------------------------------------------------------
(* Hooks.                                                                  *)

LEMMA HookPlaces ==
  ASSUME started \in 0..6
  PROVE  /\ Len(Hooks) = 6
         /\ NextIs("ping") => started = 0
         /\ NextIs("verify") => started = 1
         /\ NextIs("migrate") => started = 2
         /\ NextIs("worker") => started = 3
         /\ NextIs("routes") => started = 4
         /\ NextIs("server") => started = 5
         /\ Top("ping") => started = 1
         /\ Top("verify") => started = 2
         /\ Top("migrate") => started = 3
         /\ Top("worker") => started = 4
         /\ Top("routes") => started = 5
         /\ Top("server") => started = 6
<1>1. Len(Hooks) = 6 /\ started \in 0..6
  BY DEF Hooks
<1>2. started = 0 \/ started = 1 \/ started = 2 \/ started = 3 \/ started = 4
        \/ started = 5 \/ started = 6
  BY <1>1
<1> QED BY <1>1, <1>2 DEF Hooks, NextIs, Top

LEMMA Frames ==
  /\ UNCHANGED stage => (Served' <=> Served)
  /\ UNCHANGED <<version, dirty>> => (Full' <=> Full)
  /\ UNCHANGED holder => C!Idle' = C!Idle
<1>1. UNCHANGED stage => (Served' <=> Served)
  BY DEF Served
<1>2. UNCHANGED <<version, dirty>> => (Full' <=> Full)
  BY DEF Full, M!Last, M!UpScripts, M!Script
<1>3. UNCHANGED holder => C!Idle' = C!Idle
  BY DEF C!Idle
<1> QED BY <1>1, <1>2, <1>3

(* The start, the stop and the end of the process.                         *)
LEMMA AppSteps ==
  ASSUME IInv, Start \/ ServeFails \/ Signal \/ Stop \/ Crash
  PROVE  HooksInv'
<1>1. HooksInv /\ started \in 0..6
  BY DEF IInv, HooksInv
<1>2. /\ Service \in Migrators /\ dir[Service] = "up"
      /\ dir \in [Migrators -> {"up", "down"}]
      /\ \A a : [at EXCEPT ![Service] = a][Service] = a
  BY DEF IInv, MigrInv, M!TypeOK, Migrators
<1>3. CASE Boot
  <2>1. /\ phase = "down" /\ phase' = "starting" /\ started' = 0 /\ pool' = "open"
        /\ UNCHANGED <<port, holder, stage, worker, version, dirty, at, dir>>
    BY <1>3 DEF Boot, migrs
  <2> QED BY <1>1, <2>1, Frames DEF HooksInv
<1>4. CASE StartPlain
  <2>1. /\ phase = "starting" /\ started \in {0, 1, 4} /\ started' = started + 1
        /\ UNCHANGED <<phase, port, pool, holder, stage, worker, version, dirty, at, dir>>
    BY <1>1, <1>4, HookPlaces DEF StartPlain, StartHook, NextIs, conns, migrs, HooksInv
  <2> QED BY <1>1, <2>1, Frames DEF HooksInv
<1>5. CASE CallUp
  <2>1. /\ phase = "starting"
        /\ UNCHANGED <<phase, started, port, pool, holder, stage, worker, version, dirty>>
    BY <1>1, <1>5 DEF CallUp, NextIs, M!Call, M!database, app, conns
  <2>2. at'[Service] = "lock"
    BY <1>2, <1>5 DEF CallUp, M!Call
  <2> QED BY <1>1, <2>1, <2>2, Frames DEF HooksInv
<1>6. CASE Migrated
  <2>1. /\ phase = "starting" /\ started = 2 /\ started' = 3
        /\ at[Service] \in {"ok", "noChange"}
        /\ UNCHANGED <<phase, port, pool, holder, stage, worker, version, dirty, dir>>
    BY <1>1, <1>6, HookPlaces DEF Migrated, StartHook, NextIs, M!Close, M!database, conns,
      HooksInv
  <2> QED BY <1>1, <2>1, Frames DEF HooksInv
<1>7. CASE StartWorker
  <2>1. /\ phase = "starting" /\ started = 3 /\ started' = 4
        /\ UNCHANGED <<phase, port, pool, holder, stage, version, dirty, at, dir>>
    BY <1>1, <1>7, HookPlaces DEF StartWorker, StartHook, NextIs, migrs, HooksInv
  <2> QED BY <1>1, <2>1, Frames DEF HooksInv
<1>8. CASE StartServer
  <2>1. /\ phase = "starting" /\ started = 5 /\ started' = 6 /\ port' = TRUE
        /\ UNCHANGED <<phase, pool, holder, stage, worker, version, dirty, at, dir>>
    BY <1>1, <1>8, HookPlaces DEF StartServer, StartHook, NextIs, conns, migrs, HooksInv
  <2> QED BY <1>1, <2>1, Frames DEF HooksInv
<1>9. CASE Started \/ StartFails \/ Signal
  <2>1. /\ phase \in {"starting", "running"} /\ phase' \in {"running", "stopping"}
        /\ UNCHANGED <<started, port, pool, holder, stage, worker, version, dirty, at, dir>>
    BY <1>9 DEF Started, StartFails, Signal, NextIs, conns, migrs
  <2> QED BY <1>1, <2>1, Frames DEF HooksInv
<1>10. CASE ServeFails \/ ClosePort
  <2>1. /\ port' = FALSE
        /\ UNCHANGED <<phase, started, pool, holder, stage, worker, version, dirty, at, dir>>
    BY <1>10 DEF ServeFails, ClosePort, conns, migrs
  <2> QED BY <1>1, <2>1, Frames DEF HooksInv
<1>11. CASE StopServer
  <2>1. /\ phase = "stopping" /\ started = 6 /\ started' = 5 /\ port = FALSE /\ ~Served
        /\ UNCHANGED <<phase, port, pool, holder, stage, worker, version, dirty, at, dir>>
    BY <1>1, <1>11, HookPlaces DEF StopServer, StopHook, conns, migrs, Served, HooksInv
  <2> QED BY <1>1, <2>1, Frames DEF HooksInv
<1>12. CASE StopWorker \/ StopPlain
  <2>1. /\ phase = "stopping" /\ started \in {2, 3, 4, 5} /\ started' = started - 1
        /\ UNCHANGED <<phase, port, pool, holder, stage, worker, version, dirty, at, dir>>
    BY <1>1, <1>12, HookPlaces DEF StopWorker, StopPlain, StopHook, conns, migrs, HooksInv
  <2> QED BY <1>1, <2>1, Frames DEF HooksInv
<1>13. CASE ClosePool \/ StopPool
  <2>1. /\ phase = "stopping" /\ started = 1 /\ started' \in {0, 1}
        /\ pool' = "closing" \/ C!Idle = Conn
        /\ UNCHANGED <<phase, port, holder, stage, worker, version, dirty, at, dir>>
    BY <1>1, <1>13, HookPlaces DEF ClosePool, StopPool, StopHook, C!Close, C!Closed,
      C!requests, app, migrs, HooksInv
  <2> QED BY <1>1, <2>1, Frames DEF HooksInv
<1>14. CASE Stopped \/ Crash
  <2>1. Exit
    BY <1>14 DEF Stopped, Crash
  <2>2. at'[Service] = "idle"
    BY <1>2, <2>1 DEF Exit, M!Crash, M!Return
  <2>3. /\ phase' = "down" /\ started' = 0 /\ port' = FALSE /\ worker' = "off"
        /\ ~Served' /\ C!Idle' = Conn
    BY <2>1 DEF Exit, C!Gone, Served, C!Idle
  <2>4. started' \in 0..6
    BY <2>3
  <2>5. port' \in BOOLEAN
    BY <2>3
  <2> QED BY <2>2, <2>3, <2>4, <2>5, Zenon DEF HooksInv
<1> QED
  BY <1>3, <1>4, <1>5, <1>6, <1>7, <1>8, <1>9, <1>10, <1>11, <1>12, <1>13, <1>14
  DEF Start, Stop

(* Requests, the worker and those who migrate.                             *)
LEMMA UserSteps ==
  ASSUME IInv, \/ \E r \in Request : RequestStep(r)
               \/ WorkerStep
               \/ ServiceMigrates
               \/ \E p \in Tool : ToolCalls(p) \/ ToolStep(p)
  PROVE  HooksInv'
<1>1. HooksInv /\ ConnInv /\ MigrInv
  BY DEF IInv
<1>2. /\ NoOne \notin C!User /\ Service \in Migrators /\ Service \notin Tool
      /\ holder \in [Conn -> C!User \cup {NoOne}]
      /\ \A p \in Tool : p \in Migrators
  BY <1>1, HolderAssumption, ProcessAssumption DEF C!User, Migrators, ConnInv, C!TypeOK
(* A pool that is closed gives no connection out.                          *)
<1>3. ASSUME pool = "closed", C!Idle = Conn, NEW u \in C!User,
             C!Acquire(u) \/ C!Release(u) \/ C!ReleaseOne(u) \/ UNCHANGED holder
      PROVE  C!Idle' = Conn
  <2>1. \A c \in Conn : holder[c] = NoOne
    BY <1>3 DEF C!Idle
  <2>2. \A c \in Conn : holder'[c] = NoOne
    BY <1>2, <1>3, <2>1 DEF C!Acquire, C!Release, C!ReleaseOne, C!HeldBy
  <2> QED BY <2>2 DEF C!Idle
<1>4. ASSUME NEW r \in Request, RequestStep(r)
      PROVE  HooksInv'
  <2>1. UNCHANGED <<phase, started, port, pool, worker, version, dirty, at, dir>>
    BY <1>4 DEF RequestStep, app, migrs, C!Arrive, C!RequestStep, C!Ask, C!Get, C!Query,
      C!FailRequest, C!Reply
  <2>2. port \/ Served
    BY <1>1, <1>4 DEF RequestStep, C!RequestStep, C!Ask, C!Get, C!Query,
      C!FailRequest, C!Reply, Served
  <2>3. pool = "closed" => C!Idle' = Conn
    <3>1. C!Acquire(r) \/ C!Release(r) \/ UNCHANGED holder
      BY <1>4 DEF RequestStep, C!Arrive, C!RequestStep, C!Ask, C!Get, C!Query,
        C!FailRequest, C!Reply
    <3> QED BY <1>1, <1>3, <3>1 DEF C!User, HooksInv
  <2> QED BY <1>1, <2>1, <2>2, <2>3, Frames DEF HooksInv
<1>5. CASE WorkerStep
  <2>1. UNCHANGED <<phase, started, port, pool, stage, version, dirty, at, dir>>
    BY <1>5 DEF WorkerStep, app, migrs, C!WorkerStep, C!Tick, C!Decide, C!WorkerGet,
      C!WorkerQuery, C!Commit, C!FailWorker, C!Leave, C!requests
  <2>2. worker # "off"
    BY <1>5 DEF WorkerStep, C!WorkerStep, C!Tick, C!Decide, C!WorkerGet,
      C!WorkerQuery, C!Commit, C!FailWorker, C!Leave, C!Moves, C!Awaits
  <2>3. pool = "closed" => C!Idle' = Conn
    <3>1. C!Acquire(Worker) \/ C!Release(Worker) \/ C!ReleaseOne(Worker) \/ UNCHANGED holder
      BY <1>5 DEF WorkerStep, C!WorkerStep, C!Tick, C!Decide, C!WorkerGet,
        C!WorkerQuery, C!Commit, C!FailWorker, C!Leave
    <3> QED BY <1>1, <1>3, <3>1 DEF C!User, HooksInv
  <2> QED BY <1>1, <2>1, <2>2, <2>3, Frames DEF HooksInv
<1>6. ASSUME NEW p \in Migrators, Migrates(p), UNCHANGED <<app, conns>>,
             p = Service => phase # "down"
      PROVE  HooksInv'
  <2>1. UNCHANGED <<phase, started, port, pool, holder, stage, worker>>
    BY <1>6 DEF app, conns
  <2>2. p # Service => at'[Service] = at[Service]
    BY <1>2, <1>1, <1>6, OthersStay
  <2> QED BY <1>1, <1>6, <2>1, <2>2, Frames DEF HooksInv
<1>7. CASE ServiceMigrates
  <2>1. phase # "down"
    BY <1>1, <1>7 DEF ServiceMigrates, HooksInv, M!Step, M!Lock, M!ReadVersion,
      M!RefuseDirty, M!Mark, M!Run, M!Clean, M!Done, M!Fail
  <2>2. Migrates(Service) /\ UNCHANGED <<app, conns>>
    BY <1>7 DEF ServiceMigrates, Migrates
  <2> QED BY <1>2, <1>6, <2>1, <2>2
<1>8. ASSUME NEW p \in Tool, ToolCalls(p) \/ ToolStep(p)
      PROVE  HooksInv'
  <2>1. p \in Migrators /\ p # Service /\ UNCHANGED <<app, conns>>
    BY <1>2, <1>8 DEF ToolCalls, ToolStep
  <2>2. Migrates(p)
    BY <1>8, <2>1 DEF ToolCalls, ToolStep, Migrates
  <2> QED BY <1>6, <2>1, <2>2
<1> QED BY <1>4, <1>5, <1>7, <1>8

-----------------------------------------------------------------------------
(* What the hooks do to the connections and to the migrations.             *)

LEMMA SameConns ==
  ASSUME ConnInv, UNCHANGED conns PROVE ConnInv'
<1> QED BY DEF ConnInv, conns, C!TypeOK, C!ConnsAreCounted, C!HeldBy

LEMMA SameMigrs ==
  ASSUME MigrInv, UNCHANGED migrs PROVE MigrInv'
<1>1. UNCHANGED <<schema, version, dirty, lock, at, dir, current>>
  BY DEF migrs
<1>2. M!TypeOK' /\ M!SchemaMatchesVersion' = M!SchemaMatchesVersion
  BY <1>1 DEF MigrInv, M!TypeOK, M!SchemaMatchesVersion, M!SchemaAt
<1>3. \A p \in Migrators : (Inside(p)' <=> Inside(p)) /\ (Progress(p) => Progress(p)')
  BY <1>1, <1>2 DEF Inside, Progress, M!HasNext, M!Target, M!SchemaAt
<1> QED BY <1>1, <1>2, <1>3 DEF MigrInv

LEMMA AppConns ==
  ASSUME IInv, Start \/ ServeFails \/ Signal \/ Stop \/ Crash
  PROVE  ConnInv'
<1>1. ConnInv /\ HooksInv /\ started \in 0..6
  BY DEF IInv, HooksInv
<1>2. ASSUME UNCHANGED <<holder, stage, left, worker>>,
             pool' \in {"open", "closing", "closed"}, cancelled' \in BOOLEAN
      PROVE  ConnInv'
  BY <1>1, <1>2 DEF ConnInv, C!TypeOK, C!ConnsAreCounted, C!HeldBy
<1>3. pool \in {"open", "closing", "closed"} /\ cancelled \in BOOLEAN
  BY <1>1 DEF ConnInv, C!TypeOK
<1>4. CASE StartWorker
  <2>1. worker = "off" /\ worker' = "pause"
        /\ UNCHANGED <<pool, holder, stage, left, cancelled>>
    BY <1>1, <1>4, HookPlaces DEF StartWorker, NextIs, HooksInv
  <2> QED BY <1>1, <2>1 DEF ConnInv, C!TypeOK, C!ConnsAreCounted, C!HeldBy
<1>5. CASE Exit
  <2>1. C!TypeOK'
    <3>1. pool' = "closed" /\ worker' = "off" /\ cancelled' = FALSE
      BY <1>5 DEF Exit, C!Gone
    <3>2. holder' \in [Conn -> C!User \cup {NoOne}]
      BY <1>5 DEF Exit, C!Gone
    <3>3. stage' \in [Request -> {"none", "handler", "waiting", "query"}]
      BY <1>5 DEF Exit, C!Gone
    <3>4. left' \in [Request -> 0..MaxQueries]
      BY <1>5, QueriesAssumption DEF Exit, C!Gone
    <3> QED BY <3>1, <3>2, <3>3, <3>4 DEF C!TypeOK
  <2>2. \A u \in C!User : C!HeldBy(u)' = {}
    BY <1>5, HolderAssumption DEF Exit, C!Gone, C!HeldBy, C!User
  <2>3. worker' = "off" /\ \A r \in Request : stage'[r] = "none"
    BY <1>5 DEF Exit, C!Gone
  <2> QED BY <2>1, <2>2, <2>3 DEF ConnInv, C!ConnsAreCounted, C!User
<1>6. CASE Boot \/ StartPlain \/ CallUp \/ Migrated \/ StartServer \/ Started \/ StartFails
  BY <1>2, <1>3, <1>6 DEF Boot, StartPlain, CallUp, Migrated, StartServer, Started,
    StartFails, conns
<1>7. CASE ServeFails \/ Signal \/ ClosePort \/ StopServer \/ StopWorker \/ StopPlain
  BY <1>2, <1>3, <1>7 DEF ServeFails, Signal, ClosePort, StopServer, StopWorker, StopPlain,
    conns
<1>8. CASE ClosePool \/ StopPool
  BY <1>2, <1>3, <1>8 DEF ClosePool, StopPool, C!Close, C!Closed, C!requests
<1> QED
  BY <1>4, <1>5, <1>6, <1>7, <1>8 DEF Start, Stop, Stopped, Crash

LEMMA AppMigrs ==
  ASSUME MigrInv, Start \/ ServeFails \/ Signal \/ Stop \/ Crash
  PROVE  MigrInv'
<1>1. Service \in Migrators
  BY DEF Migrators
<1>2. CASE UNCHANGED migrs
  BY <1>2, SameMigrs
<1>3. CASE CallUp \/ Migrated \/ Exit
  <2>1. Migrates(Service)
    BY <1>3 DEF CallUp, Migrated, Exit, Migrates
  <2> QED BY <1>1, <2>1, MigrationsKeep
<1>4. UNCHANGED migrs \/ CallUp \/ Migrated \/ Exit
  BY DEF Start, Stop, Boot, StartPlain, StartWorker, StartServer, Started, StartFails,
    ServeFails, Signal, ClosePort, StopServer, StopWorker, StopPlain, ClosePool, StopPool,
    Stopped, Crash
<1> QED BY <1>2, <1>3, <1>4

-----------------------------------------------------------------------------
(* The invariant.                                                          *)

LEMMA InitIInv == Init => IInv
<1> SUFFICES ASSUME Init PROVE IInv
  OBVIOUS
<1> USE FiveScripts DEF Init, C!Init, M!Init
<1>1. ConnInv
  <2>1. C!TypeOK
    <3>1. pool = "closed" /\ worker = "off" /\ cancelled = FALSE
      OBVIOUS
    <3>2. holder \in [Conn -> C!User \cup {NoOne}]
      OBVIOUS
    <3>3. stage \in [Request -> {"none", "handler", "waiting", "query"}]
      OBVIOUS
    <3>4. left \in [Request -> 0..MaxQueries]
      BY QueriesAssumption
    <3> QED BY <3>1, <3>2, <3>3, <3>4 DEF C!TypeOK
  <2>2. \A u \in C!User : C!HeldBy(u) = {}
    BY HolderAssumption DEF C!HeldBy, C!User
  <2> QED BY <2>1, <2>2 DEF ConnInv, C!ConnsAreCounted, C!User
<1>2. MigrInv
  <2>1. M!TypeOK
    <3>1. schema \subseteq M!Object /\ version \in 0..M!Last /\ lock \in Migrators \cup {NoOne}
      OBVIOUS
    <3>2. dirty = FALSE
      OBVIOUS
    <3>3. at \in [Migrators -> M!Result \cup
                  {"idle", "lock", "version", "next", "run", "clean", "more"}]
      BY DEF Migrators
    <3>4. dir \in [Migrators -> {"up", "down"}] /\ current \in [Migrators -> 0..M!Last]
      BY DEF Migrators
    <3> QED BY <3>1, <3>2, <3>3, <3>4 DEF M!TypeOK, Migrators
  <2>2. \A p \in Migrators : ~Inside(p) /\ lock # p
    BY ProcessAssumption DEF Inside, Migrators
  <2>3. M!SchemaMatchesVersion
    BY DEF M!SchemaMatchesVersion, M!SchemaAt
  <2> QED BY <2>1, <2>2, <2>3 DEF MigrInv
<1>3. HooksInv
  <2>1. C!Idle = Conn /\ ~Served
    BY DEF C!Idle, Served
  <2>2. at[Service] = "idle" /\ \A p \in Migrators : dir[p] = "up"
    BY DEF Migrators
  <2>3. ~(started >= 3 \/ worker # "off" \/ at[Service] \in {"ok", "noChange"})
    BY <2>2
  <2>4. started \in 0..6
    OBVIOUS
  <2> QED BY <2>1, <2>2, <2>3, <2>4, Zenon DEF HooksInv
<1> QED BY <1>1, <1>2, <1>3 DEF IInv

LEMMA NextIInv == IInv /\ [Next]_vars => IInv'
<1> SUFFICES ASSUME IInv, [Next]_vars PROVE IInv'
  OBVIOUS
<1>1. ConnInv /\ MigrInv /\ HooksInv
  BY DEF IInv
<1>2. CASE Start \/ ServeFails \/ Signal \/ Stop \/ Crash
  BY <1>1, <1>2, AppSteps, AppConns, AppMigrs DEF IInv
<1>3. ASSUME NEW r \in Request, RequestStep(r)
      PROVE  IInv'
  <2>1. ConnInv'
    BY <1>1, <1>3, RequestConns DEF RequestStep
  <2>2. MigrInv'
    BY <1>1, <1>3, SameMigrs DEF RequestStep
  <2> QED BY <1>3, <2>1, <2>2, UserSteps DEF IInv
<1>4. CASE WorkerStep
  <2>1. ConnInv'
    BY <1>1, <1>4, WorkerConns DEF WorkerStep
  <2>2. MigrInv'
    BY <1>1, <1>4, SameMigrs DEF WorkerStep
  <2> QED BY <1>4, <2>1, <2>2, UserSteps DEF IInv
<1>5. CASE ServiceMigrates
  <2>1. Service \in Migrators /\ Migrates(Service) /\ UNCHANGED conns
    BY <1>5 DEF ServiceMigrates, Migrates, Migrators
  <2> QED BY <1>1, <1>5, <2>1, MigrationsKeep, SameConns, UserSteps DEF IInv
<1>6. ASSUME NEW p \in Tool, ToolCalls(p) \/ ToolStep(p)
      PROVE  IInv'
  <2>1. p \in Migrators /\ Migrates(p) /\ UNCHANGED conns
    BY <1>6, ProcessAssumption DEF ToolCalls, ToolStep, Migrates, Migrators
  <2> QED BY <1>1, <1>6, <2>1, MigrationsKeep, SameConns, UserSteps DEF IInv
<1>7. CASE UNCHANGED vars
  <2>1. UNCHANGED <<phase, started, port, pool, holder, stage, worker, version, dirty, at, dir>>
        /\ UNCHANGED conns /\ UNCHANGED migrs
    BY <1>7 DEF vars, conns, migrs
  <2>2. HooksInv'
    BY <1>1, <2>1, Frames DEF HooksInv
  <2> QED BY <1>1, <2>1, <2>2, SameConns, SameMigrs DEF IInv
<1> QED BY <1>2, <1>3, <1>4, <1>5, <1>6, <1>7 DEF Next

THEOREM Invariance == Spec => []IInv
<1> QED BY InitIInv, NextIInv, PTL DEF Spec

-----------------------------------------------------------------------------
(* The properties.                                                         *)

(* Every variable has its type.                                            *)
THEOREM TypeCorrect == Spec => []TypeOK
<1>1. IInv => TypeOK
  BY HookPlaces DEF IInv, ConnInv, MigrInv, HooksInv, TypeOK
<1> QED BY <1>1, Invariance, PTL

(* The version in schema_migrations tells what the schema is, whoever      *)
(* migrates and wherever they fail or die (psql.go:112-141).               *)
THEOREM VersionsAreTrue == Spec => []SchemaMatchesVersion
<1>1. IInv => SchemaMatchesVersion
  BY VersionNeverLies DEF IInv, SchemaMatchesVersion
<1> QED BY <1>1, Invariance, PTL

(* Every script of migrations/ fits the schema it is run on.               *)
THEOREM ScriptsAlwaysApply == Spec => []ScriptsApply
<1>1. IInv => ScriptsApply
  BY VersionNeverLies DEF IInv, ScriptsApply
<1> QED BY <1>1, Invariance, PTL

(* What the statements need is there at the last version and no other.     *)
LEMMA ReadyIsFull == IInv => (Ready <=> Full)
<1> SUFFICES ASSUME IInv PROVE Ready <=> Full
  OBVIOUS
<1>1. M!SchemaMatchesVersion /\ version \in 0..5 /\ dirty \in BOOLEAN
  BY VersionNeverLies, FiveScripts DEF IInv, MigrInv, M!TypeOK
<1>2. ASSUME Full PROVE Ready
  BY <1>1, <1>2, FiveScripts DEF Full, Ready, Needed, M!SchemaMatchesVersion, M!SchemaAt
<1>3. ASSUME Ready PROVE Full
  <2>1. "order_number" \in M!SchemaAt(version) /\ ~dirty
    BY <1>1, <1>3 DEF Ready, Needed, M!SchemaMatchesVersion
  <2> QED BY <1>1, <2>1, FiveScripts DEF Full, M!SchemaAt
<1> QED BY <1>2, <1>3

(* A use begins with the end of the service's own call of Up.              *)
LEMMA UseBegins ==
  ASSUME IInv, Next, ~InUse, InUse'
  PROVE  ServiceMigrates /\ at'[Service] \in {"ok", "noChange"}
<1>1. /\ HooksInv /\ MigrInv /\ started \in 0..2 /\ port = FALSE /\ worker = "off"
      /\ ~Served /\ at[Service] \notin {"ok", "noChange"} /\ Service \in Migrators
      /\ \A a : [at EXCEPT ![Service] = a][Service] = a
  BY DEF IInv, HooksInv, InUse, MigrInv, M!TypeOK, Migrators
<1>2. ASSUME started' \in 0..2, UNCHANGED <<worker, stage>>, port' = FALSE,
             at'[Service] = at[Service] \/ at'[Service] \in {"lock", "idle"}
      PROVE  FALSE
  BY <1>1, <1>2 DEF InUse, Served
<1>3. ~Boot /\ ~CallUp /\ ~StartPlain
  <2>1. CASE Boot
    <3>1. started' \in 0..2
      BY <2>1 DEF Boot
    <3>2. UNCHANGED <<worker, stage, port, at>>
      BY <2>1 DEF Boot, migrs
    <3> QED BY <1>1, <1>2, <3>1, <3>2, Zenon
  <2>2. CASE CallUp
    BY <1>1, <1>2, <2>2 DEF CallUp, M!Call, app, conns
  <2>3. CASE StartPlain
    <3>1. started \in {0, 1} /\ started' = started + 1
      BY <1>1, <2>3, HookPlaces DEF StartPlain, StartHook
    <3>2. started' \in 0..2
      BY <3>1
    <3>3. UNCHANGED <<worker, stage, port, at>>
      BY <2>3 DEF StartPlain, conns, migrs
    <3> QED BY <1>1, <1>2, <3>2, <3>3, Zenon
  <2> QED BY <2>1, <2>2, <2>3
<1>4. ~Migrated /\ ~StartWorker /\ ~StartServer /\ ~Started
  BY <1>1, HookPlaces DEF Migrated, StartWorker, StartServer, Started
<1>5. ~StartFails /\ ~ServeFails /\ ~Signal /\ ~ClosePort /\ ~ClosePool
  BY <1>1, <1>2 DEF StartFails, ServeFails, Signal, ClosePort, ClosePool, C!Close,
    C!requests, app, conns, migrs
<1>6. ~StopServer /\ ~StopWorker /\ ~StopPlain /\ ~StopPool
  <2> SUFFICES ASSUME StopServer \/ StopWorker \/ StopPlain \/ StopPool PROVE FALSE
    OBVIOUS
  <2>1. started \in {1, 2} /\ started' = started - 1
    BY <1>1, HookPlaces DEF StopServer, StopWorker, StopPlain, StopPool, StopHook
  <2>2. UNCHANGED <<worker, stage, port, at>>
    BY DEF StopServer, StopWorker, StopPlain, StopPool, StopHook, C!Closed, C!requests,
      conns, migrs
  <2>3. started' \in 0..2
    BY <2>1
  <2> QED BY <1>1, <1>2, <2>2, <2>3, Zenon
<1>7. ~Stopped /\ ~Crash
  <2> SUFFICES ASSUME Exit PROVE FALSE
    BY DEF Stopped, Crash
  <2>1. at'[Service] = "idle"
    BY <1>1 DEF Exit, M!Crash, M!Return
  <2>2. started' = 0 /\ port' = FALSE /\ worker' = "off" /\ ~Served'
    BY DEF Exit, C!Gone, Served
  <2> QED BY <2>1, <2>2 DEF InUse
<1>8. ~WorkerStep /\ \A r \in Request : ~RequestStep(r)
  BY <1>1 DEF WorkerStep, C!WorkerStep, C!Tick, C!Decide, C!WorkerGet, C!WorkerQuery,
    C!Commit, C!FailWorker, C!Leave, C!Moves, C!Awaits, Served, RequestStep,
    C!RequestStep, C!Ask, C!Get, C!Query, C!FailRequest, C!Reply
<1>9. ASSUME NEW p \in Tool, ToolCalls(p) \/ ToolStep(p) PROVE FALSE
  <2>1. p \in Migrators /\ p # Service /\ Migrates(p) /\ UNCHANGED <<app, conns>>
    BY <1>9, ProcessAssumption DEF ToolCalls, ToolStep, Migrates, Migrators
  <2>2. at'[Service] = at[Service]
    BY <1>1, <2>1, OthersStay
  <2> QED BY <1>1, <1>2, <2>1, <2>2 DEF app, conns
<1>10. ServiceMigrates
  BY <1>3, <1>4, <1>5, <1>6, <1>7, <1>8, <1>9 DEF Next, Start, Stop
<1> QED BY <1>1, <1>10 DEF ServiceMigrates, app, conns, InUse, Served

LEMMA UseIsOfFull ==
  ASSUME IInv, [Next]_vars, InUse', ~Full'
  PROVE  InUse /\ (~Full \/ GoesDown)
<1>1. MigrInv /\ Service \in Migrators /\ dir[Service] = "up"
  BY DEF IInv, MigrInv, Migrators
<1>2. InUse
  <2> SUFFICES ASSUME ~InUse PROVE FALSE
    OBVIOUS
  <2>1. Next
    BY DEF InUse, Served, vars
  <2>2. ServiceMigrates /\ at'[Service] \in {"ok", "noChange"}
    BY <2>1, UseBegins
  <2>3. Migrates(Service) /\ at[Service] \notin {"ok", "noChange"}
    BY <2>2 DEF ServiceMigrates, Migrates, InUse
  <2> QED BY <1>1, <2>2, <2>3, UpLeadsToFull
<1>3. ASSUME Full, ~GoesDown PROVE FALSE
  <2>1. ASSUME NEW p \in Migrators, Migrates(p) PROVE FALSE
    <3>1. ~(dir[p] = "down" /\ M!Mark(p))
      BY <1>1, <1>3 DEF GoesDown, Migrators
    <3> QED BY <1>1, <1>3, <2>1, <3>1, FullStays
  <2>2. UNCHANGED migrs \/ \E p \in Migrators : Migrates(p)
    <3>1. CASE CallUp \/ Migrated \/ Stopped \/ Crash \/ ServiceMigrates
      BY <1>1, <3>1 DEF CallUp, Migrated, Stopped, Crash, Exit, ServiceMigrates, Migrates
    <3>2. CASE \E p \in Tool : ToolCalls(p) \/ ToolStep(p)
      BY <3>2, ProcessAssumption DEF ToolCalls, ToolStep, Migrates, Migrators
    <3>3. CASE (\E r \in Request : RequestStep(r)) \/ WorkerStep \/ UNCHANGED vars
      BY <3>3 DEF RequestStep, WorkerStep, migrs, vars
    <3>4. CASE \/ Boot \/ StartPlain \/ StartWorker \/ StartServer \/ Started \/ StartFails
               \/ ServeFails \/ Signal
      BY <3>4 DEF Boot, StartPlain, StartWorker, StartServer, Started, StartFails,
        ServeFails, Signal
    <3>5. CASE \/ ClosePort \/ StopServer \/ StopWorker \/ StopPlain \/ ClosePool \/ StopPool
      BY <3>5 DEF ClosePort, StopServer, StopWorker, StopPlain, ClosePool, StopPool
    <3> QED BY <3>1, <3>2, <3>3, <3>4, <3>5 DEF Next, Start, Stop
  <2> QED BY <1>3, <2>1, <2>2, Frames DEF migrs
<1> QED BY <1>2, <1>3

(* The use of the database by the service, up to its last request and the  *)
(* worker's last statement, begins when it is ready (psql.go:122-141), and *)
(* only a script down of a tool makes it unready while it lasts.           *)
THEOREM ReadyWhenServed == Spec => ServedIsReady
<1>1. IInv /\ [Next]_vars => (InUse' /\ ~Full' => InUse /\ (~Full \/ GoesDown))
  BY UseIsOfFull
<1>2. IInv /\ IInv' /\ [Next]_vars =>
        [InUse' /\ ~Ready' => InUse /\ (~Ready \/ GoesDown)]_vars
  <2>1. IInv' => (Ready' <=> Full')
    BY ReadyIsFull, PTL
  <2> QED BY <1>1, <2>1, ReadyIsFull
<1> QED BY <1>2, Invariance, PTL DEF Spec, ServedIsReady

(* The pool closes after the last request and with the worker's last       *)
(* connection, though OnStop does not wait for the worker.                 *)
THEOREM PoolClosesLast == Spec => []ClosedPoolIsIdle
<1>1. ASSUME IInv, pool # "open" PROVE ~Served
  BY <1>1 DEF IInv, HooksInv
<1>2. IInv => (pool = "closed" => C!Idle = Conn)
  BY DEF IInv, HooksInv
<1>3. IInv => ClosedPoolIsIdle
  BY <1>1, <1>2 DEF ClosedPoolIsIdle, Served
<1> QED BY <1>3, Invariance, PTL

(* No connection leaks, on any path that fails.                            *)
THEOREM NoLeaks == Spec => []ConnsAreCounted
<1>1. IInv => ConnsAreCounted
  BY DEF IInv, ConnInv, ConnsAreCounted
<1> QED BY <1>1, Invariance, PTL

(* With two connections or more the pool never locks up: who waits holds   *)
(* none, or is the worker, which then holds just one.                      *)
THEOREM NoDeadlock == Spec => []NoCircularWait
<1>1. ASSUME IInv, C!Idle = {} PROVE \E c \in Conn : ~C!Waits(holder[c])
  <2> SUFFICES ASSUME \A c \in Conn : C!Waits(holder[c]) PROVE FALSE
    OBVIOUS
  <2>1. C!TypeOK /\ C!ConnsAreCounted
    BY <1>1 DEF IInv, ConnInv
  <2>2. ASSUME NEW c \in Conn PROVE holder[c] = Worker
    <3>1. holder[c] \in C!User
      BY <1>1, <2>1 DEF C!TypeOK, C!Idle
    <3>2. holder[c] \notin Request
      <4> SUFFICES ASSUME holder[c] \in Request PROVE FALSE
        OBVIOUS
      <4>1. stage[holder[c]] = "waiting"
        BY HolderAssumption DEF C!Waits
      <4>2. C!HeldBy(holder[c]) = {}
        BY <2>1, <4>1 DEF C!ConnsAreCounted
      <4> QED BY <4>2 DEF C!HeldBy
    <3> QED BY <3>1, <3>2 DEF C!User
  <2>3. PICK c, d \in Conn : c # d
    BY ConnAssumption
  <2>4. c \in C!HeldBy(Worker) /\ d \in C!HeldBy(Worker)
    BY <2>2 DEF C!HeldBy
  <2>5. worker # "user"
    BY <2>2, <2>3 DEF C!Waits, C!Awaits
  <2>6. \/ \E e \in Conn : C!HeldBy(Worker) = {e}
        \/ C!HeldBy(Worker) = {}
    BY <2>1, <2>5 DEF C!ConnsAreCounted
  <2> QED BY <2>3, <2>4, <2>6
<1>2. IInv => NoCircularWait
  BY <1>1 DEF NoCircularWait, C!NoCircularWait
<1> QED BY <1>2, Invariance, PTL
=============================================================================
